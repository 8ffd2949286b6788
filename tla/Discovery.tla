----------------------------- MODULE Discovery -----------------------------
(***************************************************************************)
(* The discovery URL rules of crates/protocol/src/lib.rs, which the module *)
(* and the resolver share.                                                 *)
(*                                                                         *)
(* A URL is [fault, host, path, query, fragment]: fault is why it is       *)
(* refused, "none" if it is not, path the sequence of its segments,        *)
(* <<"">> for "/", query and fragment whether it has one.                  *)
(***************************************************************************)
EXTENDS Integers, SequencesExt

(* Escapes of unreserved characters are decoded, so an escaped dot counts  *)
(* as a dot; the segments here are the ones a model tells apart.           *)
NormalizePercentEncoding(segment) ==
    CASE segment = "%2e" -> "."
      [] segment = "%2e%2e" -> ".."
      [] segment = "%61" -> "a"
      [] OTHER -> segment

(* A dot segment at the end leaves the path ending in a slash. *)
RemoveDotSegments(path) ==
    LET Step(out, segment) ==
            CASE segment = "." -> out
              [] segment = ".." -> IF out = <<>> THEN out ELSE Front(out)
              [] OTHER -> Append(out, segment)
        kept == FoldLeft(Step, <<>>, path)
    IN  IF Last(path) \in {".", ".."} THEN Append(kept, "") ELSE kept

NormalizePath(path) ==
    RemoveDotSegments([i \in DOMAIN path |-> NormalizePercentEncoding(path[i])])

(* External, url::Url::parse: dot segments go, escaped ones too, and every *)
(* other escape stays as it is.                                            *)
ParsedPath(path) ==
    RemoveDotSegments([i \in DOMAIN path |->
        IF path[i] \in {"%2e", "%2e%2e"} THEN NormalizePercentEncoding(path[i]) ELSE path[i]])

WellKnown == <<".well-known", "http-message-signatures-directory">>

(* A directory must be an origin, whose path becomes the well-known one;   *)
(* the identifier is the URL without query and fragment and with its path  *)
(* normalised.                                                             *)
ParseDiscoveryTarget(url, discovery) ==
    IF url.fault = "too_long" THEN [error |-> "profile_field_too_large"]
    ELSE IF url.fault # "none" THEN [error |-> "invalid_discovery_url"]
    ELSE IF discovery = "directory"
    THEN IF ParsedPath(url.path) # <<"">> \/ url.query \/ url.fragment
         THEN [error |-> "invalid_discovery_url"]
         ELSE [error |-> "none", identifier |-> [host |-> url.host, path |-> WellKnown]]
    ELSE [error |-> "none",
          identifier |-> [host |-> url.host, path |-> NormalizePath(ParsedPath(url.path))]]

(* The URL that is fetched keeps its other escapes and its query, but no   *)
(* fragment.                                                               *)
FetchUrl(url, discovery) ==
    [host |-> url.host, query |-> url.query,
     path |-> IF discovery = "directory" THEN WellKnown ELSE ParsedPath(url.path)]

(* is_directory_url: by its path, whatever mechanism led to the URL. *)
IsDirectoryUrl(url) == url.path = WellKnown /\ ~url.query
============================================================================
