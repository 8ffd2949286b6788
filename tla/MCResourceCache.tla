-------------------------- MODULE MCResourceCache --------------------------
(* Small instances of ResourceCache for TLC. *)
EXTENDS ResourceCache, TLC

(* The headers that the cache treats differently: fresh for a while and    *)
(* then good for a stale answer at once, with must-revalidate, no header   *)
(* at all, and no-store.                                                   *)
Brief == [maxAge |-> 1, staleIfError |-> 0,
          mustRevalidate |-> FALSE, storable |-> TRUE]
StaleOnError == [maxAge |-> 0, staleIfError |-> 1,
                 mustRevalidate |-> FALSE, storable |-> TRUE]
Revalidate == [maxAge |-> 1, staleIfError |-> 1,
               mustRevalidate |-> TRUE, storable |-> TRUE]
NoStore == [maxAge |-> Absent, staleIfError |-> Absent,
            mustRevalidate |-> FALSE, storable |-> FALSE]

FewControls == {Brief, NoStore}
OneControl == {StaleOnError}
AllControls == {StaleOnError, Revalidate, NoHeader, NoStore}

(* The loads are interchangeable. *)
LoadSymmetry == Permutations(Loads)
============================================================================
