-------------------------- MODULE ResolverProcess --------------------------
(***************************************************************************)
(* The resolver as a process: crates/resolver/src/bin/main.rs (serve) and  *)
(* bin/listener/mod.rs.  Processes are started with a configuration, are   *)
(* killed or told to stop, and are started again; what they leave behind   *)
(* is the socket at the one path they all listen on.  Other programs may   *)
(* put a file there, and an operator may take a socket away.               *)
(*                                                                         *)
(* A configuration is [limits, ports, egress, env, listen]: limits has the *)
(* fields of Limits, ports is the set of --allowed-port, env gives the six *)
(* proxy variables their values, listen is [scheme, valid, absolute,       *)
(* length].                                                                *)
(***************************************************************************)
EXTENDS Integers, FiniteSets

CONSTANTS
    Processes,
    Clients,  \* Envoy's connections and probes
    Configs,  \* the configurations processes are started with
    Overlap,  \* whether a process may be started while another one runs
    Nobody

ASSUME ProcessAssumption ==
    /\ Overlap \in BOOLEAN
    /\ Nobody \notin Processes

VARIABLES
    pc,       \* how far each process is
    kind,     \* its transport
    exit,     \* how it ended last
    path,     \* what is at the path of the socket
    port,     \* the process that listens on the TCP address
    conn,     \* where each client's connection is
    tampered  \* history: a socket was taken away while the process ran

vars == <<pc, kind, exit, path, port, conn, tampered>>

---------------------------------------------------------------------------
(* The checks of serve, before it touches anything. *)

(* The largest value of every limit; the smallest is 1. *)
MaxLimit ==
    [inbound_body_bytes |-> 65536, active_handlers |-> 4096, outbound_fetches |-> 1024,
     global_fetch_rate |-> 1000000, global_fetch_burst |-> 1000000,
     origin_fetch_rate |-> 1000000, origin_fetch_burst |-> 1000000,
     ip_fetch_rate |-> 1000000, ip_fetch_burst |-> 1000000,
     new_origins_per_minute |-> 100000, state_entries |-> 100000,
     max_keys |-> 1024, resolution_timeout |-> 1800]

(* Limits::validate *)
ValidLimits(limits) ==
    /\ \A field \in DOMAIN MaxLimit : limits[field] \in 1..MaxLimit[field]
    /\ limits.global_fetch_burst >= limits.global_fetch_rate
    /\ limits.origin_fetch_burst >= limits.origin_fetch_rate
    /\ limits.ip_fetch_burst >= limits.ip_fetch_rate
    /\ limits.new_origins_per_minute <= limits.state_entries

(* DestinationPolicy::new; serve always adds 443. *)
ValidPorts(ports) == 0 \notin ports /\ Cardinality(ports \cup {443}) <= 64

(* The proxy variables that are set, be it to nothing. *)
ProxyEnvironment(env) == {v \in DOMAIN env : env[v] # "unset"}

(* production_fetcher: no proxy variable at all, or HTTPS_PROXY alone with *)
(* an equal lower-case twin at most.                                       *)
EgressError(egress, env) ==
    LET set == ProxyEnvironment(env)
    IN  IF egress = "direct"
        THEN IF set # {} THEN "direct_mode_proxy_conflict" ELSE "none"
        ELSE IF ~(set \subseteq {"HTTPS_PROXY", "https_proxy"})
        THEN "proxy_mode_variable_conflict"
        ELSE IF env["HTTPS_PROXY"] \in {"unset", "empty", "not_unicode"}
        THEN "proxy_mode_requires_https_proxy"
        ELSE IF env["https_proxy"] \notin {"unset", env["HTTPS_PROXY"]}
        THEN "proxy_mode_variable_conflict"
        ELSE IF env["HTTPS_PROXY"] = "not_a_url" THEN "invalid HTTPS_PROXY" ELSE "none"

(* Mutant: what is not a TCP address is taken for a path. *)
ListenAny(listen) ==
    IF listen.scheme = "tcp" /\ ~listen.valid THEN "invalid_tcp_listen" ELSE "none"

(* ListenAddress::parse *)
ListenError(listen) ==
    IF listen.scheme = "tcp"
    THEN IF listen.valid THEN "none" ELSE "invalid_tcp_listen"
    ELSE IF listen.scheme = "unix"
    THEN IF listen.absolute /\ listen.length <= 100 THEN "none" ELSE "invalid_unix_listen"
    ELSE "invalid_listen_scheme"

(* The first error that serve meets. *)
ConfigError(cfg) ==
    IF ~ValidLimits(cfg.limits) THEN "invalid_limits"
    ELSE IF ~ValidPorts(cfg.ports) THEN "invalid_ports"
    ELSE IF EgressError(cfg.egress, cfg.env) # "none" THEN EgressError(cfg.egress, cfg.env)
    ELSE ListenError(cfg.listen)

---------------------------------------------------------------------------
(* The path, and how processes end. *)

Nothing == [type |-> "none", maker |-> Nobody, mode |-> "none", live |-> FALSE]
File == [type |-> "file", maker |-> Nobody, mode |-> "umask", live |-> FALSE]

(* The socket that a process has just bound. *)
Socket(p) == [type |-> "socket", maker |-> p, mode |-> "umask", live |-> TRUE]

NoConn == [state |-> "none", to |-> Nobody]

(* The path once p no longer listens: the socket stays, and refuses. *)
Abandoned(p) == IF path.maker = p THEN [path EXCEPT !.live = FALSE] ELSE path

Released(p) == IF port = p THEN Nobody ELSE port

(* The connections to p that are in one of these states break off. *)
Broken(p, states) ==
    [c \in Clients |-> IF conn[c].to = p /\ conn[c].state \in states
                       THEN [conn[c] EXCEPT !.state = "failed"] ELSE conn[c]]

Goto(p, next) == pc' = [pc EXCEPT ![p] = next]

(* The process is gone, and with it its listener and its connections. *)
Gone(p, reason) ==
    /\ Goto(p, "down")
    /\ exit' = [exit EXCEPT ![p] = reason]
    /\ port' = Released(p)
    /\ conn' = Broken(p, {"queued", "accepted"})
    /\ UNCHANGED <<kind, tampered>>

(* serve returns, or the process is killed: a socket it made stays. *)
Exits(p, reason) == Gone(p, reason) /\ path' = Abandoned(p)

Init ==
    /\ pc = [p \in Processes |-> "down"]
    /\ kind = [p \in Processes |-> "none"]
    /\ exit = [p \in Processes |-> "none"]
    /\ path \in {Nothing, File}
    /\ port = Nobody
    /\ conn = [c \in Clients |-> NoConn]
    /\ tampered = [p \in Processes |-> FALSE]

(* serve up to serve_app; nothing of it can be seen from outside.  Without *)
(* Overlap the supervisor waits for the predecessor's exit.                *)
Start(p, cfg) ==
    /\ pc[p] = "down"
    /\ Overlap \/ \A q \in Processes : pc[q] = "down"
    /\ IF ConfigError(cfg) # "none"
       THEN /\ exit' = [exit EXCEPT ![p] = ConfigError(cfg)]
            /\ UNCHANGED <<pc, kind, tampered>>
       ELSE /\ Goto(p, IF cfg.listen.scheme = "tcp" THEN "bind_tcp" ELSE "inspect")
            /\ kind' = [kind EXCEPT ![p] = cfg.listen.scheme]
            /\ exit' = [exit EXCEPT ![p] = "none"]
            /\ tampered' = [tampered EXCEPT ![p] = FALSE]
    /\ UNCHANGED <<path, port, conn>>

BindTcp(p) ==
    /\ pc[p] = "bind_tcp"
    /\ IF port # Nobody THEN Exits(p, "listen_bind_failed")
       ELSE /\ Goto(p, "serving")
            /\ port' = p
            /\ UNCHANGED <<kind, exit, path, conn, tampered>>

(* Mutant: a socket is left for bind to replace. *)
InspectLeaves(p) ==
    /\ pc[p] = "inspect"
    /\ IF path.type = "file" THEN Exits(p, "socket_path_not_socket")
       ELSE /\ Goto(p, "bind")
            /\ UNCHANGED <<kind, exit, path, port, conn, tampered>>

(* prepare_socket_path looks at the path, without following a link, ... *)
Inspect(p) ==
    /\ pc[p] = "inspect"
    /\ IF path.type = "file" THEN Exits(p, "socket_path_not_socket")
       ELSE /\ Goto(p, IF path.type = "socket" THEN "unlink" ELSE "bind")
            /\ UNCHANGED <<kind, exit, path, port, conn, tampered>>

(* ... and removes what is there by then. *)
Unlink(p) ==
    /\ pc[p] = "unlink"
    /\ IF path.type = "none" THEN Exits(p, "stale_socket_cleanup_failed")
       ELSE /\ Goto(p, "bind")
            /\ path' = Nothing
            /\ UNCHANGED <<kind, exit, port, conn, tampered>>

(* Mutant: a taken path is waited for. *)
BindWaits(p) ==
    /\ pc[p] = "bind"
    /\ path.type = "none"
    /\ Goto(p, "chmod")
    /\ path' = Socket(p)
    /\ UNCHANGED <<kind, exit, port, conn, tampered>>

Bind(p) ==
    /\ pc[p] = "bind"
    /\ IF path.type # "none" THEN Exits(p, "listen_bind_failed")
       ELSE /\ Goto(p, "chmod")
            /\ path' = Socket(p)
            /\ UNCHANGED <<kind, exit, port, conn, tampered>>

(* Mutant: the permissions are left to the umask. *)
ChmodSkipped(p) ==
    /\ pc[p] = "chmod"
    /\ Goto(p, "serving")
    /\ UNCHANGED <<kind, exit, path, port, conn, tampered>>

(* set_permissions works on the path, not on the socket; after an error    *)
(* the socket stays behind.                                                *)
Chmod(p) ==
    /\ pc[p] = "chmod"
    /\ IF path.type = "none" THEN Exits(p, "socket_permissions_failed")
       ELSE /\ Goto(p, "serving")
            /\ path' = [path EXCEPT !.mode = "0660"]
            /\ UNCHANGED <<kind, exit, port, conn, tampered>>

(* SIGTERM or ctrl-c: axum stops listening and waits for what it accepted. *)
Terminate(p) ==
    /\ pc[p] = "serving"
    /\ Goto(p, "draining")
    /\ path' = Abandoned(p)
    /\ port' = Released(p)
    /\ conn' = Broken(p, {"queued"})
    /\ UNCHANGED <<kind, exit, tampered>>

(* Mutant: the server stops without waiting for its connections. *)
DrainedAtOnce(p) ==
    /\ pc[p] = "draining"
    /\ IF kind[p] = "tcp" THEN Exits(p, "ok")
       ELSE /\ Goto(p, "inspect_own")
            /\ conn' = Broken(p, {"accepted"})
            /\ UNCHANGED <<kind, exit, path, port, tampered>>

(* Mutant: a connection that a client keeps open counts, too. *)
DrainedWhenClosed(p) ==
    /\ pc[p] = "draining"
    /\ \A c \in Clients : conn[c].to # p
    /\ IF kind[p] = "tcp" THEN Exits(p, "ok")
       ELSE Goto(p, "inspect_own") /\ UNCHANGED <<kind, exit, path, port, conn, tampered>>

(* Mutant: the socket is left for the next start. *)
DrainedLeaves(p) ==
    /\ pc[p] = "draining"
    /\ \A c \in Clients : conn[c].to = p => conn[c].state # "accepted"
    /\ Exits(p, "ok")

(* The last accepted request was answered; a TCP listener is done. *)
Drained(p) ==
    /\ pc[p] = "draining"
    /\ \A c \in Clients : conn[c].to = p => conn[c].state # "accepted"
    /\ IF kind[p] = "tcp" THEN Exits(p, "ok")
       ELSE Goto(p, "inspect_own") /\ UNCHANGED <<kind, exit, path, port, conn, tampered>>

(* remove_own_socket: looks at the path, ... *)
InspectOwn(p) ==
    /\ pc[p] = "inspect_own"
    /\ IF path.type = "socket"
       THEN Goto(p, "unlink_own") /\ UNCHANGED <<kind, exit, path, port, conn, tampered>>
       ELSE Exits(p, IF path.type = "file" THEN "shutdown_problem" ELSE "ok")

(* ... and removes what is there by then. *)
UnlinkOwn(p) ==
    /\ pc[p] = "unlink_own"
    /\ IF path.type = "none" THEN Exits(p, "shutdown_problem")
       ELSE Gone(p, "ok") /\ path' = Nothing

(* External: the file system refuses an operation.  An error is fatal      *)
(* before the process serves and only a warning after that.                *)
FilesystemFails(p) ==
    \/ pc[p] \in {"inspect", "unlink", "bind", "chmod", "bind_tcp"} /\ Exits(p, "io_error")
    \/ pc[p] \in {"inspect_own", "unlink_own"} /\ Exits(p, "shutdown_problem")

(* External: SIGKILL, a crash, or a SIGTERM before shutdown_signal listens *)
(* for it.                                                                 *)
Kill(p) == pc[p] # "down" /\ Exits(p, "killed")

---------------------------------------------------------------------------
(* The clients: probe, and the callouts of Envoy. *)

Idle(c) == conn[c].state \notin {"queued", "accepted"}

(* The kernel queues a connection to a socket that is listening, whether   *)
(* or not its process accepts yet.                                         *)
ConnectTo(c, p) ==
    /\ Idle(c)
    /\ \/ path.live /\ path.maker = p
       \/ port = p
    /\ conn' = [conn EXCEPT ![c] = [state |-> "queued", to |-> p]]
    /\ UNCHANGED <<pc, kind, exit, path, port, tampered>>

(* Nothing listens there, or the mode of the socket does not let it in. *)
ConnectFails(c) ==
    /\ Idle(c)
    /\ ~(path.live /\ path.mode = "0660") \/ port = Nobody
    /\ conn' = [conn EXCEPT ![c] = [state |-> "failed", to |-> Nobody]]
    /\ UNCHANGED <<pc, kind, exit, path, port, tampered>>

Accept(c) ==
    /\ conn[c].state = "queued"
    /\ pc[conn[c].to] = "serving"
    /\ conn' = [conn EXCEPT ![c].state = "accepted"]
    /\ UNCHANGED <<pc, kind, exit, path, port, tampered>>

(* The request is answered; the connection may stay open. *)
Answer(c) ==
    /\ conn[c].state = "accepted"
    /\ conn' = [conn EXCEPT ![c].state = "answered"]
    /\ UNCHANGED <<pc, kind, exit, path, port, tampered>>

(* The client's own timeout, or it hangs up. *)
GiveUp(c) ==
    /\ ~Idle(c)
    /\ conn' = [conn EXCEPT ![c] = [state |-> "gave_up", to |-> Nobody]]
    /\ UNCHANGED <<pc, kind, exit, path, port, tampered>>

(* External: other programs at the path. *)
PlaceFile ==
    /\ path.type = "none"
    /\ path' = File
    /\ UNCHANGED <<pc, kind, exit, port, conn, tampered>>

RemoveFile ==
    /\ path.type = "file"
    /\ path' = Nothing
    /\ UNCHANGED <<pc, kind, exit, port, conn, tampered>>

(* External: an operator removes a socket. *)
Tamper ==
    /\ path.type = "socket"
    /\ path' = Nothing
    /\ tampered' = [p \in Processes |-> tampered[p] \/ pc[p] # "down"]
    /\ UNCHANGED <<pc, kind, exit, port, conn>>

(* What a process does by itself. *)
Step(p) ==
    \/ BindTcp(p)
    \/ Inspect(p)
    \/ Unlink(p)
    \/ Bind(p)
    \/ Chmod(p)
    \/ Drained(p)
    \/ InspectOwn(p)
    \/ UnlinkOwn(p)

ClientStep(c) ==
    \/ \E p \in Processes : ConnectTo(c, p)
    \/ ConnectFails(c)
    \/ Accept(c)
    \/ Answer(c)
    \/ GiveUp(c)

Next ==
    \/ \E p \in Processes : \E cfg \in Configs : Start(p, cfg)
    \/ \E p \in Processes : Step(p)
    \/ \E p \in Processes : Terminate(p) \/ FilesystemFails(p) \/ Kill(p)
    \/ \E c \in Clients : ClientStep(c)
    \/ PlaceFile \/ RemoveFile \/ Tamper

Spec == Init /\ [][Next]_vars

(* A process runs.  An accepted request ends: it is answered in time       *)
(* (ResolverService!ResolutionEnds), or its client's timeout closes it.    *)
(* Nobody needs to be started or stopped.                                  *)
FairSpec ==
    /\ Spec
    /\ \A p \in Processes : WF_vars(Step(p))
    /\ \A c \in Clients : WF_vars(Answer(c) \/ GiveUp(c))

---------------------------------------------------------------------------
(* Properties. *)

Reasons ==
    {"none", "ok", "killed", "io_error", "shutdown_problem", "invalid_limits", "invalid_ports",
     "direct_mode_proxy_conflict", "proxy_mode_variable_conflict",
     "proxy_mode_requires_https_proxy", "invalid HTTPS_PROXY", "invalid_tcp_listen",
     "invalid_unix_listen", "invalid_listen_scheme", "socket_path_not_socket",
     "stale_socket_cleanup_failed", "listen_bind_failed", "socket_permissions_failed"}
Starting == {"bind_tcp", "inspect", "unlink", "bind", "chmod"}
Stopping == {"draining", "inspect_own", "unlink_own"}

TypeOK ==
    /\ pc \in [Processes -> Starting \cup Stopping \cup {"down", "serving"}]
    /\ kind \in [Processes -> {"none", "tcp", "unix"}]
    /\ exit \in [Processes -> Reasons]
    /\ path \in [type : {"none", "file", "socket"}, maker : Processes \cup {Nobody},
                 mode : {"none", "umask", "0660"}, live : BOOLEAN]
    /\ port \in Processes \cup {Nobody}
    /\ conn \in [Clients -> [state : {"none", "queued", "accepted", "answered", "failed",
                                      "gave_up"},
                             to : Processes \cup {Nobody}]]
    /\ tampered \in [Processes -> BOOLEAN]

(* A process that serves a Unix socket is reached at the path, and the     *)
(* path has mode 0660 (architecture.md:136), whatever was there before and *)
(* whatever other programs did meanwhile, unless an operator took its      *)
(* socket away.                                                            *)
ServingIsReachable ==
    \A p \in Processes :
        pc[p] = "serving" /\ kind[p] = "unix" /\ ~tampered[p] =>
            path = [type |-> "socket", maker |-> p, mode |-> "0660", live |-> TRUE]

(* Whatever a killed or failed predecessor left never keeps a process from *)
(* binding: if the path is taken then by a file.                           *)
StaleSocketNeverBlocks ==
    [][\A p \in Processes :
          pc[p] = "bind" /\ pc'[p] = "down" /\ ~tampered[p] =>
              (exit'[p] = "listen_bind_failed" => path.type = "file")]_vars

(* After a graceful exit without a reported problem the process's socket   *)
(* is gone (architecture.md:137).                                          *)
ShutdownRemovesSocket ==
    \A p \in Processes :
        pc[p] = "down" /\ kind[p] = "unix" /\ exit[p] = "ok" /\ ~tampered[p] =>
            ~(path.type = "socket" /\ path.maker = p)

(* A request that was accepted breaks off only if the process is killed:   *)
(* SIGTERM lets it finish.                                                 *)
AcceptedAreAnswered ==
    [][\A c \in Clients :
          conn[c].state = "accepted" /\ conn'[c].state = "failed" =>
              exit'[conn[c].to] = "killed"]_vars

(* A start comes to an end: it serves, or it is refused (mod.rs:75-83).    *)
StartupSettles == \A p \in Processes : pc[p] \in Starting ~> pc[p] \notin Starting

(* A shutdown ends although clients keep idle connections open: nobody     *)
(* waits for ever in the drain (mod.rs:80-87).                             *)
ShutdownCompletes == \A p \in Processes : pc[p] \in Stopping ~> pc[p] = "down"

(* "Startup removes only a stale Unix socket and rejects regular files and *)
(* symlinks" (architecture.md:136): whatever is at the path by the time a  *)
(* start removes it, be it the socket of a process that serves or, since   *)
(* the path was inspected, a file of another program (mod.rs:91-93).       *)
OnlyStaleSocketRemoved ==
    [][\A p \in Processes :
          pc[p] = "unlink" /\ pc'[p] = "bind" => path.type = "socket" /\ ~path.live]_vars
============================================================================
