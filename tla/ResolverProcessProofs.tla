----------------------- MODULE ResolverProcessProofs -----------------------
(***************************************************************************)
(* Proofs about ResolverProcess, for any number of processes, clients and  *)
(* configurations, as long as a process is only started when the others    *)
(* are down.                                                               *)
(***************************************************************************)
EXTENDS ResolverProcess, TLAPS

USE ProcessAssumption

OneUp == \A p, q \in Processes : pc[p] # "down" /\ pc[q] # "down" => p = q

(* Where the parts of a listener are. *)
ListenerInv ==
    /\ path.type # "socket" => path.maker = Nobody
    /\ path.live => path.maker \in Processes /\ pc[path.maker] \in {"chmod", "serving"}
    /\ port # Nobody => pc[port] = "serving"

(* What a process may rely on at the path, unless an operator took a       *)
(* socket away.                                                            *)
PathOf(p) ==
    /\ pc[p] = "unlink" => path.type = "socket"
    /\ pc[p] = "bind" => path.type # "socket"
    /\ pc[p] = "chmod" => path = Socket(p)
    /\ pc[p] = "serving" /\ kind[p] = "unix" =>
           path = [type |-> "socket", maker |-> p, mode |-> "0660", live |-> TRUE]
    /\ pc[p] \in {"draining", "inspect_own", "unlink_own"} /\ kind[p] = "unix" =>
           path.type = "socket" /\ path.maker = p
    /\ pc[p] = "down" /\ kind[p] = "unix" /\ exit[p] = "ok" =>
           ~(path.type = "socket" /\ path.maker = p)

KindOf(p) ==
    /\ pc[p] \in {"inspect", "unlink", "bind", "chmod", "inspect_own", "unlink_own"} =>
           kind[p] = "unix"
    /\ pc[p] = "bind_tcp" => kind[p] = "tcp"
    /\ pc[p] # "down" => kind[p] # "none"

ConnOf(c) ==
    /\ conn[c].state = "queued" =>
           conn[c].to \in Processes /\ pc[conn[c].to] \in {"chmod", "serving"}
    /\ conn[c].state = "accepted" =>
           conn[c].to \in Processes /\ pc[conn[c].to] \in {"serving", "draining"}

IInv ==
    /\ TypeOK
    /\ OneUp
    /\ ListenerInv
    /\ \A p \in Processes : KindOf(p) /\ (~tampered[p] => PathOf(p))
    /\ \A c \in Clients : ConnOf(c)

Stages == Starting \cup Stopping \cup {"down", "serving"}

(* What can be at the path. *)
Nodes == [type : {"none", "file", "socket"}, maker : Processes \cup {Nobody},
          mode : {"none", "umask", "0660"}, live : BOOLEAN]

Conns == [state : {"none", "queued", "accepted", "answered", "failed", "gave_up"},
          to : Processes \cup {Nobody}]

LEMMA NodeTypes ==
    /\ Nothing \in Nodes /\ File \in Nodes
    /\ Nothing.type = "none" /\ File.type = "file"
    /\ Nothing.maker = Nobody /\ File.maker = Nobody
    /\ ~Nothing.live /\ ~File.live
    /\ \A p \in Processes : Socket(p) \in Nodes
  BY DEF Nodes, Nothing, File, Socket

LEMMA InitInv == Init => IInv
<1> SUFFICES ASSUME Init PROVE IInv
  OBVIOUS
<1>1. path \in Nodes /\ path.maker = Nobody /\ path.type # "socket" /\ ~path.live
  BY NodeTypes DEF Init
<1>2. TypeOK
  <2>1. pc \in [Processes -> Stages] /\ kind \in [Processes -> {"none", "tcp", "unix"}]
        /\ exit \in [Processes -> Reasons]
    BY DEF Init, Stages, Reasons
  <2>2. conn \in [Clients -> Conns] /\ port \in Processes \cup {Nobody}
    BY DEF Init, NoConn, Conns
  <2>3. tampered \in [Processes -> BOOLEAN]
    BY DEF Init
  <2> QED BY <1>1, <2>1, <2>2, <2>3 DEF TypeOK, Nodes, Conns, Stages
<1>3. \A p \in Processes : pc[p] = "down" /\ exit[p] # "ok"
  BY DEF Init
<1>4. \A c \in Clients : conn[c].state = "none"
  BY DEF Init, NoConn
<1> QED BY <1>1, <1>2, <1>3, <1>4
        DEF Init, IInv, OneUp, ListenerInv, PathOf, KindOf, ConnOf

(* The end of a process keeps the invariant, if a graceful end means that  *)
(* its socket is gone.                                                     *)
LEMMA GoneStep ==
    ASSUME IInv, NEW p \in Processes, NEW reason \in Reasons, pc[p] # "down",
           Gone(p, reason), path' \in {Nothing, Abandoned(p)},
           reason = "ok" /\ path' # Nothing =>
               kind[p] # "unix" \/ ~(path.type = "socket" /\ path.maker = p)
    PROVE  IInv'
<1>1. /\ pc' \in [Processes -> Stages] /\ pc'[p] = "down"
      /\ exit' \in [Processes -> Reasons] /\ exit'[p] = reason
      /\ \A q \in Processes \ {p} : pc'[q] = pc[q] /\ exit'[q] = exit[q] /\ pc[q] = "down"
      /\ kind' = kind /\ tampered' = tampered
  BY DEF IInv, TypeOK, OneUp, Gone, Goto, Stages, Starting, Stopping
<1>2. /\ path'.type \in {"none", path.type} /\ path'.maker \in {Nobody, path.maker}
      /\ path'.type # "none" => path'.type = path.type /\ path'.maker = path.maker
      /\ path'.type # "socket" => path'.maker = Nobody
      /\ path'.live => path.live /\ path.maker # p /\ path'.maker = path.maker
      /\ path' \in [type : {"none", "file", "socket"}, maker : Processes \cup {Nobody},
                    mode : {"none", "umask", "0660"}, live : BOOLEAN]
  <2>1. path \in Nodes /\ (path.type # "socket" => path.maker = Nobody)
    BY DEF IInv, TypeOK, ListenerInv, Nodes
  <2>2. CASE path' = Nothing
    BY <2>2, NodeTypes DEF Nodes
  <2>3. CASE path' = Abandoned(p)
    <3>1. CASE path.maker = p
      <4>1. path' = [path EXCEPT !.live = FALSE]
        BY <2>3, <3>1 DEF Abandoned
      <4>2. /\ path'.type = path.type /\ path'.maker = path.maker /\ path'.mode = path.mode
            /\ path'.live = FALSE /\ path' \in Nodes
        BY <2>1, <4>1 DEF Nodes
      <4> QED BY <2>1, <4>2 DEF Nodes
    <3>2. CASE path.maker # p
      BY <2>1, <2>3, <3>2 DEF Abandoned, Nodes
    <3> QED BY <3>1, <3>2
  <2> QED BY <2>2, <2>3
<1>3. /\ port' \in Processes \cup {Nobody}
      /\ port' # Nobody => port' = port /\ port # p
  BY DEF Gone, Released, IInv, TypeOK
<1>4. ASSUME NEW c \in Clients
      PROVE  /\ conn'[c].to = conn[c].to
             /\ conn'[c] = conn[c] \/ conn'[c].state = "failed"
             /\ conn'[c].state \in {"queued", "accepted"} => conn'[c] = conn[c] /\ conn[c].to # p
  BY DEF Gone, Broken, IInv, TypeOK
<1>5. conn' \in [Clients -> [state : {"none", "queued", "accepted", "answered", "failed",
                                      "gave_up"}, to : Processes \cup {Nobody}]]
  BY DEF Gone, Broken, IInv, TypeOK
<1>6. TypeOK'
  BY <1>1, <1>2, <1>3, <1>5 DEF IInv, TypeOK, Stages
<1>7. OneUp'
  BY <1>1 DEF OneUp
<1>8. ListenerInv'
  BY <1>1, <1>2, <1>3 DEF IInv, TypeOK, ListenerInv
<1>9. ASSUME NEW q \in Processes PROVE KindOf(q)' /\ (~tampered'[q] => PathOf(q)')
  <2>1. KindOf(q) /\ (~tampered[q] => PathOf(q))
    BY DEF IInv
  <2>2. CASE q = p
    <3>1. KindOf(q)'
      BY <1>1, <2>2 DEF KindOf
    <3>2. PathOf(q)'
      BY <1>1, <1>2, <2>2 DEF PathOf, Abandoned, Nothing
    <3> QED BY <3>1, <3>2
  <2>3. CASE q # p
    BY <1>1, <1>2, <2>1, <2>3 DEF KindOf, PathOf
  <2> QED BY <2>2, <2>3
<1>10. ASSUME NEW c \in Clients PROVE ConnOf(c)'
  BY <1>1, <1>4 DEF IInv, ConnOf
<1> QED BY <1>6, <1>7, <1>8, <1>9, <1>10 DEF IInv

LEMMA ExitStep ==
    ASSUME IInv, NEW p \in Processes, NEW reason \in Reasons, pc[p] # "down", Exits(p, reason),
           reason = "ok" => kind[p] # "unix" \/ ~(path.type = "socket" /\ path.maker = p)
    PROVE  IInv'
  BY GoneStep DEF Exits

(* A process that goes on keeps the invariant, if what it relies on next   *)
(* holds.                                                                  *)
LEMMA MoveStep ==
    ASSUME IInv, NEW p \in Processes, pc[p] # "down",
           NEW x \in Stages \ {"down"}, Goto(p, x), UNCHANGED <<kind, exit, tampered>>,
           path' \in Nodes, port' \in Processes \cup {Nobody}, conn' \in [Clients -> Conns],
           path'.type = "socket" => path'.maker \in {p, path.maker} /\
               (path'.maker # p => path.type = "socket"),
           ListenerInv', KindOf(p)', ~tampered[p] => PathOf(p)',
           \A c \in Clients : ConnOf(c)'
    PROVE  IInv'
<1>1. /\ pc' \in [Processes -> Stages] /\ pc'[p] = x
      /\ \A q \in Processes \ {p} : pc'[q] = pc[q] /\ pc[q] = "down"
  BY DEF IInv, TypeOK, OneUp, Goto, Stages
<1>2. TypeOK'
  BY <1>1 DEF IInv, TypeOK, Stages, Nodes, Conns
<1>3. OneUp'
  BY <1>1 DEF OneUp
<1>4. ASSUME NEW q \in Processes PROVE KindOf(q)' /\ (~tampered'[q] => PathOf(q)')
  <2>1. CASE q # p
    <3>1. KindOf(q) /\ (~tampered[q] => PathOf(q)) /\ pc'[q] = "down" /\ pc[q] = "down"
      BY <1>1, <2>1 DEF IInv
    <3>2. KindOf(q)'
      BY <3>1 DEF KindOf
    <3>3. path'.type = "socket" /\ path'.maker = q => path.type = "socket" /\ path.maker = q
      BY <2>1
    <3> QED BY <3>1, <3>2, <3>3 DEF PathOf
  <2> QED BY <2>1
<1> QED BY <1>2, <1>3, <1>4 DEF IInv

(* A step that only a client, or another program, takes. *)
LEMMA OutsideStep ==
    ASSUME IInv, UNCHANGED <<pc, kind, exit, port>>,
           path' \in Nodes, conn' \in [Clients -> Conns], tampered' \in [Processes -> BOOLEAN],
           path'.type # "socket" => path'.maker = Nobody,
           path'.live => path' = path,
           \A p \in Processes : ~tampered'[p] => ~tampered[p] /\ (PathOf(p) => PathOf(p)'),
           \A c \in Clients : ConnOf(c)'
    PROVE  IInv'
<1>1. TypeOK'
  BY DEF IInv, TypeOK, Nodes, Conns
<1>2. OneUp' /\ ListenerInv'
  BY DEF IInv, OneUp, ListenerInv
<1>3. \A p \in Processes : KindOf(p)' /\ (~tampered'[p] => PathOf(p)')
  BY DEF IInv, KindOf
<1> QED BY <1>1, <1>2, <1>3 DEF IInv

LEMMA ConfigErrorType ==
    ASSUME NEW cfg
    PROVE  ConfigError(cfg) \in Reasons /\ ConfigError(cfg) # "ok"
<1>1. EgressError(cfg.egress, cfg.env) \in Reasons \ {"ok"}
  BY DEF EgressError, Reasons
<1>2. ListenError(cfg.listen) \in Reasons \ {"ok"}
  BY DEF ListenError, Reasons
<1> QED BY <1>1, <1>2 DEF ConfigError, Reasons

LEMMA StartStep ==
    ASSUME IInv, ~Overlap, NEW p \in Processes, NEW cfg, Start(p, cfg)
    PROVE  IInv'
<1>1. pc[p] = "down" /\ (\A q \in Processes : pc[q] = "down") /\ UNCHANGED <<path, port, conn>>
  BY DEF Start
<1>2. CASE ConfigError(cfg) # "none"
  <2>1. exit' = [exit EXCEPT ![p] = ConfigError(cfg)] /\ UNCHANGED <<pc, kind, tampered>>
    BY <1>2 DEF Start
  <2>2. exit' \in [Processes -> Reasons] /\ exit'[p] # "ok"
        /\ \A q \in Processes \ {p} : exit'[q] = exit[q]
    BY <2>1, ConfigErrorType DEF IInv, TypeOK
  <2>3. TypeOK'
    BY <1>1, <2>1, <2>2 DEF IInv, TypeOK
  <2>4. \A q \in Processes : PathOf(q) => PathOf(q)'
    BY <1>1, <2>1, <2>2 DEF PathOf
  <2> QED BY <1>1, <2>1, <2>3, <2>4 DEF IInv, OneUp, ListenerInv, KindOf, ConnOf
<1>3. CASE ConfigError(cfg) = "none"
  <2> DEFINE scheme == cfg.listen.scheme
  <2>1. scheme \in {"tcp", "unix"}
    BY <1>3 DEF ConfigError, ListenError, EgressError
  <2>2. /\ pc' = [pc EXCEPT ![p] = IF scheme = "tcp" THEN "bind_tcp" ELSE "inspect"]
        /\ kind' = [kind EXCEPT ![p] = scheme]
        /\ exit' = [exit EXCEPT ![p] = "none"]
        /\ tampered' = [tampered EXCEPT ![p] = FALSE]
    BY <1>3 DEF Start, Goto
  <2> HIDE DEF scheme
  <2>3. /\ pc' \in [Processes -> Stages]
        /\ pc'[p] = IF scheme = "tcp" THEN "bind_tcp" ELSE "inspect"
        /\ kind' \in [Processes -> {"none", "tcp", "unix"}] /\ kind'[p] = scheme
        /\ exit' \in [Processes -> Reasons]
    BY <2>1, <2>2 DEF IInv, TypeOK, Stages, Starting, Reasons
  <2>4. tampered' \in [Processes -> BOOLEAN]
    BY <2>2 DEF IInv, TypeOK
  <2>5. \A q \in Processes \ {p} : /\ pc'[q] = "down" /\ kind'[q] = kind[q]
                                  /\ exit'[q] = exit[q] /\ tampered'[q] = tampered[q]
    BY <1>1, <2>2 DEF IInv, TypeOK
  <2>6. TypeOK'
    BY <1>1, <2>3, <2>4 DEF IInv, TypeOK, Stages
  <2>7. OneUp'
    BY <2>5 DEF OneUp
  <2>8. ~path.live /\ port = Nobody /\ \A c \in Clients : conn[c].state \notin {"queued", "accepted"}
    BY <1>1 DEF IInv, TypeOK, ListenerInv, ConnOf
  <2>9. ListenerInv' /\ \A c \in Clients : ConnOf(c)'
    BY <1>1, <2>8 DEF IInv, ListenerInv, ConnOf
  <2>10. KindOf(p)' /\ PathOf(p)'
    BY <2>1, <2>3 DEF KindOf, PathOf
  <2>11. \A q \in Processes \ {p} : KindOf(q)' /\ (~tampered'[q] => PathOf(q)')
    BY <1>1, <2>5 DEF IInv, KindOf, PathOf
  <2> QED BY <2>6, <2>7, <2>9, <2>10, <2>11 DEF IInv
<1> QED BY <1>2, <1>3

(* The parts of the invariant about one process that is up. *)
LEMMA Here ==
    ASSUME IInv, NEW p \in Processes
    PROVE  /\ path \in Nodes /\ port \in Processes \cup {Nobody} /\ conn \in [Clients -> Conns]
           /\ pc \in [Processes -> Stages] /\ kind[p] \in {"none", "tcp", "unix"}
           /\ ListenerInv /\ KindOf(p) /\ (~tampered[p] => PathOf(p))
           /\ pc[p] # "down" => \A q \in Processes \ {p} : pc[q] = "down"
           /\ \A c \in Clients : ConnOf(c)
  BY DEF IInv, TypeOK, OneUp, Nodes, Conns, Stages

(* As long as p is not serving nobody is connected to anybody, but for     *)
(* connections that wait until its socket has its permissions.             *)
LEMMA Quiet ==
    ASSUME IInv, NEW p \in Processes, pc[p] \in Stages \ {"down", "serving", "draining"}
    PROVE  /\ \A c \in Clients : conn[c].state # "accepted"
           /\ port = Nobody
           /\ pc[p] # "chmod" => ~path.live /\ \A c \in Clients : conn[c].state # "queued"
<1>1. \A q \in Processes \ {p} : pc[q] = "down"
  BY Here
<1>2. \A c \in Clients : conn[c].state # "accepted"
  BY <1>1, Here DEF ConnOf
<1>3. port = Nobody
  BY <1>1, Here DEF ListenerInv
<1>4. pc[p] # "chmod" => ~path.live /\ \A c \in Clients : conn[c].state # "queued"
  BY <1>1, Here DEF ListenerInv, ConnOf
<1> QED BY <1>2, <1>3, <1>4

(* A start up to the bound socket. *)
LEMMA PrepareStep ==
    ASSUME IInv, NEW p \in Processes, Inspect(p) \/ Unlink(p) \/ Bind(p)
    PROVE  IInv'
<1>1. pc[p] \in {"inspect", "unlink", "bind"} /\ kind[p] = "unix"
  BY Here DEF Inspect, Unlink, Bind, KindOf
<1>2. CASE \E reason \in Reasons \ {"ok"} : Exits(p, reason)
  BY <1>1, <1>2, ExitStep
<1>3. CASE ~\E reason \in Reasons \ {"ok"} : Exits(p, reason)
  <2> DEFINE x == pc'[p]
  <2>1. UNCHANGED <<kind, exit, port, conn, tampered>>
    BY <1>3 DEF Inspect, Unlink, Bind, Reasons
  <2>2. /\ x \in {"unlink", "bind", "chmod"} /\ Goto(p, x)
        /\ x = "unlink" => path' = path /\ path.type = "socket"
        /\ x = "bind" => \/ path' = path /\ path.type \notin {"socket", "file"}
                         \/ path' = Nothing
        /\ x = "chmod" => path' = Socket(p)
    BY <1>3, Here DEF Inspect, Unlink, Bind, Reasons, Goto
  <2>3. x \in Stages \ {"down"}
    BY <2>2 DEF Stages, Starting
  <2>4. \A q \in Processes \ {p} : pc[q] = "down" /\ pc'[q] = "down"
    BY <1>1, <2>2, Here DEF Goto
  <2>5. /\ path' \in Nodes
        /\ path'.type = "socket" => path'.maker \in {p, path.maker} /\
               (path'.maker # p => path.type = "socket")
        /\ path'.type # "socket" => path'.maker = Nobody
    BY <2>2, Here, NodeTypes DEF Socket, ListenerInv
  <2>6. ~path.live /\ port = Nobody
        /\ \A c \in Clients : conn[c].state \notin {"queued", "accepted"}
    BY <1>1, Quiet DEF Stages, Starting
  <2>7. path'.live => path'.maker = p /\ pc'[p] = "chmod"
    BY <2>2, <2>6, NodeTypes DEF Socket
  <2>8. ListenerInv'
    BY <2>1, <2>5, <2>6, <2>7 DEF ListenerInv
  <2>9. KindOf(p)'
    BY <1>1, <2>1, <2>2 DEF KindOf
  <2>10. PathOf(p)'
    <3>1. CASE x = "unlink"
      BY <2>2, <3>1 DEF PathOf
    <3>2. CASE x = "bind"
      BY <2>2, <3>2, NodeTypes DEF PathOf
    <3>3. CASE x = "chmod"
      BY <2>2, <3>3 DEF PathOf, Socket
    <3> QED BY <2>2, <3>1, <3>2, <3>3
  <2>11. \A c \in Clients : ConnOf(c)'
    BY <2>1, <2>6 DEF ConnOf
  <2> QED BY <1>1, <2>1, <2>2, <2>3, <2>5, <2>8, <2>9, <2>10, <2>11, Here, MoveStep
<1> QED BY <1>2, <1>3

LEMMA ListenStep ==
    ASSUME IInv, NEW p \in Processes, BindTcp(p) \/ Chmod(p)
    PROVE  IInv'
<1>1. pc[p] \in {"bind_tcp", "chmod"}
  BY DEF BindTcp, Chmod
<1>2. CASE \E reason \in Reasons \ {"ok"} : Exits(p, reason)
  BY <1>1, <1>2, ExitStep
<1>3. CASE ~\E reason \in Reasons \ {"ok"} : Exits(p, reason)
  <2>1. Goto(p, "serving") /\ UNCHANGED <<kind, exit, conn, tampered>>
    BY <1>3 DEF BindTcp, Chmod, Reasons
  <2>2. /\ pc[p] = "bind_tcp" => port' = p /\ path' = path /\ port = Nobody
        /\ pc[p] = "chmod" => port' = port /\ path' = [path EXCEPT !.mode = "0660"]
    BY <1>3 DEF BindTcp, Chmod, Reasons
  <2>3. pc'[p] = "serving" /\ \A q \in Processes \ {p} : pc[q] = "down" /\ pc'[q] = "down"
    BY <1>1, <2>1, Here DEF Goto
  <2>4. /\ path' \in Nodes /\ path'.type = path.type /\ path'.maker = path.maker
        /\ path'.live = path.live
    <3>1. CASE pc[p] = "bind_tcp"
      BY <2>2, <3>1, Here
    <3>2. CASE pc[p] = "chmod"
      BY <2>2, <3>2, Here DEF Nodes
    <3> QED BY <1>1, <3>1, <3>2
  <2>5. /\ \A c \in Clients : conn[c].state # "accepted"
        /\ port = Nobody
        /\ pc[p] # "chmod" => ~path.live /\ \A c \in Clients : conn[c].state # "queued"
    BY <1>1, Quiet DEF Stages, Starting
  <2>6. port' \in {Nobody, p}
    BY <1>1, <2>2, <2>5
  <2>7. path.live => path.maker = p
    BY <1>1, <2>3, Here DEF ListenerInv
  <2>8. ListenerInv'
    BY <2>3, <2>4, <2>6, <2>7, Here DEF ListenerInv
  <2>9. KindOf(p)'
    BY <1>1, <2>1, <2>3, Here DEF KindOf
  <2>10. ASSUME ~tampered[p] PROVE PathOf(p)'
    <3>1. CASE pc[p] = "bind_tcp"
      <4>1. kind'[p] = "tcp"
        BY <2>1, <3>1, Here DEF KindOf
      <4> QED BY <2>3, <4>1 DEF PathOf
    <3>2. CASE pc[p] = "chmod"
      <4>1. path = Socket(p)
        BY <2>10, <3>2, Here DEF PathOf
      <4>2. path' = [type |-> "socket", maker |-> p, mode |-> "0660", live |-> TRUE]
        BY <2>2, <3>2, <4>1 DEF Socket
      <4> QED BY <2>3, <4>2 DEF PathOf
    <3> QED BY <1>1, <3>1, <3>2
  <2>11. ASSUME NEW c \in Clients PROVE ConnOf(c)'
    <3>1. conn'[c].state # "accepted"
      BY <2>1, <2>5
    <3>2. conn'[c].state = "queued" => conn'[c].to = p
      BY <2>1, <2>3, Here DEF ConnOf
    <3> QED BY <2>3, <3>1, <3>2 DEF ConnOf
  <2>12. "serving" \in Stages \ {"down"}
    BY DEF Stages
  <2> QED BY <1>1, <2>1, <2>4, <2>6, <2>8, <2>9, <2>10, <2>11, <2>12, Here, MoveStep
<1> QED BY <1>2, <1>3

(* A shutdown. *)
LEMMA TerminateStep ==
    ASSUME IInv, NEW p \in Processes, Terminate(p)
    PROVE  IInv'
<1>1. /\ pc[p] = "serving" /\ Goto(p, "draining") /\ UNCHANGED <<kind, exit, tampered>>
      /\ path' = Abandoned(p) /\ port' = Released(p) /\ conn' = Broken(p, {"queued"})
  BY DEF Terminate
<1>2. pc'[p] = "draining" /\ \A q \in Processes \ {p} : pc[q] = "down" /\ pc'[q] = "down"
  BY <1>1, Here DEF Goto
<1>3. /\ path' \in Nodes /\ path'.type = path.type /\ path'.maker = path.maker
      /\ path'.live => path.live /\ path.maker # p
  <2>1. CASE path.maker = p
    BY <1>1, <2>1, Here DEF Abandoned, Nodes
  <2>2. CASE path.maker # p
    BY <1>1, <2>2, Here DEF Abandoned
  <2> QED BY <2>1, <2>2
<1>4. ~path'.live
  BY <1>2, <1>3, Here DEF ListenerInv
<1>5. port' = Nobody
  BY <1>1, <1>2, Here DEF ListenerInv, Released
<1>6. ListenerInv'
  BY <1>3, <1>4, <1>5, Here DEF ListenerInv
<1>7. KindOf(p)'
  BY <1>1, <1>2, Here DEF KindOf
<1>8. ASSUME ~tampered[p] PROVE PathOf(p)'
  <2>1. kind[p] = "unix" => path.type = "socket" /\ path.maker = p
    BY <1>1, <1>8, Here DEF PathOf
  <2> QED BY <1>1, <1>2, <1>3, <2>1 DEF PathOf
<1>9. conn' \in [Clients -> Conns]
  <2>1. \A c \in Clients : [conn[c] EXCEPT !.state = "failed"] \in Conns
    BY Here DEF Conns
  <2> QED BY <1>1, <2>1, Here DEF Broken
<1>10. ASSUME NEW c \in Clients PROVE ConnOf(c)'
  <2>1. conn[c] \in Conns /\ ConnOf(c)
    BY Here
  <2>2. /\ conn'[c].state = "accepted" => conn'[c] = conn[c]
        /\ conn'[c].state = "queued" => conn'[c] = conn[c] /\ conn[c].to # p
    BY <1>1, <2>1 DEF Broken, Conns
  <2> QED BY <1>2, <2>1, <2>2 DEF ConnOf
<1>11. "draining" \in Stages \ {"down"}
  BY DEF Stages, Stopping
<1> QED BY <1>1, <1>3, <1>5, <1>6, <1>7, <1>8, <1>9, <1>10, <1>11, Here, MoveStep

LEMMA CleanupStep ==
    ASSUME IInv, NEW p \in Processes, Drained(p) \/ InspectOwn(p) \/ UnlinkOwn(p)
    PROVE  IInv'
<1>0. pc[p] \in {"draining", "inspect_own", "unlink_own"}
  BY DEF Drained, InspectOwn, UnlinkOwn
<1>1. CASE \E reason \in Reasons :
              /\ Exits(p, reason)
              /\ reason = "ok" => kind[p] = "tcp" \/ path.type # "socket"
  <2>1. PICK reason \in Reasons :
           /\ Exits(p, reason)
           /\ reason = "ok" => kind[p] = "tcp" \/ path.type # "socket"
    BY <1>1
  <2>2. /\ pc[p] # "down"
        /\ reason = "ok" => kind[p] # "unix" \/ ~(path.type = "socket" /\ path.maker = p)
    BY <1>0, <2>1
  <2> QED BY <2>1, <2>2, ExitStep
<1>2. CASE Gone(p, "ok") /\ path' = Nothing
  <2>1. "ok" \in Reasons
    BY DEF Reasons
  <2> QED BY <1>0, <1>2, <2>1, GoneStep
<1>3. CASE /\ \/ pc[p] = "draining" /\ kind[p] # "tcp" /\ Goto(p, "inspect_own")
              \/ pc[p] = "inspect_own" /\ Goto(p, "unlink_own")
           /\ UNCHANGED <<kind, exit, path, port, conn, tampered>>
           /\ \A c \in Clients : conn[c].to = p => conn[c].state # "accepted"
  <2> DEFINE x == pc'[p]
  <2>1. kind[p] = "unix"
    BY <1>0, <1>3, Here DEF KindOf
  <2>2. x \in {"inspect_own", "unlink_own"} /\ Goto(p, x)
        /\ \A q \in Processes \ {p} : pc[q] = "down" /\ pc'[q] = "down"
    BY <1>0, <1>3, Here DEF Goto
  <2>3. port = Nobody /\ ~path.live
        /\ \A c \in Clients : conn[c].state \notin {"queued", "accepted"}
    BY <1>0, <1>3, <2>2, Here DEF ListenerInv, ConnOf
  <2>4. ListenerInv'
    BY <1>3, <2>3, Here DEF ListenerInv
  <2>5. KindOf(p)'
    BY <1>3, <2>1, <2>2 DEF KindOf
  <2>6. ~tampered[p] => PathOf(p)'
    BY <1>0, <1>3, <2>1, <2>2, Here DEF PathOf
  <2>7. \A c \in Clients : ConnOf(c)'
    BY <1>3, <2>3 DEF ConnOf
  <2>8. x \in Stages \ {"down"}
    BY <2>2 DEF Stages, Stopping
  <2> QED BY <1>0, <1>3, <2>2, <2>4, <2>5, <2>6, <2>7, <2>8, Here, MoveStep
<1>4. ASSUME Drained(p)
      PROVE  \/ kind[p] = "tcp" /\ Exits(p, "ok")
             \/ /\ kind[p] # "tcp" /\ Goto(p, "inspect_own") /\ pc[p] = "draining"
                /\ UNCHANGED <<kind, exit, path, port, conn, tampered>>
                /\ \A c \in Clients : conn[c].to = p => conn[c].state # "accepted"
  BY <1>4 DEF Drained
<1>5. ASSUME InspectOwn(p)
      PROVE  \/ path.type # "socket" /\ (Exits(p, "ok") \/ Exits(p, "shutdown_problem"))
             \/ /\ Goto(p, "unlink_own") /\ pc[p] = "inspect_own"
                /\ UNCHANGED <<kind, exit, path, port, conn, tampered>>
                /\ \A c \in Clients : conn[c].to = p => conn[c].state # "accepted"
  <2>1. \A c \in Clients : conn[c].state # "accepted"
    BY <1>5, Quiet DEF InspectOwn, Stages, Stopping
  <2> QED BY <1>5, <2>1 DEF InspectOwn
<1>6. ASSUME UnlinkOwn(p)
      PROVE  Exits(p, "shutdown_problem") \/ (Gone(p, "ok") /\ path' = Nothing)
  BY <1>6 DEF UnlinkOwn
<1>7. {"ok", "shutdown_problem"} \subseteq Reasons
  BY DEF Reasons
<1>8. CASE Drained(p)
  BY <1>1, <1>3, <1>4, <1>7, <1>8
<1>9. CASE InspectOwn(p)
  BY <1>1, <1>3, <1>5, <1>7, <1>9
<1>10. CASE UnlinkOwn(p)
  BY <1>1, <1>2, <1>6, <1>7, <1>10
<1> QED BY <1>8, <1>9, <1>10

(* The clients, and other programs at the path. *)
LEMMA ClientSteps ==
    ASSUME IInv, NEW c \in Clients, ClientStep(c)
    PROVE  IInv'
<1>1. UNCHANGED <<pc, kind, exit, path, port, tampered>>
  BY DEF ClientStep, ConnectTo, ConnectFails, Accept, Answer, GiveUp
<1>2. /\ path \in Nodes /\ port \in Processes \cup {Nobody} /\ conn \in [Clients -> Conns]
      /\ tampered \in [Processes -> BOOLEAN] /\ ListenerInv /\ \A d \in Clients : ConnOf(d)
  BY DEF IInv, TypeOK, Nodes, Conns
<1>3. PICK v \in Conns :
         /\ conn' = [conn EXCEPT ![c] = v]
         /\ v.state = "queued" => v.to \in Processes /\ pc[v.to] \in {"chmod", "serving"}
         /\ v.state = "accepted" => v.to \in Processes /\ pc[v.to] \in {"serving", "draining"}
  <2>1. ASSUME NEW p \in Processes, ConnectTo(c, p)
        PROVE  /\ conn' = [conn EXCEPT ![c] = [state |-> "queued", to |-> p]]
               /\ pc[p] \in {"chmod", "serving"} /\ [state |-> "queued", to |-> p] \in Conns
    BY <1>2, <2>1 DEF ConnectTo, ListenerInv, Conns
  <2>2. ASSUME Accept(c)
        PROVE  /\ conn' = [conn EXCEPT ![c] = [conn[c] EXCEPT !.state = "accepted"]]
               /\ conn[c].to \in Processes /\ pc[conn[c].to] = "serving"
    BY <1>2, <2>2 DEF Accept, ConnOf
  <2>3. ASSUME Answer(c)
        PROVE  conn' = [conn EXCEPT ![c] = [conn[c] EXCEPT !.state = "answered"]]
    BY <1>2, <2>3 DEF Answer
  <2>4. \A x \in {"accepted", "answered"} :
           /\ [conn[c] EXCEPT !.state = x] \in Conns
           /\ [conn[c] EXCEPT !.state = x].state = x
           /\ [conn[c] EXCEPT !.state = x].to = conn[c].to
    BY <1>2 DEF Conns
  <2>5. \A x \in {"failed", "gave_up"} : [state |-> x, to |-> Nobody] \in Conns
    BY DEF Conns
  <2>6. CASE \E p \in Processes : ConnectTo(c, p)
    BY <2>1, <2>6
  <2>7. CASE ConnectFails(c)
    BY <2>5, <2>7 DEF ConnectFails
  <2>8. CASE Accept(c)
    BY <2>2, <2>4, <2>8
  <2>9. CASE Answer(c)
    BY <2>3, <2>4, <2>9
  <2>10. CASE GiveUp(c)
    BY <2>5, <2>10 DEF GiveUp
  <2> QED BY <2>6, <2>7, <2>8, <2>9, <2>10 DEF ClientStep
<1>4. conn' \in [Clients -> Conns]
  BY <1>2, <1>3
<1>5. \A d \in Clients : ConnOf(d)'
  BY <1>1, <1>2, <1>3 DEF ConnOf
<1>6. \A p \in Processes : PathOf(p) => PathOf(p)'
  BY <1>1 DEF PathOf
<1> QED BY <1>1, <1>2, <1>4, <1>5, <1>6, OutsideStep DEF ListenerInv

LEMMA OtherPrograms ==
    ASSUME IInv, PlaceFile \/ RemoveFile \/ Tamper
    PROVE  IInv'
<1>1. /\ UNCHANGED <<pc, kind, exit, port, conn>>
      /\ path' \in {Nothing, File}
      /\ path.type = "socket" => tampered' = [p \in Processes |-> tampered[p] \/ pc[p] # "down"]
      /\ path.type # "socket" => tampered' = tampered
  BY DEF PlaceFile, RemoveFile, Tamper
<1>2. conn \in [Clients -> Conns] /\ tampered \in [Processes -> BOOLEAN]
      /\ \A d \in Clients : ConnOf(d)
  BY DEF IInv, TypeOK, Conns
<1>3. tampered' \in [Processes -> BOOLEAN]
  BY <1>1, <1>2
<1>4. path' \in Nodes /\ path'.type # "socket" /\ path'.maker = Nobody /\ ~path'.live
  BY <1>1, NodeTypes
<1>5. ASSUME NEW p \in Processes, ~tampered'[p]
      PROVE  ~tampered[p] /\ (PathOf(p) => PathOf(p)')
  <2>1. ~tampered[p] /\ (path.type = "socket" => pc[p] = "down")
    BY <1>1, <1>2, <1>5
  <2>2. PathOf(p) => PathOf(p)'
    BY <1>1, <1>4, <2>1 DEF PathOf, Socket
  <2> QED BY <2>1, <2>2
<1>6. \A d \in Clients : ConnOf(d)'
  BY <1>1, <1>2 DEF ConnOf
<1> QED BY <1>1, <1>2, <1>3, <1>4, <1>5, <1>6, OutsideStep

LEMMA Interrupted ==
    ASSUME IInv, NEW p \in Processes, FilesystemFails(p) \/ Kill(p)
    PROVE  IInv'
<1>1. pc[p] # "down" /\ \E reason \in Reasons \ {"ok"} : Exits(p, reason)
  BY DEF FilesystemFails, Kill, Reasons
<1> QED BY <1>1, ExitStep

LEMMA StepInv == ~Overlap /\ IInv /\ [Next]_vars => IInv'
<1> SUFFICES ASSUME ~Overlap, IInv, [Next]_vars PROVE IInv'
  OBVIOUS
<1>1. CASE UNCHANGED vars
  BY <1>1 DEF vars, IInv, TypeOK, OneUp, ListenerInv, KindOf, PathOf, ConnOf
<1>2. ASSUME NEW p \in Processes, Step(p) PROVE IInv'
  BY <1>2, PrepareStep, ListenStep, CleanupStep DEF Step
<1> QED BY <1>1, <1>2, StartStep, TerminateStep, Interrupted, ClientSteps, OtherPrograms DEF Next

LEMMA Invariant == ASSUME ~Overlap PROVE Spec => []IInv
<1>1. IInv /\ [Next]_vars => IInv'
  BY StepInv
<1> QED BY <1>1, InitInv, PTL DEF Spec

(* One process after the other, every variable keeps its type. *)
THEOREM ProcessTypes == ASSUME ~Overlap PROVE Spec => []TypeOK
<1>1. IInv => TypeOK
  BY DEF IInv
<1> QED BY <1>1, Invariant, PTL

(* A serving process is reached at the path, which has mode 0660           *)
(* (mod.rs:75-83), whatever its predecessors left there.                   *)
THEOREM ServingStaysReachable == ASSUME ~Overlap PROVE Spec => []ServingIsReachable
<1>1. IInv => ServingIsReachable
  BY DEF IInv, PathOf, ServingIsReachable
<1> QED BY <1>1, Invariant, PTL

(* A graceful exit leaves no socket (mod.rs:84, 101-110). *)
THEOREM ShutdownLeavesNoSocket == ASSUME ~Overlap PROVE Spec => []ShutdownRemovesSocket
<1>1. IInv => ShutdownRemovesSocket
  BY DEF IInv, PathOf, ShutdownRemovesSocket
<1> QED BY <1>1, Invariant, PTL

(* What a predecessor left, killed at any point, never keeps a process     *)
(* from binding (mod.rs:75-77).                                            *)
THEOREM RestartsBind == ASSUME ~Overlap PROVE Spec => StaleSocketNeverBlocks
<1>1. ASSUME IInv, NEW p \in Processes, pc[p] = "bind", ~tampered[p], pc'[p] = "down", Next,
             exit'[p] = "listen_bind_failed"
      PROVE  path.type = "file"
  <2>1. path.type \in {"none", "file", "socket"} /\ path.type # "socket"
    BY <1>1, Here DEF PathOf, Nodes
  <2>2. pc \in [Processes -> Stages] /\ exit \in [Processes -> Reasons]
    BY <1>1, Here DEF IInv, TypeOK
  <2>3. \A q \in Processes \ {p} : pc[q] = "down"
    BY <1>1, Here
  <2>4. ASSUME NEW q \in Processes, NEW x, Goto(q, x) PROVE q = p
    BY <1>1, <2>2, <2>4 DEF Goto
  <2>5. ASSUME NEW reason, Exits(p, reason) PROVE reason = "listen_bind_failed"
    BY <1>1, <2>2, <2>5 DEF Exits, Gone
  <2>6. pc' # pc
    BY <1>1
  <2>7. CASE \E q \in Processes : \E cfg \in Configs : Start(q, cfg)
    BY <1>1, <2>4, <2>6, <2>7 DEF Start
  <2>8. CASE \E q \in Processes : Step(q)
    <3>1. PICK q \in Processes : Step(q)
      BY <2>8
    <3>2. q = p
      BY <2>3, <3>1 DEF Step, BindTcp, Inspect, Unlink, Bind, Chmod, Drained, InspectOwn, UnlinkOwn
    <3>3. Bind(p)
      BY <1>1, <3>1, <3>2 DEF Step, BindTcp, Inspect, Unlink, Chmod, Drained, InspectOwn, UnlinkOwn
    <3>4. path.type # "none"
      BY <1>1, <2>2, <3>3 DEF Bind, Goto
    <3> QED BY <2>1, <3>4
  <2>9. CASE \E q \in Processes : Terminate(q) \/ FilesystemFails(q) \/ Kill(q)
    <3>1. PICK q \in Processes : Terminate(q) \/ FilesystemFails(q) \/ Kill(q)
      BY <2>9
    <3>2. q = p
      BY <2>3, <3>1 DEF Terminate, FilesystemFails, Kill
    <3>3. Exits(p, "io_error") \/ Exits(p, "killed")
      BY <1>1, <3>1, <3>2 DEF Terminate, FilesystemFails, Kill
    <3> QED BY <2>5, <3>3
  <2>10. CASE (\E c \in Clients : ClientStep(c)) \/ PlaceFile \/ RemoveFile \/ Tamper
    BY <2>6, <2>10 DEF ClientStep, ConnectTo, ConnectFails, Accept, Answer, GiveUp, PlaceFile,
                       RemoveFile, Tamper
  <2> QED BY <1>1, <2>7, <2>8, <2>9, <2>10 DEF Next
<1>2. IInv /\ [Next]_vars =>
        [\A p \in Processes :
            pc[p] = "bind" /\ pc'[p] = "down" /\ ~tampered[p] =>
                (exit'[p] = "listen_bind_failed" => path.type = "file")]_vars
  BY <1>1
<1> QED BY <1>2, Invariant, PTL DEF Spec, StaleSocketNeverBlocks

(* Only a kill breaks off a request that was accepted: a graceful shutdown *)
(* lets it finish (mod.rs:80-83).                                          *)
THEOREM AcceptedFinish == ASSUME ~Overlap PROVE Spec => AcceptedAreAnswered
<1>1. ASSUME IInv, Next, NEW c \in Clients,
             conn[c].state = "accepted", conn'[c].state = "failed"
      PROVE  exit'[conn[c].to] = "killed"
  <2> DEFINE p == conn[c].to
  <2>1. p \in Processes /\ pc[p] \in {"serving", "draining"}
    BY <1>1 DEF IInv, ConnOf
  <2>2. conn \in [Clients -> Conns] /\ exit \in [Processes -> Reasons]
        /\ \A q \in Processes \ {p} : pc[q] = "down"
    BY <1>1, <2>1, Here DEF IInv, TypeOK
  <2> HIDE DEF p
  <2>3. conn' # conn
    BY <1>1
  <2>4. CASE \E q \in Processes : Step(q)
    <3>1. PICK q \in Processes : Step(q)
      BY <2>4
    <3>2. q = p
      BY <2>2, <3>1 DEF Step, BindTcp, Inspect, Unlink, Bind, Chmod, Drained, InspectOwn, UnlinkOwn
    <3>3. Drained(p)
      BY <2>1, <3>1, <3>2 DEF Step, BindTcp, Inspect, Unlink, Bind, Chmod, InspectOwn, UnlinkOwn
    <3> QED BY <1>1, <3>3 DEF Drained, p
  <2>5. CASE \E q \in Processes : Terminate(q) \/ FilesystemFails(q) \/ Kill(q)
    <3>1. PICK q \in Processes : Terminate(q) \/ FilesystemFails(q) \/ Kill(q)
      BY <2>5
    <3>2. q = p
      BY <2>2, <3>1 DEF Terminate, FilesystemFails, Kill
    <3>3. CASE Terminate(p)
      BY <1>1, <3>3 DEF Terminate, Broken
    <3>4. CASE FilesystemFails(p)
      BY <2>1, <3>4 DEF FilesystemFails
    <3>5. CASE Kill(p)
      BY <2>1, <2>2, <3>5 DEF Kill, Exits, Gone, p
    <3> QED BY <3>1, <3>2, <3>3, <3>4, <3>5
  <2>6. CASE \E d \in Clients : ClientStep(d)
    <3>1. PICK d \in Clients : ClientStep(d)
      BY <2>6
    <3>2. d = c
      BY <1>1, <2>2, <3>1 DEF ClientStep, ConnectTo, ConnectFails, Accept, Answer, GiveUp
    <3>3. Answer(c) \/ GiveUp(c)
      BY <1>1, <3>1, <3>2 DEF ClientStep, ConnectTo, ConnectFails, Accept, Idle
    <3>4. conn'[c].state \in {"answered", "gave_up"}
      BY <2>2, <3>3 DEF Answer, GiveUp, Conns
    <3> QED BY <1>1, <3>4
  <2>7. CASE \/ \E q \in Processes : \E cfg \in Configs : Start(q, cfg)
             \/ PlaceFile \/ RemoveFile \/ Tamper
    BY <2>3, <2>7 DEF Start, PlaceFile, RemoveFile, Tamper
  <2> QED BY <1>1, <2>4, <2>5, <2>6, <2>7 DEF Next
<1>2. IInv /\ [Next]_vars =>
        [\A c \in Clients :
            conn[c].state = "accepted" /\ conn'[c].state = "failed" =>
                exit'[conn[c].to] = "killed"]_vars
  BY <1>1
<1> QED BY <1>2, Invariant, PTL DEF Spec, AcceptedAreAnswered
============================================================================
