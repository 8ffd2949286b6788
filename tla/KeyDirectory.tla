---------------------------- MODULE KeyDirectory ----------------------------
(***************************************************************************)
(* What the resource cache promises to the resolver, without caches,       *)
(* leaders, permits or circuits: a loader of versioned resources.          *)
(*                                                                         *)
(* Origins publish versions.  Now and then the loader obtains one, never   *)
(* an older one than before.  A load asks for one resource and ends once,  *)
(* with nothing or with a version that is no older than what had been      *)
(* obtained when it asked and no newer than what has been obtained since.  *)
(***************************************************************************)
EXTENDS Integers

CONSTANTS Keys, Loads, NoAnswer

VARIABLES
    published, \* the version every origin serves
    obtained,  \* the last version obtained of every resource
    status,    \* whether each load is idle, loading or done
    wanted,    \* the resource it loads
    floor,     \* the version of it that had been obtained when it asked
    answer     \* what it ended with

loadVars == <<status, wanted, floor, answer>>
vars == <<published, obtained, loadVars>>

Init ==
    /\ published = [k \in Keys |-> 0]
    /\ obtained = [k \in Keys |-> 0]
    /\ status = [l \in Loads |-> "idle"]
    /\ wanted \in [Loads -> Keys]
    /\ floor = [l \in Loads |-> 0]
    /\ answer = [l \in Loads |-> NoAnswer]

Publish(k) ==
    /\ published' = [published EXCEPT ![k] = @ + 1]
    /\ UNCHANGED <<obtained, loadVars>>

Obtain(k, v) ==
    /\ v \in obtained[k] .. published[k]
    /\ obtained' = [obtained EXCEPT ![k] = v]
    /\ UNCHANGED <<published, loadVars>>

Request(l, k) ==
    /\ status[l] # "loading"
    /\ status' = [status EXCEPT ![l] = "loading"]
    /\ wanted' = [wanted EXCEPT ![l] = k]
    /\ floor' = [floor EXCEPT ![l] = obtained[k]]
    /\ answer' = [answer EXCEPT ![l] = NoAnswer]
    /\ UNCHANGED <<published, obtained>>

(* What a load may end with. *)
Acceptable(l) == {NoAnswer} \cup (floor[l] .. obtained[wanted[l]])

(* The loads in S end together with the answers a: those that shared one   *)
(* refresh.                                                                *)
Answer(S, a) ==
    /\ \A l \in S : status[l] = "loading" /\ a[l] \in Acceptable(l)
    /\ status' = [l \in Loads |-> IF l \in S THEN "done" ELSE status[l]]
    /\ answer' = [l \in Loads |-> IF l \in S THEN a[l] ELSE answer[l]]
    /\ UNCHANGED <<published, obtained, wanted, floor>>

Next ==
    \/ \E k \in Keys : Publish(k)
    \/ \E k \in Keys : \E v \in obtained[k] .. published[k] : Obtain(k, v)
    \/ \E l \in Loads, k \in Keys : Request(l, k)
    \/ \E S \in SUBSET Loads : Answer(S, answer')

Spec == Init /\ [][Next]_vars
=============================================================================
