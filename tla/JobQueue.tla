------------------------------ MODULE JobQueue ------------------------------
(***************************************************************************)
(* What a job table of the control plane promises its callers: the rows    *)
(* are numbered in the order they are inserted, each belongs to one place  *)
(* (a server), the place's agent is handed the oldest row that waits, no   *)
(* row is handed out twice, and a row that has ended is closed.  A row may *)
(* stay handed out for ever: nothing takes it back from an agent that has  *)
(* lost it.                                                                *)
(***************************************************************************)
EXTENDS Naturals

CONSTANTS Jobs, Places, NoPlace

VARIABLES phase, place

TypeOK ==
    /\ phase \in [Jobs -> {"new", "waiting", "taken", "ended"}]
    /\ place \in [Jobs -> Places \cup {NoPlace}]

Init ==
    /\ phase = [j \in Jobs |-> "new"]
    /\ place = [j \in Jobs |-> NoPlace]

Enqueue(j, p) ==
    /\ phase[j] = "new"
    /\ \A i \in Jobs : i < j => phase[i] # "new"
    /\ phase' = [phase EXCEPT ![j] = "waiting"]
    /\ place' = [place EXCEPT ![j] = p]

Take(j) ==
    /\ phase[j] = "waiting"
    /\ \A i \in Jobs : i < j /\ place[i] = place[j] => phase[i] # "waiting"
    /\ phase' = [phase EXCEPT ![j] = "taken"]
    /\ UNCHANGED place

End(j) ==
    /\ phase[j] = "taken"
    /\ phase' = [phase EXCEPT ![j] = "ended"]
    /\ UNCHANGED place

Next ==
    \E j \in Jobs : (\E p \in Places : Enqueue(j, p)) \/ Take(j) \/ End(j)

Spec == Init /\ [][Next]_<<phase, place>>
=============================================================================
