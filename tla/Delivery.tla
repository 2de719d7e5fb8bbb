------------------------------ MODULE Delivery ------------------------------
(***************************************************************************)
(* What an offline queue on a phone promises: a record written there stays *)
(* until it is settled, and it is called done only when the server has it.  *)
(* Expendable records may be dropped to make room for another.              *)
(* Outbox (the officers' app) and CanvassSync (the canvassers' app) are    *)
(* two implementations.                                                    *)
(***************************************************************************)
CONSTANTS Item,
          Expendable    \* the records of a bounded queue

VARIABLES state,        \* "absent", "pending", "done", "parked" or "dropped"
          arrived       \* records the server has accepted

deliveryVars == <<state, arrived>>

Init ==
    /\ state = [i \in Item |-> "absent"]
    /\ arrived = {}

\* S makes room for i.
Put(i, S) ==
    /\ state[i] = "absent" /\ \A j \in S : state[j] # "absent"
    /\ S # {} => i \in Expendable
    /\ state' = [j \in Item |-> IF j = i THEN "pending"
                               ELSE IF j \in S THEN "dropped" ELSE state[j]]
    /\ UNCHANGED arrived

\* One request may carry several records.
Arrive(S) ==
    /\ \A i \in S : state[i] # "absent"
    /\ arrived' = arrived \cup S
    /\ UNCHANGED state

Finish(S) ==
    /\ S \subseteq arrived /\ \A i \in S : state[i] # "dropped"
    /\ state' = [i \in Item |-> IF i \in S THEN "done" ELSE state[i]]
    /\ UNCHANGED arrived

\* Set aside for a person to look at; never thrown away.
Park(i) ==
    /\ state[i] \notin {"absent", "dropped"}
    /\ state' = [state EXCEPT ![i] = "parked"]
    /\ UNCHANGED arrived

Next ==
    \/ \E i \in Item : Park(i) \/ \E S \in SUBSET Expendable : Put(i, S)
    \/ \E S \in SUBSET Item : Arrive(S) \/ Finish(S)

Spec == Init /\ [][Next]_deliveryVars

DoneArrived == \A i \in Item : state[i] = "done" => i \in arrived
=============================================================================
