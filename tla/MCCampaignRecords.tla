------------------------ MODULE MCCampaignRecords ---------------------------
(* Budget, VoterData and WarRoom share no variable and are checked side by *)
(* side: focus is the part of the platform that moves, so the state spaces *)
(* add up instead of multiplying.                                          *)
EXTENDS Budget, VoterData, WarRoom, TLC

VARIABLE focus

\* Bound: the stream that comes and goes while incidents change as well.  With
\* the incidents at rest all streams take part.
CONSTANT OneStream

recordVars == <<moneyVars, voterVars, warRoomVars, focus>>

Init ==
    /\ focus \in {"budget", "gifts", "register", "panel", "war room",
                  "streams"}
    /\ MoneyInit /\ VoterInit /\ WarRoomInit

Next ==
    /\ focus' = focus
    /\ \/ /\ \/ focus = "budget" /\ BudgetNext
             \/ focus = "gifts" /\ GiftNext
          /\ UNCHANGED <<voterVars, warRoomVars>>
       \/ /\ \/ focus = "register" /\ RegisterNext
             \/ focus = "panel" /\ PanelNext
             \/ \E h \in Handler : FailVoter(h)
          /\ UNCHANGED <<moneyVars, warRoomVars>>
       \/ /\ \/ /\ focus = "war room" /\ WarRoomNext
                /\ \A s \in Stream : stream'[s] # NoOne => s = OneStream
             \/ focus = "streams" /\ StreamNext
          /\ UNCHANGED <<moneyVars, voterVars>>

Spec == Init /\ [][Next]_recordVars

\* The requests, and the rows of each table, are interchangeable.  The model
\* gives several of these sets the same members, to keep the group small.
Symmetry ==
    UNION {Permutations(S) : S \in {Clerk \cup Handler \cup Editor,
                                    Item \cup Voter,
                                    Dsar \cup Profile}}
=============================================================================
