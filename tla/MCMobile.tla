------------------------------ MODULE MCMobile ------------------------------
(* The two queues and the session share no variable: focus is the part in  *)
(* use.                                                                    *)
(*   data     check-ins or reports, two drains, the app may be killed      *)
(*   batch    two results of a polling unit, one drain at a time           *)
(*   overlap  one result, two drains, the app may be killed                *)
(*   canvass  rows of one of the three tables, two runs                    *)
(*   calls    two calls and their refreshes; the route guard waits          *)
(*   session  one call at a time, and the navigation of the officers' app   *)
EXTENDS Outbox, CanvassSync, MobileSession

CONSTANT OneCall      \* the call of the session part

VARIABLE focus

mobileVars == <<outboxVars, canvassVars, sessionVars, focus>>

Init ==
    /\ OutboxInit /\ CanvassInit /\ SessionInit /\ lives = MaxKills
    /\ focus \in {"data", "batch", "overlap", "canvass", "calls", "session"}

OutboxPart ==
    \/ focus = "data" /\ DataNext
       /\ \E T \in {Checkin, Report} : \A i \in T : synced'[i] = "absent"
    \/ focus = "batch" /\ ResultNext
    \/ focus = "overlap" /\ ResultNext /\ synced'[2] = "absent"
    \/ Kill

\* One retry timer; a run that throws before its try is the only one; and pledges
\* are sent by one run at a time (knocks and locations by two).
Busy == {r \in Sync : run'[r].at # "rest"}
CanvassBounds ==
    /\ Cardinality(timers') <= 1
    /\ died' => Busy = {}
    /\ (\E i \in Pledge : status'[i] # "absent") => Cardinality(Busy) <= 1

CanvassPart ==
    /\ CanvassNext /\ CanvassBounds
    /\ \E T \in {Knock, Pledge, Place} :
           \A i \in Entry \ T : status'[i] = "absent"

\* One cause of a refusal at a time.
OneCause == Cardinality(lapsed') + Cardinality(revoked') + (IF banned' THEN 1 ELSE 0) <= 1

\* Effects that may wait for ever do: the screen then changes by what calls do.
CallPart ==
    \/ \E c \in Api : rawRequest(c) \/ api(c) \/ Refreshing(c)
    \/ \E t \in Token : Age(t) \/ Lapse(t) \/ Revoke(t)
    \/ handleLogin \/ handleLogout \/ boot

SessionPart == SessionNext /\ \A c \in Api \ {OneCall} : call'[c] = NoCall

Next ==
    /\ focus' = focus
    /\ \/ /\ OutboxPart
          /\ focus = "batch" =>
                 Cardinality({d \in Drain : drain'[d].at # "idle"}) <= 1
          /\ UNCHANGED <<canvassVars, sessionVars>>
       \/ /\ focus = "canvass" /\ CanvassPart
          /\ UNCHANGED <<outboxVars, sessionVars>>
       \/ /\ \/ focus = "calls" /\ CallPart
             \/ focus = "session" /\ SessionPart
          /\ OneCause
          /\ UNCHANGED <<outboxVars, canvassVars>>

\* The fairness of the three modules, each asked only while its part is in use: the
\* app begins with effects to run.
InUse(parts) == focus \in parts
Fairness ==
    /\ \A d \in Drain :
          WF_outboxVars(InUse({"data", "batch", "overlap"}) /\ DrainStep(d))
    /\ \A r \in Sync : WF_canvassVars(InUse({"canvass"}) /\ RunStep(r))
    /\ WF_canvassVars(InUse({"canvass"}) /\ \E r \in Sync : Tick(r))
    /\ WF_canvassVars(InUse({"canvass"}) /\ \E r, q \in Sync : RetryTimer(r, q))
    /\ \A c \in Api : /\ WF_sessionVars(InUse({"calls", "session"}) /\ CallStep(c))
                      /\ WF_sessionVars(InUse({"calls", "session"}) /\ Refreshing(c))
    /\ WF_sessionVars(InUse({"session"}) /\ loadMode)
    /\ WF_sessionVars(InUse({"session"}) /\ guard)
    /\ WF_sessionVars(InUse({"calls", "session"}) /\ boot)

Spec == Init /\ [][Next]_mobileVars /\ Fairness
=============================================================================
