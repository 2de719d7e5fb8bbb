------------------------------- MODULE MCCampaignLive ---------------------------
(* Scheduled and Admission share no variable and are checked side by side: *)
(* focus is the part of the platform that moves.  Only the logins have use *)
(* for a third caller.                                                     *)
EXTENDS Scheduled, Admission

CONSTANT OnlyLogsIn

VARIABLE focus

liveVars == <<scheduleVars, admissionVars, focus>>

Init ==
    /\ focus \in {"deadlines", "jobs", "agents", "login", "sign", "model"}
    /\ ScheduleInit /\ AdmissionInit

Next ==
    /\ focus' = focus
    /\ \/ /\ \/ focus = "deadlines" /\ DeadlineNext
             \/ focus = "jobs" /\ JobNext
             \/ focus = "agents" /\ AgentNext
          /\ UNCHANGED admissionVars
       \/ /\ \/ focus = "login" /\ LoginNext
             \/ focus = "sign" /\ SignNext /\ visit'[OnlyLogsIn] = Away
             \/ focus = "model" /\ LlmNext
             \/ \E c \in Caller : Abort(c)
             \/ \E keys \in {LoginKeys, HourKeys, DedupKeys} :
                    WindowCloses(keys)
          /\ UNCHANGED scheduleVars

Spec == Init /\ [][Next]_liveVars /\ ScheduleFairness
=============================================================================
