----------------------------- MODULE Scheduled ------------------------------
(***************************************************************************)
(* Scheduled work of the campaign platform: the deadline check, with the   *)
(* heartbeat jobs that start it, and the scan for silent field agents      *)
(* (server/_core/index.ts, server/db.ts, server/routers.ts).  Every job    *)
(* calls the same handler, which scans all profiles whatever profile the   *)
(* job was created for; runs of several jobs overlap.                      *)
(***************************************************************************)
EXTENDS Naturals

CONSTANTS Deadline,     \* critical timeline events
          Agent,        \* field agents
          Manager,      \* users who switch the alerts of a profile
          Run,          \* requests of the scheduler under way
          OldAge        \* named bound: an age past every threshold

ASSUME OldAgeAssumption == OldAge \in Nat \ {0}
ASSUME DeadlineAssumption == {"idle", "next"} \cap Deadline = {}

VARIABLES near,         \* deadlines due within 48 hours
          stamp,        \* last_alerted_at: "none", "today", "before"
          sent,         \* deadlines alerted within the last 24 hours
          run,          \* a deadline check: the rows it read, the next steps
          jobs,         \* heartbeat jobs of the profile, by user
          listed,       \* a disable that has listed the jobs, or {}
          quiet,        \* ghost: "disabled" was answered, no enable since
          several,      \* ghost: a disable found the jobs of several users
          status,       \* agent_status
          age,          \* age of last_checkin; OldAge also for NULL
          blurred,      \* ghost: deadlines stamped late or not at all
          twice         \* deadlines alerted a second time within 24 hours

scheduleVars == <<near, stamp, sent, run, jobs, listed, quiet, several, status,
                  age, blurred, twice>>
deadlineVars == <<near, stamp, sent, run, blurred, twice>>
jobVars == <<jobs, listed, quiet, several>>
agentVars == <<status, age>>

NoRun == [at |-> "idle", todo |-> {}, fresh |-> {}, shared |-> FALSE]
Deployed == {"active", "sos"}
Busy == {r \in Run : run[r].at # "idle"}

ScheduleInit ==
    /\ near = {}
    /\ stamp = [d \in Deadline |-> "none"]
    /\ sent = {}
    /\ run = [r \in Run |-> NoRun]
    /\ jobs = {}
    /\ listed = {}
    /\ quiet = FALSE
    /\ several = FALSE
    /\ status = [a \in Agent |-> "offline"]
    /\ age = [a \in Agent |-> OldAge]
    /\ blurred = {}
    /\ twice = {}

-----------------------------------------------------------------------------
(* The deadline check                                                      *)

\* The deadlines of a profile are read once, with the stamps they have.
StartCheck(r) ==
    /\ run[r].at = "idle"
    /\ run' = [q \in Run |->
           IF q = r
           THEN [at |-> "next", todo |-> near,
                 fresh |-> {d \in near : stamp[d] = "today"},
                 shared |-> Busy # {}]
           ELSE [run[q] EXCEPT !.shared = q \in Busy]]
    /\ UNCHANGED <<near, stamp, sent, blurred, twice, jobVars, agentVars>>

\* Alerted within the last 24 hours, as far as the row that was read says.
SkipAlerted(r, d) ==
    /\ run[r].at = "next"
    /\ d \in run[r].todo \cap run[r].fresh
    /\ run' = [run EXCEPT ![r].todo = @ \ {d}]
    /\ UNCHANGED <<near, stamp, sent, blurred, twice, jobVars, agentVars>>

\* The notification is accepted; its stamp is a statement of its own.
Alerted(r, d) ==
    /\ run' = [run EXCEPT ![r].at = d, ![r].todo = @ \ {d}]
    /\ blurred' = IF run[r].shared THEN blurred \cup {d} ELSE blurred
    /\ twice' = IF d \in sent \ blurred' THEN twice \cup {d} ELSE twice
    /\ sent' = sent \cup {d}
    /\ UNCHANGED <<near, stamp, jobVars, agentVars>>

\* Bug: the stamp that was read is not looked at.
notifyOwnerAlways(r, d) ==
    /\ run[r].at = "next"
    /\ d \in run[r].todo
    /\ Alerted(r, d)

notifyOwner(r, d) ==
    /\ run[r].at = "next"
    /\ d \in run[r].todo \ run[r].fresh
    /\ Alerted(r, d)

\* The service cannot be reached: notifyOwner returns false, and the loop
\* goes on without a stamp.
notifyOwnerFalse(r, d) ==
    /\ run[r].at = "next"
    /\ d \in run[r].todo \ run[r].fresh
    /\ run' = [run EXCEPT ![r].todo = @ \ {d}]
    /\ UNCHANGED <<near, stamp, sent, blurred, twice, jobVars, agentVars>>

StampAlert(r) ==
    /\ run[r].at \in Deadline
    /\ stamp' = [stamp EXCEPT ![run[r].at] = "today"]
    /\ run' = [run EXCEPT ![r].at = "next"]
    /\ UNCHANGED <<near, sent, blurred, twice, jobVars, agentVars>>

EndCheck(r) ==
    /\ run[r].at = "next"
    /\ run[r].todo = {}
    /\ run' = [run EXCEPT ![r] = NoRun]
    /\ UNCHANGED <<near, stamp, sent, blurred, twice, jobVars, agentVars>>

\* A statement throws: the handler answers 500 and the rest is left out.
FailCheck(r) ==
    /\ run[r].at # "idle"
    /\ blurred' = blurred \cup ({run[r].at} \cap Deadline)
    /\ run' = [run EXCEPT ![r] = NoRun]
    /\ UNCHANGED <<near, stamp, sent, twice, jobVars, agentVars>>

\* 24 hours after the alert; no check takes that long.
DayPasses(d) ==
    /\ Busy = {}
    /\ d \in sent
    /\ sent' = sent \ {d}
    /\ stamp' = [stamp EXCEPT ![d] = IF @ = "none" THEN @ ELSE "before"]
    /\ blurred' = blurred \ {d}
    /\ UNCHANGED <<near, run, twice, jobVars, agentVars>>

\* A deadline comes within 48 hours, passes, or is moved by an edit.
TimePasses(d) ==
    /\ near' = IF d \in near THEN near \ {d} ELSE near \cup {d}
    /\ UNCHANGED <<stamp, sent, run, blurred, twice, jobVars, agentVars>>

-----------------------------------------------------------------------------
(* The jobs behind the check: one by user, found by the profile's prefix   *)

enable(u) ==
    /\ jobs' = jobs \cup {u}
    /\ quiet' = FALSE
    /\ UNCHANGED <<listed, several, deadlineVars, agentVars>>

BeginDisable ==
    /\ listed = {}
    /\ listed' = jobs
    /\ quiet' = (jobs = {})
    /\ UNCHANGED <<jobs, several, deadlineVars, agentVars>>

\* The first job that was listed is deleted and the answer is "disabled",
\* whatever other users have enabled before or meanwhile.
disable(u) ==
    /\ u \in listed \cap jobs
    /\ jobs' = jobs \ {u}
    /\ listed' = {}
    /\ quiet' = TRUE
    /\ several' = (several \/ \E v \in listed \cup jobs : v # u)
    /\ UNCHANGED <<deadlineVars, agentVars>>

-----------------------------------------------------------------------------
(* Field agents                                                            *)

\* An edit by a manager may set the status; it leaves last_checkin alone
\* unless it names a time.
upsertFieldAgent(a, s, t) ==
    /\ status' = [status EXCEPT ![a] = s]
    /\ age' = [age EXCEPT ![a] = t]
    /\ t \in {age[a], 0, OldAge}
    /\ UNCHANGED <<deadlineVars, jobVars>>

agentCheckIn(a) ==
    /\ status' = [status EXCEPT ![a] = "active"]
    /\ age' = [age EXCEPT ![a] = 0]
    /\ UNCHANGED <<deadlineVars, jobVars>>

\* Bug: an agent who raised an alarm is left out of the scan.
scanActiveAgents(threshold) ==
    /\ status' = [a \in Agent |->
           IF status[a] = "active" /\ age[a] >= threshold
           THEN "silent" ELSE status[a]]
    /\ UNCHANGED <<age, deadlineVars, jobVars>>

\* One UPDATE with the clock of the database.
scanSilentAgents(threshold) ==
    /\ status' = [a \in Agent |->
           IF status[a] \in Deployed /\ age[a] >= threshold
           THEN "silent" ELSE status[a]]
    /\ UNCHANGED <<age, deadlineVars, jobVars>>

Grow(a) ==
    /\ age[a] < OldAge
    /\ age' = [age EXCEPT ![a] = @ + 1]
    /\ UNCHANGED <<status, deadlineVars, jobVars>>

DeadlineNext ==
    \/ \E r \in Run :
          \/ StartCheck(r) \/ StampAlert(r) \/ EndCheck(r) \/ FailCheck(r)
          \/ \E d \in Deadline :
                SkipAlerted(r, d) \/ notifyOwner(r, d) \/ notifyOwnerFalse(r, d)
    \/ \E d \in Deadline : DayPasses(d) \/ TimePasses(d)

JobNext ==
    \/ \E u \in Manager : enable(u) \/ disable(u)
    \/ BeginDisable

AgentNext ==
    \/ \E a \in Agent :
          \/ agentCheckIn(a) \/ Grow(a)
          \/ \E s \in {"active", "sos", "silent", "offline"}, t \in 0..OldAge :
                upsertFieldAgent(a, s, t)
    \/ \E threshold \in 1..OldAge : scanSilentAgents(threshold)

ScheduleNext == DeadlineNext \/ JobNext \/ AgentNext

\* The scheduler calls the scan again and again with its own threshold.
ScheduleFairness == WF_scheduleVars(scanSilentAgents(OldAge))

ScheduleSpec == ScheduleInit /\ [][ScheduleNext]_scheduleVars
                /\ ScheduleFairness

-----------------------------------------------------------------------------
(* Properties                                                              *)

\* The stamps, the runs and the agents keep their shape.
ScheduleTypeOK ==
    /\ near \subseteq Deadline /\ sent \subseteq Deadline
    /\ blurred \subseteq Deadline /\ twice \subseteq Deadline
    /\ stamp \in [Deadline -> {"none", "today", "before"}]
    /\ run \in [Run -> [at : {"idle", "next"} \cup Deadline,
                        todo : SUBSET Deadline, fresh : SUBSET Deadline,
                        shared : BOOLEAN]]
    /\ jobs \subseteq Manager /\ listed \subseteq Manager
    /\ quiet \in BOOLEAN /\ several \in BOOLEAN
    /\ status \in [Agent -> {"active", "sos", "silent", "offline"}]
    /\ age \in [Agent -> 0..OldAge]

\* A deadline is not alerted twice within 24 hours, unless two checks ran at
\* the same time or the stamp of the first alert was not written.
AlertedOnce == twice = {}

\* Alerts that were switched off stay off until someone switches them on,
\* unless the profile had the jobs of several users.
OffMeansOff == quiet /\ ~several => jobs = {}

\* An agent on duty who stops checking in does not stay unnoticed: he is
\* flagged silent, checks in, or is taken off duty.
SilenceNoticed ==
    \A a \in Agent :
        (status[a] \in Deployed /\ age[a] = OldAge)
            ~> (status[a] \notin Deployed \/ age[a] < OldAge)

\* The invariant of the scheduled work: shape, one alert a day, and jobs that
\* stay deleted.
ScheduleInv == ScheduleTypeOK /\ AlertedOnce /\ OffMeansOff
=============================================================================
