------------------------------- MODULE Outbox -------------------------------
(***************************************************************************)
(* The offline queue of the officers' app (inec-mobile, src/lib/offline.ts *)
(* and outbox.ts): polling-unit results, check-ins and observer reports    *)
(* wait in SQLite tables until a drain sends them.  Nothing keeps two      *)
(* drains apart, the app may be killed at any point, a write may throw, and *)
(* an answer may be lost after the server has done its work.  The server's part is the Go   *)
(* backend's /results/submit and /ingestion/offline-sync.                  *)
(***************************************************************************)
EXTENDS Naturals, FiniteSets

CONSTANTS Result,       \* results captured for one polling unit, by row id;
                        \* each carries an idempotency key
          Checkin,      \* check-ins: no idempotency key
          Report,       \* observer reports: no key, perhaps a photo
          Drain,        \* drains that may run at once
          MaxAttempts,  \* attempts before a row is left for a person
          MaxCopies,    \* named bound on the copies of a report
          MaxKills,     \* named bound on the kills of the app and on throwing writes
          None, Other   \* no result, and another officer's result

ASSUME OutboxAssumption ==
    /\ MaxAttempts \in Nat \ {0} /\ MaxCopies \in Nat \ {0} /\ MaxKills \in Nat
    /\ Result \cup Checkin \cup Report \subseteq Nat
    /\ Result \cap (Checkin \cup Report) = {} /\ Checkin \cap Report = {}
    /\ None \notin Result /\ Other \notin Result /\ Other # None

VARIABLES synced,       \* "absent", "pending", "synced" or "parked"
          attempts,     \* failed sends that are on record
          drain,        \* what each drain is doing
          log,          \* rows with an entry in conflict_log
          cut,          \* ghost: parked, and stopped before the entry
          gone,         \* reports whose photo is gone or changed
          job,          \* results the server's ingestion queue took
          keyed,        \* results saved with their idempotency key
          stands,       \* the unit's result: a Result, Other or None
          copies,       \* copies of a check-in or report on the server
          lives         \* how often the app may still be killed, or a write throw

outboxVars == <<synced, attempts, drain, log, cut, gone, job, keyed, stands,
                copies, lives>>
serverVars == <<job, keyed, stands, copies>>
localVars == <<synced, attempts, log, cut, gone, lives>>

Plain == Checkin \cup Report
Row == Result \cup Plain
Idle == [at |-> "idle", kind |-> "", todo |-> {}, snap |-> <<>>,
         row |-> None, answer |-> ""]

At(d, place) == drain[d].at = place
Goto(d, place) == drain' = [drain EXCEPT ![d].at = place]
\* The drain has sent row i, or is done with it.
With(d, at, i, row, answer) ==
    drain' = [drain EXCEPT ![d] =
                 [at |-> at, kind |-> drain[d].kind, todo |-> drain[d].todo \ {i},
                  snap |-> drain[d].snap, row |-> row, answer |-> answer]]
Holding(d, i, answer) == With(d, "answer", i, i, answer)
Take(d, i) == With(d, "next", i, None, "")

\* Rows are taken in the order in which they were created.
First(d, i) == i \in drain[d].todo /\ \A j \in drain[d].todo : i <= j

OutboxInit ==
    /\ synced = [i \in Row |-> "absent"]
    /\ attempts = [i \in Row |-> 0]
    /\ drain = [d \in Drain |-> Idle]
    /\ log = {} /\ cut = {} /\ gone = {}
    /\ job = {} /\ keyed = {} /\ stands = None
    /\ copies = [p \in Plain |-> 0]
    /\ lives \in 0..MaxKills

-----------------------------------------------------------------------------
(* The queues                                                              *)

\* queueResult, queueReport, queueCheckIn: one insert each.
queue(i) ==
    /\ synced[i] = "absent"
    /\ \A T \in {Result, Checkin, Report} :
           i \in T => \A j \in T : j < i => synced[j] # "absent"
    /\ synced' = [synced EXCEPT ![i] = "pending"]
    /\ UNCHANGED <<attempts, drain, log, cut, gone, lives, serverVars>>

shouldAttempt(i) == attempts[i] < MaxAttempts

Pending(S) == {i \in S : synced[i] = "pending"}

\* Every row that is pending is read once, with the attempts it has now.
Snapshot(kind, S) ==
    [at |-> "next", kind |-> kind, row |-> None, answer |-> "",
     todo |-> {i \in Pending(S) : shouldAttempt(i)},
     snap |-> [i \in {j \in Pending(S) : shouldAttempt(j)} |-> attempts[i]]]

\* Bug: a failure is a settled row.
recordFailureSettled(d, i) ==
    /\ synced' = [synced EXCEPT ![i] = "synced"]
    /\ UNCHANGED <<attempts, log, cut, gone, lives, serverVars>>

\* Bug: the attempt is not counted.
recordFailureUncounted(d, i) == UNCHANGED <<localVars, serverVars>>

\* The attempts that were read, plus one: whatever other drains wrote since
\* is overwritten (nextRetryState).
recordFailure(d, i) ==
    /\ attempts' = [attempts EXCEPT ![i] = drain[d].snap[i] + 1]
    /\ UNCHANGED <<synced, log, cut, gone, lives, serverVars>>

MarkSynced(i) ==
    /\ synced' = [synced EXCEPT ![i] = "synced"]
    /\ UNCHANGED <<attempts, log, cut, gone, lives, serverVars>>

EndDrain(d) ==
    /\ At(d, "next") /\ drain[d].todo = {} /\ drain[d].kind # "checkin"
    /\ drain' = [drain EXCEPT ![d] = Idle]
    /\ UNCHANGED <<localVars, serverVars>>

\* The process dies; the tables stay.
Kill ==
    /\ lives > 0 /\ \E d \in Drain : ~At(d, "idle")
    /\ lives' = lives - 1
    /\ drain' = [d \in Drain |-> Idle]
    /\ cut' = cut \cup {drain[d].row : d \in {e \in Drain : At(e, "log")}}
    /\ UNCHANGED <<synced, attempts, log, gone, serverVars>>

\* The write of a row throws.  That of a success counts as a failure of the
\* request (the same catch); one that throws in a catch, in the reading of the
\* reports or between parking and logging ends the drain; one that throws under
\* the answers of a batch is taken for a lost batch, and all its rows are sent
\* one by one, those that are settled already included.
WriteThrows(d) ==
    /\ lives > 0 /\ lives' = lives - 1
    /\ \/ /\ At(d, "answer") /\ drain[d].answer = "ok"
          /\ drain' = [drain EXCEPT ![d].answer = "error"] /\ UNCHANGED cut
       \/ /\ At(d, "outcomes")
          /\ drain' = [drain EXCEPT ![d].at = "next", ![d].answer = "",
                                    ![d].todo = DOMAIN drain[d].snap]
          /\ UNCHANGED cut
       \/ /\ \/ drain[d].at \in {"answer", "denied", "log"}
             \/ At(d, "next") /\ drain[d].todo = {} /\ drain[d].kind = "checkin"
             \/ At(d, "next") /\ \E i \in gone : First(d, i)
          /\ drain' = [drain EXCEPT ![d] = Idle]
          /\ cut' = IF At(d, "log") THEN cut \cup {drain[d].row} ELSE cut
    /\ UNCHANGED <<synced, attempts, log, gone, serverVars>>

-----------------------------------------------------------------------------
(* Check-ins, then reports: syncPendingData                                *)

StartData(d) ==
    /\ At(d, "idle")
    /\ drain' = [drain EXCEPT ![d] = Snapshot("checkin", Checkin)]
    /\ UNCHANGED <<localVars, serverVars>>

\* The reports are read after the last check-in was handled.
StartReports(d) ==
    /\ At(d, "next") /\ drain[d].todo = {} /\ drain[d].kind = "checkin"
    /\ drain' = [drain EXCEPT ![d] = Snapshot("report", Report)]
    /\ UNCHANGED <<localVars, serverVars>>

\* Storage evicts or changes a photo.
PhotoLost(i) ==
    /\ i \in Report \ gone /\ synced[i] = "pending"
    /\ gone' = gone \cup {i}
    /\ UNCHANGED <<synced, attempts, log, cut, lives, drain, serverVars>>

\* verifyQueuedPhoto objects: nothing is sent, the attempt counts.
RefusePhoto(d, i) ==
    /\ At(d, "next") /\ First(d, i) /\ i \in gone
    /\ recordFailure(d, i)
    /\ Take(d, i)

\* The request: it reaches the server or not, and so does the answer.
Post(d, i) ==
    /\ At(d, "next") /\ First(d, i) /\ i \in Plain \ gone
    /\ \/ /\ copies[i] < MaxCopies
          /\ copies' = [copies EXCEPT ![i] = @ + 1]
          /\ \/ Holding(d, i, "ok")
             \/ Holding(d, i, "error")
       \/ /\ Holding(d, i, "error")
          /\ UNCHANGED copies
    /\ UNCHANGED <<localVars, job, keyed, stands>>

-----------------------------------------------------------------------------
(* Results: syncPendingResults.  The results of one polling unit are one   *)
(* group: a batch for its registered device, else one by one               *)

StartResults(d) ==
    /\ At(d, "idle")
    /\ Snapshot("result", Result).todo # {}
    /\ drain' = [drain EXCEPT ![d] = [Snapshot("result", Result)
                                       EXCEPT !.at = "batch"]]
    /\ UNCHANGED <<localVars, serverVars>>

\* No registered device, or no answer: the rows are submitted one by one.
resolveSyncDeviceId(d) ==
    /\ At(d, "batch")
    /\ Goto(d, "next")
    /\ UNCHANGED <<localVars, serverVars>>

\* /ingestion/offline-sync takes some of the batch into its queue, a key it
\* knows is a duplicate; then the answers come back, or nothing does, or the
\* session was refused before anything was read.
Outcomes(d, taken) ==
    [i \in drain[d].todo |->
        IF i \in job THEN "duplicate"
        ELSE IF i \in taken THEN "queued" ELSE "rejected"]

offlineSync(d) ==
    /\ At(d, "batch")
    /\ \/ \E taken \in SUBSET (drain[d].todo \ job) :
             /\ job' = job \cup taken
             /\ \/ drain' = [drain EXCEPT ![d].at = "outcomes",
                                          ![d].answer = Outcomes(d, taken)]
                \/ Goto(d, "next")
       \/ /\ Goto(d, "denied")
          /\ UNCHANGED job
    /\ UNCHANGED <<localVars, keyed, stands, copies>>

\* mapItemOutcomes, one row at a time: queued and duplicate are settled,
\* anything else counts as an attempt.  This server never says "conflict".
ApplyOutcome(d, i) ==
    /\ At(d, "outcomes") /\ First(d, i)
    /\ IF drain[d].answer[i] = "rejected" THEN recordFailure(d, i)
       ELSE MarkSynced(i)
    /\ drain' = IF drain[d].todo = {i} THEN [drain EXCEPT ![d] = Idle]
                ELSE [drain EXCEPT ![d].todo = @ \ {i}]

DeniedRow(d, i) ==
    /\ At(d, "denied") /\ First(d, i)
    /\ recordFailure(d, i)
    /\ drain' = IF drain[d].todo = {i} THEN [drain EXCEPT ![d] = Idle]
                ELSE [drain EXCEPT ![d].todo = @ \ {i}]

\* Bug: the unit's result is looked at before the key.
resultsSubmitKeyLast(d, i) ==
    /\ At(d, "next") /\ First(d, i) /\ i \in Result
    /\ \/ /\ stands # None
          /\ Holding(d, i, "conflict") \/ Holding(d, i, "error")
          /\ UNCHANGED <<keyed, stands>>
       \/ /\ stands = None
          /\ stands' = i /\ keyed' = keyed \cup {i}
          /\ Holding(d, i, "ok") \/ Holding(d, i, "error")
       \/ /\ Holding(d, i, "error")
          /\ UNCHANGED <<keyed, stands>>
    /\ UNCHANGED <<localVars, job, copies>>

\* /results/submit: a key that was saved is a duplicate, a unit that has a
\* result is a conflict (409), else the result is saved under its key.
resultsSubmit(d, i) ==
    /\ At(d, "next") /\ First(d, i) /\ i \in Result
    /\ \/ /\ i \in keyed
          /\ Holding(d, i, "ok") \/ Holding(d, i, "error")
          /\ UNCHANGED <<keyed, stands>>
       \/ /\ i \notin keyed /\ stands # None
          /\ Holding(d, i, "conflict") \/ Holding(d, i, "error")
          /\ UNCHANGED <<keyed, stands>>
       \/ /\ i \notin keyed /\ stands = None
          /\ stands' = i /\ keyed' = keyed \cup {i}
          /\ Holding(d, i, "ok") \/ Holding(d, i, "error")
       \/ /\ Holding(d, i, "error")
          /\ UNCHANGED <<keyed, stands>>
    /\ UNCHANGED <<localVars, job, copies>>

\* The row is written after the answer: settled, ...
SettleAnswer(d) ==
    /\ At(d, "answer") /\ drain[d].answer = "ok"
    /\ MarkSynced(drain[d].row)
    /\ Take(d, drain[d].row)

\* ... or one more attempt, ...
FailAnswer(d) ==
    /\ At(d, "answer") /\ drain[d].answer = "error"
    /\ recordFailure(d, drain[d].row)
    /\ Take(d, drain[d].row)

\* ... or parked, with an entry in the conflict log as a second statement.
parkConflict(d) ==
    /\ At(d, "answer") /\ drain[d].answer = "conflict"
    /\ synced' = [synced EXCEPT ![drain[d].row] = "parked"]
    /\ Goto(d, "log")
    /\ UNCHANGED <<attempts, log, cut, gone, lives, serverVars>>

LogConflict(d) ==
    /\ At(d, "log")
    /\ log' = log \cup {drain[d].row}
    /\ Take(d, drain[d].row)
    /\ UNCHANGED <<synced, attempts, cut, gone, lives, serverVars>>

\* A worker of the ingestion queue saves the job's result, without the key;
\* the figures that came first stand.
ApplyJob(i) ==
    /\ i \in job /\ stands = None
    /\ stands' = i
    /\ UNCHANGED <<drain, localVars, job, keyed, copies>>

\* Another officer's result for the unit comes first.
OtherSubmits ==
    /\ stands = None
    /\ stands' = Other
    /\ UNCHANGED <<drain, localVars, job, keyed, copies>>

-----------------------------------------------------------------------------
DrainStep(d) ==
    \/ EndDrain(d) \/ SettleAnswer(d) \/ FailAnswer(d)
    \/ resolveSyncDeviceId(d) \/ offlineSync(d) \/ parkConflict(d)
    \/ LogConflict(d) \/ StartReports(d)
    \/ \E i \in Row : \/ Post(d, i) \/ RefusePhoto(d, i)
                      \/ resultsSubmit(d, i) \/ ApplyOutcome(d, i)
                      \/ DeniedRow(d, i)

DataNext ==
    \/ \E i \in Plain : queue(i) \/ PhotoLost(i)
    \/ \E d \in Drain : StartData(d) \/ DrainStep(d) \/ WriteThrows(d)

ResultNext ==
    \/ \E i \in Result : queue(i) \/ ApplyJob(i)
    \/ \E d \in Drain : StartResults(d) \/ DrainStep(d) \/ WriteThrows(d)
    \/ OtherSubmits

OutboxNext == DataNext \/ ResultNext \/ Kill

\* A drain that was started goes on unless the app is killed: every call answers
\* or throws.  That one is started is left to the officer, who submits a result,
\* presses "Sync now" or pulls the feed down.
OutboxFairness == \A d \in Drain : WF_outboxVars(DrainStep(d))

OutboxSpec == OutboxInit /\ [][OutboxNext]_outboxVars /\ OutboxFairness

-----------------------------------------------------------------------------
\* The tables of the phone and of the server keep their shape.
OutboxTypeOK ==
    /\ synced \in [Row -> {"absent", "pending", "synced", "parked"}]
    /\ attempts \in [Row -> 0..MaxAttempts]
    /\ log \subseteq Result /\ cut \subseteq Result /\ gone \subseteq Report
    /\ job \subseteq Result /\ keyed \subseteq Result
    /\ stands \in Result \cup {Other, None}
    /\ copies \in [Plain -> 0..MaxCopies]

\* What the phone and the server hold between them, seen as a Delivery.
OutboxArrived == job \cup keyed \cup {p \in Plain : copies[p] > 0}
OutboxState ==
    [i \in Row |-> IF synced[i] = "synced" THEN "done" ELSE synced[i]]

Promise == INSTANCE Delivery
    WITH Item <- Row, Expendable <- {}, state <- OutboxState, arrived <- OutboxArrived

\* However drains overlap and wherever the app dies, a record is marked
\* synced only when the server has it, and no record leaves the queue
\* otherwise than settled or parked.
OutboxDelivers == Promise!Spec

\* "A conflicted row is parked for review (conflict log)": a parked result is
\* in the log, is about to be, or the app was killed between the two writes or the
\* second threw.
ParkedAreLogged ==
    \A i \in Result :
        synced[i] = "parked" =>
            \/ i \in log \cup cut
            \/ \E d \in Drain : At(d, "log") /\ drain[d].row = i

\* A result is in conflict with a result that stands, and never with itself,
\* unless the ingestion queue has a copy too (the batch's answer was lost and
\* the single submit met the copy).
ConflictHasRival ==
    \A i \in log : stands # None /\ (stands = i => i \in job)

\* Again and again no record of S waits for an attempt.
NoneWaits(S) == []<>(\A i \in S : synced[i] = "pending" => ~shouldAttempt(i))

\* The queue never keeps a record waiting for good under an officer who goes on
\* starting drains of its kind: again and again every record is settled, parked
\* or out of attempts, although the attempts that one drain records may be
\* overwritten by another.
EveryRowEnds ==
    /\ WF_outboxVars(\E d \in Drain : StartData(d)) => NoneWaits(Plain)
    /\ WF_outboxVars(\E d \in Drain : StartResults(d)) => NoneWaits(Result)

\* The invariant of the queue: shape, and a conflict log that tells the truth.
OutboxInv == OutboxTypeOK /\ ParkedAreLogged /\ ConflictHasRival
=============================================================================
