------------------------------ MODULE Ingestion ------------------------------
(***************************************************************************)
(* The ingestion queue (ingestion.go): jobs are persisted in               *)
(* ingestion_jobs, scheduled in the memory of the replica that accepted    *)
(* them, attempted a bounded number of times, and end completed or in the  *)
(* dead letter queue.  A replica that restarts takes over every job that   *)
(* the table shows as unfinished.                                          *)
(*                                                                         *)
(* ingestion_jobs.idempotency_key is UNIQUE, so a job is named by its key: *)
(* the item it carries, and whether the client gave the key or enqueueJob  *)
(* derived it from the payload.  A job of type batch_result_upload only    *)
(* enqueues the jobs of its items, which are the jobs of this module.  The *)
(* canonical write is modelled in detail by ResultPipeline.  The status    *)
(* updates go through dbExecLog, which logs an error and goes on: each of  *)
(* them, and each statement of the recovery, may change nothing.           *)
(***************************************************************************)
EXTENDS Naturals, FiniteSets

CONSTANTS Replica,      \* processes of the backend
          Item,         \* payloads
          Unit,         \* the polling unit (or voter, or incident) of an item
          Offline,      \* the items that come in through handleOfflineSync
          MaxRetries,   \* attempts after the first one
          MaxQueue,     \* maxIngestionQueueSize
          Workers,      \* maxConcurrentJobProcessors
          MaxCrashes    \* bound on the number of crashes

ASSUME OfflineAssumption == Offline \subseteq Item
ASSUME BoundsAssumption ==
    /\ MaxRetries \in Nat /\ MaxCrashes \in Nat
    /\ MaxQueue \in Nat \ {0} /\ Workers \in Nat \ {0}

VARIABLES jobs,         \* ingestion_jobs.status by idempotency key
          dlq,          \* dead_letter_queue
          sync,         \* offline_sync_queue.status by idempotency key
          store,        \* items with a row in the canonical store
          open,         \* the election accepts results
          phase,        \* of every replica
          launching,    \* keys inserted by enqueueJob, not yet queued
          work,         \* ingestionQueue and the job goroutines of a replica
          tries,        \* failed attempts of a running job
          dlqNextID,    \* counter of every replica
          marking,      \* dlq ids whose reprocessing request has enqueued
          crashes,
          slip          \* ghost: how an error of the database left a job behind

database == <<jobs, dlq, sync, store, open>>
memory == <<phase, launching, work, tries, dlqNextID, marking>>
vars == <<database, memory, crashes, slip>>

Key == Item \X {"given", "derived"}

\* generateIdempotencyKey of the payload of the job with key k.
Derived(k) == <<k[1], "derived">>

Unfinished == {"pending", "in_progress"}
Terminal == {"completed", "dead_letter"}

Init ==
    /\ jobs = [k \in Key |-> "absent"]
    /\ dlq = {}
    /\ sync = [k \in Key |-> "none"]
    /\ store = {}
    /\ open \in BOOLEAN
    /\ phase = [p \in Replica |-> "up"]
    /\ launching = [p \in Replica |-> {}]
    /\ work = [p \in Replica |-> [k \in Key |-> "none"]]
    /\ tries = [p \in Replica |-> [k \in Key |-> 0]]
    /\ dlqNextID = [p \in Replica |-> 1]
    /\ marking = [p \in Replica |-> {}]
    /\ crashes = 0
    /\ slip = [k \in Key |-> "none"]

\* A processor that writes its dead letter holds ingestionMu meanwhile.
MuFree(p) == \A k \in Key : work[p][k] # "buried"

Queued(p) == {k \in Key : work[p][k] # "none"}
Running(p) == {k \in Key : work[p][k] \notin {"none", "queued"}}

Set(p, k, w) == work' = [work EXCEPT ![p][k] = w]

\* dbExecLog of a status update: it takes effect, or the error is logged.
dbExecLog(k, status) == jobs' = [jobs EXCEPT ![k] = status] \/ UNCHANGED jobs

\* ... of the last one: the processor forgets the job either way.
EndsAs(p, k, status, why) ==
    /\ \/ jobs' = [jobs EXCEPT ![k] = status] /\ UNCHANGED slip
       \/ slip' = [slip EXCEPT ![k] = why] /\ UNCHANGED jobs
    /\ Set(p, k, "none")

-----------------------------------------------------------------------------
\* enqueueJob up to the INSERT ... ON CONFLICT DO NOTHING that takes effect.
\* A known key is a duplicate and changes nothing; a full queue refuses.
Enqueue(p, k) ==
    /\ jobs[k] = "absent"
    /\ Cardinality(Queued(p)) < MaxQueue
    /\ jobs' = [jobs EXCEPT ![k] = "pending"]
    /\ launching' = [launching EXCEPT ![p] = @ \cup {k}]

\* handleOfflineSync always passes a key of its own.
KeyFits(k) == k[1] \in Offline => k[2] = "given"

\* handleIngestionSubmit, handleBatchUpload and handleOfflineSync.
Submit(p, k) ==
    /\ phase[p] = "up"
    /\ KeyFits(k)
    /\ Enqueue(p, k)
    /\ UNCHANGED <<dlq, sync, store, open, phase, work, tries, dlqNextID, marking, crashes, slip>>

\* ... then the job joins the queue and its goroutine starts.
Launch(p, k) ==
    /\ k \in launching[p]
    /\ MuFree(p)
    /\ launching' = [launching EXCEPT ![p] = @ \ {k}]
    /\ Set(p, k, "queued")
    /\ UNCHANGED <<database, phase, tries, dlqNextID, marking, crashes, slip>>

\* processJob gets a processor slot and marks the job.
Start(p, k) ==
    /\ work[p][k] = "queued"
    /\ MuFree(p)
    /\ Cardinality(Running(p)) < Workers
    /\ Set(p, k, "running")
    /\ tries' = [tries EXCEPT ![p][k] = 0]
    /\ dbExecLog(k, "in_progress")
    /\ UNCHANGED <<dlq, sync, store, open, phase, launching, dlqNextID, marking, crashes, slip>>

\* Some row of the canonical store is about the unit of item i.
Accounted(i) == \E x \in store : Unit[x] = Unit[i]

\* applyResultTx inserts the item, or finds a row of its unit that counts: a
\* duplicate or a conflict, and the first writer wins.  A row that no longer
\* counts (see ResultPipeline) does not stand in the way.
Write(i) ==
    \/ store' = store \cup {i}
    \/ Accounted(i) /\ UNCHANGED store

\* Mutant of Apply: an offline item is marked synced before it is applied.
ApplyAfterSync(p, k) ==
    /\ work[p][k] = "running"
    /\ IF k[1] \in Offline /\ sync[k] # "synced"
       THEN sync' = [sync EXCEPT ![k] = "synced"] /\ UNCHANGED <<store, work>>
       ELSE open /\ Write(k[1]) /\ Set(p, k, "settled") /\ UNCHANGED sync
    /\ UNCHANGED <<jobs, dlq, open, phase, launching, tries, dlqNextID, marking, crashes, slip>>

\* processOfflineSync inserts the item's offline_sync_queue row unless a retry
\* or another replica did.
RecordSync(p, k) ==
    /\ work[p][k] = "running"
    /\ k[1] \in Offline
    /\ sync[k] = "none"
    /\ sync' = [sync EXCEPT ![k] = "syncing"]
    /\ UNCHANGED <<jobs, dlq, store, open, memory, crashes, slip>>

\* executeIngestionJob: the canonical write commits.  A conflict is audited
\* and is no error.
Apply(p, k) ==
    /\ work[p][k] = "running"
    /\ open
    /\ k[1] \in Offline => sync[k] # "none"
    /\ Write(k[1])
    /\ Set(p, k, IF k[1] \in Offline THEN "applied" ELSE "settled")
    /\ UNCHANGED <<jobs, dlq, sync, open, phase, launching, tries, dlqNextID, marking, crashes, slip>>

\* ... the row is marked 'synced' after the apply.
MarkSynced(p, k) ==
    /\ work[p][k] = "applied"
    /\ sync' = [sync EXCEPT ![k] = "synced"] \/ UNCHANGED sync
    /\ Set(p, k, "settled")
    /\ UNCHANGED <<jobs, dlq, store, open, phase, launching, tries, dlqNextID, marking, crashes, slip>>

\* Mutant of AttemptFails: exhausting the retries is taken for success.
AttemptForgiven(p, k) ==
    /\ work[p][k] = "running"
    /\ tries' = [tries EXCEPT ![p][k] = @ + 1]
    /\ Set(p, k, IF tries[p][k] < MaxRetries THEN "running" ELSE "settled")
    /\ UNCHANGED <<jobs, dlq, sync, store, open, phase, launching, dlqNextID, marking, crashes, slip>>

\* Mutant of AttemptFails: one attempt too many.
AttemptOnceMore(p, k) ==
    /\ work[p][k] = "running"
    /\ tries' = [tries EXCEPT ![p][k] = @ + 1]
    /\ Set(p, k, IF tries[p][k] <= MaxRetries THEN "running" ELSE "failed")
    /\ UNCHANGED <<jobs, dlq, sync, store, open, phase, launching, dlqNextID, marking, crashes, slip>>

\* An attempt fails: the election does not accept results, or any error.  An
\* offline item's row, if it was reached, says so.
AttemptFails(p, k) ==
    /\ work[p][k] = "running"
    /\ tries' = [tries EXCEPT ![p][k] = @ + 1]
    /\ Set(p, k, IF tries[p][k] < MaxRetries THEN "running" ELSE "failed")
    /\ \/ UNCHANGED sync
       \/ sync[k] # "none" /\ sync' = [sync EXCEPT ![k] = "failed"]
    /\ UNCHANGED <<jobs, dlq, store, open, phase, launching, dlqNextID, marking, crashes, slip>>

Complete(p, k) ==
    /\ work[p][k] = "settled"
    /\ MuFree(p)
    /\ EndsAs(p, k, "completed", "done")
    /\ UNCHANGED <<dlq, sync, store, open, phase, launching, tries, dlqNextID, marking, crashes>>

\* Out of attempts: INSERT INTO dead_letter_queue, refused if the id is taken
\* or for any other error (dbExecLog).
WriteDeadLetter(p, k) ==
    /\ work[p][k] = "failed"
    /\ MuFree(p)
    /\ \/ UNCHANGED dlq
       \/ /\ \A e \in dlq : e.id # dlqNextID[p]
          /\ dlq' = dlq \cup {[id |-> dlqNextID[p], key |-> k, reprocessed |-> FALSE]}
    /\ dlqNextID' = [dlqNextID EXCEPT ![p] = @ + 1]
    /\ Set(p, k, "buried")
    /\ UNCHANGED <<jobs, sync, store, open, phase, launching, tries, marking, crashes, slip>>

\* ... then the job's own row.
MarkDead(p, k) ==
    /\ work[p][k] = "buried"
    /\ EndsAs(p, k, "dead_letter", "dead")
    /\ UNCHANGED <<dlq, sync, store, open, phase, launching, tries, dlqNextID, marking, crashes>>

-----------------------------------------------------------------------------
\* handleReprocessDLQ enqueues the payload under its derived key, whether or
\* not that key is known,
Reprocess(p, e) ==
    /\ phase[p] = "up"
    /\ ~e.reprocessed
    /\ \/ Enqueue(p, Derived(e.key))
       \/ jobs[Derived(e.key)] # "absent" /\ UNCHANGED <<jobs, launching>>
    /\ marking' = [marking EXCEPT ![p] = @ \cup {e}]
    /\ UNCHANGED <<dlq, sync, store, open, phase, work, tries, dlqNextID, crashes, slip>>

\* ... then marks the entry.
MarkReprocessed(p, e) ==
    /\ marking' = [marking EXCEPT ![p] = @ \ {e}]
    /\ dlq' = (dlq \ {e}) \cup {[e EXCEPT !.reprocessed = TRUE]} \/ UNCHANGED dlq
    /\ UNCHANGED <<jobs, sync, store, open, phase, launching, work, tries, dlqNextID, crashes, slip>>

-----------------------------------------------------------------------------
\* A replica dies, or shuts down before its jobs are drained.
Crash(p) ==
    /\ phase[p] # "down"
    /\ crashes < MaxCrashes
    /\ crashes' = crashes + 1
    /\ phase' = [phase EXCEPT ![p] = "down"]
    /\ launching' = [launching EXCEPT ![p] = {}]
    /\ work' = [work EXCEPT ![p] = [k \in Key |-> "none"]]
    /\ tries' = [tries EXCEPT ![p] = [k \in Key |-> 0]]
    /\ marking' = [marking EXCEPT ![p] = {}]
    /\ dlqNextID' = [dlqNextID EXCEPT ![p] = 1]
    /\ UNCHANGED <<database, slip>>

\* Mutant of Restart: jobs in progress are not reset.
RestartWithoutReset(p) ==
    /\ phase[p] = "down"
    /\ phase' = [phase EXCEPT ![p] = "recovering"]
    /\ UNCHANGED <<database, launching, work, tries, dlqNextID, marking, crashes, slip>>

\* recoverPendingJobs resets the jobs in progress, whoever runs them; an error
\* is only a warning,
Restart(p) ==
    /\ phase[p] = "down"
    /\ phase' = [phase EXCEPT ![p] = "recovering"]
    /\ \/ /\ jobs' = [k \in Key |-> IF jobs[k] = "in_progress" THEN "pending" ELSE jobs[k]]
          /\ UNCHANGED slip
       \/ /\ slip' = [k \in Key |-> IF jobs[k] = "in_progress" THEN "skipped" ELSE slip[k]]
          /\ UNCHANGED jobs
    /\ UNCHANGED <<dlq, sync, store, open, launching, work, tries, dlqNextID, marking, crashes>>

\* Mutant of Recover: finished jobs are queued again.
RecoverEverything(p) ==
    /\ phase[p] = "recovering"
    /\ phase' = [phase EXCEPT ![p] = "up"]
    /\ work' = [work EXCEPT ![p] = [k \in Key |-> IF jobs[k] # "absent" THEN "queued" ELSE "none"]]
    /\ UNCHANGED <<database, launching, tries, dlqNextID, marking, crashes, slip>>

\* ... and queues the pending jobs, page after page, until a page or a row
\* cannot be read; then the server starts.
Recover(p) ==
    /\ phase[p] = "recovering"
    /\ phase' = [phase EXCEPT ![p] = "up"]
    /\ LET pending == {k \in Key : jobs[k] = "pending"} IN
       \E read \in SUBSET pending :
          /\ work' = [work EXCEPT ![p] = [k \in Key |-> IF k \in read THEN "queued" ELSE "none"]]
          /\ slip' = [k \in Key |-> IF k \in read THEN "none"
                                   ELSE IF k \in pending THEN "skipped" ELSE slip[k]]
    /\ UNCHANGED <<database, launching, tries, dlqNextID, marking, crashes>>

\* The election stops or resumes accepting results (see ElectionLifecycle).
ElectionMoves ==
    /\ open' = ~open
    /\ UNCHANGED <<jobs, dlq, sync, store, memory, crashes, slip>>

Process(p, k) ==
    \/ Launch(p, k) \/ Start(p, k) \/ RecordSync(p, k) \/ Apply(p, k)
    \/ MarkSynced(p, k) \/ AttemptFails(p, k) \/ Complete(p, k) \/ WriteDeadLetter(p, k) \/ MarkDead(p, k)

Next ==
    \/ \E p \in Replica, k \in Key : Submit(p, k) \/ Process(p, k)
    \/ \E p \in Replica, e \in dlq : Reprocess(p, e)
    \/ \E p \in Replica : \E e \in marking[p] : MarkReprocessed(p, e)
    \/ \E p \in Replica : Crash(p) \/ Restart(p) \/ Recover(p)
    \/ ElectionMoves

Spec == Init /\ [][Next]_vars

\* Goroutines make progress, a slot goes to whoever waits for one, and the
\* orchestrator restarts a dead replica.  No attempt is promised to succeed.
Fairness ==
    \A p \in Replica :
        /\ \A k \in Key : WF_vars(Process(p, k)) /\ SF_vars(Start(p, k))
        /\ WF_vars(Restart(p) \/ Recover(p))

FairSpec == Spec /\ Fairness

-----------------------------------------------------------------------------
\* Shapes of the state.
TypeOK ==
    /\ jobs \in [Key -> {"absent"} \cup Unfinished \cup Terminal]
    /\ dlq \subseteq [id : Nat, key : Key, reprocessed : BOOLEAN]
    /\ sync \in [Key -> {"none", "syncing", "synced", "failed"}]
    /\ store \subseteq Item
    /\ open \in BOOLEAN
    /\ phase \in [Replica -> {"up", "down", "recovering"}]
    /\ launching \in [Replica -> SUBSET Key]
    /\ work \in [Replica -> [Key -> {"none", "queued", "running", "applied", "settled",
                                     "failed", "buried"}]]
    /\ tries \in [Replica -> [Key -> 0 .. MaxRetries + 1]]
    /\ dlqNextID \in [Replica -> Nat]
    /\ marking \in [Replica -> SUBSET [id : Nat, key : Key, reprocessed : BOOLEAN]]
    /\ crashes \in 0 .. MaxCrashes
    /\ slip \in [Key -> {"none", "skipped", "done", "dead"}]

\* "the item is durably accounted for, so the job completes": the unit of a
\* completed job's item has a row in the canonical store, whichever replicas
\* ran the job and wherever they crashed (processJob, processResultIngestion).
CompletedAccounted == \A k \in Key : jobs[k] = "completed" => Accounted(k[1])

\* The same of an offline item that is marked synced, even while another
\* replica fails on it (processOfflineSync).
SyncedAccounted == \A k \in Key : sync[k] = "synced" => Accounted(k[1])

\* While all replicas are up, an unfinished job is in the memory of one of
\* them, or an error of the database hit the job itself: its recovery did not
\* read it, or it had ended and its last update failed, and then its unit is
\* accounted for if it succeeded.  No sequence of crashes, restarts and
\* recoveries strands a job otherwise (recoverPendingJobs, processJob).
NoJobStranded ==
    (\A p \in Replica : phase[p] = "up") =>
        \A k \in Key : jobs[k] \in Unfinished =>
            \/ \E p \in Replica : k \in launching[p] \cup Queued(p)
            \/ slip[k] \in {"skipped", "dead"}
            \/ slip[k] = "done" /\ Accounted(k[1])

\* With one process, a job that ended stays ended, through restarts too: no
\* recovery runs it again (recoverPendingJobs).
TerminalStays ==
    [][\A k \in Key : jobs[k] \in Terminal => jobs'[k] = jobs[k]]_vars

\* Every accepted job ends, however often its replica crashes and whatever
\* its attempts return, or an error of the database left it behind; and once a
\* recovery has read it again, the same holds again (processJob,
\* recoverPendingJobs).
JobsEnd ==
    \A k \in Key : (jobs[k] = "pending" /\ slip[k] = "none")
                       ~> (jobs[k] \in Terminal \/ slip[k] # "none")

\* "Jobs left 'in_progress' by a crashed process would otherwise be stranded
\* forever": what recoverPendingJobs is for, without the errors that it only
\* warns about.
NeverStranded ==
    (\A p \in Replica : phase[p] = "up") =>
        \A k \in Key : jobs[k] \in Unfinished =>
            \E p \in Replica : k \in launching[p] \cup Queued(p)

\* "Seed the ID counter past any persisted job ID so restarts cannot collide":
\* a job that ended in the dead letter state has its dead_letter_queue row
\* (processJob, recoverPendingJobs).
DeadLettersListed ==
    \A k \in Key : jobs[k] = "dead_letter" => \E e \in dlq : e.key = k

\* "every ingestion path now terminates in the canonical result write": when a
\* dead letter is marked reprocessed, its payload has a job that is not itself
\* dead already (handleReprocessDLQ).
ReprocessRetries ==
    [][\A p \in Replica : \A e \in marking'[p] \ marking[p] :
          jobs'[Derived(e.key)] # "dead_letter"]_vars

=============================================================================
