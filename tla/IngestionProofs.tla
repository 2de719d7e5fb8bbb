--------------------------- MODULE IngestionProofs ---------------------------
(***************************************************************************)
(* Proofs about Ingestion for every number of replicas, items, crashes and *)
(* retries.                                                                *)
(***************************************************************************)
EXTENDS Ingestion, TLAPS

Holds(p, k) == k \in launching[p] \/ work[p][k] # "none"

\* Memory against database: a processor that got past the canonical write has
\* its item accounted for, a running one has attempts left, and a replica that
\* does not serve holds nothing.
MemoryInv ==
    /\ \A p \in Replica, k \in Key :
           /\ work[p][k] \in {"applied", "settled"} => Accounted(k[1])
           /\ work[p][k] = "running" => tries[p][k] <= MaxRetries
           /\ phase[p] # "up" => ~Holds(p, k)
    /\ \A k \in Key : slip[k] = "done" => Accounted(k[1])

\* An unfinished job is held, or it will be found: a dead replica resets it
\* when it restarts, a recovering one queues what is pending, or an error is on
\* its account.
Findable(k) ==
    \/ \E p \in Replica : Holds(p, k) \/ phase[p] = "down"
    \/ jobs[k] = "pending" /\ \E p \in Replica : phase[p] = "recovering"
    \/ slip[k] # "none"

FoundInv == \A k \in Key : jobs[k] \in Unfinished => Findable(k)

IInv == TypeOK /\ MemoryInv /\ FoundInv /\ CompletedAccounted /\ SyncedAccounted

-----------------------------------------------------------------------------
LEMMA StepKeepsTypes ==
  ASSUME TypeOK, MemoryInv, [Next]_vars
  PROVE  TypeOK'
<1> USE BoundsAssumption DEF TypeOK, database, memory, Unfinished, Terminal
<1>1. ASSUME NEW k \in Key PROVE Derived(k) \in Key /\ k[1] \in Item
  BY DEF Key, Derived
<1>2. ASSUME NEW p \in Replica, NEW k \in Key, Submit(p, k) PROVE TypeOK'
  BY <1>2 DEF Submit, Enqueue
<1>3. ASSUME NEW p \in Replica, NEW k \in Key, Launch(p, k) PROVE TypeOK'
  BY <1>3 DEF Launch, Set
<1>4. ASSUME NEW p \in Replica, NEW k \in Key, Start(p, k) PROVE TypeOK'
  BY <1>4 DEF Start, dbExecLog, Set
<1>5. ASSUME NEW p \in Replica, NEW k \in Key, Apply(p, k) PROVE TypeOK'
  BY <1>1, <1>5 DEF Apply, Write, Set
<1>6. ASSUME NEW p \in Replica, NEW k \in Key, MarkSynced(p, k) PROVE TypeOK'
  BY <1>6 DEF MarkSynced, Set
<1>7. ASSUME NEW p \in Replica, NEW k \in Key, AttemptFails(p, k) PROVE TypeOK'
  BY <1>7 DEF AttemptFails, Set, MemoryInv
<1>8. ASSUME NEW p \in Replica, NEW k \in Key, Complete(p, k) PROVE TypeOK'
  <2>1. /\ jobs' \in [Key -> {"absent"} \cup Unfinished \cup Terminal]
        /\ slip' \in [Key -> {"none", "skipped", "done", "dead"}]
    <3>1. CASE jobs' = [jobs EXCEPT ![k] = "completed"] /\ UNCHANGED slip
      BY <3>1
    <3>2. CASE slip' = [slip EXCEPT ![k] = "done"] /\ UNCHANGED jobs
      BY <3>2
    <3> QED BY <1>8, <3>1, <3>2 DEF Complete, EndsAs
  <2> QED BY <1>8, <2>1 DEF Complete, EndsAs, Set
<1>9. ASSUME NEW p \in Replica, NEW k \in Key, WriteDeadLetter(p, k) PROVE TypeOK'
  <2>1. [id |-> dlqNextID[p], key |-> k, reprocessed |-> FALSE]
          \in [id : Nat, key : Key, reprocessed : BOOLEAN]
    OBVIOUS
  <2>2. dlq' \subseteq [id : Nat, key : Key, reprocessed : BOOLEAN]
    <3> DEFINE f == [id |-> dlqNextID[p], key |-> k, reprocessed |-> FALSE]
    <3>1. dlq' = dlq \cup {f} \/ dlq' = dlq
      BY <1>9 DEF WriteDeadLetter
    <3>2. f \in [id : Nat, key : Key, reprocessed : BOOLEAN]
      BY <2>1
    <3> HIDE DEF f
    <3> QED BY <3>1, <3>2
  <2> QED
    BY <1>9, <2>2 DEF WriteDeadLetter, Set
<1>10. ASSUME NEW p \in Replica, NEW k \in Key, MarkDead(p, k) PROVE TypeOK'
  BY <1>10 DEF MarkDead, EndsAs, Set
<1>11. ASSUME NEW p \in Replica, NEW e \in dlq, Reprocess(p, e) PROVE TypeOK'
  <2>1. e.key \in Key /\ Derived(e.key) \in Key
    BY <1>1
  <2>2. /\ jobs' \in [Key -> {"absent"} \cup Unfinished \cup Terminal]
        /\ launching' \in [Replica -> SUBSET Key]
    <3>1. CASE Enqueue(p, Derived(e.key))
      BY <3>1, <2>1 DEF Enqueue
    <3>2. CASE UNCHANGED <<jobs, launching>>
      BY <3>2
    <3> QED
      BY <1>11, <3>1, <3>2 DEF Reprocess
  <2>3. marking' \in [Replica -> SUBSET [id : Nat, key : Key, reprocessed : BOOLEAN]]
    <3>1. marking' = [marking EXCEPT ![p] = marking[p] \cup {e}]
      BY <1>11 DEF Reprocess
    <3>2. marking[p] \cup {e} \in SUBSET [id : Nat, key : Key, reprocessed : BOOLEAN]
      OBVIOUS
    <3> QED
      BY <3>1, <3>2
  <2> QED
    BY <1>11, <2>2, <2>3 DEF Reprocess
<1>12. ASSUME NEW p \in Replica, NEW e \in marking[p], MarkReprocessed(p, e) PROVE TypeOK'
  <2>1. e \in [id : Nat, key : Key, reprocessed : BOOLEAN]
    OBVIOUS
  <2>2. [e EXCEPT !.reprocessed = TRUE] \in [id : Nat, key : Key, reprocessed : BOOLEAN]
    BY <2>1
  <2>3. dlq' \subseteq [id : Nat, key : Key, reprocessed : BOOLEAN]
    <3> DEFINE f == [e EXCEPT !.reprocessed = TRUE]
    <3>1. dlq' = (dlq \ {e}) \cup {f} \/ dlq' = dlq
      BY <1>12 DEF MarkReprocessed
    <3>2. f \in [id : Nat, key : Key, reprocessed : BOOLEAN]
      BY <2>2
    <3> HIDE DEF f
    <3> QED BY <3>1, <3>2
  <2> QED
    BY <1>12, <2>3 DEF MarkReprocessed
<1>13. ASSUME NEW p \in Replica, Crash(p) PROVE TypeOK'
  BY <1>13 DEF Crash
<1>14. ASSUME NEW p \in Replica, Restart(p) PROVE TypeOK'
  BY <1>14 DEF Restart
<1>15. ASSUME NEW p \in Replica, Recover(p) PROVE TypeOK'
  BY <1>15 DEF Recover
<1>16. CASE ElectionMoves
  BY <1>16 DEF ElectionMoves
<1>18. ASSUME NEW p \in Replica, NEW k \in Key, RecordSync(p, k) PROVE TypeOK'
  BY <1>18 DEF RecordSync
<1>17. CASE UNCHANGED vars
  BY <1>17 DEF vars
<1> HIDE DEF TypeOK, database, memory
<1> QED
  BY <1>2, <1>3, <1>4, <1>5, <1>6, <1>7, <1>8, <1>9, <1>10, <1>11, <1>12, <1>13,
     <1>14, <1>15, <1>16, <1>17, <1>18 DEF Next, Process

\* The canonical store only grows, so what is accounted for stays so.
LEMMA StoreGrows ==
  ASSUME [Next]_vars
  PROVE  \A i : Accounted(i) => Accounted(i)'
<1>1. store \subseteq store'
  <2>1. ASSUME NEW p \in Replica, NEW k \in Key, Process(p, k) PROVE store \subseteq store'
    BY <2>1 DEF Process, Launch, Start, RecordSync, Apply, Write, MarkSynced, AttemptFails,
                Complete, EndsAs, WriteDeadLetter, MarkDead, database, memory
  <2>2. ASSUME NEW p \in Replica, NEW k \in Key, Submit(p, k) PROVE store \subseteq store'
    BY <2>2 DEF Submit
  <2>3. ASSUME NEW p \in Replica, NEW e, Reprocess(p, e) \/ MarkReprocessed(p, e)
        PROVE  store \subseteq store'
    BY <2>3 DEF Reprocess, MarkReprocessed
  <2>4. ASSUME NEW p \in Replica, Crash(p) \/ Restart(p) \/ Recover(p)
        PROVE  store \subseteq store'
    BY <2>4 DEF Crash, Restart, Recover, database
  <2>5. CASE ElectionMoves
    BY <2>5 DEF ElectionMoves
  <2>6. CASE UNCHANGED vars
    BY <2>6 DEF vars, database
  <2> QED
    BY <2>1, <2>2, <2>3, <2>4, <2>5, <2>6 DEF Next
<1> QED
  BY <1>1 DEF Accounted

\* What the processors of a replica know stays true.
LEMMA StepKeepsMemory ==
  ASSUME IInv, [Next]_vars
  PROVE  MemoryInv'
<1> USE BoundsAssumption DEF IInv, TypeOK, database, memory, MemoryInv, Holds
<1>0. \A i : Accounted(i) => Accounted(i)'
  BY StoreGrows
<1> USE <1>0
<1>1. ASSUME NEW p \in Replica, NEW k \in Key, Submit(p, k) PROVE MemoryInv'
  BY <1>1 DEF Submit, Enqueue
<1>2. ASSUME NEW p \in Replica, NEW k \in Key, Launch(p, k) PROVE MemoryInv'
  BY <1>2 DEF Launch, Set
<1>3. ASSUME NEW p \in Replica, NEW k \in Key, Start(p, k) PROVE MemoryInv'
  BY <1>3 DEF Start, dbExecLog, Set
<1>4. ASSUME NEW p \in Replica, NEW k \in Key, Apply(p, k) PROVE MemoryInv'
  <2>1. /\ UNCHANGED <<phase, slip, launching, tries>>
        /\ \E w \in {"applied", "settled"} : work' = [work EXCEPT ![p][k] = w]
    BY <1>4 DEF Apply, Set
  <2>2. work[p][k] = "running" /\ phase[p] = "up"
    BY <1>4 DEF Apply
  <2>3. Accounted(k[1])'
    BY <1>4 DEF Apply, Write, Accounted
  <2> QED
    BY <2>1, <2>2, <2>3
<1>5. ASSUME NEW p \in Replica, NEW k \in Key, MarkSynced(p, k) PROVE MemoryInv'
  BY <1>5 DEF MarkSynced, Set
<1>6. ASSUME NEW p \in Replica, NEW k \in Key, AttemptFails(p, k) PROVE MemoryInv'
  BY <1>6 DEF AttemptFails, Set
<1>7. ASSUME NEW p \in Replica, NEW k \in Key, Complete(p, k) PROVE MemoryInv'
  BY <1>7 DEF Complete, EndsAs, Set
<1>8. ASSUME NEW p \in Replica, NEW k \in Key, WriteDeadLetter(p, k) PROVE MemoryInv'
  BY <1>8 DEF WriteDeadLetter, Set
<1>9. ASSUME NEW p \in Replica, NEW k \in Key, MarkDead(p, k) PROVE MemoryInv'
  BY <1>9 DEF MarkDead, EndsAs, Set
<1>10. ASSUME NEW p \in Replica, NEW e \in dlq, Reprocess(p, e) PROVE MemoryInv'
  BY <1>10 DEF Reprocess, Enqueue
<1>11. ASSUME NEW p \in Replica, NEW e \in marking[p], MarkReprocessed(p, e) PROVE MemoryInv'
  BY <1>11 DEF MarkReprocessed
<1>12. ASSUME NEW p \in Replica, Crash(p) PROVE MemoryInv'
  BY <1>12 DEF Crash
<1>13. ASSUME NEW p \in Replica, Restart(p) PROVE MemoryInv'
  BY <1>13 DEF Restart
<1>14. ASSUME NEW p \in Replica, Recover(p) PROVE MemoryInv'
  BY <1>14 DEF Recover
<1>15. CASE ElectionMoves
  BY <1>15 DEF ElectionMoves
<1>17. ASSUME NEW p \in Replica, NEW k \in Key, RecordSync(p, k) PROVE MemoryInv'
  BY <1>17 DEF RecordSync
<1>16. CASE UNCHANGED vars
  BY <1>16 DEF vars
<1> HIDE DEF IInv, TypeOK, database, memory, MemoryInv, Holds
<1> QED
  BY <1>1, <1>2, <1>3, <1>4, <1>5, <1>6, <1>7, <1>8, <1>9, <1>10, <1>11, <1>12, <1>13, <1>14, <1>15, <1>16, <1>17 DEF Next, Process

\* A step that drops no job from memory, and writes the rows only of jobs in
\* memory, loses none.
LEMMA HoldersStay ==
  ASSUME FoundInv, UNCHANGED <<phase, slip>>,
         \A q \in Replica, x \in Key : Holds(q, x) => Holds(q, x)',
         \A x \in Key : jobs'[x] = jobs[x] \/ \E q \in Replica : Holds(q, x)'
  PROVE  FoundInv'
BY DEF FoundInv, Findable

\* No job is lost sight of.
LEMMA StepKeepsFound ==
  ASSUME IInv, [Next]_vars
  PROVE  FoundInv'
<1> USE BoundsAssumption DEF IInv, TypeOK, database, memory, MemoryInv, FoundInv, Findable, Holds, Unfinished
<1>1. ASSUME NEW p \in Replica, NEW k \in Key, Submit(p, k) PROVE FoundInv'
  <2>1. UNCHANGED <<phase, slip>> /\ \A q \in Replica, x \in Key : Holds(q, x) => Holds(q, x)'
    BY <1>1 DEF Submit, Enqueue
  <2>2. \A x \in Key : jobs'[x] = jobs[x] \/ Holds(p, x)'
    BY <1>1 DEF Submit, Enqueue
  <2> QED
    BY <2>1, <2>2, HoldersStay
<1>2. ASSUME NEW p \in Replica, NEW k \in Key, Launch(p, k) PROVE FoundInv'
  <2>1. UNCHANGED <<phase, slip, jobs>> /\ \A q \in Replica, x \in Key : Holds(q, x) => Holds(q, x)'
    BY <1>2 DEF Launch, Set
  <2> QED
    BY <2>1, HoldersStay
<1>3. ASSUME NEW p \in Replica, NEW k \in Key, Start(p, k) PROVE FoundInv'
  BY <1>3 DEF Start, dbExecLog, Set
<1>4. ASSUME NEW p \in Replica, NEW k \in Key, Apply(p, k) PROVE FoundInv'
  <2>1. /\ UNCHANGED <<phase, slip, jobs, launching>>
        /\ \E w \in {"applied", "settled"} : work' = [work EXCEPT ![p][k] = w]
    BY <1>4 DEF Apply, Write, Set
  <2>2. \A q \in Replica, x \in Key : Holds(q, x) => Holds(q, x)'
    BY <2>1
  <2> QED
    BY <2>1, <2>2, HoldersStay
<1>5. ASSUME NEW p \in Replica, NEW k \in Key, MarkSynced(p, k) PROVE FoundInv'
  BY <1>5 DEF MarkSynced, Set
<1>6. ASSUME NEW p \in Replica, NEW k \in Key, AttemptFails(p, k) PROVE FoundInv'
  <2>1. UNCHANGED <<phase, slip, jobs>> /\ \A q \in Replica, x \in Key : Holds(q, x) => Holds(q, x)'
    BY <1>6 DEF AttemptFails, Set
  <2> QED
    BY <2>1, HoldersStay
<1>7. ASSUME NEW p \in Replica, NEW k \in Key, Complete(p, k) PROVE FoundInv'
  <2>1. work' = [work EXCEPT ![p][k] = "none"] /\ UNCHANGED <<phase, launching>>
    BY <1>7 DEF Complete, EndsAs, Set
  <2>2. CASE jobs' = [jobs EXCEPT ![k] = "completed"] /\ UNCHANGED slip
    BY <2>1, <2>2
  <2>3. CASE slip' = [slip EXCEPT ![k] = "done"] /\ UNCHANGED jobs
    BY <2>1, <2>3
  <2> QED BY <1>7, <2>2, <2>3 DEF Complete, EndsAs
<1>8. ASSUME NEW p \in Replica, NEW k \in Key, WriteDeadLetter(p, k) PROVE FoundInv'
  BY <1>8 DEF WriteDeadLetter, Set
<1>9. ASSUME NEW p \in Replica, NEW k \in Key, MarkDead(p, k) PROVE FoundInv'
  BY <1>9 DEF MarkDead, EndsAs, Set
<1>10. ASSUME NEW p \in Replica, NEW e \in dlq, Reprocess(p, e) PROVE FoundInv'
  <2>1. e.key \in Key /\ Derived(e.key) \in Key
    BY DEF Key, Derived
  <2>2. CASE Enqueue(p, Derived(e.key))
    <3>1. UNCHANGED <<phase, slip>> /\ \A q \in Replica, x \in Key : Holds(q, x) => Holds(q, x)'
      BY <1>10, <2>1, <2>2 DEF Reprocess, Enqueue
    <3>2. \A x \in Key : jobs'[x] = jobs[x] \/ Holds(p, x)'
      BY <2>1, <2>2 DEF Enqueue
    <3> QED
      BY <3>1, <3>2, HoldersStay
  <2>3. CASE UNCHANGED <<jobs, launching>>
    <3>1. UNCHANGED <<jobs, launching, phase, slip, work>>
      BY <1>10, <2>3 DEF Reprocess
    <3> QED BY <3>1
  <2> QED
    BY <1>10, <2>2, <2>3 DEF Reprocess
<1>11. ASSUME NEW p \in Replica, NEW e \in marking[p], MarkReprocessed(p, e) PROVE FoundInv'
  BY <1>11 DEF MarkReprocessed
<1>12. ASSUME NEW p \in Replica, Crash(p) PROVE FoundInv'
  BY <1>12 DEF Crash
<1>13. ASSUME NEW p \in Replica, Restart(p) PROVE FoundInv'
  BY <1>13 DEF Restart
<1>14. ASSUME NEW p \in Replica, Recover(p) PROVE FoundInv'
  BY <1>14 DEF Recover
<1>15. CASE ElectionMoves
  BY <1>15 DEF ElectionMoves
<1>17. ASSUME NEW p \in Replica, NEW k \in Key, RecordSync(p, k) PROVE FoundInv'
  BY <1>17 DEF RecordSync
<1>16. CASE UNCHANGED vars
  BY <1>16 DEF vars
<1> HIDE DEF IInv, TypeOK, database, memory, MemoryInv, FoundInv, Findable, Holds, Unfinished
<1> QED
  BY <1>1, <1>2, <1>3, <1>4, <1>5, <1>6, <1>7, <1>8, <1>9, <1>10, <1>11, <1>12, <1>13, <1>14, <1>15, <1>16, <1>17 DEF Next, Process

\* Completed and synced keep their meaning: the store only grows.
LEMMA StepKeepsMeaning ==
  ASSUME IInv, [Next]_vars
  PROVE  CompletedAccounted' /\ SyncedAccounted'
<1> USE BoundsAssumption DEF IInv, TypeOK, database, memory, MemoryInv, CompletedAccounted, SyncedAccounted
<1>0. \A i : Accounted(i) => Accounted(i)'
  BY StoreGrows
<1> USE <1>0
<1>1. ASSUME NEW p \in Replica, NEW k \in Key, Submit(p, k) PROVE CompletedAccounted' /\ SyncedAccounted'
  BY <1>1 DEF Submit, Enqueue
<1>2. ASSUME NEW p \in Replica, NEW k \in Key, Launch(p, k) PROVE CompletedAccounted' /\ SyncedAccounted'
  BY <1>2 DEF Launch, Set
<1>3. ASSUME NEW p \in Replica, NEW k \in Key, Start(p, k) PROVE CompletedAccounted' /\ SyncedAccounted'
  BY <1>3 DEF Start, dbExecLog, Set
<1>4. ASSUME NEW p \in Replica, NEW k \in Key, Apply(p, k) PROVE CompletedAccounted' /\ SyncedAccounted'
  BY <1>4 DEF Apply, Write, Set
<1>5. ASSUME NEW p \in Replica, NEW k \in Key, MarkSynced(p, k) PROVE CompletedAccounted' /\ SyncedAccounted'
  BY <1>5 DEF MarkSynced, Set
<1>6. ASSUME NEW p \in Replica, NEW k \in Key, AttemptFails(p, k) PROVE CompletedAccounted' /\ SyncedAccounted'
  BY <1>6 DEF AttemptFails, Set
<1>7. ASSUME NEW p \in Replica, NEW k \in Key, Complete(p, k) PROVE CompletedAccounted' /\ SyncedAccounted'
  BY <1>7 DEF Complete, EndsAs, Set
<1>8. ASSUME NEW p \in Replica, NEW k \in Key, WriteDeadLetter(p, k) PROVE CompletedAccounted' /\ SyncedAccounted'
  BY <1>8 DEF WriteDeadLetter, Set
<1>9. ASSUME NEW p \in Replica, NEW k \in Key, MarkDead(p, k) PROVE CompletedAccounted' /\ SyncedAccounted'
  BY <1>9 DEF MarkDead, EndsAs, Set
<1>10. ASSUME NEW p \in Replica, NEW e \in dlq, Reprocess(p, e) PROVE CompletedAccounted' /\ SyncedAccounted'
  BY <1>10 DEF Reprocess, Enqueue
<1>11. ASSUME NEW p \in Replica, NEW e \in marking[p], MarkReprocessed(p, e) PROVE CompletedAccounted' /\ SyncedAccounted'
  BY <1>11 DEF MarkReprocessed
<1>12. ASSUME NEW p \in Replica, Crash(p) PROVE CompletedAccounted' /\ SyncedAccounted'
  BY <1>12 DEF Crash
<1>13. ASSUME NEW p \in Replica, Restart(p) PROVE CompletedAccounted' /\ SyncedAccounted'
  BY <1>13 DEF Restart
<1>14. ASSUME NEW p \in Replica, Recover(p) PROVE CompletedAccounted' /\ SyncedAccounted'
  BY <1>14 DEF Recover
<1>15. CASE ElectionMoves
  BY <1>15 DEF ElectionMoves
<1>17. ASSUME NEW p \in Replica, NEW k \in Key, RecordSync(p, k) PROVE CompletedAccounted' /\ SyncedAccounted'
  BY <1>17 DEF RecordSync
<1>16. CASE UNCHANGED vars
  BY <1>16 DEF vars
<1> HIDE DEF IInv, TypeOK, database, memory, MemoryInv, CompletedAccounted, SyncedAccounted
<1> QED
  BY <1>1, <1>2, <1>3, <1>4, <1>5, <1>6, <1>7, <1>8, <1>9, <1>10, <1>11, <1>12, <1>13, <1>14, <1>15, <1>16, <1>17 DEF Next, Process

LEMMA IInvHolds == Spec => []IInv
<1>1. Init => IInv
  <2> SUFFICES ASSUME Init PROVE IInv
    OBVIOUS
  <2> USE BoundsAssumption DEF Init
  <2>1. TypeOK
    BY DEF TypeOK
  <2>2. MemoryInv /\ FoundInv /\ CompletedAccounted /\ SyncedAccounted
    BY DEF MemoryInv, Holds, FoundInv, Unfinished, CompletedAccounted, SyncedAccounted
  <2> QED
    BY <2>1, <2>2 DEF IInv
<1>2. IInv /\ [Next]_vars => IInv'
  BY StepKeepsTypes, StepKeepsMemory, StepKeepsFound, StepKeepsMeaning DEF IInv
<1> QED
  BY <1>1, <1>2, PTL DEF Spec

-----------------------------------------------------------------------------
\* The state of the queue keeps its shape; no job is attempted more than
\* MaxRetries + 1 times in a row (processJob).
THEOREM TypeCorrect == Spec => []TypeOK
BY IInvHolds, PTL DEF IInv

\* The unit of a completed job's item has a row in the canonical store
\* (processJob, processResultIngestion).
THEOREM CompletedIsAccounted == Spec => []CompletedAccounted
BY IInvHolds, PTL DEF IInv

\* The unit of a synced offline item has a row in the canonical store
\* (processOfflineSync).
THEOREM SyncedIsAccounted == Spec => []SyncedAccounted
BY IInvHolds, PTL DEF IInv

\* No number of crashes, restarts and concurrent recoveries strands a job: only
\* an error of the database that hits the job's own statements does, and a job
\* that ended well before that is accounted for (recoverPendingJobs, processJob).
THEOREM NothingStranded == Spec => []NoJobStranded
<1>1. IInv => NoJobStranded
  BY DEF IInv, TypeOK, FoundInv, Findable, MemoryInv, Holds, NoJobStranded, Queued
<1> QED
  BY <1>1, IInvHolds, PTL

-----------------------------------------------------------------------------
\* One process at a time.
OneProcess == \A p, q \in Replica : p = q

\* What the process holds is unfinished, and queued at most once.
HeldInv ==
    \A p \in Replica, k \in Key :
        /\ Holds(p, k) => jobs[k] \in Unfinished
        /\ k \in launching[p] => work[p][k] = "none"

\* With one process no step touches a job that ended.
LEMMA StepKeepsHeld ==
  ASSUME OneProcess, IInv, HeldInv, [Next]_vars
  PROVE  HeldInv' /\ \A k \in Key : jobs[k] \in Terminal => jobs'[k] = jobs[k]
<1> DEFINE Ends == \A k \in Key : jobs[k] \in Terminal => jobs'[k] = jobs[k]
<1> SUFFICES HeldInv' /\ Ends
  OBVIOUS
<1> USE DEF OneProcess, IInv, TypeOK, MemoryInv, HeldInv, Holds, database, memory, Unfinished, Terminal
<1>1. ASSUME NEW p \in Replica, NEW k \in Key, Submit(p, k) PROVE HeldInv' /\ Ends
  BY <1>1 DEF Submit, Enqueue
<1>2. ASSUME NEW p \in Replica, NEW k \in Key, Launch(p, k) PROVE HeldInv' /\ Ends
  BY <1>2 DEF Launch, Set
<1>3. ASSUME NEW p \in Replica, NEW k \in Key, Start(p, k) PROVE HeldInv' /\ Ends
  BY <1>3 DEF Start, dbExecLog, Set
<1>4. ASSUME NEW p \in Replica, NEW k \in Key, Apply(p, k) PROVE HeldInv' /\ Ends
  BY <1>4 DEF Apply, Write, Set
<1>5. ASSUME NEW p \in Replica, NEW k \in Key, MarkSynced(p, k) PROVE HeldInv' /\ Ends
  BY <1>5 DEF MarkSynced, Set
<1>6. ASSUME NEW p \in Replica, NEW k \in Key, AttemptFails(p, k) PROVE HeldInv' /\ Ends
  BY <1>6 DEF AttemptFails, Set
<1>7. ASSUME NEW p \in Replica, NEW k \in Key, Complete(p, k) PROVE HeldInv' /\ Ends
  <2>1. work' = [work EXCEPT ![p][k] = "none"] /\ UNCHANGED <<phase, launching>>
    BY <1>7 DEF Complete, EndsAs, Set
  <2>2. CASE jobs' = [jobs EXCEPT ![k] = "completed"]
    <3>1. work[p][k] = "settled" /\ k \notin launching[p] /\ jobs[k] \in Unfinished
      BY <1>7 DEF Complete
    <3>2. \A x \in Key \ {k} : jobs'[x] = jobs[x] /\ work'[p][x] = work[p][x]
      BY <2>1, <2>2
    <3>3. work'[p][k] = "none" /\ launching'[p] = launching[p]
      BY <2>1
    <3> QED BY <3>1, <3>2, <3>3
  <2>3. CASE UNCHANGED jobs
    BY <2>1, <2>3
  <2> QED BY <1>7, <2>2, <2>3 DEF Complete, EndsAs
<1>8. ASSUME NEW p \in Replica, NEW k \in Key, WriteDeadLetter(p, k) PROVE HeldInv' /\ Ends
  BY <1>8 DEF WriteDeadLetter, Set
<1>9. ASSUME NEW p \in Replica, NEW k \in Key, MarkDead(p, k) PROVE HeldInv' /\ Ends
  BY <1>9 DEF MarkDead, EndsAs, Set
<1>10. ASSUME NEW p \in Replica, NEW e \in dlq, Reprocess(p, e) PROVE HeldInv' /\ Ends
  <2>1. e.key \in Key /\ Derived(e.key) \in Key
    BY DEF Key, Derived
  <2>2. CASE Enqueue(p, Derived(e.key))
    BY <1>10, <2>1, <2>2 DEF Reprocess, Enqueue
  <2>3. CASE UNCHANGED <<jobs, launching>>
    BY <1>10, <2>3 DEF Reprocess
  <2> QED
    BY <1>10, <2>2, <2>3 DEF Reprocess
<1>11. ASSUME NEW p \in Replica, NEW e \in marking[p], MarkReprocessed(p, e) PROVE HeldInv' /\ Ends
  BY <1>11 DEF MarkReprocessed
<1>12. ASSUME NEW p \in Replica, Crash(p) PROVE HeldInv' /\ Ends
  BY <1>12 DEF Crash
<1>13. ASSUME NEW p \in Replica, Restart(p) PROVE HeldInv' /\ Ends
  BY <1>13 DEF Restart
<1>14. ASSUME NEW p \in Replica, Recover(p) PROVE HeldInv' /\ Ends
  BY <1>14 DEF Recover
<1>15. CASE ElectionMoves
  BY <1>15 DEF ElectionMoves
<1>17. ASSUME NEW p \in Replica, NEW k \in Key, RecordSync(p, k) PROVE HeldInv' /\ Ends
  BY <1>17 DEF RecordSync
<1>16. CASE UNCHANGED vars
  BY <1>16 DEF vars
<1> HIDE DEF Ends, IInv, HeldInv
<1> QED
  BY ONLY [Next]_vars, <1>1, <1>2, <1>3, <1>4, <1>5, <1>6, <1>7, <1>8, <1>9, <1>10, <1>11, <1>12, <1>13, <1>14, <1>15, <1>16, <1>17 DEF Next, Process

\* A job that ended stays ended when one process serves the queue, through
\* any number of restarts (recoverPendingJobs, processJob).
THEOREM EndedJobsStay == OneProcess => (Spec => TerminalStays)
<1> SUFFICES ASSUME OneProcess PROVE Spec => TerminalStays
  OBVIOUS
<1>1. Init => HeldInv
  BY DEF Init, HeldInv, Holds
<1>2. IInv /\ HeldInv /\ [Next]_vars => HeldInv'
  BY StepKeepsHeld
<1>3. IInv /\ HeldInv /\ [Next]_vars
        => [\A k \in Key : jobs[k] \in Terminal => jobs'[k] = jobs[k]]_vars
  BY StepKeepsHeld
<1> QED
  BY <1>1, <1>2, <1>3, IInvHolds, PTL DEF Spec, TerminalStays
=============================================================================
