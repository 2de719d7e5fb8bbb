---------------------------- MODULE MobileProofs -----------------------------
(***************************************************************************)
(* Proofs about the mobile apps: the outbox of the officers, the canvass   *)
(* sync of the campaign app and the session they call with, for any number *)
(* of records, drains, attempts, calls, tokens and kills of the app.       *)
(***************************************************************************)
EXTENDS Outbox, CanvassSync, MobileSession, TLAPS

-----------------------------------------------------------------------------
(* The outbox of the officers                                              *)

DrainPlace == {"idle", "next", "answer", "batch", "outcomes", "denied", "log"}
Word == {"", "ok", "error", "conflict"}
BatchAnswer == {"duplicate", "queued", "rejected"}
Tries == 0 .. (MaxAttempts - 1)
Snap == UNION {[S -> Tries] : S \in SUBSET Row}
Answer == Word \cup UNION {[S -> BatchAnswer] : S \in SUBSET Row}

DrainRec == [at : DrainPlace, kind : {"", "checkin", "report", "result"},
             todo : SUBSET Row, snap : Snap, row : Row \cup {None},
             answer : Answer]

RowKnown == {i \in Row : synced[i] # "absent"}

\* What a drain holds is true of the queue and of the server: K the records
\* of the queue, A those the server has, J its jobs, s the unit's result.
Good(r, K, A, J, s) ==
    /\ \A i \in r.todo : i \in K /\ r.snap[i] \in Tries
    /\ DOMAIN r.snap \subseteq K
    /\ r.at \in {"answer", "log"} => r.row \in K /\ r.snap[r.row] \in Tries
    /\ r.at = "answer" /\ r.answer = "ok" => r.row \in A
    /\ (r.at = "answer" /\ r.answer = "conflict") \/ r.at = "log"
          => r.row \in Result /\ s # None /\ (s = r.row => r.row \in J)
    /\ r.at = "batch" => r.todo \subseteq Result
    /\ r.at = "outcomes" => \A i \in r.todo : r.answer[i] # "rejected" => i \in J

DrainsOK ==
    /\ drain \in [Drain -> DrainRec]
    /\ \A d \in Drain : Good(drain[d], RowKnown, OutboxArrived, job, stands)

\* A result that stands and is this phone's came by its key or by a job.
StandsKnown == stands \in Result => stands \in keyed \cup job

OutboxIndInv == OutboxInv /\ DrainsOK /\ StandsKnown

\* The queue and the server only learn.
Grows ==
    /\ RowKnown \subseteq RowKnown' /\ OutboxArrived \subseteq OutboxArrived'
    /\ job \subseteq job' /\ (stands # None => stands' = stands)

-----------------------------------------------------------------------------
\* What a drain holds stays true while the queue and the server learn.
LEMMA GoodStays ==
  ASSUME NEW r, NEW K, NEW A, NEW J, NEW s, NEW K2, NEW A2, NEW J2, NEW s2,
         Good(r, K, A, J, s), K \subseteq K2, A \subseteq A2, J \subseteq J2,
         s # None => s2 = s
  PROVE  Good(r, K2, A2, J2, s2)
  BY DEF Good

\* A step of one drain, whose new record is true, keeps the others true.
LEMMA OneMoves ==
  ASSUME DrainsOK, Grows, NEW d \in Drain, NEW r \in DrainRec,
         drain' = [drain EXCEPT ![d] = r],
         Good(r, RowKnown', OutboxArrived', job', stands')
  PROVE  DrainsOK'
<1>1. drain' \in [Drain -> DrainRec]
  BY DEF DrainsOK
<1>2. ASSUME NEW e \in Drain
      PROVE  Good(drain'[e], RowKnown', OutboxArrived', job', stands')
  <2>1. CASE e = d
    BY <2>1 DEF DrainsOK
  <2>2. CASE e # d
    <3>1. drain'[e] = drain[e] /\ Good(drain[e], RowKnown, OutboxArrived, job, stands)
      BY <2>2 DEF DrainsOK
    <3> QED
      BY <3>1, GoodStays DEF Grows
  <2> QED BY <2>1, <2>2
<1> QED BY <1>1, <1>2 DEF DrainsOK

\* ... and so does a step of no drain.
LEMMA NoneMoves ==
  ASSUME DrainsOK, Grows, UNCHANGED drain
  PROVE  DrainsOK'
<1>2. ASSUME NEW e \in Drain
      PROVE  Good(drain'[e], RowKnown', OutboxArrived', job', stands')
  BY GoodStays DEF DrainsOK, Grows
<1> QED BY <1>2 DEF DrainsOK

LEMMA IdleGood ==
  ASSUME NEW K, NEW A, NEW J, NEW s
  PROVE  Idle \in DrainRec /\ Good(Idle, K, A, J, s)
<1>1. <<>> \in [{} -> Tries]
  OBVIOUS
<1>2. <<>> \in Snap
  BY <1>1 DEF Snap
<1> QED BY <1>2 DEF Idle, DrainRec, Good, DrainPlace, Answer, Word

\* The record of a drain is made of its parts.
LEMMA Parts ==
  ASSUME NEW D \in DrainRec
  PROVE  /\ D = [at |-> D.at, kind |-> D.kind, todo |-> D.todo, snap |-> D.snap,
                 row |-> D.row, answer |-> D.answer]
         /\ D.todo \subseteq Row /\ D.at \in DrainPlace /\ D.snap \in Snap
         /\ D.answer \in Answer /\ D.row \in Row \cup {None}
         /\ D.kind \in {"", "checkin", "report", "result"}
  BY DEF DrainRec

\* A step of one drain that leaves the conflict log alone keeps the invariant
\* if the new record is true and only this drain parks a result.
LEMMA Moves ==
  ASSUME OutboxIndInv, Grows, OutboxTypeOK', StandsKnown',
         NEW d \in Drain, ~At(d, "log"), NEW r \in DrainRec,
         drain' = [drain EXCEPT ![d] = r],
         Good(r, RowKnown', OutboxArrived', job', stands'),
         UNCHANGED <<log, cut>>,
         \A i \in Result : synced'[i] = "parked"
             => synced[i] = "parked" \/ (r.at = "log" /\ r.row = i)
  PROVE  OutboxIndInv'
<1>1. DrainsOK'
  BY OneMoves DEF OutboxIndInv
<1>2. ConflictHasRival'
  BY DEF OutboxIndInv, OutboxInv, ConflictHasRival, Grows
<1>3. \A e \in Drain : At(e, "log") => drain'[e] = drain[e]
  BY DEF OutboxIndInv, DrainsOK, At
<1>4. drain'[d] = r
  BY DEF OutboxIndInv, DrainsOK
<1>5. ParkedAreLogged'
  BY <1>3, <1>4 DEF OutboxIndInv, OutboxInv, ParkedAreLogged, At
<1> QED
  BY <1>1, <1>2, <1>5 DEF OutboxIndInv, OutboxInv

\* The same for a step of no drain.
LEMMA Stays ==
  ASSUME OutboxIndInv, Grows, OutboxTypeOK', StandsKnown', UNCHANGED <<drain, log, cut>>,
         \A i \in Result : synced'[i] = "parked" => synced[i] = "parked"
  PROVE  OutboxIndInv'
<1>1. DrainsOK'
  BY NoneMoves DEF OutboxIndInv
<1>2. ConflictHasRival'
  BY DEF OutboxIndInv, OutboxInv, ConflictHasRival, Grows
<1>3. ParkedAreLogged'
  BY DEF OutboxIndInv, OutboxInv, ParkedAreLogged, At
<1> QED
  BY <1>1, <1>2, <1>3 DEF OutboxIndInv, OutboxInv

\* A drain that moves alone.
LEMMA MovesAlone ==
  ASSUME OutboxIndInv, UNCHANGED <<localVars, serverVars>>,
         NEW d \in Drain, ~At(d, "log"), NEW r \in DrainRec,
         drain' = [drain EXCEPT ![d] = r],
         Good(r, RowKnown, OutboxArrived, job, stands), r.at # "log"
  PROVE  OutboxIndInv'
<1>1. /\ RowKnown' = RowKnown /\ OutboxArrived' = OutboxArrived /\ job' = job
      /\ stands' = stands /\ keyed' = keyed /\ synced' = synced
  BY DEF localVars, serverVars, RowKnown, OutboxArrived
<1>2. Grows /\ StandsKnown'
  BY <1>1 DEF OutboxIndInv, Grows, StandsKnown
<1>3. OutboxTypeOK'
  BY DEF OutboxIndInv, OutboxInv, OutboxTypeOK, localVars, serverVars
<1> QED
  BY <1>1, <1>2, <1>3, Moves DEF localVars

\* What a drain reads is a true record.
LEMMA SnapshotGood ==
  ASSUME OutboxIndInv, NEW kind \in {"checkin", "report", "result"}, NEW S \in SUBSET Row
  PROVE  /\ Snapshot(kind, S) \in DrainRec
         /\ Good(Snapshot(kind, S), RowKnown, OutboxArrived, job, stands)
         /\ Snapshot(kind, S).todo \subseteq S
<1> DEFINE Todo == {i \in Pending(S) : shouldAttempt(i)}
           f == [i \in {j \in Pending(S) : shouldAttempt(j)} |-> attempts[i]]
<1>1. Todo \in SUBSET Row /\ Todo \subseteq S
  BY DEF Pending
<1>2. \A i \in Todo : attempts[i] \in Tries /\ i \in RowKnown
  BY OutboxAssumption DEF OutboxIndInv, OutboxInv, OutboxTypeOK, Tries, Pending, shouldAttempt, RowKnown
<1>3. f \in [Todo -> Tries]
  BY <1>2
<1>4. f \in Snap
  BY <1>1, <1>3 DEF Snap
<1>5. DOMAIN f = Todo /\ \A i \in Todo : f[i] \in Tries
  BY <1>3
<1>6. /\ Snapshot(kind, S).at = "next" /\ Snapshot(kind, S).todo = Todo
      /\ Snapshot(kind, S).snap = f
  BY DEF Snapshot
<1>7. Snapshot(kind, S) \in DrainRec
  <2>1. ASSUME NEW t \in SUBSET Row, NEW g \in Snap
        PROVE  [at |-> "next", kind |-> kind, row |-> None, answer |-> "",
                todo |-> t, snap |-> g] \in DrainRec
    BY DEF DrainRec, DrainPlace, Answer, Word
  <2> QED
    BY <1>1, <1>4, <2>1 DEF Snapshot
<1>8. Good(Snapshot(kind, S), RowKnown, OutboxArrived, job, stands)
  <2> HIDE DEF Todo, f
  <2> QED BY <1>2, <1>5, <1>6 DEF Good
<1> QED
  BY <1>1, <1>6, <1>7, <1>8

-----------------------------------------------------------------------------
(* How the record of a drain changes                                       *)

LEMMA TakeIs ==
  ASSUME drain \in [Drain -> DrainRec], NEW d \in Drain, NEW i \in Row, Take(d, i)
  PROVE  \E r \in DrainRec :
            /\ drain' = [drain EXCEPT ![d] = r]
            /\ r.at = "next" /\ r.row = None /\ r.answer = ""
            /\ r.todo = drain[d].todo \ {i} /\ r.snap = drain[d].snap
<1> DEFINE r == [at |-> "next", kind |-> drain[d].kind, todo |-> drain[d].todo \ {i},
                 snap |-> drain[d].snap, row |-> None, answer |-> ""]
<1>1. r \in DrainRec
  BY DEF DrainRec, DrainPlace, Answer, Word
<1>2. drain' = [drain EXCEPT ![d] = r]
  BY DEF Take, With
<1> QED BY <1>1, <1>2

LEMMA GotoIs ==
  ASSUME drain \in [Drain -> DrainRec], NEW d \in Drain, NEW p \in DrainPlace, Goto(d, p)
  PROVE  \E r \in DrainRec :
            /\ drain' = [drain EXCEPT ![d] = r]
            /\ r.at = p /\ r.row = drain[d].row /\ r.answer = drain[d].answer
            /\ r.todo = drain[d].todo /\ r.snap = drain[d].snap
<1> DEFINE r == [drain[d] EXCEPT !.at = p]
<1>1. r \in DrainRec
  BY DEF DrainRec
<1>2. /\ r.at = p /\ r.row = drain[d].row /\ r.answer = drain[d].answer
      /\ r.todo = drain[d].todo /\ r.snap = drain[d].snap
  BY DEF DrainRec
<1>3. drain' = [drain EXCEPT ![d] = r]
  BY DEF Goto
<1> QED BY <1>1, <1>2, <1>3

\* The row that is done with leaves the list, and the drain may end.
LEMMA DropIs ==
  ASSUME drain \in [Drain -> DrainRec], NEW d \in Drain, NEW i,
         drain' = IF drain[d].todo = {i} THEN [drain EXCEPT ![d] = Idle]
                  ELSE [drain EXCEPT ![d].todo = @ \ {i}]
  PROVE  \E r \in DrainRec :
            /\ drain' = [drain EXCEPT ![d] = r]
            /\ \/ r = Idle
               \/ /\ r.at = drain[d].at /\ r.row = drain[d].row
                  /\ r.answer = drain[d].answer
                  /\ r.todo = drain[d].todo \ {i} /\ r.snap = drain[d].snap
<1>1. CASE drain[d].todo = {i}
  BY <1>1, IdleGood
<1>2. CASE drain[d].todo # {i}
  <2> DEFINE r == [drain[d] EXCEPT !.todo = @ \ {i}]
  <2>1. r \in DrainRec
    BY DEF DrainRec
  <2>2. /\ r.at = drain[d].at /\ r.row = drain[d].row
        /\ r.answer = drain[d].answer
        /\ r.todo = drain[d].todo \ {i} /\ r.snap = drain[d].snap
    BY DEF DrainRec
  <2>3. drain' = [drain EXCEPT ![d] = r]
    BY <1>2
  <2> QED BY <2>1, <2>2, <2>3
<1> QED BY <1>1, <1>2

-----------------------------------------------------------------------------
(* The actions keep the invariant                                          *)

LEMMA Reads ==
  ASSUME OutboxIndInv, NEW d \in Drain,
         \/ StartData(d) \/ StartReports(d) \/ StartResults(d) \/ EndDrain(d)
         \/ resolveSyncDeviceId(d)
  PROVE  OutboxIndInv'
<1>1. CASE StartData(d)
  <2>1. Checkin \subseteq Row
    BY DEF Row, Plain
  <2>2. Snapshot("checkin", Checkin).at = "next"
    BY DEF Snapshot
  <2> QED
    BY <1>1, <2>1, <2>2, SnapshotGood, MovesAlone DEF StartData, At
<1>2. CASE StartReports(d)
  <2>1. Report \subseteq Row
    BY DEF Row, Plain
  <2>2. Snapshot("report", Report).at = "next"
    BY DEF Snapshot
  <2> QED
    BY <1>2, <2>1, <2>2, SnapshotGood, MovesAlone DEF StartReports, At
<1>3. CASE StartResults(d)
  <2> DEFINE p == Snapshot("result", Result)
             r == [p EXCEPT !.at = "batch"]
  <2>1. Result \in SUBSET Row
    BY DEF Row
  <2>2. /\ p \in DrainRec /\ Good(p, RowKnown, OutboxArrived, job, stands)
        /\ p.todo \subseteq Result
    BY <2>1, SnapshotGood
  <2> HIDE DEF p
  <2>3. r \in DrainRec /\ r.at = "batch" /\ r.todo = p.todo /\ r.snap = p.snap
    BY <2>2 DEF DrainRec, DrainPlace
  <2>4. drain' = [drain EXCEPT ![d] = r]
    BY <1>3 DEF StartResults, p
  <2> HIDE DEF r
  <2>5. Good(r, RowKnown, OutboxArrived, job, stands)
    BY <2>2, <2>3 DEF Good
  <2> QED
    BY <1>3, <2>3, <2>4, <2>5, MovesAlone DEF StartResults, At
<1>4. CASE EndDrain(d)
  <2>1. Idle.at = "idle"
    BY DEF Idle
  <2> QED
    BY <1>4, <2>1, IdleGood, MovesAlone DEF EndDrain, At
<1>5. CASE resolveSyncDeviceId(d)
  <2>1. PICK r \in DrainRec :
            /\ drain' = [drain EXCEPT ![d] = r]
            /\ r.at = "next" /\ r.todo = drain[d].todo /\ r.snap = drain[d].snap
    BY <1>5, GotoIs DEF OutboxIndInv, DrainsOK, resolveSyncDeviceId, DrainPlace
  <2>2. Good(r, RowKnown, OutboxArrived, job, stands)
    BY <2>1 DEF OutboxIndInv, DrainsOK, Good
  <2> QED
    BY <1>5, <2>1, <2>2, MovesAlone DEF resolveSyncDeviceId, At
<1> QED BY <1>1, <1>2, <1>3, <1>4, <1>5

\* A failed attempt: only the count of attempts changes.
LEMMA Failure ==
  ASSUME OutboxIndInv, NEW d \in Drain, NEW i \in Row, drain[d].snap[i] \in Tries,
         recordFailure(d, i)
  PROVE  /\ OutboxTypeOK' /\ StandsKnown' /\ Grows
         /\ UNCHANGED <<synced, log, cut, job, stands>>
         /\ RowKnown' = RowKnown /\ OutboxArrived' = OutboxArrived
<1>1. UNCHANGED <<synced, log, cut, gone, lives, job, keyed, stands, copies>>
  BY DEF recordFailure, serverVars
<1>2. drain[d].snap[i] + 1 \in 0 .. MaxAttempts
  BY OutboxAssumption DEF Tries
<1>3. attempts' \in [Row -> 0 .. MaxAttempts]
  BY <1>2 DEF recordFailure, OutboxIndInv, OutboxInv, OutboxTypeOK
<1>4. OutboxTypeOK'
  BY <1>1, <1>3 DEF OutboxIndInv, OutboxInv, OutboxTypeOK
<1>5. RowKnown' = RowKnown /\ OutboxArrived' = OutboxArrived
  BY <1>1 DEF RowKnown, OutboxArrived
<1> QED
  BY <1>1, <1>4, <1>5 DEF OutboxIndInv, StandsKnown, Grows

\* A row that is settled: only its mark changes.
LEMMA Settled ==
  ASSUME OutboxIndInv, NEW i \in RowKnown, MarkSynced(i)
  PROVE  /\ OutboxTypeOK' /\ StandsKnown' /\ Grows
         /\ UNCHANGED <<log, cut, job, stands>>
         /\ RowKnown' = RowKnown /\ OutboxArrived' = OutboxArrived
         /\ \A j \in Result : synced'[j] = "parked" => synced[j] = "parked"
<1>1. UNCHANGED <<attempts, log, cut, gone, lives, job, keyed, stands, copies>>
  BY DEF MarkSynced, serverVars
<1>2. i \in Row /\ synced[i] # "absent"
  BY DEF RowKnown
<1>3. /\ synced' \in [Row -> {"absent", "pending", "synced", "parked"}]
      /\ \A j \in Row : synced'[j] = IF j = i THEN "synced" ELSE synced[j]
  BY <1>2 DEF MarkSynced, OutboxIndInv, OutboxInv, OutboxTypeOK
<1>4. OutboxTypeOK'
  BY <1>1, <1>3 DEF OutboxIndInv, OutboxInv, OutboxTypeOK
<1>5. RowKnown' = RowKnown /\ OutboxArrived' = OutboxArrived
  BY <1>1, <1>2, <1>3 DEF RowKnown, OutboxArrived
<1>6. \A j \in Result : synced'[j] = "parked" => synced[j] = "parked"
  BY <1>3 DEF Row
<1> QED
  BY <1>1, <1>4, <1>5, <1>6 DEF OutboxIndInv, StandsKnown, Grows

LEMMA Answers ==
  ASSUME OutboxIndInv, NEW d \in Drain, SettleAnswer(d) \/ FailAnswer(d)
  PROVE  OutboxIndInv'
<1>0. /\ drain \in [Drain -> DrainRec]
      /\ Good(drain[d], RowKnown, OutboxArrived, job, stands)
      /\ At(d, "answer") /\ Take(d, drain[d].row)
  BY DEF OutboxIndInv, DrainsOK, SettleAnswer, FailAnswer
<1>1. PICK r \in DrainRec :
          /\ drain' = [drain EXCEPT ![d] = r]
          /\ r.at = "next" /\ r.row = None /\ r.answer = ""
          /\ r.todo = drain[d].todo \ {drain[d].row} /\ r.snap = drain[d].snap
  <2>1. drain[d].row \in Row
    BY <1>0 DEF Good, At, RowKnown
  <2> QED
    BY <1>0, <2>1, TakeIs, Zenon
<1>2. Good(r, RowKnown, OutboxArrived, job, stands)
  BY <1>0, <1>1 DEF Good
<1>3. drain[d].row \in RowKnown /\ drain[d].snap[drain[d].row] \in Tries /\ RowKnown \subseteq Row
  BY <1>0 DEF Good, At, RowKnown
<1>4. CASE SettleAnswer(d)
  <2>1. MarkSynced(drain[d].row)
    BY <1>4 DEF SettleAnswer
  <2> QED
    BY <1>0, <1>1, <1>2, <1>3, <2>1, Settled, Moves DEF At
<1>5. CASE FailAnswer(d)
  <2>1. recordFailure(d, drain[d].row)
    BY <1>5 DEF FailAnswer
  <2> QED
    BY <1>0, <1>1, <1>2, <1>3, <2>1, Failure, Moves DEF At
<1> QED BY <1>4, <1>5

LEMMA Outcome ==
  ASSUME OutboxIndInv, NEW d \in Drain, NEW i \in Row, ApplyOutcome(d, i) \/ DeniedRow(d, i)
  PROVE  OutboxIndInv'
<1>0. /\ drain \in [Drain -> DrainRec]
      /\ Good(drain[d], RowKnown, OutboxArrived, job, stands)
      /\ At(d, "outcomes") \/ At(d, "denied")
      /\ i \in drain[d].todo
  BY DEF OutboxIndInv, DrainsOK, ApplyOutcome, DeniedRow, First
<1>1. PICK r \in DrainRec :
          /\ drain' = [drain EXCEPT ![d] = r]
          /\ \/ r = Idle
             \/ /\ r.at = drain[d].at /\ r.answer = drain[d].answer
                /\ r.todo = drain[d].todo \ {i} /\ r.snap = drain[d].snap
  BY <1>0, DropIs DEF ApplyOutcome, DeniedRow
<1>2. Good(r, RowKnown, OutboxArrived, job, stands)
  <2>1. CASE r = Idle
    BY <2>1, IdleGood
  <2>2. CASE r # Idle
    BY <1>0, <1>1, <2>2 DEF Good, At
  <2> QED BY <2>1, <2>2
<1>3. i \in RowKnown /\ drain[d].snap[i] \in Tries
  BY <1>0 DEF Good
<1>4. CASE MarkSynced(i)
  BY <1>0, <1>1, <1>2, <1>3, <1>4, Settled, Moves DEF At
<1>5. CASE recordFailure(d, i)
  BY <1>0, <1>1, <1>2, <1>3, <1>5, Failure, Moves DEF At
<1> QED
  BY <1>4, <1>5 DEF ApplyOutcome, DeniedRow

LEMMA RefusedKeeps ==
  ASSUME OutboxIndInv, NEW d \in Drain, NEW i \in Row, RefusePhoto(d, i)
  PROVE  OutboxIndInv'
<1>0. /\ drain \in [Drain -> DrainRec]
      /\ Good(drain[d], RowKnown, OutboxArrived, job, stands)
      /\ At(d, "next") /\ Take(d, i) /\ recordFailure(d, i) /\ i \in drain[d].todo
  BY DEF OutboxIndInv, DrainsOK, RefusePhoto, First
<1>1. PICK r \in DrainRec :
          /\ drain' = [drain EXCEPT ![d] = r]
          /\ r.at = "next" /\ r.row = None /\ r.answer = ""
          /\ r.todo = drain[d].todo \ {i} /\ r.snap = drain[d].snap
  BY <1>0, TakeIs, Zenon
<1>2. Good(r, RowKnown, OutboxArrived, job, stands) /\ drain[d].snap[i] \in Tries
  BY <1>0, <1>1 DEF Good
<1> QED
  BY <1>0, <1>1, <1>2, Failure, Moves DEF At

\* A request was sent and its answer is held: what the answer says is true.
LEMMA Sent ==
  ASSUME OutboxIndInv, Grows, OutboxTypeOK', StandsKnown', UNCHANGED localVars,
         NEW d \in Drain, NEW i \in Row, i \in drain[d].todo, At(d, "next"),
         NEW a \in Word, Holding(d, i, a),
         a = "ok" => i \in OutboxArrived',
         a = "conflict" => i \in Result /\ stands' # None /\ (stands' = i => i \in job')
  PROVE  OutboxIndInv'
<1>0. /\ drain \in [Drain -> DrainRec]
      /\ Good(drain[d], RowKnown, OutboxArrived, job, stands)
  BY DEF OutboxIndInv, DrainsOK
<1> DEFINE r == [at |-> "answer", kind |-> drain[d].kind, todo |-> drain[d].todo \ {i},
                 snap |-> drain[d].snap, row |-> i, answer |-> a]
<1>1. drain' = [drain EXCEPT ![d] = r] /\ r \in DrainRec
  BY <1>0 DEF Holding, With, DrainRec, DrainPlace, Answer
<1>2. /\ r.at = "answer" /\ r.row = i /\ r.answer = a
      /\ r.todo = drain[d].todo \ {i} /\ r.snap = drain[d].snap
  OBVIOUS
<1> HIDE DEF r
<1>3. RowKnown' = RowKnown /\ synced' = synced /\ UNCHANGED <<log, cut>>
  BY DEF RowKnown, localVars
<1>4. Good(r, RowKnown', OutboxArrived', job', stands')
  BY <1>0, <1>2, <1>3 DEF Good
<1> QED
  BY <1>1, <1>2, <1>3, <1>4, Moves DEF At

LEMMA Posts ==
  ASSUME OutboxIndInv, NEW d \in Drain, NEW i \in Row, Post(d, i)
  PROVE  OutboxIndInv'
<1>0. /\ At(d, "next") /\ i \in drain[d].todo /\ i \in Plain
      /\ UNCHANGED localVars /\ UNCHANGED <<job, keyed, stands>>
      /\ copies \in [Plain -> 0 .. MaxCopies]
  BY DEF Post, First, OutboxIndInv, OutboxInv, OutboxTypeOK
<1>1. CASE UNCHANGED copies /\ Holding(d, i, "error")
  <2>1. OutboxTypeOK' /\ StandsKnown' /\ Grows
    BY <1>0, <1>1 DEF OutboxIndInv, OutboxInv, OutboxTypeOK, StandsKnown, Grows, RowKnown,
                      OutboxArrived, localVars
  <2> QED
    BY <1>0, <1>1, <2>1, Sent DEF Word
<1>2. CASE /\ copies[i] < MaxCopies
           /\ copies' = [copies EXCEPT ![i] = @ + 1]
           /\ Holding(d, i, "ok") \/ Holding(d, i, "error")
  <2>1. /\ copies' \in [Plain -> 0 .. MaxCopies]
        /\ \A p \in Plain : copies'[p] = IF p = i THEN copies[i] + 1 ELSE copies[p]
        /\ copies[i] + 1 > 0
    BY <1>0, <1>2, OutboxAssumption
  <2>2. OutboxArrived \subseteq OutboxArrived' /\ i \in OutboxArrived'
    BY <1>0, <2>1 DEF OutboxArrived
  <2>3. OutboxTypeOK' /\ StandsKnown' /\ Grows
    BY <1>0, <2>1, <2>2 DEF OutboxIndInv, OutboxInv, OutboxTypeOK, StandsKnown, Grows, RowKnown, localVars
  <2> QED
    BY <1>0, <1>2, <2>2, <2>3, Sent DEF Word
<1> QED
  BY <1>1, <1>2 DEF Post

LEMMA Submits ==
  ASSUME OutboxIndInv, NEW d \in Drain, NEW i \in Row, resultsSubmit(d, i)
  PROVE  OutboxIndInv'
<1>0. /\ At(d, "next") /\ i \in drain[d].todo /\ i \in Result
      /\ UNCHANGED localVars /\ UNCHANGED <<job, copies>>
  BY DEF resultsSubmit, First
<1>1. CASE UNCHANGED <<keyed, stands>>
  <2>1. OutboxTypeOK' /\ StandsKnown' /\ Grows
    BY <1>0, <1>1 DEF OutboxIndInv, OutboxInv, OutboxTypeOK, StandsKnown, Grows, RowKnown,
                      OutboxArrived, localVars
  <2>2. CASE Holding(d, i, "error")
    BY <1>0, <2>1, <2>2, Sent DEF Word
  <2>3. CASE i \in keyed /\ Holding(d, i, "ok")
    <3>1. i \in OutboxArrived'
      BY <1>1, <2>3 DEF OutboxArrived
    <3> QED
      BY <1>0, <2>1, <2>3, <3>1, Sent DEF Word
  <2>4. CASE i \notin keyed /\ stands # None /\ Holding(d, i, "conflict")
    <3>1. stands' # None /\ (stands' = i => i \in job')
      BY <1>0, <1>1, <2>4 DEF OutboxIndInv, StandsKnown
    <3> QED
      BY <1>0, <2>1, <2>4, <3>1, Sent DEF Word
  <2>5. CASE /\ stands = None /\ stands' = i
    BY <1>0, <1>1, <2>5, OutboxAssumption
  <2> QED
    BY <2>2, <2>3, <2>4, <2>5 DEF resultsSubmit
<1>2. CASE /\ stands = None /\ stands' = i /\ keyed' = keyed \cup {i}
           /\ Holding(d, i, "ok") \/ Holding(d, i, "error")
  <2>1. OutboxTypeOK' /\ StandsKnown' /\ Grows /\ i \in OutboxArrived'
    BY <1>0, <1>2 DEF OutboxIndInv, OutboxInv, OutboxTypeOK, StandsKnown, Grows, RowKnown,
                      OutboxArrived, localVars
  <2> QED
    BY <1>0, <1>2, <2>1, Sent DEF Word
<1> QED
  BY <1>1, <1>2 DEF resultsSubmit

LEMMA Batches ==
  ASSUME OutboxIndInv, NEW d \in Drain, offlineSync(d)
  PROVE  OutboxIndInv'
<1>0. /\ At(d, "batch") /\ UNCHANGED localVars /\ UNCHANGED <<keyed, stands, copies>>
      /\ drain \in [Drain -> DrainRec]
      /\ Good(drain[d], RowKnown, OutboxArrived, job, stands)
      /\ drain[d].todo \subseteq Result /\ drain[d].todo \in SUBSET Row
  BY DEF offlineSync, OutboxIndInv, DrainsOK, Good, At, DrainRec
<1>1. /\ \/ job' = job
         \/ \E taken \in SUBSET (drain[d].todo \ job) : job' = job \cup taken
  BY DEF offlineSync
<1>2. /\ OutboxTypeOK' /\ StandsKnown' /\ Grows
      /\ RowKnown' = RowKnown /\ synced' = synced /\ UNCHANGED <<log, cut>>
  BY <1>0, <1>1 DEF OutboxIndInv, OutboxInv, OutboxTypeOK, StandsKnown, Grows, RowKnown,
                    OutboxArrived, localVars
<1>3. CASE Goto(d, "next") \/ Goto(d, "denied")
  <2>1. PICK r \in DrainRec :
            /\ drain' = [drain EXCEPT ![d] = r]
            /\ r.at \in {"next", "denied"}
            /\ r.todo = drain[d].todo /\ r.snap = drain[d].snap
    BY <1>0, <1>3, GotoIs DEF DrainPlace
  <2>2. Good(r, RowKnown', OutboxArrived', job', stands')
    BY <1>0, <1>2, <2>1 DEF Good
  <2> QED
    BY <1>0, <1>2, <2>1, <2>2, Moves DEF At
<1>4. ASSUME NEW taken \in SUBSET (drain[d].todo \ job), job' = job \cup taken,
             drain' = [drain EXCEPT ![d].at = "outcomes", ![d].answer = Outcomes(d, taken)]
      PROVE  OutboxIndInv'
  <2> DEFINE o == Outcomes(d, taken)
             r == [drain[d] EXCEPT !.at = "outcomes", !.answer = o]
  <2>1. o \in [drain[d].todo -> BatchAnswer]
    BY DEF Outcomes, BatchAnswer
  <2>2. o \in Answer
    BY <1>0, <2>1 DEF Answer
  <2>3. \A i \in drain[d].todo : o[i] # "rejected" => i \in job'
    BY <1>4 DEF Outcomes
  <2> HIDE DEF o
  <2>4. /\ r \in DrainRec /\ r.at = "outcomes" /\ r.answer = o
        /\ r.todo = drain[d].todo /\ r.snap = drain[d].snap
    BY <1>0, <2>2 DEF DrainRec, DrainPlace
  <2>5. drain' = [drain EXCEPT ![d] = r]
    BY <1>4 DEF o
  <2> HIDE DEF r
  <2>6. Good(r, RowKnown', OutboxArrived', job', stands')
    BY <1>0, <1>2, <2>3, <2>4 DEF Good
  <2> QED
    BY <1>0, <1>2, <2>4, <2>5, <2>6, Moves DEF At
<1> QED
  BY <1>3, <1>4 DEF offlineSync

LEMMA Parks ==
  ASSUME OutboxIndInv, NEW d \in Drain, parkConflict(d)
  PROVE  OutboxIndInv'
<1>0. /\ At(d, "answer") /\ drain[d].answer = "conflict" /\ Goto(d, "log")
      /\ UNCHANGED <<attempts, log, cut, gone, lives, job, keyed, stands, copies>>
      /\ drain \in [Drain -> DrainRec]
      /\ Good(drain[d], RowKnown, OutboxArrived, job, stands)
      /\ synced \in [Row -> {"absent", "pending", "synced", "parked"}]
  BY DEF parkConflict, serverVars, OutboxIndInv, DrainsOK, OutboxInv, OutboxTypeOK
<1>1. drain[d].row \in RowKnown /\ drain[d].row \in Row /\ synced[drain[d].row] # "absent"
  BY <1>0 DEF Good, At, RowKnown
<1>2. /\ synced' \in [Row -> {"absent", "pending", "synced", "parked"}]
      /\ \A j \in Row : synced'[j] = IF j = drain[d].row THEN "parked" ELSE synced[j]
  BY <1>0, <1>1 DEF parkConflict
<1>3. RowKnown' = RowKnown /\ OutboxArrived' = OutboxArrived
  BY <1>0, <1>1, <1>2 DEF RowKnown, OutboxArrived
<1>4. OutboxTypeOK' /\ StandsKnown' /\ Grows
  BY <1>0, <1>2, <1>3 DEF OutboxIndInv, OutboxInv, OutboxTypeOK, StandsKnown, Grows
<1>5. PICK r \in DrainRec :
          /\ drain' = [drain EXCEPT ![d] = r]
          /\ r.at = "log" /\ r.row = drain[d].row
          /\ r.todo = drain[d].todo /\ r.snap = drain[d].snap
  BY <1>0, GotoIs DEF DrainPlace
<1>6. Good(r, RowKnown', OutboxArrived', job', stands')
  BY <1>0, <1>3, <1>5 DEF Good, At
<1>7. \A j \in Result : synced'[j] = "parked"
             => synced[j] = "parked" \/ (r.at = "log" /\ r.row = j)
  BY <1>2, <1>5 DEF Row
<1> QED
  BY <1>0, <1>4, <1>5, <1>6, <1>7, Moves DEF At

LEMMA Logs ==
  ASSUME OutboxIndInv, NEW d \in Drain, LogConflict(d)
  PROVE  OutboxIndInv'
<1>0. /\ At(d, "log") /\ Take(d, drain[d].row) /\ log' = log \cup {drain[d].row}
      /\ UNCHANGED <<synced, attempts, cut, gone, lives, job, keyed, stands, copies>>
      /\ drain \in [Drain -> DrainRec]
      /\ Good(drain[d], RowKnown, OutboxArrived, job, stands)
  BY DEF LogConflict, serverVars, OutboxIndInv, DrainsOK
<1>1. /\ drain[d].row \in Result /\ stands # None
      /\ stands = drain[d].row => drain[d].row \in job
  BY <1>0 DEF Good, At
<1>2. RowKnown' = RowKnown /\ OutboxArrived' = OutboxArrived
  BY <1>0 DEF RowKnown, OutboxArrived
<1>3. OutboxTypeOK' /\ StandsKnown' /\ Grows
  BY <1>0, <1>1, <1>2 DEF OutboxIndInv, OutboxInv, OutboxTypeOK, StandsKnown, Grows
<1>4. ConflictHasRival'
  BY <1>0, <1>1 DEF OutboxIndInv, OutboxInv, ConflictHasRival
<1>5. PICK r \in DrainRec :
          /\ drain' = [drain EXCEPT ![d] = r]
          /\ r.at = "next" /\ r.row = None /\ r.answer = ""
          /\ r.todo = drain[d].todo \ {drain[d].row} /\ r.snap = drain[d].snap
  <2>1. drain[d].row \in Row
    BY <1>1 DEF Row
  <2> QED
    BY <1>0, <2>1, TakeIs, Zenon
<1>6. Good(r, RowKnown', OutboxArrived', job', stands')
  BY <1>0, <1>2, <1>5 DEF Good
<1>7. DrainsOK'
  BY <1>3, <1>5, <1>6, OneMoves DEF OutboxIndInv
<1>8. \A e \in Drain : e # d => drain'[e] = drain[e]
  BY <1>0, <1>5
<1>9. ParkedAreLogged'
  BY <1>0, <1>8 DEF OutboxIndInv, OutboxInv, ParkedAreLogged, At
<1> QED
  BY <1>3, <1>4, <1>7, <1>9 DEF OutboxIndInv, OutboxInv

LEMMA Queues ==
  ASSUME OutboxIndInv, NEW i \in Row, queue(i) \/ PhotoLost(i)
  PROVE  OutboxIndInv'
<1>1. CASE queue(i)
  <2>1. /\ UNCHANGED <<attempts, drain, log, cut, gone, lives, job, keyed, stands, copies>>
        /\ synced[i] = "absent" /\ synced' = [synced EXCEPT ![i] = "pending"]
    BY <1>1 DEF queue, serverVars
  <2>2. /\ synced' \in [Row -> {"absent", "pending", "synced", "parked"}]
        /\ \A j \in Row : synced'[j] = IF j = i THEN "pending" ELSE synced[j]
    BY <2>1 DEF OutboxIndInv, OutboxInv, OutboxTypeOK
  <2>3. OutboxTypeOK' /\ StandsKnown'
    BY <2>1, <2>2 DEF OutboxIndInv, OutboxInv, OutboxTypeOK, StandsKnown
  <2>4. RowKnown \subseteq RowKnown' /\ OutboxArrived' = OutboxArrived
    BY <2>1, <2>2 DEF RowKnown, OutboxArrived
  <2>5. Grows
    BY <2>1, <2>4 DEF Grows
  <2>6. \A j \in Result : synced'[j] = "parked" => synced[j] = "parked"
    BY <2>2 DEF Row
  <2> QED
    BY <2>1, <2>3, <2>5, <2>6, Stays
<1>2. CASE PhotoLost(i)
  <2>1. /\ UNCHANGED <<synced, attempts, drain, log, cut, lives, job, keyed, stands, copies>>
        /\ i \in Report /\ gone' = gone \cup {i}
    BY <1>2 DEF PhotoLost, serverVars
  <2>2. OutboxTypeOK' /\ StandsKnown'
    BY <2>1 DEF OutboxIndInv, OutboxInv, OutboxTypeOK, StandsKnown
  <2>3. Grows
    BY <2>1 DEF Grows, RowKnown, OutboxArrived
  <2> QED
    BY <2>1, <2>2, <2>3, Stays
<1> QED BY <1>1, <1>2

LEMMA Serves ==
  ASSUME OutboxIndInv, OtherSubmits \/ \E i \in Result : ApplyJob(i)
  PROVE  OutboxIndInv'
<1>1. /\ UNCHANGED <<drain, synced, attempts, log, cut, gone, lives, job, keyed, copies>>
      /\ stands = None
      /\ stands' = Other \/ (stands' \in Result /\ stands' \in job)
  BY DEF OtherSubmits, ApplyJob, localVars
<1>2. OutboxTypeOK' /\ StandsKnown'
  BY <1>1, OutboxAssumption DEF OutboxIndInv, OutboxInv, OutboxTypeOK, StandsKnown
<1>3. Grows
  BY <1>1 DEF Grows, RowKnown, OutboxArrived
<1> QED
  BY <1>1, <1>2, <1>3, Stays

LEMMA Kills ==
  ASSUME OutboxIndInv, Kill
  PROVE  OutboxIndInv'
<1>0. /\ UNCHANGED <<synced, attempts, log, gone, job, keyed, stands, copies>>
      /\ drain' = [d \in Drain |-> Idle]
      /\ cut' = cut \cup {drain[d].row : d \in {e \in Drain : At(e, "log")}}
  BY DEF Kill, serverVars
<1>1. \A d \in Drain : At(d, "log") => drain[d].row \in Result
  BY DEF OutboxIndInv, DrainsOK, Good, At
<1>2. OutboxTypeOK' /\ StandsKnown' /\ ConflictHasRival'
  BY <1>0, <1>1 DEF OutboxIndInv, OutboxInv, OutboxTypeOK, StandsKnown, ConflictHasRival
<1>3. DrainsOK'
  BY <1>0, IdleGood DEF DrainsOK
<1>4. ParkedAreLogged'
  BY <1>0 DEF OutboxIndInv, OutboxInv, ParkedAreLogged, At
<1> QED
  BY <1>2, <1>3, <1>4 DEF OutboxIndInv, OutboxInv

LEMMA Throws ==
  ASSUME OutboxIndInv, NEW d \in Drain, WriteThrows(d)
  PROVE  OutboxIndInv'
<1>0. /\ UNCHANGED <<synced, attempts, log, gone, job, keyed, stands, copies>>
      /\ drain \in [Drain -> DrainRec] /\ drain[d] \in DrainRec
      /\ Good(drain[d], RowKnown, OutboxArrived, job, stands)
  BY DEF WriteThrows, serverVars, OutboxIndInv, DrainsOK
<1>1. RowKnown' = RowKnown /\ OutboxArrived' = OutboxArrived /\ StandsKnown' /\ Grows
  BY <1>0 DEF RowKnown, OutboxArrived, Grows, OutboxIndInv, StandsKnown
<1>2. ASSUME NEW r \in DrainRec, drain' = [drain EXCEPT ![d] = r], ~At(d, "log"),
             Good(r, RowKnown, OutboxArrived, job, stands), UNCHANGED cut
      PROVE  OutboxIndInv'
  <2>1. OutboxTypeOK'
    BY <1>0, <1>2 DEF OutboxIndInv, OutboxInv, OutboxTypeOK
  <2>2. Good(r, RowKnown', OutboxArrived', job', stands')
    BY <1>0, <1>1, <1>2
  <2> QED
    BY <1>0, <1>1, <1>2, <2>1, <2>2, Moves
<1>3. CASE /\ At(d, "answer") /\ drain[d].answer = "ok"
           /\ drain' = [drain EXCEPT ![d].answer = "error"] /\ UNCHANGED cut
  <2> DEFINE r == [drain[d] EXCEPT !.answer = "error"]
  <2>1. r \in DrainRec
    BY <1>0 DEF DrainRec, Answer, Word
  <2>2. /\ r.at = "answer" /\ r.row = drain[d].row /\ r.answer = "error"
        /\ r.todo = drain[d].todo /\ r.snap = drain[d].snap
    BY <1>0, <1>3 DEF DrainRec, At
  <2>3. drain' = [drain EXCEPT ![d] = r]
    BY <1>3
  <2> HIDE DEF r
  <2>4. Good(r, RowKnown, OutboxArrived, job, stands)
    BY <1>0, <1>3, <2>2 DEF Good, At
  <2>5. ~At(d, "log")
    BY <1>3 DEF At
  <2> QED
    BY <1>2, <1>3, <2>1, <2>3, <2>4, <2>5
<1>4. CASE /\ At(d, "outcomes")
           /\ drain' = [drain EXCEPT ![d].at = "next", ![d].answer = "",
                                     ![d].todo = DOMAIN drain[d].snap]
           /\ UNCHANGED cut
  <2> DEFINE r == [drain[d] EXCEPT !.at = "next", !.answer = "",
                                   !.todo = DOMAIN drain[d].snap]
  <2>1. PICK S \in SUBSET Row : drain[d].snap \in [S -> Tries]
    BY <1>0 DEF DrainRec, Snap
  <2>2. r \in DrainRec
    BY <1>0, <2>1 DEF DrainRec, DrainPlace, Answer, Word
  <2>3. /\ r.at = "next" /\ r.row = drain[d].row /\ r.answer = ""
        /\ r.todo = DOMAIN drain[d].snap /\ r.snap = drain[d].snap
    BY <1>0 DEF DrainRec
  <2>4. drain' = [drain EXCEPT ![d] = r]
    BY <1>4
  <2> HIDE DEF r
  <2>5. Good(r, RowKnown, OutboxArrived, job, stands)
    BY <1>0, <2>1, <2>3 DEF Good
  <2>6. ~At(d, "log")
    BY <1>4 DEF At
  <2> QED
    BY <1>2, <1>4, <2>2, <2>4, <2>5, <2>6
<1>5. CASE /\ drain' = [drain EXCEPT ![d] = Idle]
           /\ cut' = IF At(d, "log") THEN cut \cup {drain[d].row} ELSE cut
  <2>1. CASE ~At(d, "log")
    BY <1>2, <1>5, <2>1, IdleGood
  <2>2. CASE At(d, "log")
    <3>1. drain[d].row \in Result /\ cut' = cut \cup {drain[d].row}
      BY <1>0, <1>5, <2>2 DEF Good, At
    <3>2. OutboxTypeOK' /\ ConflictHasRival'
      BY <1>0, <3>1 DEF OutboxIndInv, OutboxInv, OutboxTypeOK, ConflictHasRival
    <3>3. Good(Idle, RowKnown', OutboxArrived', job', stands') /\ Idle \in DrainRec
      BY IdleGood
    <3>4. DrainsOK'
      BY <1>1, <1>5, <3>3, OneMoves DEF OutboxIndInv
    <3>5. \A e \in Drain : e # d => drain'[e] = drain[e]
      BY <1>0, <1>5
    <3>6. ParkedAreLogged'
      BY <1>0, <3>1, <3>5 DEF OutboxIndInv, OutboxInv, ParkedAreLogged, At
    <3> QED
      BY <1>1, <3>2, <3>4, <3>6 DEF OutboxIndInv, OutboxInv
  <2> QED BY <2>1, <2>2
<1> QED
  BY <1>3, <1>4, <1>5 DEF WriteThrows

-----------------------------------------------------------------------------
(* The invariant                                                           *)

LEMMA OutboxBegins == OutboxInit => OutboxIndInv
<1> SUFFICES ASSUME OutboxInit PROVE OutboxIndInv
  OBVIOUS
<1>1. OutboxTypeOK
  BY OutboxAssumption DEF OutboxInit, OutboxTypeOK
<1>2. StandsKnown /\ ConflictHasRival /\ ParkedAreLogged
  BY OutboxAssumption DEF OutboxInit, StandsKnown, ConflictHasRival, ParkedAreLogged, Row
<1>3. DrainsOK
  BY IdleGood DEF OutboxInit, DrainsOK
<1> QED BY <1>1, <1>2, <1>3 DEF OutboxIndInv, OutboxInv

LEMMA Drains ==
  ASSUME OutboxIndInv, NEW d \in Drain, DrainStep(d)
  PROVE  OutboxIndInv'
<1>1. CASE EndDrain(d) \/ resolveSyncDeviceId(d) \/ StartReports(d)
  BY <1>1, Reads
<1>2. CASE SettleAnswer(d) \/ FailAnswer(d)
  BY <1>2, Answers
<1>3. CASE offlineSync(d)
  BY <1>3, Batches
<1>4. CASE parkConflict(d)
  BY <1>4, Parks
<1>5. CASE LogConflict(d)
  BY <1>5, Logs
<1>6. ASSUME NEW i \in Row,
             \/ Post(d, i) \/ RefusePhoto(d, i) \/ resultsSubmit(d, i)
             \/ ApplyOutcome(d, i) \/ DeniedRow(d, i)
      PROVE  OutboxIndInv'
  BY <1>6, Posts, RefusedKeeps, Submits, Outcome
<1> QED
  BY <1>1, <1>2, <1>3, <1>4, <1>5, <1>6 DEF DrainStep

LEMMA OutboxInductive == OutboxIndInv /\ [OutboxNext]_outboxVars => OutboxIndInv'
<1> SUFFICES ASSUME OutboxIndInv, [OutboxNext]_outboxVars PROVE OutboxIndInv'
  OBVIOUS
<1>1. ASSUME NEW i \in Plain, queue(i) \/ PhotoLost(i) PROVE OutboxIndInv'
  BY <1>1, Queues DEF Row
<1>2. ASSUME NEW i \in Result, queue(i) \/ ApplyJob(i) PROVE OutboxIndInv'
  <2>1. CASE queue(i)
    BY <2>1, Queues DEF Row
  <2>2. CASE ApplyJob(i)
    BY <2>2, Serves
  <2> QED BY <1>2, <2>1, <2>2
<1>3. ASSUME NEW d \in Drain, StartData(d) \/ StartResults(d) PROVE OutboxIndInv'
  BY <1>3, Reads
<1>4. ASSUME NEW d \in Drain, DrainStep(d) \/ WriteThrows(d) PROVE OutboxIndInv'
  BY <1>4, Drains, Throws
<1>5. CASE OtherSubmits
  BY <1>5, Serves
<1>6. CASE Kill
  BY <1>6, Kills
<1>7. CASE UNCHANGED outboxVars
  <2>1. UNCHANGED <<synced, attempts, drain, log, cut, gone, job, keyed, stands, copies>>
    BY <1>7 DEF outboxVars
  <2>2. OutboxTypeOK' /\ StandsKnown' /\ Grows
    BY <2>1 DEF OutboxIndInv, OutboxInv, OutboxTypeOK, StandsKnown, Grows, RowKnown, OutboxArrived
  <2> QED
    BY <2>1, <2>2, Stays
<1> QED
  BY <1>1, <1>2, <1>3, <1>4, <1>5, <1>6, <1>7 DEF OutboxNext, DataNext, ResultNext

\* The conflict log tells the truth and the counts stay in bounds, with any
\* number of overlapping drains, lost answers and kills.
THEOREM OutboxSafe == OutboxSpec => []OutboxInv
<1>1. OutboxIndInv => OutboxInv
  BY DEF OutboxIndInv
<1> QED
  BY OutboxBegins, OutboxInductive, <1>1, PTL DEF OutboxSpec

-----------------------------------------------------------------------------
(* The refinement: each step is a step of Delivery or leaves it alone      *)

OutboxMaps == [Promise!Next]_(Promise!deliveryVars)

LEMMA MapsToNothing ==
  ASSUME UNCHANGED <<synced, job, keyed, copies>>
  PROVE  OutboxMaps
  BY DEF OutboxMaps, Promise!deliveryVars, OutboxState, OutboxArrived

LEMMA MapsToPut ==
  ASSUME OutboxIndInv, NEW i \in Row, queue(i)
  PROVE  OutboxMaps
<1>1. /\ UNCHANGED <<job, keyed, copies>>
      /\ synced[i] = "absent" /\ synced' = [synced EXCEPT ![i] = "pending"]
      /\ synced \in [Row -> {"absent", "pending", "synced", "parked"}]
  BY DEF queue, serverVars, OutboxIndInv, OutboxInv, OutboxTypeOK
<1>2. OutboxArrived' = OutboxArrived
  BY <1>1 DEF OutboxArrived
<1>3. OutboxState' = [OutboxState EXCEPT ![i] = "pending"] /\ OutboxState[i] = "absent"
  BY <1>1 DEF OutboxState
<1>4. OutboxState' = [j \in Row |-> IF j = i THEN "pending"
                                    ELSE IF j \in {} THEN "dropped" ELSE OutboxState[j]]
  BY <1>3 DEF OutboxState
<1>5. Promise!Put(i, {})
  BY <1>2, <1>3, <1>4 DEF Promise!Put
<1>6. {} \in SUBSET {}
  OBVIOUS
<1> QED BY <1>5, <1>6, Zenon DEF OutboxMaps, Promise!Next

LEMMA MapsToArrive ==
  ASSUME UNCHANGED synced, NEW S \in SUBSET RowKnown,
         OutboxArrived' = OutboxArrived \cup S
  PROVE  OutboxMaps
<1>1. OutboxState' = OutboxState /\ S \in SUBSET Row
      /\ \A i \in S : OutboxState[i] # "absent"
  BY DEF OutboxState, RowKnown
<1>2. Promise!Arrive(S)
  BY <1>1 DEF Promise!Arrive
<1> QED BY <1>1, <1>2 DEF OutboxMaps, Promise!Next

LEMMA MapsToFinish ==
  ASSUME OutboxIndInv, NEW i \in Row, i \in OutboxArrived, MarkSynced(i)
  PROVE  OutboxMaps
<1>1. /\ UNCHANGED <<job, keyed, copies>>
      /\ synced' = [synced EXCEPT ![i] = "synced"]
      /\ synced \in [Row -> {"absent", "pending", "synced", "parked"}]
  BY DEF MarkSynced, serverVars, OutboxIndInv, OutboxInv, OutboxTypeOK
<1>2. OutboxArrived' = OutboxArrived
  BY <1>1 DEF OutboxArrived
<1>3. OutboxState' = [j \in Row |-> IF j \in {i} THEN "done" ELSE OutboxState[j]]
  BY <1>1 DEF OutboxState
<1>4. Promise!Finish({i})
  BY <1>1, <1>2, <1>3 DEF Promise!Finish, OutboxState
<1> QED BY <1>4 DEF OutboxMaps, Promise!Next

LEMMA MapsToPark ==
  ASSUME OutboxIndInv, NEW i \in RowKnown, UNCHANGED <<job, keyed, copies>>,
         synced' = [synced EXCEPT ![i] = "parked"]
  PROVE  OutboxMaps
<1>1. /\ synced \in [Row -> {"absent", "pending", "synced", "parked"}]
      /\ i \in Row /\ synced[i] # "absent"
  BY DEF OutboxIndInv, OutboxInv, OutboxTypeOK, RowKnown
<1>2. OutboxArrived' = OutboxArrived
  BY DEF OutboxArrived
<1>3. OutboxState' = [OutboxState EXCEPT ![i] = "parked"] /\ OutboxState[i] # "absent"
  BY <1>1 DEF OutboxState
<1>4. Promise!Park(i)
  BY <1>1, <1>2, <1>3 DEF Promise!Park, OutboxState
<1> QED BY <1>1, <1>4 DEF OutboxMaps, Promise!Next

\* The server takes some of the batch, perhaps nothing.
LEMMA BatchTakes ==
  ASSUME NEW d \in Drain, offlineSync(d)
  PROVE  \E S \in SUBSET drain[d].todo : job' = job \cup S
<1>1. CASE job' = job
  <2>1. {} \in SUBSET drain[d].todo /\ job' = job \cup {}
    BY <1>1
  <2> QED BY <2>1, Zenon
<1>2. CASE \E taken \in SUBSET (drain[d].todo \ job) : job' = job \cup taken
  BY <1>2
<1>3. \/ job' = job
      \/ \E taken \in SUBSET (drain[d].todo \ job) : job' = job \cup taken
  BY DEF offlineSync
<1> QED BY <1>1, <1>2, <1>3

LEMMA DrainMaps ==
  ASSUME OutboxIndInv, NEW d \in Drain, DrainStep(d)
  PROVE  OutboxMaps
<1>0. /\ Good(drain[d], RowKnown, OutboxArrived, job, stands)
      /\ drain[d].todo \subseteq Row
  BY DEF OutboxIndInv, DrainsOK, DrainRec
<1>1. CASE EndDrain(d) \/ resolveSyncDeviceId(d) \/ StartReports(d) \/ LogConflict(d)
           \/ FailAnswer(d)
  BY <1>1, MapsToNothing DEF EndDrain, resolveSyncDeviceId, StartReports, LogConflict,
                             FailAnswer, recordFailure, localVars, serverVars
<1>2. CASE SettleAnswer(d)
  <2>1. drain[d].row \in OutboxArrived /\ drain[d].row \in Row /\ MarkSynced(drain[d].row)
    BY <1>0, <1>2 DEF SettleAnswer, Good, At, RowKnown
  <2> QED BY <2>1, MapsToFinish
<1>3. CASE offlineSync(d)
  <2>1. PICK S \in SUBSET drain[d].todo : job' = job \cup S
    BY <1>3, BatchTakes
  <2>2. OutboxArrived' = OutboxArrived \cup S /\ UNCHANGED synced
    BY <1>3, <2>1 DEF offlineSync, OutboxArrived, localVars
  <2>3. S \in SUBSET RowKnown
    BY <1>0 DEF Good
  <2> QED BY <2>2, <2>3, MapsToArrive
<1>4. CASE parkConflict(d)
  <2>1. drain[d].row \in RowKnown
    BY <1>0, <1>4 DEF parkConflict, Good, At
  <2> QED BY <1>4, <2>1, MapsToPark DEF parkConflict, serverVars
<1>5. ASSUME NEW i \in Row, Post(d, i) \/ resultsSubmit(d, i)
      PROVE  OutboxMaps
  <2>1. i \in RowKnown
    BY <1>0, <1>5 DEF Post, resultsSubmit, First, Good
  <2>2. CASE UNCHANGED <<job, keyed, copies>>
    BY <1>5, <2>2, MapsToNothing DEF Post, resultsSubmit, localVars
  <2>3. CASE UNCHANGED <<job, copies>> /\ keyed' = keyed \cup {i}
    <3>1. OutboxArrived' = OutboxArrived \cup {i}
      BY <2>3 DEF OutboxArrived
    <3> QED BY <1>5, <2>1, <3>1, MapsToArrive DEF Post, resultsSubmit, localVars
  <2>4. CASE UNCHANGED <<job, keyed>> /\ i \in Plain /\ copies' = [copies EXCEPT ![i] = @ + 1]
    <3>1. /\ copies \in [Plain -> 0 .. MaxCopies] /\ copies[i] + 1 > 0
          /\ \A p \in Plain : copies'[p] = IF p = i THEN copies[i] + 1 ELSE copies[p]
      BY <2>4, OutboxAssumption DEF OutboxIndInv, OutboxInv, OutboxTypeOK
    <3>2. OutboxArrived' = OutboxArrived \cup {i}
      BY <2>4, <3>1 DEF OutboxArrived
    <3> QED BY <1>5, <2>1, <3>2, MapsToArrive DEF Post, resultsSubmit, localVars
  <2> QED
    BY <1>5, <2>2, <2>3, <2>4 DEF Post, resultsSubmit
<1>6. ASSUME NEW i \in Row, RefusePhoto(d, i) \/ DeniedRow(d, i)
      PROVE  OutboxMaps
  BY <1>6, MapsToNothing DEF RefusePhoto, DeniedRow, recordFailure, serverVars
<1>7. ASSUME NEW i \in Row, ApplyOutcome(d, i)
      PROVE  OutboxMaps
  <2>1. CASE recordFailure(d, i)
    BY <2>1, MapsToNothing DEF recordFailure, serverVars
  <2>2. CASE drain[d].answer[i] # "rejected" /\ MarkSynced(i)
    <3>1. i \in OutboxArrived
      BY <1>0, <1>7, <2>2 DEF ApplyOutcome, First, Good, At, OutboxArrived
    <3> QED BY <2>2, <3>1, MapsToFinish
  <2> QED
    BY <1>7, <2>1, <2>2 DEF ApplyOutcome
<1> QED
  BY <1>1, <1>2, <1>3, <1>4, <1>5, <1>6, <1>7 DEF DrainStep

LEMMA OutboxStepMaps == OutboxIndInv /\ [OutboxNext]_outboxVars => OutboxMaps
<1> SUFFICES ASSUME OutboxIndInv, [OutboxNext]_outboxVars PROVE OutboxMaps
  OBVIOUS
<1>1. ASSUME NEW i \in Row, queue(i) PROVE OutboxMaps
  BY <1>1, MapsToPut
<1>2. ASSUME NEW i \in Row, PhotoLost(i) \/ ApplyJob(i) PROVE OutboxMaps
  BY <1>2, MapsToNothing DEF PhotoLost, ApplyJob, localVars, serverVars
<1>3. ASSUME NEW d \in Drain, StartData(d) \/ StartResults(d) PROVE OutboxMaps
  BY <1>3, MapsToNothing DEF StartData, StartResults, localVars, serverVars
<1>4. ASSUME NEW d \in Drain, DrainStep(d) \/ WriteThrows(d) PROVE OutboxMaps
  <2>1. CASE DrainStep(d)
    BY <2>1, DrainMaps
  <2>2. CASE WriteThrows(d)
    BY <2>2, MapsToNothing DEF WriteThrows, serverVars
  <2> QED BY <1>4, <2>1, <2>2
<1>5. CASE OtherSubmits \/ Kill \/ UNCHANGED outboxVars
  BY <1>5, MapsToNothing DEF OtherSubmits, Kill, outboxVars, localVars, serverVars
<1>6. Plain \subseteq Row /\ Result \subseteq Row
  BY DEF Row
<1> QED
  BY <1>1, <1>2, <1>3, <1>4, <1>5, <1>6 DEF OutboxNext, DataNext, ResultNext

LEMMA OutboxBeginMaps == OutboxInit => Promise!Init
<1> SUFFICES ASSUME OutboxInit PROVE Promise!Init
  OBVIOUS
<1>1. OutboxState = [i \in Row |-> "absent"]
  BY DEF OutboxInit, OutboxState
<1>2. OutboxArrived = {}
  BY DEF OutboxInit, OutboxArrived
<1> QED BY <1>1, <1>2 DEF Promise!Init

\* The offline queue implements Delivery: whatever overlaps, gets lost or is
\* killed, a record is called synced only when the server has it, and leaves
\* the queue only settled or parked.
THEOREM OutboxImplementsDelivery == OutboxSpec => OutboxDelivers
<1>1. OutboxIndInv /\ [OutboxNext]_outboxVars => [Promise!Next]_(Promise!deliveryVars)
  BY OutboxStepMaps DEF OutboxMaps
<1> QED
  BY OutboxBegins, OutboxInductive, OutboxBeginMaps, <1>1, PTL DEF OutboxSpec, OutboxDelivers, Promise!Spec

-----------------------------------------------------------------------------
(* The canvass sync                                                        *)

Phase == {"knocks", "pledges", "places"}
Marks == {"absent", "pending", "synced", "failed", "pruned"}
RunRec == [at : Phase \cup {"rest", "counting", "ok", "thrown", "refused", "conflict", "park"},
           todo : SUBSET Entry, entry : Entry \cup {0}]

\* What a run rests on, given what the server has (A), the conflict log (C) and
\* the rows (S): it works on rows of one table that were saved; a row is called
\* sent only after it arrived, of locations the newest that was read; a row is
\* parked only after it was logged.
SoundRun(rec, A, C, S) ==
    /\ rec \in RunRec
    /\ rec.at \in Phase => rec.todo \subseteq Table(rec.at)
    /\ rec.at \in {"ok", "refused", "conflict", "park"} =>
          rec.entry \in rec.todo /\ rec.todo \subseteq Table(PhaseOf(rec.entry))
    /\ rec.at = "ok" => rec.entry \in A
    /\ rec.at = "ok" /\ rec.entry \in Place => \A j \in rec.todo : j <= rec.entry
    /\ rec.at \in {"conflict", "park"} => rec.entry \notin Place
    /\ rec.at = "park" => rec.entry \in C
    /\ \A i \in rec.todo : S[i] # "absent"

RunsSound ==
    /\ run \in [Sync -> RunRec]
    /\ \A r \in Sync : SoundRun(run[r], received, conflicts, status)

\* A location is stored after all the older ones, and nothing else is pruned.
PlacesInOrder ==
    /\ \A i, j \in Place : j <= i /\ status[i] # "absent" => status[j] # "absent"
    /\ \A i \in Entry \ Place : status[i] # "pruned"

CanvassIndInv == CanvassInv /\ RunsSound /\ PlacesInOrder

\* The rows go forward: nothing leaves the server or the log, no row is forgotten.
RowsGrow ==
    /\ received \subseteq received' /\ received' \subseteq Entry
    /\ conflicts \subseteq conflicts' /\ conflicts' \subseteq Knock \cup Pledge
    /\ status' \in [Entry -> Marks]
    /\ \A i \in Entry : status[i] # "absent" => status'[i] # "absent"

LEMMA TablesApart ==
  /\ Knock \subseteq Entry /\ Pledge \subseteq Entry /\ Place \subseteq Entry
  /\ Table("knocks") = Knock /\ Table("pledges") = Pledge /\ Table("places") = Place
  /\ \A i \in Entry : PhaseOf(i) \in Phase /\ i \in Table(PhaseOf(i))
  /\ \A i \in Place : PhaseOf(i) = "places"
  /\ \A p \in Phase : \A i \in Table(p) : i \in Entry /\ PhaseOf(i) = p
BY CanvassAssumption DEF Entry, Table, PhaseOf, Phase

LEMMA SoundStays ==
  ASSUME NEW rec, SoundRun(rec, received, conflicts, status), RowsGrow
  PROVE  SoundRun(rec, received', conflicts', status')
<1>1. rec.todo \subseteq Entry
  BY DEF SoundRun, RunRec
<1>2. \A i \in rec.todo : status'[i] # "absent"
  BY <1>1 DEF SoundRun, RowsGrow
<1>3. /\ rec.at = "ok" => rec.entry \in received'
      /\ rec.at = "park" => rec.entry \in conflicts'
  BY DEF SoundRun, RowsGrow
<1> QED BY <1>2, <1>3 DEF SoundRun

\* One run goes on to rec and the others rest on what they did.
LEMMA RunMoves ==
  ASSUME RunsSound, RowsGrow, NEW r \in Sync, NEW rec,
         run' = [run EXCEPT ![r] = rec], SoundRun(rec, received', conflicts', status')
  PROVE  RunsSound'
<1>1. /\ run' \in [Sync -> RunRec]
      /\ run'[r] = rec /\ \A q \in Sync \ {r} : run'[q] = run[q]
  BY DEF RunsSound, SoundRun
<1>2. \A q \in Sync : SoundRun(run[q], received', conflicts', status')
  BY SoundStays DEF RunsSound
<1>3. \A q \in Sync : SoundRun(run'[q], received', conflicts', status')
  BY <1>1, <1>2
<1> QED BY <1>1, <1>3 DEF RunsSound

LEMMA RunsRest ==
  ASSUME RunsSound, RowsGrow, UNCHANGED run
  PROVE  RunsSound'
<1>1. \A q \in Sync : SoundRun(run[q], received', conflicts', status')
  BY SoundStays DEF RunsSound
<1> QED BY <1>1 DEF RunsSound

LEMMA RowsRest ==
  ASSUME CanvassIndInv, UNCHANGED rowVars
  PROVE  /\ RowsGrow /\ PlacesInOrder' /\ FailedPledgeLogged' /\ PrunedIsOld'
         /\ received' \subseteq Entry /\ conflicts' \subseteq Knock \cup Pledge
<1>1. RowsGrow /\ received' \subseteq Entry /\ conflicts' \subseteq Knock \cup Pledge
  BY DEF CanvassIndInv, CanvassInv, CanvassTypeOK, RowsGrow, rowVars, Marks
<1>2. PlacesInOrder' /\ FailedPledgeLogged' /\ PrunedIsOld'
  BY DEF CanvassIndInv, CanvassInv, rowVars, PlacesInOrder, FailedPledgeLogged, PrunedIsOld, Present
<1> QED BY <1>1, <1>2

\* What a phase reads are stored rows of its table.
LEMMA ReadSound ==
  ASSUME CanvassIndInv, NEW p \in Phase
  PROVE  /\ SoundRun(Read(p), received, conflicts, status)
         /\ Read(p).at = p
<1>1. Read(p).todo \subseteq Table(p) /\ Read(p).at = p /\ Read(p).entry = 0
      /\ \A i \in Read(p).todo : status[i] = "pending"
  BY TablesApart DEF Read, Oldest, PendingOf, Phase
<1>2. Table(p) \subseteq Entry
  BY TablesApart
<1>3. Read(p) = [at |-> p, entry |-> 0, todo |-> Read(p).todo]
  BY DEF Read
<1>4. Read(p) \in RunRec
  BY <1>1, <1>2, <1>3 DEF RunRec
<1> QED BY <1>1, <1>4 DEF SoundRun, Phase

LEMMA SyncStarts ==
  ASSUME CanvassIndInv, UNCHANGED rowVars, NEW r \in Sync, syncAll(r)
  PROVE  RunsSound' /\ SyncingIsAlive'
<1> DEFINE rec == [run[r] EXCEPT !.at = "counting"]
<1>1. run' = [run EXCEPT ![r] = rec] /\ RowsGrow /\ run \in [Sync -> RunRec]
  BY RowsRest DEF syncAll, CanvassIndInv, RunsSound
<1>2. /\ SoundRun(run[r], received, conflicts, status)
      /\ rec \in RunRec /\ rec.at = "counting" /\ rec.todo = run[r].todo
  BY DEF CanvassIndInv, RunsSound, RunRec
<1> HIDE DEF rec
<1>21. SoundRun(rec, received', conflicts', status')
  BY <1>2 DEF rowVars, SoundRun, Phase
<1>3. RunsSound'
  BY <1>1, <1>21, RunMoves DEF CanvassIndInv
<1>4. run'[r].at # "rest"
  BY <1>1, <1>2
<1>5. r \in Working'
  BY <1>4 DEF Working, Resting
<1> QED BY <1>3, <1>5 DEF SyncingIsAlive

\* The steps that leave the rows alone: how runs start and what moves the clocks.
LEMMA ClockKeeps ==
  ASSUME CanvassIndInv,
         \/ \E r \in Sync : \/ Tick(r) \/ start(r) \/ NetworkUp(r)
                            \/ \E q \in Sync : RetryTimer(r, q)
         \/ stop \/ NetworkDown
  PROVE  CanvassIndInv'
<1>1. UNCHANGED rowVars /\ retries' = retries
  BY DEF Tick, start, NetworkUp, RetryTimer, stop, NetworkDown
<1>2. /\ RowsGrow /\ PlacesInOrder' /\ FailedPledgeLogged' /\ PrunedIsOld'
      /\ received' \subseteq Entry /\ conflicts' \subseteq Knock \cup Pledge
  BY <1>1, RowsRest
<1>3. CanvassTypeOK'
  <2>1. mode' \in {"idle", "syncing", "offline", "error"} /\ timers' \subseteq Sync
    BY DEF CanvassIndInv, CanvassInv, CanvassTypeOK, Tick, start, NetworkUp, RetryTimer, stop,
           NetworkDown, syncAll
  <2> QED BY <1>1, <1>2, <2>1 DEF CanvassIndInv, CanvassInv, CanvassTypeOK, RowsGrow, Marks
<1>4. RunsSound' /\ SyncingIsAlive'
  <2>1. CASE \E r \in Sync : syncAll(r)
    BY <1>1, <2>1, SyncStarts
  <2>2. CASE ~ \E r \in Sync : syncAll(r)
    <3>1. run' = run
      BY <2>2 DEF Tick, start, NetworkUp, RetryTimer, stop, NetworkDown
    <3>2. mode' = "offline" \/ UNCHANGED <<mode, timers, died>>
      BY <2>2 DEF Tick, start, NetworkUp, RetryTimer, stop, NetworkDown
    <3>3. SyncingIsAlive'
      BY <3>1, <3>2 DEF CanvassIndInv, CanvassInv, SyncingIsAlive, Working, Resting
    <3> QED BY <3>1, <3>3, <1>2, RunsRest DEF CanvassIndInv
  <2> QED BY <2>1, <2>2
<1> QED BY <1>2, <1>3, <1>4 DEF CanvassIndInv, CanvassInv

\* What save does to the rows: i is written, and old locations make room for it.
LEMMA SaveDrops ==
  ASSUME NEW i \in Entry, save(i)
  PROVE  \E old \in SUBSET Place :
          /\ status' = [j \in Entry |-> IF j = i THEN "pending"
                                        ELSE IF j \in old THEN "pruned" ELSE status[j]]
          /\ old # {} => i \in Place
          /\ \A j \in old : status[j] # "absent"
<1>1. PICK old \in IF i \in Place THEN {{}, TooOld(i)} ELSE {{}} :
          status' = [j \in Entry |-> IF j = i THEN "pending"
                                     ELSE IF j \in old THEN "pruned" ELSE status[j]]
  BY DEF save
<1>2. TooOld(i) \subseteq Place /\ \A j \in TooOld(i) : status[j] # "absent"
  BY DEF TooOld, Present
<1>3. old \in SUBSET Place /\ (old # {} => i \in Place) /\ \A j \in old : status[j] # "absent"
  BY <1>2
<1> QED BY <1>1, <1>3

LEMMA SaveKeeps ==
  ASSUME CanvassIndInv, NEW i \in Entry, save(i)
  PROVE  CanvassIndInv'
<1>1. /\ status \in [Entry -> Marks] /\ status[i] = "absent"
      /\ UNCHANGED <<received, conflicts, run, died, clockVars>>
  BY DEF CanvassIndInv, CanvassInv, CanvassTypeOK, save, Marks
<1>0. PICK old \in SUBSET Place :
          /\ status' = [j \in Entry |-> IF j = i THEN "pending"
                                        ELSE IF j \in old THEN "pruned" ELSE status[j]]
          /\ old # {} => i \in Place
          /\ \A j \in old : status[j] # "absent"
  BY SaveDrops
<1>01. /\ \A j \in Entry : status'[j] = IF j = i THEN "pending"
                                          ELSE IF j \in old THEN "pruned" ELSE status[j]
       /\ status' \in [Entry -> Marks]
  BY <1>0, <1>1 DEF Marks
<1>2. RowsGrow
  BY <1>1, <1>01 DEF RowsGrow, CanvassIndInv, CanvassInv, CanvassTypeOK
<1>3. RunsSound'
  BY <1>1, <1>2, RunsRest DEF CanvassIndInv
<1>4. PlacesInOrder'
  <2>4. \A k \in Entry \ Place : status'[k] # "pruned"
    BY <1>01 DEF CanvassIndInv, PlacesInOrder
  <2> SUFFICES ASSUME NEW k \in Place, NEW j \in Place, j <= k, status'[k] # "absent"
               PROVE  status'[j] # "absent"
    BY <2>4 DEF PlacesInOrder
  <2>1. k \in Entry /\ j \in Entry /\ k \in Nat /\ j \in Nat
    BY TablesApart, CanvassAssumption
  <2>2. CASE k = i
    <3>1. j = i \/ status[j] # "absent"
      BY <2>1, <2>2 DEF save
    <3> QED BY <2>1, <3>1, <1>01
  <2>3. CASE k # i
    <3>1. status[k] # "absent"
      BY <1>0, <1>01, <2>1, <2>3
    <3>2. status[j] # "absent"
      BY <3>1 DEF CanvassIndInv, PlacesInOrder
    <3> QED BY <1>01, <2>1, <3>2
  <2> QED BY <2>2, <2>3
<1>5. CanvassTypeOK' /\ SyncingIsAlive' /\ FailedPledgeLogged'
  <2>1. CanvassTypeOK' /\ SyncingIsAlive'
    BY <1>1, <1>2 DEF CanvassIndInv, CanvassInv, CanvassTypeOK, RowsGrow, SyncingIsAlive, clockVars,
                      Working, Resting, Marks
  <2>2. FailedPledgeLogged'
    BY <1>1, <1>01, TablesApart DEF CanvassIndInv, CanvassInv, FailedPledgeLogged
  <2> QED BY <2>1, <2>2
<1>6. PrunedIsOld'
  <2> SUFFICES ASSUME NEW k \in Place, status'[k] = "pruned"
               PROVE  \E j \in Place : j > k /\ status'[j] \notin {"absent", "pruned"}
    BY DEF PrunedIsOld, Present
  <2>1. k \in Entry /\ k \in Nat /\ Place \subseteq Entry /\ Place \subseteq Nat
    BY TablesApart, CanvassAssumption
  <2>2. k # i /\ status[k] # "absent" /\ (k \in old \/ status[k] = "pruned")
    BY <1>0, <1>01, <2>1
  <2>3. CASE i \in Place
    <3>1. ~(i <= k)
      BY <1>1, <2>2, <2>3 DEF CanvassIndInv, PlacesInOrder
    <3>2. i > k
      BY <2>1, <2>3, <3>1
    <3>3. status'[i] = "pending"
      BY <1>01
    <3> QED BY <2>3, <3>2, <3>3
  <2>4. CASE i \notin Place
    <3>1. old = {} /\ status[k] = "pruned"
      BY <1>0, <2>2, <2>4
    <3>2. PICK j \in Place : j > k /\ status[j] \notin {"absent", "pruned"}
      BY <3>1 DEF CanvassIndInv, CanvassInv, PrunedIsOld, Present
    <3>3. status'[j] = status[j]
      BY <1>01, <2>1, <2>4, <3>1
    <3> QED BY <3>2, <3>3
  <2> QED BY <2>3, <2>4
<1> QED BY <1>3, <1>4, <1>5, <1>6 DEF CanvassIndInv, CanvassInv

\* A run works on: the clocks stand still and it stays under way.
LEMMA WorkKeeps ==
  ASSUME CanvassIndInv, NEW r \in Sync, NEW rec, rec.at # "rest",
         run' = [run EXCEPT ![r] = rec], UNCHANGED clockVars,
         RowsGrow, PlacesInOrder', FailedPledgeLogged', PrunedIsOld',
         SoundRun(rec, received', conflicts', status')
  PROVE  CanvassIndInv'
<1>1. RunsSound'
  BY RunMoves DEF CanvassIndInv
<1>2. SyncingIsAlive'
  <2>1. run'[r].at # "rest"
    BY DEF CanvassIndInv, RunsSound
  <2>2. r \in Working'
    BY <2>1 DEF Working, Resting
  <2> QED BY <2>2 DEF SyncingIsAlive
<1>3. CanvassTypeOK'
  BY DEF CanvassIndInv, CanvassInv, CanvassTypeOK, RowsGrow, clockVars, Marks
<1> QED BY <1>1, <1>2, <1>3 DEF CanvassIndInv, CanvassInv

\* Going on with the rest of the rows.
Onward(r, i) ==
    [at |-> PhaseOf(i), entry |-> 0,
     todo |-> IF i \in Place THEN {} ELSE run[r].todo \ {i}]

LEMMA ContinueSound ==
  ASSUME CanvassIndInv, NEW r \in Sync, run[r].at \in {"ok", "refused", "conflict", "park"}
  PROVE  /\ run[r].entry \in Entry /\ run[r].entry \in run[r].todo
         /\ SoundRun(Onward(r, run[r].entry), received, conflicts, status)
         /\ Onward(r, run[r].entry).at # "rest"
         /\ Continue(r, run[r].entry) => run' = [run EXCEPT ![r] = Onward(r, run[r].entry)]
<1> DEFINE i == run[r].entry
           rec == Onward(r, i)
<1>1. SoundRun(run[r], received, conflicts, status)
  BY DEF CanvassIndInv, RunsSound
<1>2. i \in run[r].todo /\ run[r].todo \subseteq Table(PhaseOf(i)) /\ run[r].todo \subseteq Entry
      /\ \A j \in run[r].todo : status[j] # "absent"
  BY <1>1 DEF SoundRun, RunRec
<1>3. i \in Entry /\ PhaseOf(i) \in Phase
  BY <1>2, TablesApart
<1>4. /\ rec.at = PhaseOf(i) /\ rec.entry = 0 /\ rec.todo \subseteq run[r].todo
      /\ rec \in RunRec
  BY <1>2, <1>3 DEF Onward, RunRec
<1>5. rec.at \in Phase /\ rec.todo \subseteq Table(rec.at)
      /\ \A j \in rec.todo : status[j] # "absent"
  BY <1>2, <1>3, <1>4
<1>6. SoundRun(rec, received, conflicts, status) /\ rec.at # "rest"
  <2> HIDE DEF rec
  <2> QED BY <1>4, <1>5 DEF SoundRun, Phase
<1>7. Continue(r, i) => run' = [run EXCEPT ![r] = rec]
  BY DEF Continue, Onward
<1> QED BY <1>2, <1>3, <1>6, <1>7

LEMMA SendKeeps ==
  ASSUME CanvassIndInv, NEW r \in Sync, NEW i \in Entry, Send(r, i)
  PROVE  CanvassIndInv'
<1>1. /\ run[r].at \in Phase /\ Sends(r, i) /\ UNCHANGED <<status, conflicts, clockVars>>
      /\ received' \in {received, received \cup {i}}
  BY DEF Send, Phase
<1>2. RowsGrow /\ PlacesInOrder' /\ FailedPledgeLogged' /\ PrunedIsOld'
  <2>1. RowsGrow
    BY <1>1 DEF RowsGrow, CanvassIndInv, CanvassInv, CanvassTypeOK, Marks
  <2> QED BY <1>1, <2>1 DEF CanvassIndInv, CanvassInv, PlacesInOrder, FailedPledgeLogged, PrunedIsOld, Present
<1>3. /\ run[r] \in RunRec /\ run[r].todo \subseteq Table(run[r].at)
      /\ \A j \in run[r].todo : status[j] # "absent"
  BY <1>1 DEF CanvassIndInv, RunsSound, SoundRun
<1>4. /\ i \in run[r].todo /\ PhaseOf(i) = run[r].at
      /\ i \in Place => \A j \in run[r].todo : j <= i
  BY <1>1, <1>3, TablesApart DEF Sends
<1>5. PICK rec : /\ run' = [run EXCEPT ![r] = rec] /\ rec \in RunRec /\ rec.todo = run[r].todo
                 /\ rec.at \in {"ok", "thrown", "refused", "conflict"}
                 /\ rec.at # "thrown" => rec.entry = i
                 /\ rec.at = "ok" => i \in received'
                 /\ rec.at = "conflict" => i \notin Place
  <2>1. \/ \E at \in {"ok", "refused", "conflict"} :
              /\ run' = [run EXCEPT ![r] = [[run[r] EXCEPT !.at = at] EXCEPT !.entry = i]]
              /\ at = "ok" => i \in received'
              /\ at = "conflict" => i \notin Place
        \/ run' = [run EXCEPT ![r] = [run[r] EXCEPT !.at = "thrown"]]
    <3>0. /\ run \in [Sync -> RunRec]
          /\ \A at : [run EXCEPT ![r].at = at, ![r].entry = i]
                       = [run EXCEPT ![r] = [[run[r] EXCEPT !.at = at] EXCEPT !.entry = i]]
          /\ \A at : [run EXCEPT ![r].at = at] = [run EXCEPT ![r] = [run[r] EXCEPT !.at = at]]
      BY DEF CanvassIndInv, RunsSound
    <3> QED BY <3>0 DEF Send
  <2>2. CASE \E at \in {"ok", "refused", "conflict"} :
              /\ run' = [run EXCEPT ![r] = [[run[r] EXCEPT !.at = at] EXCEPT !.entry = i]]
              /\ at = "ok" => i \in received'
              /\ at = "conflict" => i \notin Place
    <3>1. PICK at \in {"ok", "refused", "conflict"} :
              /\ run' = [run EXCEPT ![r] = [[run[r] EXCEPT !.at = at] EXCEPT !.entry = i]]
              /\ at = "ok" => i \in received'
              /\ at = "conflict" => i \notin Place
      BY <2>2
    <3> DEFINE rec == [[run[r] EXCEPT !.at = at] EXCEPT !.entry = i]
    <3>2. rec \in RunRec /\ rec.todo = run[r].todo /\ rec.at = at /\ rec.entry = i
      BY <1>3 DEF RunRec
    <3>3. run' = [run EXCEPT ![r] = rec]
      BY <3>1
    <3> HIDE DEF rec
    <3> QED BY <3>1, <3>2, <3>3
  <2>3. CASE run' = [run EXCEPT ![r] = [run[r] EXCEPT !.at = "thrown"]]
    <3> DEFINE rec == [run[r] EXCEPT !.at = "thrown"]
    <3>2. rec \in RunRec /\ rec.todo = run[r].todo /\ rec.at = "thrown"
      BY <1>3 DEF RunRec
    <3>3. run' = [run EXCEPT ![r] = rec]
      BY <2>3
    <3> HIDE DEF rec
    <3> QED BY <3>2, <3>3
  <2> QED BY <2>1, <2>2, <2>3
<1>6. SoundRun(rec, received', conflicts', status')
  BY <1>1, <1>3, <1>4, <1>5 DEF SoundRun, Phase
<1> QED BY <1>1, <1>2, <1>5, <1>6, WorkKeeps

\* A row is settled: MarkSent, Refused and MarkFailed touch only stored rows.
LEMMA SettleKeeps ==
  ASSUME CanvassIndInv, NEW r \in Sync, MarkSent(r) \/ Refused(r) \/ MarkFailed(r)
  PROVE  CanvassIndInv'
<1> DEFINE i == run[r].entry
<1>1. /\ UNCHANGED <<received, conflicts, clockVars>> /\ Continue(r, i)
      /\ run[r].at \in {"ok", "refused", "conflict", "park"}
  BY DEF MarkSent, Refused, MarkFailed
<1>2. /\ i \in Entry /\ i \in run[r].todo
      /\ SoundRun(Onward(r, i), received, conflicts, status) /\ Onward(r, i).at # "rest"
      /\ run' = [run EXCEPT ![r] = Onward(r, i)]
  BY <1>1, ContinueSound
<1>3. /\ SoundRun(run[r], received, conflicts, status)
      /\ status \in [Entry -> Marks]
  BY DEF CanvassIndInv, CanvassInv, CanvassTypeOK, RunsSound, Marks
<1>4. /\ status' \in [Entry -> Marks]
      /\ \A j \in Entry : status'[j] # status[j] => status'[j] \in {"synced", "failed"}
      /\ \A j \in Pledge : status'[j] = "failed" => status[j] = "failed" \/ j \in conflicts
      /\ \A j \in Entry : status[j] = "absent" => status'[j] = "absent"
  <2>1. CASE MarkSent(r)
    <3>1. Covered(r, i) \subseteq run[r].todo
      BY <1>2 DEF Covered
    <3>2. status' = [j \in Entry |-> IF j \in Covered(r, i) /\ Present(j) THEN "synced"
                                     ELSE status[j]]
      BY <2>1 DEF MarkSent
    <3>3. \A j \in run[r].todo : status[j] # "absent"
      BY <1>3 DEF SoundRun
    <3> QED BY <3>1, <3>2, <3>3, <1>3, TablesApart DEF Marks
  <2>2. CASE Refused(r)
    <3>1. status' = IF i \in Knock THEN [status EXCEPT ![i] = "failed"] ELSE status
      BY <2>2 DEF Refused
    <3>2. status[i] # "absent" /\ \A j \in Pledge : j \notin Knock /\ j \in Entry
      BY <1>2, <1>3, CanvassAssumption, TablesApart DEF SoundRun
    <3> QED BY <3>1, <3>2, <1>2, <1>3 DEF Marks
  <2>3. CASE MarkFailed(r)
    <3>1. status' = [status EXCEPT ![i] = "failed"]
      BY <2>3 DEF MarkFailed
    <3>2. status[i] # "absent" /\ i \in conflicts
      BY <2>3, <1>2, <1>3 DEF SoundRun, MarkFailed
    <3> QED BY <3>1, <3>2, <1>2, <1>3, TablesApart DEF Marks
  <2> QED BY <2>1, <2>2, <2>3
<1>5. RowsGrow
  BY <1>1, <1>4 DEF RowsGrow, CanvassIndInv, CanvassInv, CanvassTypeOK
<1>6. PlacesInOrder'
  <2>1. \A j \in Place : j \in Entry
    BY TablesApart
  <2> QED BY <2>1, <1>3, <1>4 DEF PlacesInOrder, CanvassIndInv
<1>7. FailedPledgeLogged' /\ PrunedIsOld'
  <2>1. FailedPledgeLogged'
    BY <1>1, <1>4 DEF FailedPledgeLogged, CanvassIndInv, CanvassInv
  <2>2. PrunedIsOld'
    BY <1>4, TablesApart DEF PrunedIsOld, Present, CanvassIndInv, CanvassInv
  <2> QED BY <2>1, <2>2
<1>8. SoundRun(Onward(r, i), received', conflicts', status')
  BY <1>2, <1>5, SoundStays
<1> QED BY <1>1, <1>2, <1>5, <1>6, <1>7, <1>8, WorkKeeps

LEMMA LogKeeps ==
  ASSUME CanvassIndInv, NEW r \in Sync, logConflict(r)
  PROVE  CanvassIndInv'
<1> DEFINE i == run[r].entry
           rec == [run[r] EXCEPT !.at = "park"]
<1>1. /\ run[r].at = "conflict" /\ run' = [run EXCEPT ![r] = rec]
      /\ conflicts' = conflicts \cup {i} /\ UNCHANGED <<status, received, clockVars>>
  BY DEF logConflict
<1>2. SoundRun(run[r], received, conflicts, status) /\ run[r] \in RunRec
  BY DEF CanvassIndInv, RunsSound
<1>3. /\ i \in Knock \cup Pledge /\ i \in run[r].todo
      /\ run[r].todo \subseteq Table(PhaseOf(i))
      /\ \A j \in run[r].todo : status[j] # "absent"
      /\ i \notin Place
  BY <1>1, <1>2 DEF SoundRun, RunRec, Entry
<1>4. RowsGrow /\ PlacesInOrder' /\ FailedPledgeLogged' /\ PrunedIsOld'
  <2>1. RowsGrow
    BY <1>1, <1>3 DEF RowsGrow, CanvassIndInv, CanvassInv, CanvassTypeOK, Marks
  <2> QED BY <1>1, <2>1 DEF CanvassIndInv, CanvassInv, PlacesInOrder, FailedPledgeLogged, PrunedIsOld, Present
<1>5. rec \in RunRec /\ rec.at = "park" /\ rec.todo = run[r].todo /\ rec.entry = i
  BY <1>2 DEF RunRec
<1>6. i \in conflicts'
  BY <1>1
<1> HIDE DEF rec
<1>7. SoundRun(rec, received', conflicts', status')
  BY <1>1, <1>3, <1>5, <1>6 DEF SoundRun, Phase
<1> QED BY <1>1, <1>4, <1>5, <1>7, WorkKeeps

\* The end of a run, well or by an error, and the passage to the next table.
LEMMA PhaseKeeps ==
  ASSUME CanvassIndInv, NEW r \in Sync,
         NextPhase(r) \/ EndRun(r) \/ Thrown(r) \/ Counted(r) \/ CountThrows(r) \/ DiskThrows(r)
  PROVE  CanvassIndInv'
<1>1. UNCHANGED rowVars
  BY DEF NextPhase, EndRun, Thrown, Counted, CountThrows, DiskThrows
<1>2. /\ RowsGrow /\ PlacesInOrder' /\ FailedPledgeLogged' /\ PrunedIsOld'
      /\ received' \subseteq Entry /\ conflicts' \subseteq Knock \cup Pledge
  BY <1>1, RowsRest
<1>3. CASE NextPhase(r) \/ Counted(r)
  <2>1. PICK p \in Phase : run' = [run EXCEPT ![r] = Read(p)]
    BY <1>3 DEF NextPhase, Counted, Phase
  <2>2. SoundRun(Read(p), received', conflicts', status') /\ Read(p).at # "rest"
    BY <1>1, ReadSound DEF rowVars, Phase
  <2> QED BY <1>2, <1>3, <2>1, <2>2, WorkKeeps DEF NextPhase, Counted
<1>5. ASSUME run' = [run EXCEPT ![r].at = "thrown"], timers' = timers,
             mode' \in {"idle", mode}, retries' \in {0, retries}
      PROVE  CanvassIndInv'
  <2> DEFINE rec == [run[r] EXCEPT !.at = "thrown"]
  <2>1. /\ SoundRun(run[r], received, conflicts, status) /\ run \in [Sync -> RunRec]
        /\ run' = [run EXCEPT ![r] = rec] /\ rec \in RunRec
        /\ rec.at = "thrown" /\ rec.todo = run[r].todo
    BY <1>5 DEF CanvassIndInv, RunsSound, RunRec
  <2> HIDE DEF rec
  <2>2. SoundRun(rec, received', conflicts', status')
    BY <1>1, <2>1 DEF rowVars, SoundRun, Phase
  <2>3. RunsSound'
    BY <1>2, <2>1, <2>2, RunMoves DEF CanvassIndInv
  <2>4. run'[r].at # "rest"
    BY <2>1
  <2>5. r \in Working'
    BY <2>4 DEF Working, Resting
  <2>6. CanvassTypeOK'
    BY <1>2, <1>5, CanvassAssumption DEF CanvassIndInv, CanvassInv, CanvassTypeOK, RowsGrow, Marks
  <2> QED BY <1>2, <2>3, <2>5, <2>6 DEF CanvassIndInv, CanvassInv, SyncingIsAlive
<1>6. CASE DiskThrows(r) \/ (EndRun(r) /\ run' = [run EXCEPT ![r].at = "thrown"])
  BY <1>5, <1>6 DEF DiskThrows, EndRun, clockVars
<1>4. CASE (EndRun(r) \/ Thrown(r) \/ CountThrows(r)) /\ run' = [run EXCEPT ![r] = Rest]
  <2>1. run' = [run EXCEPT ![r] = Rest]
    BY <1>4
  <2>2. SoundRun(Rest, received', conflicts', status')
    BY DEF Rest, SoundRun, RunRec, Phase
  <2>3. RunsSound'
    BY <1>2, <2>1, <2>2, RunMoves DEF CanvassIndInv
  <2>4. CanvassTypeOK'
    <3>1. /\ mode' \in {"idle", "syncing", "offline", "error"} /\ timers' \subseteq Sync
          /\ retries' \in 0..MaxRetries
      <4>1. CASE EndRun(r)
        BY <4>1, CanvassAssumption DEF EndRun, CanvassIndInv, CanvassInv, CanvassTypeOK
      <4>2. CASE Thrown(r)
        BY <4>2, CanvassAssumption DEF Thrown, CanvassIndInv, CanvassInv, CanvassTypeOK
      <4>3. CASE CountThrows(r)
        BY <4>3 DEF CountThrows, clockVars, CanvassIndInv, CanvassInv, CanvassTypeOK
      <4> QED BY <1>4, <4>1, <4>2, <4>3
    <3> QED BY <3>1, <1>2 DEF CanvassTypeOK, RowsGrow, Marks
  <2>5. SyncingIsAlive'
    <3>1. CASE EndRun(r)
      <4>1. Rest.at = "rest" /\ run \in [Sync -> RunRec] /\ run[r].at = "places"
        BY <3>1 DEF Rest, EndRun, CanvassIndInv, RunsSound
      <4>2. mode' = "idle"
        <5>1. run'[r].at = "rest"
          BY <2>1, <4>1
        <5>2. run' = [run EXCEPT ![r].at = "thrown"] => run'[r].at = "thrown"
          BY <4>1 DEF RunRec
        <5> QED BY <3>1, <5>1, <5>2 DEF EndRun
      <4> QED BY <4>2 DEF SyncingIsAlive
    <3>2. CASE Thrown(r)
      BY <3>2 DEF Thrown, SyncingIsAlive
    <3>3. CASE CountThrows(r)
      BY <3>3 DEF CountThrows, SyncingIsAlive
    <3> QED BY <1>4, <3>1, <3>2, <3>3
  <2> QED BY <1>2, <2>3, <2>4, <2>5 DEF CanvassIndInv, CanvassInv
<1>7. EndRun(r) => \/ run' = [run EXCEPT ![r] = Rest]
                   \/ run' = [run EXCEPT ![r].at = "thrown"]
  BY DEF EndRun
<1>8. Thrown(r) \/ CountThrows(r) => run' = [run EXCEPT ![r] = Rest]
  BY DEF Thrown, CountThrows
<1> QED BY <1>3, <1>4, <1>6, <1>7, <1>8

LEMMA CanvassInductive == CanvassIndInv /\ [CanvassNext]_canvassVars => CanvassIndInv'
<1> SUFFICES ASSUME CanvassIndInv, [CanvassNext]_canvassVars PROVE CanvassIndInv'
  OBVIOUS
<1>1. CASE UNCHANGED canvassVars
  BY <1>1 DEF CanvassIndInv, CanvassInv, CanvassTypeOK, SyncingIsAlive, FailedPledgeLogged, Working,
              Resting, RunsSound, PlacesInOrder, PrunedIsOld, Present, canvassVars
<1>2. ASSUME NEW r \in Sync, RunStep(r) \/ CountThrows(r) \/ DiskThrows(r) PROVE CanvassIndInv'
  BY <1>2, SendKeeps, SettleKeeps, LogKeeps, PhaseKeeps DEF RunStep
<1>3. ASSUME NEW i \in Entry, save(i) PROVE CanvassIndInv'
  BY <1>3, SaveKeeps
<1> QED BY <1>1, <1>2, <1>3, ClockKeeps DEF CanvassNext

LEMMA CanvassBegins == CanvassInit => CanvassIndInv
<1> SUFFICES ASSUME CanvassInit PROVE CanvassIndInv
  OBVIOUS
<1>1. CanvassInv
  BY CanvassAssumption, TablesApart DEF CanvassInit, CanvassInv, CanvassTypeOK, SyncingIsAlive, FailedPledgeLogged,
                                      PrunedIsOld
<1>2. SoundRun(Rest, received, conflicts, status) /\ Rest \in RunRec
  BY DEF Rest, SoundRun, RunRec, Phase
<1>3. RunsSound
  BY <1>2 DEF CanvassInit, RunsSound
<1>4. PlacesInOrder
  BY TablesApart DEF CanvassInit, PlacesInOrder
<1> QED BY <1>1, <1>3, <1>4 DEF CanvassIndInv

\* For any number of rows, overlapping runs and failures: while the state says
\* "syncing" a run or its retry timer is there, so the interval does not wait for
\* nothing, unless a run threw before its try; no pledge is failed without its
\* entry in the conflict log; and a location is pruned only for a newer one.
THEOREM CanvassSound == CanvassSpec => []CanvassInv
<1>1. CanvassIndInv => CanvassInv
  BY DEF CanvassIndInv
<1> QED BY <1>1, CanvassBegins, CanvassInductive, PTL DEF CanvassSpec

-----------------------------------------------------------------------------
(* The canvass sync implements Delivery.                                   *)

CanvassMaps == [CanvassPromise!Next]_(CanvassPromise!deliveryVars)

LEMMA CanvassStutters ==
  ASSUME UNCHANGED <<status, received>>
  PROVE  CanvassMaps
BY DEF CanvassMaps, CanvassPromise!deliveryVars, CanvassState, CanvassArrived

LEMMA SaveMaps ==
  ASSUME CanvassIndInv, NEW i \in Entry, save(i)
  PROVE  CanvassMaps
<1>1. /\ received' = received /\ status[i] = "absent"
      /\ status \in [Entry -> Marks]
  BY DEF save, CanvassIndInv, CanvassInv, CanvassTypeOK, Marks
<1>0. PICK old \in SUBSET Place :
          /\ status' = [j \in Entry |-> IF j = i THEN "pending"
                                        ELSE IF j \in old THEN "pruned" ELSE status[j]]
          /\ old # {} => i \in Place
          /\ \A j \in old : status[j] # "absent"
  BY SaveDrops
<1>2. CanvassArrived' = CanvassArrived
  BY <1>1 DEF CanvassArrived
<1>3. /\ CanvassState[i] = "absent" /\ \A j \in old : CanvassState[j] # "absent"
      /\ CanvassState' = [j \in Entry |-> IF j = i THEN "pending"
                                         ELSE IF j \in old THEN "dropped" ELSE CanvassState[j]]
  BY <1>0, <1>1, TablesApart DEF CanvassState, Marks
<1>4. CanvassPromise!Put(i, old)
  BY <1>0, <1>2, <1>3 DEF CanvassPromise!Put
<1> QED BY <1>4 DEF CanvassMaps, CanvassPromise!Next

\* With a location all the older ones have arrived, and all of them are stored.
LEMMA SendMaps ==
  ASSUME CanvassIndInv, NEW r \in Sync, NEW i \in Entry, Send(r, i)
  PROVE  CanvassMaps
<1>1. CASE received' = received
  BY <1>1, CanvassStutters DEF Send
<1>2. CASE received' = received \cup {i}
  <2> DEFINE S == {i} \cup {j \in Place : i \in Place /\ j <= i}
  <2>1. status' = status /\ S \in SUBSET Entry
    BY TablesApart DEF Send
  <2>2. status[i] # "absent"
    BY DEF Send, Sends, CanvassIndInv, RunsSound, SoundRun
  <2>3. \A j \in S : status[j] # "absent"
    BY <2>2 DEF CanvassIndInv, PlacesInOrder
  <2>4. \A j \in S : CanvassState[j] # "absent"
    BY <2>1, <2>3 DEF CanvassState
  <2>5. CanvassArrived' = CanvassArrived \cup S
    BY <1>2 DEF CanvassArrived
  <2>6. CanvassState' = CanvassState
    BY <2>1 DEF CanvassState
  <2> HIDE DEF S
  <2>7. CanvassPromise!Arrive(S)
    BY <2>4, <2>5, <2>6 DEF CanvassPromise!Arrive
  <2> QED BY <2>1, <2>7 DEF CanvassMaps, CanvassPromise!Next
<1> QED BY <1>1, <1>2 DEF Send

LEMMA SentMaps ==
  ASSUME CanvassIndInv, NEW r \in Sync, MarkSent(r)
  PROVE  CanvassMaps
<1> DEFINE i == run[r].entry
           S == {j \in Covered(r, i) : Present(j)}
<1>1. /\ run[r].at = "ok" /\ received' = received
      /\ status' = [j \in Entry |-> IF j \in S THEN "synced" ELSE status[j]]
      /\ status \in [Entry -> Marks]
  BY DEF MarkSent, CanvassIndInv, CanvassInv, CanvassTypeOK, Marks
<1>2. /\ i \in received /\ i \in run[r].todo /\ run[r].todo \subseteq Entry
      /\ run[r].todo \subseteq Table(PhaseOf(i))
      /\ i \in Place => \A j \in run[r].todo : j <= i
  BY <1>1 DEF CanvassIndInv, RunsSound, SoundRun, RunRec
<1>3. S \in SUBSET Entry
  BY <1>2 DEF Covered
<1>4. S \subseteq CanvassArrived
  <2>1. CASE i \in Place
    <3>1. run[r].todo \subseteq Place
      BY <1>2, <2>1, TablesApart
    <3> QED BY <1>2, <2>1, <3>1 DEF Covered, CanvassArrived
  <2>2. CASE i \notin Place
    BY <1>2, <2>2 DEF Covered, CanvassArrived
  <2> QED BY <2>1, <2>2
<1>8. \A j \in S : CanvassState[j] # "dropped"
  BY <1>1, <1>3 DEF CanvassState, Present, Marks
<1> HIDE DEF S
<1>5. CanvassArrived' = CanvassArrived
  BY <1>1 DEF CanvassArrived
<1>6. CanvassState' = [j \in Entry |-> IF j \in S THEN "done" ELSE CanvassState[j]]
  BY <1>1 DEF CanvassState
<1>7. CanvassPromise!Finish(S)
  BY <1>4, <1>5, <1>6, <1>8 DEF CanvassPromise!Finish
<1> QED BY <1>3, <1>7 DEF CanvassMaps, CanvassPromise!Next

LEMMA FailedMaps ==
  ASSUME CanvassIndInv, NEW r \in Sync, Refused(r) \/ MarkFailed(r)
  PROVE  CanvassMaps
<1> DEFINE i == run[r].entry
<1>1. /\ received' = received /\ run[r].at \in {"ok", "refused", "conflict", "park"}
      /\ status' = status \/ status' = [status EXCEPT ![i] = "failed"]
      /\ status \in [Entry -> Marks]
      /\ status' = status \/ i \notin Place
  BY CanvassAssumption DEF Refused, MarkFailed, CanvassIndInv, CanvassInv, CanvassTypeOK, Marks,
                           RunsSound, SoundRun
<1>2. CASE status' = status
  BY <1>1, <1>2, CanvassStutters
<1>3. CASE status' = [status EXCEPT ![i] = "failed"] /\ i \notin Place
  <2>1. i \in Entry /\ status[i] \notin {"absent", "pruned"}
    BY <1>1, <1>3, ContinueSound DEF CanvassIndInv, RunsSound, SoundRun, PlacesInOrder
  <2>2. CanvassArrived' = CanvassArrived
    BY <1>1 DEF CanvassArrived
  <2>3. CanvassState' = [CanvassState EXCEPT ![i] = "parked"]
        /\ CanvassState[i] \notin {"absent", "dropped"}
    BY <1>1, <1>3, <2>1 DEF CanvassState, Marks
  <2>4. CanvassPromise!Park(i)
    BY <2>2, <2>3 DEF CanvassPromise!Park
  <2> QED BY <2>1, <2>4 DEF CanvassMaps, CanvassPromise!Next
<1> QED BY <1>1, <1>2, <1>3

LEMMA CanvassStepMaps == CanvassIndInv /\ [CanvassNext]_canvassVars => CanvassMaps
<1> SUFFICES ASSUME CanvassIndInv, [CanvassNext]_canvassVars PROVE CanvassMaps
  OBVIOUS
<1>1. ASSUME NEW r \in Sync,
             \/ logConflict(r) \/ NextPhase(r) \/ EndRun(r) \/ Thrown(r)
             \/ Counted(r) \/ CountThrows(r) \/ DiskThrows(r)
             \/ Tick(r) \/ start(r) \/ NetworkUp(r) \/ \E q \in Sync : RetryTimer(r, q)
      PROVE  CanvassMaps
  BY <1>1, CanvassStutters DEF logConflict, NextPhase, EndRun, Thrown, Tick, start, NetworkUp,
                               RetryTimer, Counted, CountThrows, DiskThrows, rowVars
<1>2. ASSUME stop \/ NetworkDown \/ UNCHANGED canvassVars PROVE CanvassMaps
  BY <1>2, CanvassStutters DEF stop, NetworkDown, rowVars, canvassVars
<1> QED
  BY <1>1, <1>2, SaveMaps, SendMaps, SentMaps, FailedMaps DEF CanvassNext, RunStep

LEMMA CanvassBeginMaps == CanvassInit => CanvassPromise!Init
<1> SUFFICES ASSUME CanvassInit PROVE CanvassPromise!Init
  OBVIOUS
<1>1. CanvassState = [i \in Entry |-> "absent"]
  BY DEF CanvassInit, CanvassState
<1>2. CanvassArrived = {}
  BY DEF CanvassInit, CanvassArrived
<1> QED BY <1>1, <1>2 DEF CanvassPromise!Init

\* The canvassers' sync implements Delivery although its runs overlap: a row is
\* called synced only when the server has it (of a location: it or a newer one),
\* and a knock or pledge that was stored stays until it is settled or parked, a
\* location until it is settled or a newer one takes its room.
THEOREM CanvassImplementsDelivery == CanvassSpec => CanvassDelivers
<1>1. CanvassIndInv /\ [CanvassNext]_canvassVars
         => [CanvassPromise!Next]_(CanvassPromise!deliveryVars)
  BY CanvassStepMaps DEF CanvassMaps
<1> QED
  BY CanvassBegins, CanvassInductive, CanvassBeginMaps, <1>1, PTL
  DEF CanvassSpec, CanvassDelivers, CanvassPromise!Spec

-----------------------------------------------------------------------------
(* The session                                                             *)

Renewing(c) == renew[c].at # "none"
Rotating == \E c \in Api : renew[c].at \in {"granted", "writing"}

\* inflightRefresh: one refresh is under way at a time.
SingleFlight == \A c \in Api, d \in Api : Renewing(c) /\ Renewing(d) => c = d

\* The refresh token works while nobody rotates it, or a pair was lost.
RefreshWorks == refresh # NoToken => refresh \in valid \cup revoked \/ torn \/ Rotating

\* The same of the token that a refresh has read, and a cause for a rejection.
RefreshCause ==
    \A c \in Api :
        /\ renew[c].at = "asked" => renew[c].token \in valid \cup revoked \/ torn
        /\ renew[c].at = "replayed" => torn
        /\ renew[c].at \in {"granted", "writing"} => renew[c].answer \in valid \cup revoked

SessionIndInv == SessionTypeOK /\ SingleFlight /\ RefreshWorks /\ RefreshCause /\ SessionEndsForCause

\* What a step with the same tokens leaves of the types of the calls.
LEMMA TypesGrow ==
  ASSUME SessionTypeOK, issued' \in 0 .. MaxToken, issued' >= issued
  PROVE  /\ Calls \subseteq Calls' /\ Refreshes \subseteq Refreshes'
         /\ 0 .. issued \subseteq 0 .. issued' /\ 1 .. issued \subseteq 1 .. issued'
  BY MaxTokenAssumption DEF SessionTypeOK, Calls, Refreshes

\* An action of the calls or of the refresh keeps the types.
LEMMA CallTypes ==
  ASSUME SessionTypeOK, NEW c \in Api,
         rawRequest(c) \/ api(c) \/ Refreshing(c)
  PROVE  SessionTypeOK'
<1> USE MaxTokenAssumption DEF SessionTypeOK
<1>0. NoToken \in 0 .. issued /\ NoCall \in Calls /\ NoRefresh \in Refreshes
  BY DEF NoToken, NoCall, NoRefresh, Calls, Refreshes
<1>1. ASSUME NEW ok \in BOOLEAN, Finish(c, ok), issued' = issued
      PROVE  call' \in [Api -> Calls'] /\ renew' \in [Api -> Refreshes']
  BY <1>0, <1>1 DEF Finish, Calls, Refreshes
<1>2. CASE rawRequest(c)
  BY <1>0, <1>2 DEF rawRequest, Calls, Refreshes, tokenVars, storeVars, routeVars, pastVars
<1>4. CASE api(c)
  BY <1>0, <1>4 DEF api, StartRefresh, Calls, Refreshes, tokenVars, storeVars, routeVars, pastVars
<1>5. CASE readRefresh(c)
  <2>1. CASE Finish(c, FALSE) /\ wedged' = TRUE
    BY <1>1, <1>5, <2>1 DEF readRefresh, tokenVars, storeVars, routeVars
  <2>2. CASE /\ renew' = [renew EXCEPT ![c].at = "asked", ![c].token = refresh]
             /\ UNCHANGED <<call, wedged>>
    <3>1. renew' \in [Api -> Refreshes] /\ issued' = issued
      BY <1>5, <2>2 DEF readRefresh, Refreshes, tokenVars
    <3> QED BY <1>5, <2>2, <3>1 DEF readRefresh, Calls, Refreshes, tokenVars, storeVars, routeVars
  <2> QED BY <1>5, <2>1, <2>2 DEF readRefresh
<1>6. CASE handleRefreshToken(c)
  <2>1. CASE Rotated(renew[c].token) /\ issued' = issued + 1
    <3>1. /\ issued' \in 0 .. MaxToken /\ issued' >= issued
          /\ valid' = (valid \ {renew[c].token}) \cup {issued + 1}
          /\ renew' = [renew EXCEPT ![c].at = "granted", ![c].answer = issued + 1]
      BY <1>6, <2>1 DEF handleRefreshToken, Rotated
    <3>2. renew' \in [Api -> Refreshes'] /\ call' \in [Api -> Calls']
      BY <1>6, <2>1, <3>1, TypesGrow DEF handleRefreshToken, Refreshes, Calls
    <3>3. /\ valid' \subseteq 1 .. issued' /\ aged' \subseteq 1 .. issued'
          /\ lapsed' \subseteq 1 .. issued' /\ revoked' \subseteq 1 .. issued'
          /\ access' \in 0 .. issued' /\ refresh' \in 0 .. issued'
      BY <1>6, <2>1, <3>1, TypesGrow DEF handleRefreshToken, storeVars
    <3> QED
      BY <1>6, <3>1, <3>2, <3>3 DEF handleRefreshToken, storeVars, routeVars, pastVars
  <2>2. CASE UNCHANGED <<issued, valid>> /\ \E why \in Verdict : renew' = [renew EXCEPT ![c].at = why]
    BY <1>6, <2>2 DEF handleRefreshToken, Calls, Refreshes, storeVars, routeVars, pastVars
  <2> QED
    BY <1>6, <2>1, <2>2 DEF handleRefreshToken
<1>7. CASE setAccess(c)
  BY <1>7 DEF setAccess, Calls, Refreshes, tokenVars, routeVars, pastVars
<1>8. CASE setRefresh(c)
  <2>1. refresh' \in 0 .. issued
    BY <1>8 DEF setRefresh, Refreshes
  <2> QED
    BY <1>1, <1>8, <2>1 DEF setRefresh, tokenVars, routeVars, pastVars
<1>9. CASE expire(c)
  BY <1>0, <1>1, <1>9 DEF expire, replaceRoute, tokenVars
<1>10. CASE loseRefresh(c)
  BY <1>1, <1>10 DEF loseRefresh, tokenVars, storeVars, routeVars
<1> QED
  BY <1>2, <1>4, <1>5, <1>6, <1>7, <1>8, <1>9, <1>10 DEF Refreshing

\* The other actions keep the types.
LEMMA ScreenTypes ==
  ASSUME SessionTypeOK,
         \/ (\E t \in Token : Age(t) \/ Lapse(t) \/ Revoke(t)) \/ Ban \/ handleLogin \/ handleLogout
         \/ tapNotification \/ Navigation \/ Restart \/ UNCHANGED sessionVars
  PROVE  SessionTypeOK'
<1> USE MaxTokenAssumption DEF SessionTypeOK
<1>0. NoToken \in 0 .. issued /\ NoCall \in Calls /\ NoRefresh \in Refreshes
  BY DEF NoToken, NoCall, NoRefresh, Calls, Refreshes
<1>1. CASE \E t \in Token : Age(t) \/ Lapse(t) \/ Revoke(t)
  <2>1. PICK t \in Token : Age(t) \/ Lapse(t) \/ Revoke(t)
    BY <1>1
  <2>2. /\ issued' = issued /\ valid' \subseteq 1 .. issued /\ aged' \subseteq 1 .. issued
        /\ lapsed' \subseteq 1 .. issued /\ revoked' \subseteq 1 .. issued
    BY <2>1 DEF Age, Lapse, Revoke
  <2>3. UNCHANGED <<banned, storeVars, call, renew, routeVars, pastVars>>
    BY <2>1 DEF Age, Lapse, Revoke
  <2> QED BY <2>2, <2>3 DEF Calls, Refreshes, storeVars, routeVars, pastVars
<1>2. CASE Ban
  BY <1>2 DEF Ban, Calls, Refreshes, storeVars, routeVars, pastVars
<1>3. CASE handleLogin
  <2>1. issued' \in 0 .. MaxToken /\ issued' >= issued /\ issued' = issued + 1
    BY <1>3 DEF handleLogin
  <2>2. renew' \in [Api -> Refreshes'] /\ call' \in [Api -> Calls']
    BY <1>3, <2>1, TypesGrow DEF handleLogin
  <2>3. /\ valid' \subseteq 1 .. issued' /\ aged' \subseteq 1 .. issued'
        /\ lapsed' \subseteq 1 .. issued' /\ revoked' \subseteq 1 .. issued'
        /\ access' \in 0 .. issued' /\ refresh' \in 0 .. issued'
    BY <1>3, <2>1, TypesGrow DEF handleLogin
  <2>4. torn' \in BOOLEAN
    BY <1>3 DEF handleLogin
  <2> QED
    BY <1>3, <2>1, <2>2, <2>3, <2>4 DEF handleLogin, replaceRoute
<1>4. CASE handleLogout
  BY <1>0, <1>4 DEF handleLogout, replaceRoute, Calls, Refreshes, tokenVars
<1>5. CASE tapNotification
  BY <1>5 DEF tapNotification, replaceRoute, Calls, Refreshes, tokenVars, storeVars, pastVars
<1>6. CASE Navigation
  <2> USE DEF tokenVars, storeVars, pastVars, Calls, Refreshes
  <2>1. CASE loadMode
    <3>1. due' \in BOOLEAN
      BY <2>1 DEF loadMode
    <3> QED BY <2>1, <3>1 DEF loadMode
  <2>2. CASE guard
    BY <2>2 DEF guard, replaceRoute
  <2>3. CASE boot
    BY <2>3 DEF boot, replaceRoute
  <2> QED BY <1>6, <2>1, <2>2, <2>3 DEF Navigation
<1>7. CASE Restart
  BY <1>0, <1>7 DEF Restart, replaceRoute, Calls, Refreshes, tokenVars, storeVars
<1>8. CASE UNCHANGED sessionVars
  BY <1>8 DEF sessionVars, Calls, Refreshes, tokenVars, storeVars, routeVars, pastVars
<1> QED
  BY <1>1, <1>2, <1>3, <1>4, <1>5, <1>6, <1>7, <1>8

-----------------------------------------------------------------------------
(* One refresh at a time                                                   *)

LEMMA FlightStays ==
  ASSUME SessionTypeOK, SingleFlight, [SessionNext]_sessionVars
  PROVE  SingleFlight'
<1> USE DEF SingleFlight, Renewing
<1>0. ASSUME NEW c \in Api, NEW ok \in BOOLEAN, Finish(c, ok) PROVE SingleFlight'
  BY <1>0 DEF Finish, NoRefresh, SessionTypeOK, Refreshes
<1>1. ASSUME NEW c \in Api, rawRequest(c) PROVE SingleFlight'
  BY <1>1 DEF rawRequest
<1>2. ASSUME NEW c \in Api, api(c) PROVE SingleFlight'
  BY <1>2 DEF api, StartRefresh, SessionTypeOK, Refreshes
<1>3. ASSUME NEW c \in Api, Refreshing(c) PROVE SingleFlight'
  <2>1. CASE readRefresh(c)
    BY <1>0, <2>1 DEF readRefresh, SessionTypeOK, Refreshes
  <2>2. CASE handleRefreshToken(c)
    BY <2>2 DEF handleRefreshToken, SessionTypeOK, Refreshes
  <2>3. CASE setAccess(c)
    BY <2>3 DEF setAccess, SessionTypeOK, Refreshes
  <2>4. CASE setRefresh(c) \/ expire(c) \/ loseRefresh(c)
    BY <1>0, <2>4 DEF setRefresh, expire, loseRefresh
  <2> QED BY <1>3, <2>1, <2>2, <2>3, <2>4 DEF Refreshing
<1>4. CASE Restart
  BY <1>4 DEF Restart, NoRefresh
<1>5. CASE UNCHANGED renew
  BY <1>5
<1>6. \A t \in Token : Age(t) \/ Lapse(t) \/ Revoke(t) => UNCHANGED renew
  BY DEF Age, Lapse, Revoke
<1>7. Ban \/ handleLogin \/ handleLogout \/ tapNotification \/ Navigation => UNCHANGED renew
  BY DEF Ban, handleLogin, handleLogout, tapNotification, Navigation, loadMode, guard, boot
<1>8. UNCHANGED sessionVars => UNCHANGED renew
  BY DEF sessionVars
<1> QED
  BY <1>1, <1>2, <1>3, <1>4, <1>5, <1>6, <1>7, <1>8 DEF SessionNext

-----------------------------------------------------------------------------
(* Why a session ends                                                      *)

Cause == RefreshWorks /\ RefreshCause /\ SessionEndsForCause

LEMMA CauseStays ==
  ASSUME SessionIndInv, [SessionNext]_sessionVars
  PROVE  Cause'
<1> USE DEF SessionIndInv, SessionTypeOK, Refreshes, Cause, RefreshWorks, RefreshCause,
            SessionEndsForCause, Rotating, pastVars, storeVars, tokenVars
<1>1. ASSUME NEW c \in Api, rawRequest(c) PROVE Cause'
  BY <1>1 DEF rawRequest
<1>2. ASSUME NEW c \in Api, api(c) PROVE Cause'
  BY <1>2 DEF api, StartRefresh
<1>3. ASSUME NEW c \in Api, readRefresh(c) PROVE Cause'
  <2>1. ~Rotating
    BY <1>3 DEF readRefresh, SingleFlight, Renewing
  <2>2. CASE Finish(c, FALSE)
    BY <1>3, <2>2 DEF readRefresh, Finish, NoRefresh
  <2>3. CASE /\ refresh # NoToken /\ UNCHANGED <<call, wedged>>
             /\ renew' = [renew EXCEPT ![c].at = "asked", ![c].token = refresh]
    BY <1>3, <2>1, <2>3 DEF readRefresh
  <2> QED BY <1>3, <2>2, <2>3 DEF readRefresh
<1>4. ASSUME NEW c \in Api, handleRefreshToken(c) PROVE Cause'
  <2>1. \A d \in Api \ {c} : renew[d].at = "none"
    BY <1>4 DEF handleRefreshToken, SingleFlight, Renewing
  <2>2. CASE Rotated(renew[c].token) /\ issued' = issued + 1
    BY <1>4, <2>1, <2>2 DEF handleRefreshToken, Rotated
  <2>3. CASE UNCHANGED <<issued, valid>>
    BY <1>4, <2>1, <2>3 DEF handleRefreshToken, Rotated, Rejected, Verdict
  <2> QED BY <1>4, <2>2, <2>3 DEF handleRefreshToken
<1>5. ASSUME NEW c \in Api, setAccess(c) PROVE Cause'
  BY <1>5 DEF setAccess
<1>6. ASSUME NEW c \in Api, setRefresh(c) PROVE Cause'
  BY <1>6 DEF setRefresh, Finish, NoRefresh
<1>7. ASSUME NEW c \in Api, expire(c) PROVE Cause'
  BY <1>7 DEF expire, Finish, NoRefresh, Verdict
<1>8. ASSUME NEW c \in Api, loseRefresh(c) PROVE Cause'
  <2>1. \A d \in Api \ {c} : renew[d].at = "none"
    BY <1>8 DEF loseRefresh, SingleFlight, Renewing, Verdict
  <2> QED
    BY <1>8, <2>1 DEF loseRefresh, Finish, NoRefresh
<1>9. ASSUME NEW t \in Token, Age(t) \/ Lapse(t) \/ Revoke(t) PROVE Cause'
  BY <1>9 DEF Age, Lapse, Revoke
<1>10. CASE Ban
  BY <1>10 DEF Ban
<1>11. CASE handleLogin
  <2>1. torn' = torn \/ \A c \in Api : renew[c].at = "none"
    BY <1>11 DEF handleLogin
  <2> QED
    BY <1>11, <2>1 DEF handleLogin
<1>12. CASE handleLogout
  BY <1>12 DEF handleLogout
<1>13. CASE tapNotification \/ Navigation
  BY <1>13 DEF tapNotification, Navigation, loadMode, guard, boot
<1>14. CASE Restart
  <2>1. refresh # NoToken => refresh \in valid \cup revoked \/ torn'
    BY <1>14 DEF Restart
  <2> QED
    BY <1>14, <2>1 DEF Restart, NoRefresh
<1>15. CASE UNCHANGED sessionVars
  BY <1>15 DEF sessionVars
<1> QED
  BY <1>1, <1>2, <1>3, <1>4, <1>5, <1>6, <1>7, <1>8, <1>9, <1>10, <1>11, <1>12,
     <1>13, <1>14, <1>15 DEF SessionNext, Refreshing

LEMMA SessionBegins == SessionInit => SessionIndInv
<1> SUFFICES ASSUME SessionInit PROVE SessionIndInv
  OBVIOUS
<1> USE MaxTokenAssumption DEF SessionInit, NoToken
<1>1. 0 \in 0 .. issued /\ issued \in 0 .. MaxToken
  OBVIOUS
<1>2. call \in [Api -> Calls] /\ renew \in [Api -> Refreshes]
  BY <1>1 DEF Calls, Refreshes, NoCall, NoRefresh
<1>3. SessionTypeOK
  BY <1>1, <1>2 DEF SessionTypeOK
<1>4. \A c \in Api : renew[c].at = "none"
  BY DEF NoRefresh
<1> QED
  BY <1>3, <1>4 DEF SessionIndInv, SingleFlight, Renewing, RefreshWorks, RefreshCause, SessionEndsForCause

-----------------------------------------------------------------------------
\* refreshAccessToken, api, handleRefreshToken and the route guard together: the
\* store and the calls only ever hold tokens that were issued, and a session ends
\* because its refresh token was used before only if a pair that the server had
\* rotated never reached the store, whatever else ended sessions.
THEOREM SessionSafe == SessionSpec => []SessionInv
<1>1. SessionInit => SessionIndInv
  BY SessionBegins
<1>2. SessionIndInv /\ [SessionNext]_sessionVars => SessionIndInv'
  <2> SUFFICES ASSUME SessionIndInv, [SessionNext]_sessionVars PROVE SessionIndInv'
    OBVIOUS
  <2>1. SessionTypeOK'
    BY CallTypes, ScreenTypes DEF SessionIndInv, SessionNext
  <2>2. SingleFlight'
    BY FlightStays DEF SessionIndInv
  <2> QED
    BY <2>1, <2>2, CauseStays DEF SessionIndInv, Cause
<1>3. SessionIndInv => SessionInv
  BY DEF SessionIndInv, SessionInv
<1> QED
  BY <1>1, <1>2, <1>3, PTL DEF SessionSpec

\* inflightRefresh: at most one refresh is under way, so that a refresh token,
\* which works once, is presented once.
THEOREM OneRefresh == SessionSpec => []SingleFlight
<1>1. SessionInit => SessionTypeOK /\ SingleFlight
  BY SessionBegins DEF SessionIndInv
<1>2. SessionTypeOK /\ SingleFlight /\ [SessionNext]_sessionVars
        => (SessionTypeOK /\ SingleFlight)'
  BY CallTypes, ScreenTypes, FlightStays DEF SessionNext
<1> QED
  BY <1>1, <1>2, PTL DEF SessionSpec
==============================================================================
