----------------------------- MODULE AuditChain -----------------------------
(***************************************************************************)
(* The hash-chained audit log (logAuditCtx).  Every replica of the backend *)
(* appends to one PostgreSQL table.  An append takes the replica's         *)
(* auditChainMu, opens a READ COMMITTED transaction, reads the tail with   *)
(* SELECT ... ORDER BY id DESC LIMIT 1 FOR UPDATE, hashes its block over   *)
(* the tail's hash, inserts and commits.                                   *)
(*                                                                         *)
(* SHA-256 is taken to be injective and a block binds its whole content,   *)
(* so a block's hash is represented by the block's row id; 0 stands for    *)
(* the 64 zeros that the first block is chained to.                        *)
(***************************************************************************)
EXTENDS Integers, Sequences

CONSTANTS Replica,    \* processes of the backend, each with its own mutex
          Writer,     \* request goroutines
          Host,       \* the replica a goroutine runs on
          Free,       \* "no goroutine holds the mutex"
          MaxRows     \* no append starts once this many rows were inserted

ASSUME HostAssumption == Host \in [Writer -> Replica]
ASSUME FreeAssumption == Free \notin Writer
ASSUME MaxRowsAssumption == MaxRows \in Nat

VARIABLES chainMu,    \* auditChainMu of every replica
          pc,         \* where each goroutine is in logAuditCtx
          tail,       \* the block_hash its tail query returned
          mine,       \* the id of the row it inserted, 0 before
          rows        \* audit_log by id, rows of unfinished transactions included

vars == <<chainMu, pc, tail, mine, rows>>

PC == {"idle", "begin", "locking", "insert", "commit"}

\* by, the replica that inserted the row, is history.
Row == [prev : Nat, by : Replica, st : {"open", "committed", "aborted"}]

Committed == {i \in 1..Len(rows) : rows[i].st = "committed"}

\* Mutant of IsTail: the query also sees rows of unfinished transactions.
DirtyIsTail(i) == i = Len(rows)

\* The row ORDER BY id DESC LIMIT 1 selects in a snapshot taken now.
IsTail(i) ==
    \/ i \in Committed /\ (\A j \in Committed : j <= i)
    \/ i = 0 /\ Committed = {}

\* Mutant of RowLocked: a failed append is not rolled back and keeps its lock.
LeakedRowLock(i) ==
    \/ \E w \in Writer : pc[w] \in {"insert", "commit"} /\ tail[w] = i
    \/ \E j \in 1..Len(rows) : rows[j].prev = i /\ rows[j].st = "aborted"

\* FOR UPDATE holds the selected row until the transaction ends.
RowLocked(i) == \E w \in Writer : pc[w] \in {"insert", "commit"} /\ tail[w] = i

\* The transaction that inserted row i ends.
EndRow(i, outcome) ==
    [rows EXCEPT ![i] = [prev |-> rows[i].prev, by |-> rows[i].by, st |-> outcome]]

Init ==
    /\ chainMu = [p \in Replica |-> Free]
    /\ pc = [w \in Writer |-> "idle"]
    /\ tail = [w \in Writer |-> 0]
    /\ mine = [w \in Writer |-> 0]
    /\ rows = <<>>

\* Mutant of Lock: the append does not take the mutex.
LockWithoutMutex(w) ==
    /\ pc[w] = "idle"
    /\ Len(rows) < MaxRows
    /\ pc' = [pc EXCEPT ![w] = "begin"]
    /\ UNCHANGED <<chainMu, tail, mine, rows>>

\* A handler calls logAudit and gets the in-process mutex.
Lock(w) ==
    /\ pc[w] = "idle"
    /\ Len(rows) < MaxRows
    /\ chainMu[Host[w]] = Free
    /\ chainMu' = [chainMu EXCEPT ![Host[w]] = w]
    /\ pc' = [pc EXCEPT ![w] = "begin"]
    /\ UNCHANGED <<tail, mine, rows>>

\* The tail query starts: its snapshot is fixed here, before any lock wait.
\* An empty table gives no row to lock.
ReadTail(w) ==
    /\ pc[w] = "begin"
    /\ \E i \in 0..Len(rows) :
          /\ IsTail(i)
          /\ tail' = [tail EXCEPT ![w] = i]
          /\ pc' = [pc EXCEPT ![w] = IF i = 0 THEN "insert" ELSE "locking"]
    /\ UNCHANGED <<chainMu, mine, rows>>

\* The row lock is granted.  The row was not updated meanwhile (audit_log is
\* append-only), so PostgreSQL returns it as the snapshot saw it.
LockTail(w) ==
    /\ pc[w] = "locking"
    /\ ~RowLocked(tail[w])
    /\ pc' = [pc EXCEPT ![w] = "insert"]
    /\ UNCHANGED <<chainMu, tail, mine, rows>>

\* Mutant of Insert: the block is chained to the tail's own predecessor.
InsertBehindTail(w) ==
    /\ pc[w] = "insert"
    /\ rows' = Append(rows, [prev |-> tail[w] - 1, by |-> Host[w], st |-> "open"])
    /\ mine' = [mine EXCEPT ![w] = Len(rows) + 1]
    /\ pc' = [pc EXCEPT ![w] = "commit"]
    /\ UNCHANGED <<chainMu, tail>>

\* The block, hashed over the tail's hash, is inserted.
Insert(w) ==
    /\ pc[w] = "insert"
    /\ rows' = Append(rows, [prev |-> tail[w], by |-> Host[w], st |-> "open"])
    /\ mine' = [mine EXCEPT ![w] = Len(rows) + 1]
    /\ pc' = [pc EXCEPT ![w] = "commit"]
    /\ UNCHANGED <<chainMu, tail>>

\* logAuditCtx returns: the deferred Rollback and Unlock.
Return(w) ==
    /\ chainMu' = [chainMu EXCEPT ![Host[w]] = Free]
    /\ pc' = [pc EXCEPT ![w] = "idle"]
    /\ tail' = [tail EXCEPT ![w] = 0]
    /\ mine' = [mine EXCEPT ![w] = 0]

Commit(w) ==
    /\ pc[w] = "commit"
    /\ rows' = EndRow(mine[w], "committed")
    /\ Return(w)

\* Any database error is logged and swallowed; the transaction rolls back.
Fail(w) ==
    /\ pc[w] # "idle"
    /\ rows' = IF pc[w] = "commit"
               THEN EndRow(mine[w], "aborted")
               ELSE rows
    /\ Return(w)

\* A replica dies: its mutex is gone and PostgreSQL rolls its sessions back.
Crash(p) ==
    /\ \E w \in Writer : Host[w] = p /\ pc[w] # "idle"
    /\ chainMu' = [chainMu EXCEPT ![p] = Free]
    /\ pc' = [w \in Writer |-> IF Host[w] = p THEN "idle" ELSE pc[w]]
    /\ tail' = [w \in Writer |-> IF Host[w] = p THEN 0 ELSE tail[w]]
    /\ mine' = [w \in Writer |-> IF Host[w] = p THEN 0 ELSE mine[w]]
    /\ rows' = [i \in 1..Len(rows) |->
                   IF \E w \in Writer : Host[w] = p /\ mine[w] = i
                   THEN [prev |-> rows[i].prev, by |-> rows[i].by, st |-> "aborted"]
                   ELSE rows[i]]

Next ==
    \/ \E w \in Writer : \/ Lock(w) \/ ReadTail(w) \/ LockTail(w)
                         \/ Insert(w) \/ Commit(w) \/ Fail(w)
    \/ \E p \in Replica : Crash(p)

Spec == Init /\ [][Next]_vars

\* A started append goes on to its next statement; nothing promises that a
\* statement fails.  PostgreSQL queues the waiters of a row lock, so a waiter
\* is granted a lock that keeps becoming free.
Fairness ==
    \A w \in Writer : /\ WF_vars(ReadTail(w) \/ Insert(w) \/ Commit(w))
                      /\ SF_vars(LockTail(w))

FairSpec == Spec /\ Fairness

-----------------------------------------------------------------------------
\* Shapes of the state.
TypeOK ==
    /\ chainMu \in [Replica -> Writer \cup {Free}]
    /\ pc \in [Writer -> PC]
    /\ tail \in [Writer -> Nat]
    /\ mine \in [Writer -> Nat]
    /\ rows \in Seq(Row)

\* What every goroutine in logAuditCtx relies on: the row it inserted is its
\* own and still open, its tail is committed, and every row of the table,
\* whatever became of its transaction, is chained to a committed older one.
ChainInv ==
    /\ \A w \in Writer : pc[w] = "commit" =>
          /\ mine[w] \in 1..Len(rows)
          /\ rows[mine[w]].st = "open"
          /\ rows[mine[w]].prev = tail[w]
    /\ \A w \in Writer : pc[w] # "commit" => mine[w] = 0
    /\ \A v, w \in Writer : mine[v] = mine[w] /\ mine[v] # 0 => v = w
    /\ \A w \in Writer : tail[w] = 0 \/ tail[w] \in Committed
    /\ \A i \in 1..Len(rows) :
          \/ rows[i].prev = 0
          \/ rows[i].prev < i /\ rows[i].prev \in Committed

\* auditChainMu makes the tail of an append cover its own replica's blocks: no
\* goroutine of the replica commits a block between another's tail read and its
\* commit, whatever the other replicas do, and a committed block is chained past
\* every older block of its replica (logAuditCtx).
TailCoversOwn ==
    /\ \A w \in Writer : pc[w] # "idle" => chainMu[Host[w]] = w
    /\ \A w \in Writer : pc[w] = "commit" => rows[mine[w]].by = Host[w]
    /\ \A w \in Writer : pc[w] \in {"locking", "insert", "commit"} =>
          \A j \in Committed : rows[j].by = Host[w] => j <= tail[w]
    /\ \A i, j \in Committed : rows[i].by = rows[j].by /\ j < i => j <= rows[i].prev

\* What is true of "cannot fork the chain": two blocks that were hashed over
\* the same predecessor come from two replicas (logAuditCtx).
NoLocalFork ==
    \A i, j \in Committed :
        rows[i].prev = rows[j].prev /\ rows[i].by = rows[j].by => i = j

\* "concurrent writers ... cannot fork the chain": no two committed blocks
\* of audit_log were hashed over the same predecessor (logAuditCtx).
NoFork ==
    \A i, j \in Committed : rows[i].prev = rows[j].prev => i = j

\* Whatever fails or crashes, on any number of replicas, a committed block of
\* audit_log is hashed over a committed older block or over the genesis hash:
\* verification never meets a dangling link (logAuditCtx reads the tail in a
\* READ COMMITTED transaction).
LinksToCommitted ==
    \A i \in Committed :
        \/ rows[i].prev = 0
        \/ rows[i].prev < i /\ rows[i].prev \in Committed

\* Waiting on a tail row that another replica holds never lasts for ever: an
\* append that entered logAuditCtx returns, so auditChainMu is released.
AppendReturns == \A w \in Writer : pc[w] # "idle" ~> pc[w] = "idle"

=============================================================================
