-------------------------- MODULE AuditChainProofs --------------------------
(***************************************************************************)
(* Proofs about AuditChain for every number of replicas, goroutines and    *)
(* rows: types, no dangling link, and no fork among the blocks of one      *)
(* replica; hence no fork at all when one process writes the log.          *)
(***************************************************************************)
EXTENDS AuditChain, SequenceTheorems, TLAPS

\* Ending a transaction changes the state of its one row and nothing else.
LEMMA EndRowEffect ==
  ASSUME TypeOK, NEW i \in 1..Len(rows),
         NEW v \in {"open", "committed", "aborted"},
         rows' = EndRow(i, v)
  PROVE  /\ rows' \in Seq(Row)
         /\ Len(rows') = Len(rows)
         /\ rows'[i].st = v
         /\ \A j \in 1..Len(rows) : rows'[j].prev = rows[j].prev /\ rows'[j].by = rows[j].by
         /\ \A j \in 1..Len(rows) : j # i => rows'[j] = rows[j]
<1>0. rows[i] \in Row
  BY DEF TypeOK
<1>1. [prev |-> rows[i].prev, by |-> rows[i].by, st |-> v] \in Row
  BY <1>0 DEF Row
<1>2. /\ rows' \in Seq(Row)
      /\ Len(rows') = Len(rows)
      /\ rows'[i] = [prev |-> rows[i].prev, by |-> rows[i].by, st |-> v]
      /\ \A j \in 1..Len(rows) : j # i => rows'[j] = rows[j]
  BY <1>1, ExceptSeq DEF TypeOK, EndRow
<1> QED
  BY <1>2

IInv == TypeOK /\ ChainInv

\* A step that ends w's transaction and returns keeps the invariant: used for
\* Commit and for a failure after the INSERT.
LEMMA EndKeepsIInv ==
  ASSUME IInv, NEW w \in Writer, pc[w] = "commit",
         NEW v \in {"committed", "aborted"},
         rows' = EndRow(mine[w], v), Return(w)
  PROVE  IInv'
<1>1. mine[w] \in 1..Len(rows) /\ rows[mine[w]].st = "open"
  BY DEF IInv, ChainInv
<1>2. /\ rows' \in Seq(Row)
      /\ Len(rows') = Len(rows)
      /\ rows'[mine[w]].st = v
      /\ \A j \in 1..Len(rows) : rows'[j].prev = rows[j].prev
      /\ \A j \in 1..Len(rows) : j # mine[w] => rows'[j] = rows[j]
  BY <1>1, EndRowEffect DEF IInv
<1>3. TypeOK'
  BY <1>2, HostAssumption DEF IInv, TypeOK, Return, PC
<1>4. Committed \subseteq Committed'
  BY <1>1, <1>2 DEF Committed
<1>5. ChainInv'
  <2>1. \A u \in Writer : u # w => pc'[u] = pc[u] /\ tail'[u] = tail[u] /\ mine'[u] = mine[u]
    BY DEF IInv, TypeOK, Return
  <2>2. pc'[w] = "idle" /\ tail'[w] = 0 /\ mine'[w] = 0
    BY DEF IInv, TypeOK, Return
  <2>3. ASSUME NEW u \in Writer, pc'[u] = "commit"
        PROVE  /\ mine'[u] \in 1..Len(rows')
               /\ rows'[mine'[u]].st = "open"
               /\ rows'[mine'[u]].prev = tail'[u]
    <3>1. u # w /\ pc[u] = "commit"
      BY <2>1, <2>2, <2>3
    <3>2. mine[u] \in 1..Len(rows) /\ rows[mine[u]].st = "open" /\ rows[mine[u]].prev = tail[u]
      BY <3>1 DEF IInv, ChainInv
    <3>3. mine[u] # mine[w]
      BY <1>1, <3>1, <3>2 DEF IInv, ChainInv
    <3> QED
      BY <1>2, <2>1, <3>1, <3>2, <3>3
  <2>4. \A u \in Writer : pc'[u] # "commit" => mine'[u] = 0
    BY <2>1, <2>2 DEF IInv, ChainInv
  <2>5. \A u, x \in Writer : mine'[u] = mine'[x] /\ mine'[u] # 0 => u = x
    BY <2>1, <2>2 DEF IInv, ChainInv
  <2>6. \A u \in Writer : tail'[u] = 0 \/ tail'[u] \in Committed'
    BY <1>4, <2>1, <2>2 DEF IInv, ChainInv
  <2>7. \A i \in 1..Len(rows') : \/ rows'[i].prev = 0
                                 \/ rows'[i].prev < i /\ rows'[i].prev \in Committed'
    BY <1>2, <1>4 DEF IInv, ChainInv
  <2> QED
    BY <2>3, <2>4, <2>5, <2>6, <2>7 DEF ChainInv
<1> QED
  BY <1>3, <1>5 DEF IInv

\* A crash aborts the open rows of the replica's goroutines and nothing else.
LEMMA CrashKeepsIInv ==
  ASSUME IInv, NEW p \in Replica, Crash(p)
  PROVE  IInv'
<1> DEFINE gone == {i \in 1..Len(rows) : \E w \in Writer : Host[w] = p /\ mine[w] = i}
<1>1. \A i \in 1..Len(rows) : rows[i] \in Row
  BY DEF IInv, TypeOK
<1>2. rows' = [i \in 1..Len(rows) |->
                 IF i \in gone THEN [prev |-> rows[i].prev, by |-> rows[i].by, st |-> "aborted"] ELSE rows[i]]
  BY DEF Crash
<1>3. \A i \in 1..Len(rows) : [prev |-> rows[i].prev, by |-> rows[i].by, st |-> "aborted"] \in Row
  BY <1>1 DEF Row
<1>4. Len(rows) \in Nat
  BY DEF IInv, TypeOK
<1>5. /\ rows' \in Seq(Row)
      /\ Len(rows') = Len(rows)
      /\ \A i \in 1..Len(rows) : rows'[i].prev = rows[i].prev
      /\ \A i \in 1..Len(rows) : i \notin gone => rows'[i] = rows[i]
  BY <1>1, <1>2, <1>3, <1>4
<1>6. \A w \in Writer : Host[w] \in Replica /\ mine[w] \in Nat
  BY HostAssumption DEF IInv, TypeOK
<1>7. \A i \in gone : rows[i].st = "open"
  BY <1>6 DEF IInv, ChainInv
<1>8. Committed \subseteq Committed'
  BY <1>5, <1>7 DEF Committed
<1>9. /\ pc' = [w \in Writer |-> IF Host[w] = p THEN "idle" ELSE pc[w]]
      /\ tail' = [w \in Writer |-> IF Host[w] = p THEN 0 ELSE tail[w]]
      /\ mine' = [w \in Writer |-> IF Host[w] = p THEN 0 ELSE mine[w]]
      /\ chainMu' = [chainMu EXCEPT ![p] = Free]
  BY DEF Crash
<1>10. TypeOK'
  BY <1>5, <1>9 DEF IInv, TypeOK, PC
<1>11. ChainInv'
  <2>1. ASSUME NEW u \in Writer, pc'[u] = "commit"
        PROVE  /\ mine'[u] \in 1..Len(rows')
               /\ rows'[mine'[u]].st = "open"
               /\ rows'[mine'[u]].prev = tail'[u]
    <3>1. Host[u] # p /\ pc[u] = "commit" /\ mine'[u] = mine[u] /\ tail'[u] = tail[u]
      BY <1>9, <2>1
    <3>2. mine[u] \in 1..Len(rows) /\ rows[mine[u]].st = "open" /\ rows[mine[u]].prev = tail[u]
      BY <3>1 DEF IInv, ChainInv
    <3>3. mine[u] \notin gone
      BY <1>6, <3>1, <3>2 DEF IInv, ChainInv
    <3> QED
      BY <1>5, <3>1, <3>2, <3>3
  <2>2. \A u \in Writer : pc'[u] # "commit" => mine'[u] = 0
    BY <1>9 DEF IInv, ChainInv
  <2>3. \A u, x \in Writer : mine'[u] = mine'[x] /\ mine'[u] # 0 => u = x
    BY <1>9 DEF IInv, ChainInv
  <2>4. \A u \in Writer : tail'[u] = 0 \/ tail'[u] \in Committed'
    BY <1>8, <1>9 DEF IInv, ChainInv
  <2>5. \A i \in 1..Len(rows') : \/ rows'[i].prev = 0
                                 \/ rows'[i].prev < i /\ rows'[i].prev \in Committed'
    BY <1>5, <1>8 DEF IInv, ChainInv
  <2> QED
    BY <2>1, <2>2, <2>3, <2>4, <2>5 DEF ChainInv
<1> QED
  BY <1>10, <1>11 DEF IInv

\* Every step of every goroutine and every crash keeps IInv.
LEMMA StepKeepsIInv ==
  ASSUME IInv, [Next]_vars
  PROVE  IInv'
<1> USE HostAssumption
<1>1. ASSUME NEW w \in Writer, Lock(w) PROVE IInv'
  BY <1>1 DEF Lock, IInv, TypeOK, ChainInv, PC, Committed
<1>2. ASSUME NEW w \in Writer, ReadTail(w) PROVE IInv'
  <2>1. PICK i \in 0..Len(rows) :
           /\ i = 0 \/ i \in Committed
           /\ tail' = [tail EXCEPT ![w] = i]
           /\ pc' = [pc EXCEPT ![w] = IF i = 0 THEN "insert" ELSE "locking"]
    BY <1>2 DEF ReadTail, IsTail
  <2>2. UNCHANGED <<chainMu, mine, rows>> /\ pc[w] = "begin" /\ Len(rows) \in Nat
    BY <1>2 DEF ReadTail, IInv, TypeOK
  <2>3. TypeOK'
    BY <2>1, <2>2 DEF IInv, TypeOK, PC
  <2>4. ChainInv'
    BY <2>1, <2>2 DEF IInv, TypeOK, ChainInv, Committed, PC
  <2> QED
    BY <2>3, <2>4 DEF IInv
<1>3. ASSUME NEW w \in Writer, LockTail(w) PROVE IInv'
  BY <1>3 DEF LockTail, IInv, TypeOK, ChainInv, PC, Committed
<1>4. ASSUME NEW w \in Writer, Insert(w) PROVE IInv'
  <2> DEFINE new == [prev |-> tail[w], by |-> Host[w], st |-> "open"]
  <2>1. /\ rows' = Append(rows, new)
        /\ mine' = [mine EXCEPT ![w] = Len(rows) + 1]
        /\ pc' = [pc EXCEPT ![w] = "commit"]
        /\ UNCHANGED <<chainMu, tail>>
        /\ pc[w] = "insert"
    BY <1>4 DEF Insert
  <2>2. new \in Row /\ rows \in Seq(Row) /\ Len(rows) \in Nat
    BY DEF IInv, TypeOK, Row
  <2>3. /\ rows' \in Seq(Row)
        /\ Len(rows') = Len(rows) + 1
        /\ rows'[Len(rows) + 1] = new
        /\ \A i \in 1..Len(rows) : rows'[i] = rows[i]
    BY <2>1, <2>2, AppendProperties
  <2>4. Committed' = Committed
    BY <2>2, <2>3 DEF Committed
  <2>5. TypeOK'
    BY <2>1, <2>2, <2>3 DEF IInv, TypeOK, PC
  <2>6. \A u \in Writer : mine[u] \in 0..Len(rows) /\ (mine[u] # 0 => pc[u] = "commit")
    BY <2>2 DEF IInv, ChainInv
  <2>7. tail[w] \in Nat /\ (tail[w] = 0 \/ tail[w] \in Committed) /\ tail[w] < Len(rows) + 1
    BY <2>2 DEF IInv, ChainInv, TypeOK, Committed
  <2>8. ChainInv'
    <3>1. ASSUME NEW u \in Writer, pc'[u] = "commit"
          PROVE  /\ mine'[u] \in 1..Len(rows')
                 /\ rows'[mine'[u]].st = "open"
                 /\ rows'[mine'[u]].prev = tail'[u]
      <4>1. CASE u = w
        BY <2>1, <2>2, <2>3, <4>1 DEF IInv, TypeOK
      <4>2. CASE u # w
        BY <2>1, <2>2, <2>3, <3>1, <4>2 DEF IInv, TypeOK, ChainInv
      <4> QED
        BY <4>1, <4>2
    <3>2. \A u \in Writer : pc'[u] # "commit" => mine'[u] = 0
      BY <2>1 DEF IInv, TypeOK, ChainInv
    <3>3. \A u, x \in Writer : mine'[u] = mine'[x] /\ mine'[u] # 0 => u = x
      BY <2>1, <2>2, <2>6 DEF IInv, TypeOK, ChainInv
    <3>4. \A u \in Writer : tail'[u] = 0 \/ tail'[u] \in Committed'
      BY <2>1, <2>4 DEF IInv, ChainInv
    <3>5. \A i \in 1..Len(rows') : \/ rows'[i].prev = 0
                                   \/ rows'[i].prev < i /\ rows'[i].prev \in Committed'
      BY <2>2, <2>3, <2>4, <2>7 DEF IInv, ChainInv
    <3> QED
      BY <3>1, <3>2, <3>3, <3>4, <3>5 DEF ChainInv
  <2> QED
    BY <2>5, <2>8 DEF IInv
<1>5. ASSUME NEW w \in Writer, Commit(w) PROVE IInv'
  BY <1>5, EndKeepsIInv DEF Commit
<1>6. ASSUME NEW w \in Writer, Fail(w) PROVE IInv'
  <2>1. CASE pc[w] = "commit"
    BY <1>6, <2>1, EndKeepsIInv DEF Fail
  <2>2. CASE pc[w] # "commit"
    BY <1>6, <2>2 DEF Fail, Return, IInv, TypeOK, ChainInv, PC, Committed
  <2> QED
    BY <2>1, <2>2
<1>7. ASSUME NEW p \in Replica, Crash(p) PROVE IInv'
  BY <1>7, CrashKeepsIInv
<1>8. CASE UNCHANGED vars
  BY <1>8 DEF vars, IInv, TypeOK, ChainInv, Committed
<1> QED
  BY <1>1, <1>2, <1>3, <1>4, <1>5, <1>6, <1>7, <1>8 DEF Next

\* The inductive invariant holds of logAuditCtx on any number of replicas.
LEMMA IInvHolds == Spec => []IInv
<1>1. Init => IInv
  BY FreeAssumption DEF Init, IInv, TypeOK, ChainInv, PC, Row, Committed
<1>2. IInv /\ [Next]_vars => IInv'
  BY StepKeepsIInv
<1> QED
  BY <1>1, <1>2, PTL DEF Spec

\* Types: logAuditCtx keeps the shapes of the log and of its own state.
THEOREM TypeCorrect == Spec => []TypeOK
BY IInvHolds, PTL DEF IInv

\* No dangling link: on any number of replicas and whatever fails, a committed
\* audit_log row is hashed over a committed older row or over the genesis hash.
THEOREM NoDanglingLink == Spec => []LinksToCommitted
<1>1. IInv => LinksToCommitted
  BY DEF IInv, ChainInv, LinksToCommitted, Committed
<1> QED
  BY <1>1, IInvHolds, PTL

-----------------------------------------------------------------------------
\* Every step keeps TailCoversOwn: the mutex leaves no other goroutine of the
\* replica between its tail read and its commit.
LEMMA StepKeepsTailCoversOwn ==
  ASSUME IInv, TailCoversOwn, [Next]_vars
  PROVE  TailCoversOwn'
<1> USE HostAssumption, FreeAssumption
<1>0. /\ \A v, w \in Writer : pc[v] # "idle" /\ pc[w] # "idle" /\ Host[v] = Host[w] => v = w
      /\ Len(rows) \in Nat
      /\ \A i \in 1..Len(rows) : rows[i] \in Row
      /\ \A i \in 1..Len(rows) : rows[i].prev \in Nat /\ rows[i].by \in Replica
  <2>1. \A v, w \in Writer : pc[v] # "idle" /\ pc[w] # "idle" /\ Host[v] = Host[w] => v = w
    BY DEF TailCoversOwn
  <2>2. Len(rows) \in Nat /\ (\A i \in 1..Len(rows) : rows[i] \in Row)
    BY DEF IInv, TypeOK
  <2>3. \A i \in 1..Len(rows) : rows[i].prev \in Nat /\ rows[i].by \in Replica
    BY <2>2 DEF Row
  <2> QED
    BY <2>1, <2>2, <2>3
<1>1. ASSUME NEW w \in Writer, Lock(w) PROVE TailCoversOwn'
  <2>1. \A v \in Writer : Host[v] = Host[w] => pc[v] = "idle"
    BY <1>1 DEF Lock, TailCoversOwn
  <2> QED
    BY <1>1, <2>1 DEF Lock, IInv, TypeOK, TailCoversOwn, Committed, PC
<1>2. ASSUME NEW w \in Writer, ReadTail(w) PROVE TailCoversOwn'
  <2>1. PICK i \in 0..Len(rows) :
           /\ IsTail(i)
           /\ tail' = [tail EXCEPT ![w] = i]
           /\ pc' = [pc EXCEPT ![w] = IF i = 0 THEN "insert" ELSE "locking"]
    BY <1>2 DEF ReadTail
  <2>2. UNCHANGED <<chainMu, mine, rows>> /\ Committed' = Committed /\ pc[w] = "begin"
    BY <1>2 DEF ReadTail, Committed
  <2>3. \A j \in Committed : j <= i
    BY <2>1 DEF IsTail
  <2>4. tail'[w] = i /\ pc'[w] \in {"insert", "locking"}
    BY <2>1 DEF IInv, TypeOK
  <2>5. \A v \in Writer : v # w => pc'[v] = pc[v] /\ tail'[v] = tail[v]
    BY <2>1 DEF IInv, TypeOK
  <2> QED
    BY <2>2, <2>3, <2>4, <2>5 DEF TailCoversOwn
<1>3. ASSUME NEW w \in Writer, LockTail(w) PROVE TailCoversOwn'
  BY <1>3 DEF LockTail, IInv, TypeOK, TailCoversOwn, Committed, PC
<1>4. ASSUME NEW w \in Writer, Insert(w) PROVE TailCoversOwn'
  <2> DEFINE new == [prev |-> tail[w], by |-> Host[w], st |-> "open"]
  <2>1. new \in Row /\ rows \in Seq(Row)
    BY DEF IInv, TypeOK, Row
  <2>2. /\ Len(rows') = Len(rows) + 1
        /\ rows'[Len(rows) + 1] = new
        /\ \A i \in 1..Len(rows) : rows'[i] = rows[i]
    BY <1>4, <2>1, AppendProperties DEF Insert
  <2>3. Committed' = Committed /\ (\A i \in Committed : rows'[i] = rows[i])
    BY <1>0, <2>2 DEF Committed
  <2>4. /\ UNCHANGED <<chainMu, tail>>
        /\ pc' = [pc EXCEPT ![w] = "commit"] /\ pc[w] = "insert"
        /\ mine' = [mine EXCEPT ![w] = Len(rows) + 1]
    BY <1>4 DEF Insert
  <2>5. ASSUME NEW u \in Writer, pc'[u] = "commit" PROVE rows'[mine'[u]].by = Host[u]
    <3>1. CASE u = w
      BY <2>2, <2>4, <3>1 DEF IInv, TypeOK
    <3>2. CASE u # w
      <4>1. pc[u] = "commit" /\ mine'[u] = mine[u]
        BY <2>4, <2>5, <3>2 DEF IInv, TypeOK
      <4>2. mine[u] \in 1..Len(rows)
        BY <4>1 DEF IInv, ChainInv
      <4> QED
        BY <2>2, <4>1, <4>2 DEF TailCoversOwn
    <3> QED
      BY <3>1, <3>2
  <2>6. \A v \in Writer : pc'[v] # "idle" => pc[v] # "idle"
    BY <2>4 DEF IInv, TypeOK
  <2>7. \A v \in Writer : pc'[v] \in {"locking", "insert", "commit"}
                             => pc[v] \in {"locking", "insert", "commit"}
    BY <2>4 DEF IInv, TypeOK
  <2> QED
    BY <2>3, <2>4, <2>5, <2>6, <2>7 DEF TailCoversOwn
<1>5. ASSUME NEW w \in Writer, Return(w), pc[w] # "idle"
      PROVE  /\ pc'[w] = "idle"
             /\ \A v \in Writer : v # w => /\ pc'[v] = pc[v] /\ tail'[v] = tail[v]
                                           /\ mine'[v] = mine[v]
             /\ \A v \in Writer : pc'[v] # "idle" => chainMu'[Host[v]] = v
  <2>1. /\ pc'[w] = "idle"
        /\ \A v \in Writer : v # w => /\ pc'[v] = pc[v] /\ tail'[v] = tail[v]
                                      /\ mine'[v] = mine[v]
    BY <1>5 DEF Return, IInv, TypeOK
  <2>2. \A v \in Writer : pc'[v] # "idle" => v # w /\ Host[v] # Host[w]
    BY <1>0, <1>5, <2>1
  <2>3. \A v \in Writer : pc'[v] # "idle" => chainMu'[Host[v]] = v
    BY <1>5, <2>1, <2>2 DEF Return, IInv, TypeOK, TailCoversOwn
  <2> QED
    BY <2>1, <2>3
<1>6. ASSUME NEW w \in Writer, Commit(w) PROVE TailCoversOwn'
  <2>1. pc[w] = "commit" /\ Return(w) /\ rows' = EndRow(mine[w], "committed")
    BY <1>6 DEF Commit
  <2>2. /\ mine[w] \in 1..Len(rows)
        /\ rows[mine[w]].prev = tail[w] /\ rows[mine[w]].by = Host[w]
        /\ tail[w] \in Nat
        /\ tail[w] = 0 \/ tail[w] < mine[w]
    BY <2>1 DEF IInv, TypeOK, ChainInv, TailCoversOwn
  <2>3. /\ Len(rows') = Len(rows)
        /\ \A j \in 1..Len(rows) : rows'[j].prev = rows[j].prev /\ rows'[j].by = rows[j].by
        /\ \A j \in 1..Len(rows) : j # mine[w] => rows'[j] = rows[j]
    BY <2>1, <2>2, EndRowEffect DEF IInv
  <2>4. Committed' \subseteq Committed \cup {mine[w]} /\ Committed' \subseteq 1..Len(rows)
    BY <2>2, <2>3 DEF Committed
  <2>5. \A j \in Committed : rows[j].by = Host[w] => j <= tail[w]
    BY <2>1 DEF TailCoversOwn
  <2>6. ASSUME NEW i \in Committed', NEW j \in Committed',
               rows'[i].by = rows'[j].by, j < i
        PROVE  j <= rows'[i].prev
    <3>1. /\ i \in 1..Len(rows) /\ j \in 1..Len(rows)
          /\ rows[i].by = rows[j].by /\ rows'[i].prev = rows[i].prev
      BY <2>3, <2>4, <2>6
    <3>2. CASE i = mine[w]
      <4>1. j \in Committed /\ rows[j].by = Host[w]
        BY <2>2, <2>4, <2>6, <3>1, <3>2
      <4> QED
        BY <2>2, <2>5, <3>1, <3>2, <4>1
    <3>3. CASE i # mine[w] /\ j # mine[w]
      BY <2>4, <2>6, <3>1, <3>3 DEF TailCoversOwn
    <3>4. CASE i # mine[w] /\ j = mine[w]
      <4>1. i \in Committed /\ rows[i].by = Host[w]
        BY <2>2, <2>4, <3>1, <3>4
      <4> QED
        BY <1>0, <2>2, <2>5, <2>6, <3>1, <3>4, <4>1
    <3> QED
      BY <3>2, <3>3, <3>4
  <2>7. ASSUME NEW v \in Writer, pc'[v] # "idle"
        PROVE  v # w /\ Host[v] # Host[w] /\ pc[v] = pc'[v]
    BY <1>0, <1>5, <2>1, <2>7
  <2>8. ASSUME NEW v \in Writer, pc'[v] \in {"locking", "insert", "commit"},
               NEW j \in Committed', rows'[j].by = Host[v]
        PROVE  j <= tail'[v]
    <3>1. v # w /\ Host[v] # Host[w] /\ pc[v] = pc'[v] /\ tail'[v] = tail[v]
      BY <1>5, <2>1, <2>7, <2>8
    <3>2. j # mine[w] /\ j \in Committed /\ rows[j].by = Host[v]
      BY <2>2, <2>3, <2>4, <2>8, <3>1
    <3> QED
      BY <2>8, <3>1, <3>2 DEF TailCoversOwn
  <2>9. ASSUME NEW v \in Writer, pc'[v] = "commit" PROVE rows'[mine'[v]].by = Host[v]
    <3>1. pc[v] = "commit" /\ mine'[v] = mine[v]
      BY <1>5, <2>1, <2>7, <2>9
    <3>2. mine[v] \in 1..Len(rows)
      BY <3>1 DEF IInv, ChainInv
    <3> QED
      BY <2>3, <3>1, <3>2 DEF TailCoversOwn
  <2> QED
    BY <1>5, <2>1, <2>6, <2>8, <2>9 DEF TailCoversOwn
<1>7. ASSUME NEW w \in Writer, Fail(w) PROVE TailCoversOwn'
  <2>1. Return(w) /\ pc[w] # "idle"
    BY <1>7 DEF Fail
  <2>2. /\ Committed' \subseteq Committed
        /\ \A i \in 1..Len(rows) : rows'[i].prev = rows[i].prev /\ rows'[i].by = rows[i].by
    <3>1. CASE pc[w] = "commit"
      <4>1. mine[w] \in 1..Len(rows) /\ rows' = EndRow(mine[w], "aborted")
        BY <1>7, <3>1 DEF Fail, IInv, ChainInv
      <4>2. /\ Len(rows') = Len(rows)
            /\ rows'[mine[w]].st = "aborted"
            /\ \A j \in 1..Len(rows) : rows'[j].prev = rows[j].prev /\ rows'[j].by = rows[j].by
            /\ \A j \in 1..Len(rows) : j # mine[w] => rows'[j] = rows[j]
        BY <4>1, EndRowEffect DEF IInv
      <4> QED
        BY <4>1, <4>2 DEF Committed
    <3>2. CASE pc[w] # "commit"
      BY <1>7, <3>2 DEF Fail, Committed
    <3> QED
      BY <3>1, <3>2
  <2>3. Committed \subseteq 1..Len(rows)
    BY DEF Committed
  <2>4. ASSUME NEW v \in Writer, pc'[v] # "idle"
        PROVE  v # w /\ pc'[v] = pc[v] /\ tail'[v] = tail[v] /\ mine'[v] = mine[v]
    BY <1>5, <2>1, <2>4
  <2>5. \A v \in Writer : pc[v] = "commit" => mine[v] \in 1..Len(rows)
    BY DEF IInv, ChainInv
  <2> QED
    BY <1>5, <2>1, <2>2, <2>3, <2>4, <2>5 DEF TailCoversOwn
<1>8. ASSUME NEW p \in Replica, Crash(p) PROVE TailCoversOwn'
  <2>1. /\ Len(rows') = Len(rows)
        /\ \A i \in 1..Len(rows) : rows'[i].prev = rows[i].prev /\ rows'[i].by = rows[i].by
        /\ \A i \in 1..Len(rows) : rows'[i].st = "aborted" \/ rows'[i] = rows[i]
    BY <1>0, <1>8 DEF Crash
  <2>2. Committed' \subseteq Committed /\ Committed \subseteq 1..Len(rows)
    BY <2>1 DEF Committed
  <2>3. ASSUME NEW v \in Writer, pc'[v] # "idle"
        PROVE  /\ Host[v] # p /\ pc'[v] = pc[v] /\ tail'[v] = tail[v] /\ mine'[v] = mine[v]
               /\ chainMu'[Host[v]] = chainMu[Host[v]]
    BY <1>8, <2>3 DEF Crash, IInv, TypeOK
  <2>4. \A v \in Writer : pc[v] = "commit" => mine[v] \in 1..Len(rows)
    BY DEF IInv, ChainInv
  <2> QED
    BY <2>1, <2>2, <2>3, <2>4 DEF TailCoversOwn
<1>9. CASE UNCHANGED vars
  BY <1>9 DEF vars, TailCoversOwn, Committed
<1> QED
  BY <1>1, <1>2, <1>3, <1>4, <1>6, <1>7, <1>8, <1>9 DEF Next

\* On any number of replicas, the mutex keeps every append's tail past the
\* blocks of its own replica until it commits.
THEOREM TailStaysCurrent == Spec => []TailCoversOwn
<1>1. Init => TailCoversOwn
  BY DEF Init, TailCoversOwn, Committed
<1>2. IInv /\ TailCoversOwn /\ [Next]_vars => TailCoversOwn'
  BY StepKeepsTailCoversOwn
<1> QED
  BY <1>1, <1>2, IInvHolds, PTL DEF Spec

\* What follows from the two invariants about two blocks of one replica.
LEMMA OneSuccessor ==
  ASSUME IInv, TailCoversOwn
  PROVE  NoLocalFork
<1> SUFFICES ASSUME NEW i \in Committed, NEW j \in Committed,
                    rows[i].prev = rows[j].prev, rows[i].by = rows[j].by
             PROVE  i = j
  BY DEF NoLocalFork
<1>1. Len(rows) \in Nat /\ i \in 1..Len(rows) /\ j \in 1..Len(rows)
  BY DEF IInv, TypeOK, Committed
<1>2. rows[i] \in Row /\ rows[j] \in Row
  BY <1>1 DEF IInv, TypeOK
<1>3. rows[i].prev \in Nat /\ rows[j].prev \in Nat
  BY <1>2 DEF Row
<1>4. rows[i].prev < i /\ rows[j].prev < j
  BY <1>1, <1>3 DEF IInv, ChainInv
<1> QED
  BY <1>1, <1>3, <1>4 DEF TailCoversOwn

\* A fork of the audit chain takes two replicas: no two committed blocks of
\* one replica are hashed over the same predecessor.
THEOREM NoForkWithinReplica == Spec => []NoLocalFork
BY OneSuccessor, IInvHolds, TailStaysCurrent, PTL

\* Every goroutine runs on the same replica.
OneProcess == \A p, q \in Replica : p = q

\* With one process the audit chain never forks.
THEOREM NoForkInOneProcess == OneProcess => (Spec => []NoFork)
<1> SUFFICES ASSUME OneProcess PROVE Spec => []NoFork
  OBVIOUS
<1>1. IInv /\ NoLocalFork => NoFork
  <2>1. ASSUME IInv PROVE \A i \in Committed : rows[i].by \in Replica
    <3>1. \A i \in 1..Len(rows) : rows[i] \in Row
      BY <2>1 DEF IInv, TypeOK
    <3> QED
      BY <3>1 DEF Committed, Row
  <2> QED
    BY <2>1 DEF NoLocalFork, NoFork, OneProcess
<1> QED
  BY <1>1, IInvHolds, NoForkWithinReplica, PTL
=============================================================================
