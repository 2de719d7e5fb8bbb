------------------------ MODULE CampaignRecordsProofs ------------------------
(***************************************************************************)
(* Proofs about the records of the campaign platform: the ledger of the    *)
(* budget, the personal data of voters and panelists, and the war room.    *)
(* Each part has its inductive invariant and shares nothing with the       *)
(* others.  The statutory cap rests on what is proved here of sums.        *)
(***************************************************************************)
EXTENDS Budget, VoterData, WarRoom, FiniteSetTheorems, WellFoundedInduction, TLAPS

-----------------------------------------------------------------------------
(* Money                                                                   *)

\* The shapes of a request; nothing is said of a sum that it has read.
Asking(t) ==
    t \in [at : {"cap", "sum", "write"}, item : Item, change : Change,
           new : Figure, prev : Figure, room : Figure, seen : {t.seen}]
Writing(t) == t \in [at : {"ledger"}, item : Item, new : Figure]
Giving(t) ==
    /\ t \in [at : {"gift"}, donor : Donor, amount : Nat, seen : Nat]
    /\ t.seen + t.amount <= DonorCap
Shape(t) == t = Resting \/ Asking(t) \/ Writing(t) \/ Giving(t)

Shapes ==
    /\ item \in [Item -> Figure]
    /\ cap \in Figure
    /\ ledger \subseteq [item : Item, new : Figure]
    /\ gifts \in [Donor -> Nat]
    /\ task = [c \in Clerk |-> task[c]]
    /\ \A c \in Clerk : Shape(task[c])

\* The ledger has the figure, or a request is about to write it.
Pending(T, c, i, v) == T[c].at = "ledger" /\ T[c].item = i /\ T[c].new = v
Noted(L, T, i, v) ==
    \/ \E l \in L : l.item = i /\ l.new = v
    \/ \E c \in Clerk : Pending(T, c, i, v)

Traced ==
    \A i \in Item \ lost :
        /\ item[i] # None => Noted(ledger, task, i, item[i])
        /\ item[i] = None /\ (\E v \in Figure : Noted(ledger, task, i, v)) => Noted(ledger, task, i, None)

MoneyIndInv == Shapes /\ Traced /\ DonorCapHeld

-----------------------------------------------------------------------------
\* The four shapes are told apart by where the request is.
LEMMA ShapeByPlace ==
  ASSUME NEW t, Shape(t)
  PROVE  /\ t.at \in {"idle", "cap", "sum", "write", "ledger", "gift"}
         /\ t.at \in {"cap", "sum", "write"} => Asking(t)
         /\ t.at = "ledger" => Writing(t)
         /\ t.at = "gift" => Giving(t)
<1>1. t = Resting => t.at = "idle"
  BY DEF Resting
<1>2. Asking(t) => t.at \in {"cap", "sum", "write"}
  BY DEF Asking
<1>3. Writing(t) => t.at = "ledger"
  BY DEF Writing
<1>4. Giving(t) => t.at = "gift"
  BY DEF Giving
<1> QED BY <1>1, <1>2, <1>3, <1>4 DEF Shape

\* One request takes a new shape.
LEMMA ShapesStay ==
  ASSUME Shapes, NEW c \in Clerk, NEW t, Shape(t), task' = [task EXCEPT ![c] = t],
         item' \in [Item -> Figure], cap' \in Figure,
         ledger' \subseteq [item : Item, new : Figure], gifts' \in [Donor -> Nat]
  PROVE  Shapes' /\ task'[c] = t /\ \A e \in Clerk : e # c => task'[e] = task[e]
<1>1. task'[c] = t /\ \A e \in Clerk : e # c => task'[e] = task[e]
  BY DEF Shapes
<1>2. task' = [e \in Clerk |-> task'[e]]
  BY DEF Shapes
<1>3. \A e \in Clerk : Shape(task'[e])
  BY <1>1 DEF Shapes
<1> QED BY <1>1, <1>2, <1>3 DEF Shapes

\* A request that neither held nor takes up a ledger row leaves the trace.
LEMMA TraceStays ==
  ASSUME MoneyIndInv, UNCHANGED <<item, ledger, lost>>, NEW c \in Clerk,
         task[c].at # "ledger", task'[c].at # "ledger",
         \A e \in Clerk : e # c => task'[e] = task[e]
  PROVE  Traced'
<1>1. \A e \in Clerk, i \in Item, v \in Figure : Pending(task', e, i, v) <=> Pending(task, e, i, v)
  BY DEF Pending
<1>2. \A i \in Item, v \in Figure : Noted(ledger', task', i, v) <=> Noted(ledger, task, i, v)
  BY <1>1 DEF Noted
<1>3. None \in Figure /\ \A i \in Item : item[i] \in Figure
  BY DEF Figure, MoneyIndInv, Shapes
<1> QED BY <1>2, <1>3 DEF Traced, MoneyIndInv

\* The ordinary step: one request moves on and the tables stay.
LEMMA MovesOn ==
  ASSUME MoneyIndInv, UNCHANGED <<item, cap, ledger, gifts, lost, crowded>>,
         NEW c \in Clerk, task[c].at # "ledger",
         NEW t, Shape(t), t.at # "ledger", task' = [task EXCEPT ![c] = t]
  PROVE  MoneyIndInv'
<1>1. Shapes' /\ task'[c] = t /\ \A e \in Clerk : e # c => task'[e] = task[e]
  BY ShapesStay DEF MoneyIndInv, Shapes
<1>2. Traced'
  BY <1>1, TraceStays DEF MoneyIndInv
<1>3. DonorCapHeld'
  BY DEF MoneyIndInv, DonorCapHeld
<1> QED BY <1>1, <1>2, <1>3 DEF MoneyIndInv

-----------------------------------------------------------------------------
(* The actions                                                             *)

LEMMA Begins ==
  ASSUME MoneyIndInv, NEW c \in Clerk, NEW i \in Item, NEW n \in Amount \cup {None},
         \/ BeginUpdate(c, i, n) \/ (n \in Amount /\ BeginCreate(c, i, n))
         \/ BeginDelete(c, i)
  PROVE  MoneyIndInv'
<1>0. /\ task[c].at # "ledger" /\ n \in Figure /\ None \in Figure /\ item[i] \in Figure
      /\ UNCHANGED <<item, cap, ledger, gifts, lost, crowded>>
  BY AmountAssumption DEF BeginUpdate, BeginCreate, BeginDelete, Resting, Figure, MoneyIndInv, Shapes
<1>1. ASSUME NEW p \in {"cap", "write"}, NEW ch \in Change, NEW v \in Figure, NEW w \in Figure,
             task' = [task EXCEPT ![c] =
                [at |-> p, item |-> i, change |-> ch, new |-> v, prev |-> w,
                 room |-> None, seen |-> 0]]
      PROVE  MoneyIndInv'
  <2> DEFINE t == [at |-> p, item |-> i, change |-> ch, new |-> v, prev |-> w,
                   room |-> None, seen |-> 0]
  <2>1. Asking(t) /\ t.at # "ledger"
    BY <1>0 DEF Asking
  <2>2. task' = [task EXCEPT ![c] = t]
    BY <1>1
  <2> HIDE DEF t
  <2> QED BY <1>0, <2>1, <2>2, MovesOn DEF Shape
<1>2. CASE BeginUpdate(c, i, n)
  BY <1>0, <1>1, <1>2 DEF BeginUpdate, Change
<1>3. CASE n \in Amount /\ BeginCreate(c, i, n)
  BY <1>0, <1>1, <1>3 DEF BeginCreate, Change
<1>4. CASE BeginDelete(c, i)
  BY <1>0, <1>1, <1>4 DEF BeginDelete, Change
<1> QED BY <1>2, <1>3, <1>4

LEMMA Checks ==
  ASSUME MoneyIndInv, NEW c \in Clerk, ReadCap(c) \/ CheckSum(c)
  PROVE  MoneyIndInv'
<1>0. /\ Asking(task[c]) /\ task[c].at # "ledger" /\ cap \in Figure
      /\ UNCHANGED <<item, cap, ledger, gifts, lost, crowded>>
  BY ShapeByPlace DEF ReadCap, CheckSum, MoneyIndInv, Shapes
<1>1. CASE ReadCap(c)
  <2> DEFINE p == IF cap = None THEN "write" ELSE "sum"
             t == [task[c] EXCEPT !.at = p, !.room = cap]
  <2>1. p \in {"sum", "write"}
    OBVIOUS
  <2> HIDE DEF p
  <2>2. Asking(t) /\ t.at = p
    BY <1>0, <2>1 DEF Asking
  <2>3. task' = [task EXCEPT ![c] = t]
    BY <1>1 DEF ReadCap, p
  <2> HIDE DEF t
  <2> QED BY <1>0, <2>1, <2>2, <2>3, MovesOn DEF Shape
<1>2. CASE CheckSum(c)
  <2>1. CASE Ends(c)
    BY <1>0, <2>1, MovesOn DEF Ends, Shape, Resting
  <2>2. CASE task' = [task EXCEPT ![c].at = "write", ![c].seen = SpentBut(task[c].item)]
    <3> DEFINE s == SpentBut(task[c].item)
               t == [task[c] EXCEPT !.at = "write", !.seen = s]
    <3> HIDE DEF s
    <3>1. Asking(t) /\ t.at = "write"
      BY <1>0 DEF Asking
    <3>2. task' = [task EXCEPT ![c] = t]
      BY <2>2 DEF s
    <3> HIDE DEF t
    <3> QED BY <1>0, <3>1, <3>2, MovesOn DEF Shape
  <2> QED BY <1>2, <2>1, <2>2 DEF CheckSum
<1> QED BY <1>1, <1>2

LEMMA Writes ==
  ASSUME MoneyIndInv, NEW c \in Clerk, Write(c)
  PROVE  MoneyIndInv'
<1>0. /\ Asking(task[c]) /\ task[c].at = "write"
      /\ UNCHANGED <<cap, ledger, gifts, lost, crowded>>
  BY ShapeByPlace DEF Write, MoneyIndInv, Shapes
<1>1. CASE Ends(c) /\ UNCHANGED item
  BY <1>0, <1>1, MovesOn DEF Ends, Shape, Resting
<1>2. ASSUME NEW i \in Item, NEW v \in Figure, item' = [item EXCEPT ![i] = v],
             task' = [task EXCEPT ![c] = [at |-> "ledger", item |-> i, new |-> v]]
      PROVE  MoneyIndInv'
  <2> DEFINE t == [at |-> "ledger", item |-> i, new |-> v]
  <2>1. Writing(t) /\ t.at = "ledger" /\ t.item = i /\ t.new = v
    BY DEF Writing
  <2>2. task' = [task EXCEPT ![c] = t]
    BY <1>2
  <2> HIDE DEF t
  <2>3. /\ item' \in [Item -> Figure]
        /\ \A j \in Item : item'[j] = IF j = i THEN v ELSE item[j]
    BY <1>2 DEF MoneyIndInv, Shapes
  <2>4. Shapes' /\ task'[c] = t /\ \A e \in Clerk : e # c => task'[e] = task[e]
    BY <1>0, <2>1, <2>2, <2>3, ShapesStay DEF MoneyIndInv, Shapes, Shape
  <2>5. \A e \in Clerk, j \in Item, w \in Figure : Pending(task, e, j, w) => Pending(task', e, j, w)
    BY <1>0, <2>4 DEF Pending
  <2>6. \A e \in Clerk, j \in Item, w \in Figure :
            j # i => (Pending(task', e, j, w) => Pending(task, e, j, w))
    BY <2>1, <2>4 DEF Pending
  <2>7. Pending(task', c, i, v)
    BY <2>1, <2>4 DEF Pending
  <2>8. Noted(ledger', task', i, v)
    BY <2>7 DEF Noted
  <2>9. \A j \in Item, w \in Figure : j # i => (Noted(ledger', task', j, w) <=> Noted(ledger, task, j, w))
    BY <1>0, <2>5, <2>6 DEF Noted
  <2>10. ASSUME NEW j \in Item \ lost'
         PROVE  /\ item'[j] # None => Noted(ledger', task', j, item'[j])
                /\ item'[j] = None /\ (\E w \in Figure : Noted(ledger', task', j, w)) => Noted(ledger', task', j, None)
    <3>1. CASE j = i
      BY <2>3, <2>8, <3>1
    <3>2. CASE j # i
      <4>1. j \in Item \ lost /\ item'[j] = item[j] /\ item[j] \in Figure /\ None \in Figure
        BY <1>0, <2>3, <3>2 DEF MoneyIndInv, Shapes, Figure
      <4> QED BY <2>9, <3>2, <4>1 DEF MoneyIndInv, Traced
    <3> QED BY <3>1, <3>2
  <2>11. Traced'
    BY <2>10 DEF Traced
  <2>12. DonorCapHeld'
    BY <1>0 DEF MoneyIndInv, DonorCapHeld
  <2> QED BY <2>4, <2>11, <2>12 DEF MoneyIndInv
<1>3. CASE /\ item' = [item EXCEPT ![task[c].item] =
                  IF task[c].change = "updated" /\ task[c].new = None
                  THEN item[task[c].item] ELSE task[c].new]
           /\ task' = [task EXCEPT ![c] =
                  [at |-> "ledger", item |-> task[c].item, new |-> item'[task[c].item]]]
  <2>1. task[c].item \in Item /\ task[c].new \in Figure /\ item \in [Item -> Figure]
    BY <1>0 DEF Asking, MoneyIndInv, Shapes
  <2>2. /\ item'[task[c].item] \in Figure
        /\ item' = [item EXCEPT ![task[c].item] = item'[task[c].item]]
    BY <1>3, <2>1
  <2> QED BY <1>2, <1>3, <2>1, <2>2
<1> QED BY <1>1, <1>3 DEF Write

LEMMA WritesLedger ==
  ASSUME MoneyIndInv, NEW c \in Clerk, WriteLedger(c)
  PROVE  MoneyIndInv'
<1>0. /\ Writing(task[c]) /\ task[c].at = "ledger" /\ Ends(c)
      /\ ledger' = ledger \cup {[item |-> task[c].item, new |-> task[c].new]}
      /\ UNCHANGED <<item, cap, gifts, lost, crowded>>
  BY ShapeByPlace DEF WriteLedger, MoneyIndInv, Shapes
<1>1. task[c].item \in Item /\ task[c].new \in Figure
  BY <1>0 DEF Writing
<1>2. Shape(Resting) /\ Resting.at # "ledger"
  BY DEF Shape, Resting
<1>3. ledger' \subseteq [item : Item, new : Figure]
  BY <1>0, <1>1 DEF MoneyIndInv, Shapes
<1>4. Shapes' /\ task'[c] = Resting /\ \A e \in Clerk : e # c => task'[e] = task[e]
  BY <1>0, <1>2, <1>3, ShapesStay DEF MoneyIndInv, Shapes, Ends
<1>5. \A e \in Clerk, j \in Item, w \in Figure :
          /\ e # c => (Pending(task', e, j, w) <=> Pending(task, e, j, w))
          /\ ~Pending(task', c, j, w)
          /\ Pending(task, c, j, w) <=> j = task[c].item /\ w = task[c].new
  BY <1>0, <1>2, <1>4 DEF Pending
<1>6. \A j \in Item, w \in Figure :
          (\E l \in ledger' : l.item = j /\ l.new = w)
          <=> (\E l \in ledger : l.item = j /\ l.new = w) \/ Pending(task, c, j, w)
  <2> DEFINE n == [item |-> task[c].item, new |-> task[c].new]
  <2>0. n.item = task[c].item /\ n.new = task[c].new /\ ledger' = ledger \cup {n}
    BY <1>0
  <2> HIDE DEF n
  <2>1. ASSUME NEW j \in Item, NEW w \in Figure
        PROVE  (\E l \in ledger' : l.item = j /\ l.new = w)
               <=> \/ \E l \in ledger : l.item = j /\ l.new = w
                   \/ j = task[c].item /\ w = task[c].new
    BY <2>0
  <2> QED BY <1>5, <2>1
<1>7. \A j \in Item, w \in Figure : Noted(ledger', task', j, w) <=> Noted(ledger, task, j, w)
  BY <1>5, <1>6 DEF Noted
<1>8. None \in Figure /\ \A j \in Item : item[j] \in Figure
  BY DEF Figure, MoneyIndInv, Shapes
<1>9. Traced'
  BY <1>0, <1>7, <1>8 DEF MoneyIndInv, Traced
<1>10. DonorCapHeld'
  BY <1>0 DEF MoneyIndInv, DonorCapHeld
<1> QED BY <1>4, <1>9, <1>10 DEF MoneyIndInv

LEMMA Fails ==
  ASSUME MoneyIndInv, NEW c \in Clerk, FailBudget(c)
  PROVE  MoneyIndInv'
<1>0. /\ Ends(c) /\ UNCHANGED <<item, cap, ledger, gifts, crowded>>
      /\ lost' = IF task[c].at = "ledger" THEN lost \cup {task[c].item} ELSE lost
  BY DEF FailBudget
<1>1. CASE task[c].at # "ledger"
  BY <1>0, <1>1, MovesOn DEF Ends, Shape, Resting
<1>2. CASE task[c].at = "ledger"
  <2>1. Shape(Resting) /\ Resting.at # "ledger"
    BY DEF Shape, Resting
  <2>2. Shapes' /\ task'[c] = Resting /\ \A e \in Clerk : e # c => task'[e] = task[e]
    BY <1>0, <2>1, ShapesStay DEF MoneyIndInv, Shapes, Ends
  <2>3. \A e \in Clerk, j \in Item \ lost', w \in Figure : Pending(task', e, j, w) <=> Pending(task, e, j, w)
    BY <1>0, <1>2, <2>1, <2>2 DEF Pending
  <2>4. \A j \in Item \ lost', w \in Figure : Noted(ledger', task', j, w) <=> Noted(ledger, task, j, w)
    BY <1>0, <2>3 DEF Noted
  <2>5. None \in Figure /\ \A j \in Item : item[j] \in Figure
    BY DEF Figure, MoneyIndInv, Shapes
  <2>6. lost \subseteq lost'
    BY <1>0
  <2>7. Traced'
    BY <1>0, <2>4, <2>5, <2>6 DEF MoneyIndInv, Traced
  <2>8. DonorCapHeld'
    BY <1>0 DEF MoneyIndInv, DonorCapHeld
  <2> QED BY <2>2, <2>7, <2>8 DEF MoneyIndInv
<1> QED BY <1>1, <1>2

LEMMA Gives ==
  ASSUME MoneyIndInv, NEW c \in Clerk,
         InsertGift(c) \/ \E d \in Donor, n \in Amount : BeginGift(c, d, n)
  PROVE  MoneyIndInv'
<1>1. ASSUME NEW d \in Donor, NEW n \in Amount, BeginGift(c, d, n)
      PROVE  MoneyIndInv'
  <2> DEFINE t == [at |-> "gift", donor |-> d, amount |-> n, seen |-> gifts[d]]
  <2>1. /\ task[c].at # "ledger" /\ task' = [task EXCEPT ![c] = t]
        /\ UNCHANGED <<item, cap, ledger, gifts, lost, crowded>>
    BY <1>1 DEF BeginGift, Resting
  <2>2. Giving(t) /\ t.at = "gift"
    BY <1>1, AmountAssumption DEF BeginGift, Giving, MoneyIndInv, Shapes
  <2> HIDE DEF t
  <2> QED BY <2>1, <2>2, MovesOn DEF Shape
<1>2. CASE InsertGift(c)
  <2> DEFINE t == task[c]
  <2>1. /\ Giving(t) /\ t.at = "gift" /\ Ends(c)
        /\ gifts' = [gifts EXCEPT ![t.donor] = gifts[t.donor] + t.amount]
        /\ crowded' = IF gifts[t.donor] # t.seen THEN crowded \cup {t.donor} ELSE crowded
        /\ UNCHANGED <<item, cap, ledger, lost>>
    BY <1>2, ShapeByPlace DEF InsertGift, MoneyIndInv, Shapes
  <2>2. /\ t.donor \in Donor /\ t.amount \in Nat /\ t.seen \in Nat
        /\ t.seen + t.amount <= DonorCap /\ gifts \in [Donor -> Nat]
    BY <2>1 DEF Giving, MoneyIndInv, Shapes
  <2>3. gifts' \in [Donor -> Nat]
    BY <2>1, <2>2
  <2>4. Shape(Resting) /\ Resting.at # "ledger"
    BY DEF Shape, Resting
  <2>5. Shapes' /\ task'[c] = Resting /\ \A e \in Clerk : e # c => task'[e] = task[e]
    BY <2>1, <2>3, <2>4, ShapesStay DEF MoneyIndInv, Shapes, Ends
  <2>6. Traced'
    BY <2>1, <2>4, <2>5, TraceStays
  <2>7. DonorCapHeld'
    BY <2>1, <2>2, CapAssumption DEF MoneyIndInv, DonorCapHeld
  <2> QED BY <2>5, <2>6, <2>7 DEF MoneyIndInv
<1> QED BY <1>1, <1>2

-----------------------------------------------------------------------------
LEMMA MoneyStarts == MoneyInit => MoneyIndInv
<1> SUFFICES ASSUME MoneyInit PROVE MoneyIndInv
  OBVIOUS
<1>1. None \in Figure /\ Caps \subseteq Figure
  BY CapAssumption DEF Figure
<1>2. Shapes
  BY <1>1 DEF MoneyInit, Shapes, Shape
<1>3. \A i \in Item, v \in Figure : ~Noted(ledger, task, i, v)
  BY DEF MoneyInit, Noted, Pending, Resting
<1>4. Traced
  BY <1>3 DEF MoneyInit, Traced
<1>5. DonorCapHeld
  BY CapAssumption DEF MoneyInit, DonorCapHeld
<1> QED BY <1>2, <1>4, <1>5 DEF MoneyIndInv

LEMMA MoneyQuiet ==
  ASSUME MoneyIndInv, UNCHANGED <<item, ledger, gifts, task, lost, crowded>>, cap' \in Figure
  PROVE  MoneyIndInv'
<1>1. Shapes'
  BY DEF MoneyIndInv, Shapes
<1>2. Traced'
  BY DEF MoneyIndInv, Traced, Noted, Pending
<1>3. DonorCapHeld'
  BY DEF MoneyIndInv, DonorCapHeld
<1> QED BY <1>1, <1>2, <1>3 DEF MoneyIndInv

LEMMA MoneyInductive == MoneyIndInv /\ [MoneyNext]_moneyVars => MoneyIndInv'
<1> SUFFICES ASSUME MoneyIndInv, [MoneyNext]_moneyVars PROVE MoneyIndInv'
  OBVIOUS
<1>1. ASSUME NEW c \in Clerk, NEW i \in Item, NEW n \in Amount \cup {None}, BeginUpdate(c, i, n)
      PROVE  MoneyIndInv'
  BY <1>1, Begins
<1>2. ASSUME NEW c \in Clerk, NEW i \in Item, NEW n \in Amount, BeginCreate(c, i, n)
      PROVE  MoneyIndInv'
  BY <1>2, Begins
<1>3. ASSUME NEW c \in Clerk, NEW i \in Item, BeginDelete(c, i)
      PROVE  MoneyIndInv'
  <2>1. None \in Amount \cup {None}
    OBVIOUS
  <2> QED BY <1>3, <2>1, Begins
<1>4. ASSUME NEW c \in Clerk,
             ReadCap(c) \/ CheckSum(c) \/ Write(c) \/ WriteLedger(c) \/ FailBudget(c)
      PROVE  MoneyIndInv'
  BY <1>4, Checks, Writes, WritesLedger, Fails
<1>5. ASSUME NEW n \in Caps, SetCap(n)
      PROVE  MoneyIndInv'
  BY <1>5, MoneyQuiet, CapAssumption DEF SetCap, Figure
<1>6. CASE GiftNext
  BY <1>6, Gives DEF GiftNext
<1>7. CASE UNCHANGED moneyVars
  BY <1>7, MoneyQuiet DEF moneyVars, MoneyIndInv, Shapes
<1> QED
  BY <1>1, <1>2, <1>3, <1>4, <1>5, <1>6, <1>7 DEF MoneyNext, BudgetNext

LEMMA TraceIsKept == MoneyIndInv => LedgerTraces
<1> SUFFICES ASSUME MoneyIndInv, NEW i \in Item \ lost, ~PendingRow(i)
             PROVE  /\ item[i] # None => \E l \in ledger : l.item = i /\ l.new = item[i]
                    /\ item[i] = None /\ (\E l \in ledger : l.item = i)
                          => \E l \in ledger : l.item = i /\ l.new = None
  BY DEF LedgerTraces
<1>1. \A v \in Figure : Noted(ledger, task, i, v) => \E l \in ledger : l.item = i /\ l.new = v
  BY DEF Noted, Pending, PendingRow
<1>2. item[i] \in Figure /\ None \in Figure
  BY DEF MoneyIndInv, Shapes, Figure
<1>3. ASSUME NEW l \in ledger, l.item = i PROVE \E v \in Figure : Noted(ledger, task, i, v)
  <2>1. l.new \in Figure
    BY DEF MoneyIndInv, Shapes
  <2> QED BY <1>3, <2>1 DEF Noted
<1> QED BY <1>1, <1>2, <1>3 DEF MoneyIndInv, Traced

\* writeBudgetLedger: between requests the ledger accounts for every item and
\* every removal, except where a request died between its two statements.
THEOREM LedgerAccounts == MoneySpec => []LedgerTraces
  BY MoneyStarts, MoneyInductive, TraceIsKept, PTL DEF MoneySpec

\* addScreenedFundraisingTransaction: only donors whose gifts were checked
\* against one sum can pass the cap.
THEOREM DonorsCapped == MoneySpec => []DonorCapHeld
<1>1. MoneyIndInv => DonorCapHeld
  BY DEF MoneyIndInv
<1> QED BY MoneyStarts, MoneyInductive, <1>1, PTL DEF MoneySpec

-----------------------------------------------------------------------------
(* Sums.  The induction theorems of the library take a predicate, which no *)
(* prover here can instantiate; the least-element principle takes a set.   *)

LEMMA LeastNumber ==
  ASSUME NEW T, T \subseteq Nat, T # {}
  PROVE  \E x \in T : \A y \in T : ~(y < x)
<1>1. IsWellFoundedOn(OpToRel(<, Nat), Nat)
  BY NatLessThanWellFounded
<1>2. \E x \in T : \A y \in T : ~(<<y, x>> \in OpToRel(<, Nat))
  BY <1>1, WFMin
<1> QED BY <1>2 DEF OpToRel

LEMMA NumberInduction ==
  ASSUME NEW T, T \subseteq Nat, 0 \in T, \A n \in T : n + 1 \in T
  PROVE  T = Nat
<1> SUFFICES ASSUME T # Nat PROVE FALSE
  OBVIOUS
<1>1. PICK x \in Nat \ T : \A y \in Nat \ T : ~(y < x)
  <2>1. Nat \ T # {} /\ Nat \ T \subseteq Nat
    OBVIOUS
  <2> QED BY <2>1, LeastNumber
<1>2. x # 0 /\ x - 1 \in Nat /\ x - 1 < x
  BY <1>1
<1>3. x - 1 \in T
  BY <1>1, <1>2
<1> QED BY <1>1, <1>2, <1>3

\* The subsets of a finite set, and one element taken off them.
LEMMA SubsetSizes ==
  ASSUME NEW S, IsFiniteSet(S), NEW s \in SUBSET S
  PROVE  /\ IsFiniteSet(s) /\ Cardinality(s) \in Nat /\ Cardinality(s) <= Cardinality(S)
         /\ Cardinality(s) = 0 <=> s = {}
         /\ \A x \in s : s \ {x} \in SUBSET S /\ Cardinality(s \ {x}) = Cardinality(s) - 1
<1>1. IsFiniteSet(s) /\ Cardinality(s) <= Cardinality(S)
  BY FS_Subset
<1>2. Cardinality(s) \in Nat
  BY <1>1, FS_CardinalityType
<1>3. Cardinality(s) = 0 <=> s = {}
  BY <1>1, FS_EmptySet
<1>4. \A x \in s : Cardinality(s \ {x}) = Cardinality(s) - 1
  BY <1>1, FS_RemoveElement
<1> QED BY <1>1, <1>2, <1>3, <1>4

LEMMA SubsetInduction ==
  ASSUME NEW S, IsFiniteSet(S), NEW T,
         \A s \in SUBSET S : (\A x \in s : s \ {x} \in T) => s \in T
  PROVE  \A s \in SUBSET S : s \in T
<1> DEFINE K == {n \in Nat : \A s \in SUBSET S : Cardinality(s) = n => s \in T}
<1>1. 0 \in K
  <2>1. \A s \in SUBSET S : Cardinality(s) = 0 => s \in T
    BY SubsetSizes
  <2> QED BY <2>1
<1>2. ASSUME NEW n \in K
      PROVE  n + 1 \in K
  <2>1. ASSUME NEW s \in SUBSET S, Cardinality(s) = n + 1
        PROVE  s \in T
    <3>1. ASSUME NEW x \in s
          PROVE  s \ {x} \in T
      <4>1. s \ {x} \in SUBSET S /\ Cardinality(s \ {x}) = (n + 1) - 1
        BY <2>1, SubsetSizes
      <4>2. Cardinality(s \ {x}) = n
        BY <4>1
      <4> QED BY <4>1, <4>2
    <3> QED BY <3>1
  <2> QED BY <2>1
<1> HIDE DEF K
<1>3. K \subseteq Nat
  BY DEF K
<1>4. K = Nat
  BY <1>1, <1>2, <1>3, NumberInduction
<1> QED BY <1>4, SubsetSizes DEF K

Any(s) == CHOOSE x \in s : TRUE

\* g is the running total that SumFunctionOnSet is defined by, up to a size.
Upto(S, n) == {s \in SUBSET S : Cardinality(s) <= n}
Totals(g, f, D) ==
    g = [s \in D |-> IF s = {} THEN 0 ELSE f[Any(s)] + g[s \ {Any(s)}]]
Total(g, f, S) == Totals(g, f, SUBSET S)

LEMMA AnyIn == ASSUME NEW s, s # {} PROVE Any(s) \in s
BY DEF Any

LEMMA TotalExists ==
  ASSUME NEW S, IsFiniteSet(S), NEW f
  PROVE  \E g : Total(g, f, S)
<1> DEFINE K == {n \in Nat : \E g : Totals(g, f, Upto(S, n))}
<1>1. 0 \in K
  <2> DEFINE g == [s \in Upto(S, 0) |-> 0]
  <2>1. \A s \in Upto(S, 0) : s = {}
    BY SubsetSizes DEF Upto
  <2>2. Totals(g, f, Upto(S, 0))
    BY <2>1 DEF Totals
  <2> QED BY <2>2
<1>2. ASSUME NEW n \in K
      PROVE  n + 1 \in K
  <2>1. PICK g : Totals(g, f, Upto(S, n))
    OBVIOUS
  <2> DEFINE h == [s \in Upto(S, n + 1) |->
                     IF s \in Upto(S, n) THEN g[s] ELSE f[Any(s)] + g[s \ {Any(s)}]]
  <2>0. n \in Nat
    OBVIOUS
  <2>2. Upto(S, n) \subseteq Upto(S, n + 1)
    BY <2>0, SubsetSizes DEF Upto
  <2>3. ASSUME NEW s \in Upto(S, n + 1), s # {}
        PROVE  s \ {Any(s)} \in Upto(S, n)
    BY <2>0, <2>3, SubsetSizes, AnyIn DEF Upto
  <2>4. {} \in Upto(S, n)
    <3>1. Cardinality({}) = 0
      BY SubsetSizes
    <3> QED BY <2>0, <3>1 DEF Upto
  <2>5. ASSUME NEW s \in Upto(S, n + 1)
        PROVE  h[s] = IF s = {} THEN 0 ELSE f[Any(s)] + h[s \ {Any(s)}]
    <3>1. CASE s = {}
      BY <2>1, <2>4, <3>1 DEF Totals
    <3>2. CASE s # {} /\ s \in Upto(S, n)
      <4>1. h[s] = f[Any(s)] + g[s \ {Any(s)}]
        BY <2>1, <3>2 DEF Totals
      <4> QED BY <2>2, <2>3, <3>2, <4>1
    <3>3. CASE s # {} /\ s \notin Upto(S, n)
      BY <2>2, <2>3, <3>3
    <3> QED BY <3>1, <3>2, <3>3
  <2>6. h = [s \in Upto(S, n + 1) |-> h[s]]
    OBVIOUS
  <2> HIDE DEF h
  <2>7. Totals(h, f, Upto(S, n + 1))
    BY <2>5, <2>6 DEF Totals
  <2>8. n + 1 \in Nat
    BY <2>0
  <2> QED BY <2>7, <2>8
<1> HIDE DEF K
<1>3. K \subseteq Nat
  BY DEF K
<1>4. K = Nat
  BY <1>1, <1>2, <1>3, NumberInduction
<1>5. Upto(S, Cardinality(S)) = SUBSET S /\ Cardinality(S) \in Nat
  BY SubsetSizes DEF Upto
<1>6. Cardinality(S) \in K
  BY <1>4, <1>5
<1>7. \E g : Totals(g, f, Upto(S, Cardinality(S)))
  BY <1>6 DEF K
<1> QED BY <1>5, <1>7 DEF Total

LEMMA TotalEmpty ==
  ASSUME NEW S, NEW f, NEW g, Total(g, f, S)
  PROVE  g[{}] = 0
<1>1. {} \in SUBSET S
  OBVIOUS
<1> QED BY <1>1 DEF Total, Totals

LEMMA TotalStep ==
  ASSUME NEW S, NEW f, NEW g, Total(g, f, S), NEW s \in SUBSET S, s # {}
  PROVE  \E x \in s : x = Any(s) /\ g[s] = f[x] + g[s \ {x}]
<1>1. g[s] = f[Any(s)] + g[s \ {Any(s)}]
  BY DEF Total, Totals
<1> QED BY <1>1, AnyIn

LEMMA TotalIsNumber ==
  ASSUME NEW S, IsFiniteSet(S), NEW f, \A x \in S : f[x] \in Nat,
         NEW g, Total(g, f, S)
  PROVE  \A s \in SUBSET S : g[s] \in Nat
<1> DEFINE T == {s \in SUBSET S : g[s] \in Nat}
<1>1. ASSUME NEW s \in SUBSET S, \A x \in s : s \ {x} \in T
      PROVE  s \in T
  <2>1. CASE s = {}
    <3>1. g[{}] = 0
      BY TotalEmpty
    <3> QED BY <2>1, <3>1
  <2>2. CASE s # {}
    <3>1. PICK x \in s : g[s] = f[x] + g[s \ {x}]
      BY <2>2, TotalStep
    <3> QED BY <1>1, <3>1
  <2> QED BY <2>1, <2>2
<1> HIDE DEF T
<1>2. \A s \in SUBSET S : s \in T
  BY <1>1, SubsetInduction
<1> QED BY <1>2 DEF T

\* The order in which the elements are taken does not matter.
LEMMA TotalSplits ==
  ASSUME NEW S, IsFiniteSet(S), NEW f, \A x \in S : f[x] \in Nat,
         NEW g, Total(g, f, S)
  PROVE  \A s \in SUBSET S : \A i \in s : g[s] = f[i] + g[s \ {i}]
<1> DEFINE T == {s \in SUBSET S : \A i \in s : g[s] = f[i] + g[s \ {i}]}
<1>1. ASSUME NEW s \in SUBSET S, \A x \in s : s \ {x} \in T
      PROVE  s \in T
  <2> SUFFICES ASSUME NEW i \in s PROVE g[s] = f[i] + g[s \ {i}]
    OBVIOUS
  <2>0. s # {}
    OBVIOUS
  <2>1. PICK x \in s : g[s] = f[x] + g[s \ {x}]
    BY <2>0, TotalStep
  <2>2. CASE x = i
    BY <2>1, <2>2
  <2>3. CASE x # i
    <3>1. g[s \ {x}] = f[i] + g[(s \ {x}) \ {i}]
      <4>1. s \ {x} \in T /\ i \in s \ {x}
        BY <1>1, <2>3
      <4> QED BY <4>1
    <3>2. g[s \ {i}] = f[x] + g[(s \ {i}) \ {x}]
      <4>1. s \ {i} \in T /\ x \in s \ {i}
        BY <1>1, <2>3
      <4> QED BY <4>1
    <3>3. (s \ {x}) \ {i} = (s \ {i}) \ {x} /\ (s \ {x}) \ {i} \in SUBSET S
      OBVIOUS
    <3>4. f[x] \in Nat /\ f[i] \in Nat /\ g[(s \ {i}) \ {x}] \in Nat
      BY <3>3, TotalIsNumber
    <3>5. PICK r \in Nat : r = g[(s \ {i}) \ {x}]
      BY <3>4
    <3>6. g[s] = f[x] + (f[i] + r) /\ g[s \ {i}] = f[x] + r
      BY <2>1, <3>1, <3>2, <3>3, <3>5
    <3>7. f[x] + (f[i] + r) = f[i] + (f[x] + r)
      BY <3>4, <3>5
    <3> QED BY <3>6, <3>7
  <2> QED BY <2>2, <2>3
<1> HIDE DEF T
<1>2. \A s \in SUBSET S : s \in T
  BY <1>1, SubsetInduction
<1> QED BY <1>2 DEF T

LEMMA SumIsTotal ==
  ASSUME NEW S, IsFiniteSet(S), NEW f
  PROVE  \E g : Total(g, f, S) /\ SumFunctionOnSet(f, S) = g[S]
<1>1. \E g : Total(g, f, S)
  BY TotalExists
<1> QED BY <1>1 DEF SumFunctionOnSet, FoldFunctionOnSet, MapThenFoldSet, Total, Totals, Any

\* Nor do the elements outside.
LEMMA TotalsAgree ==
  ASSUME NEW S, NEW R, IsFiniteSet(R), R \subseteq S, NEW f, NEW e,
         \A x \in R : f[x] = e[x], NEW g, Total(g, f, S)
  PROVE  g[R] = SumFunctionOnSet(e, R)
<1>1. PICK h : Total(h, e, R) /\ SumFunctionOnSet(e, R) = h[R]
  BY SumIsTotal
<1>2. \A s \in SUBSET R : s # {} => \E x \in s : x = Any(s) /\ g[s] = f[x] + g[s \ {x}]
  <2> SUFFICES ASSUME NEW s \in SUBSET R, s # {}
               PROVE  \E x \in s : x = Any(s) /\ g[s] = f[x] + g[s \ {x}]
    OBVIOUS
  <2>1. s \in SUBSET S
    OBVIOUS
  <2> QED BY <2>1, TotalStep
<1>3. \A s \in SUBSET R : s # {} => \E x \in s : x = Any(s) /\ h[s] = e[x] + h[s \ {x}]
  <2> SUFFICES ASSUME NEW s \in SUBSET R, s # {}
               PROVE  \E x \in s : x = Any(s) /\ h[s] = e[x] + h[s \ {x}]
    OBVIOUS
  <2>1. Total(h, e, R)
    BY <1>1
  <2> QED BY <2>1, AnyIn DEF Total, Totals
<1>4. g[{}] = 0 /\ h[{}] = 0
  BY <1>1, TotalEmpty
<1> DEFINE T == {s \in SUBSET R : g[s] = h[s]}
<1>5. ASSUME NEW s \in SUBSET R, \A x \in s : s \ {x} \in T
      PROVE  s \in T
  <2>1. CASE s = {}
    BY <1>4, <2>1
  <2>2. CASE s # {}
    <3>1. PICK x \in s : x = Any(s) /\ g[s] = f[x] + g[s \ {x}]
      BY <1>2, <2>2
    <3>2. PICK y \in s : y = Any(s) /\ h[s] = e[y] + h[s \ {y}]
      BY <1>3, <2>2
    <3>3. g[s \ {x}] = h[s \ {x}] /\ f[x] = e[x]
      BY <1>5, <3>1
    <3> QED BY <3>1, <3>2, <3>3
  <2> QED BY <2>1, <2>2
<1> HIDE DEF T
<1>6. \A s \in SUBSET R : s \in T
  BY <1>5, SubsetInduction
<1>7. R \in T
  BY <1>6
<1> QED BY <1>1, <1>7 DEF T

LEMMA SumIsNumber ==
  ASSUME NEW S, IsFiniteSet(S), NEW f, \A x \in S : f[x] \in Nat
  PROVE  SumFunctionOnSet(f, S) \in Nat
BY SumIsTotal, TotalIsNumber

LEMMA SumSplits ==
  ASSUME NEW S, IsFiniteSet(S), NEW f, \A x \in S : f[x] \in Nat, NEW i \in S
  PROVE  SumFunctionOnSet(f, S) = f[i] + SumFunctionOnSet(f, S \ {i})
<1>1. PICK g : Total(g, f, S) /\ SumFunctionOnSet(f, S) = g[S]
  BY SumIsTotal
<1>2. IsFiniteSet(S \ {i}) /\ S \ {i} \subseteq S
  BY FS_Subset
<1>3. g[S] = f[i] + g[S \ {i}]
  BY <1>1, TotalSplits
<1>4. g[S \ {i}] = SumFunctionOnSet(f, S \ {i})
  BY <1>1, <1>2, TotalsAgree
<1> QED BY <1>1, <1>3, <1>4

LEMMA SumDepends ==
  ASSUME NEW S, IsFiniteSet(S), NEW f, NEW e, \A x \in S : f[x] = e[x]
  PROVE  SumFunctionOnSet(f, S) = SumFunctionOnSet(e, S)
<1>1. PICK g : Total(g, f, S) /\ SumFunctionOnSet(f, S) = g[S]
  BY SumIsTotal
<1>2. S \subseteq S
  OBVIOUS
<1> QED BY <1>1, <1>2, TotalsAgree
-----------------------------------------------------------------------------
(* The statutory cap                                                       *)

\* What a request that is to change an item has established so far.  A checked
\* figure fits under the cap that was read, next to the total that was read.
Checked(U, t) ==
    t.at \in {"cap", "sum", "write"} =>
        /\ t.seen \in Nat
        /\ t.change = "created" => t.item \in U
        /\ t.change \in {"created", "spend_changed"} => t.new \in Nat
        /\ t.change = "updated" => t.new \in {None, t.prev}
        /\ t.change = "deleted" => t.new = None
        /\ t.at \in {"cap", "sum"} => t.change \in {"created", "spend_changed"}
        /\ t.at = "sum" => t.room # None
        /\ t.at = "write" /\ t.change \in {"created", "spend_changed"} /\ t.new # 0 =>
              t.room = None \/ t.seen + t.new <= t.room

CapShapes ==
    /\ used \subseteq Item /\ IsFiniteSet(used)
    /\ \A i \in Item : item[i] # None => i \in used
    /\ lost \subseteq Item /\ excused \in BOOLEAN /\ crowded \subseteq Donor

CapIndInv ==
    /\ CapShapes
    /\ \A c \in Clerk : Checked(used, task[c])
    /\ CapHeld

\* The total is the item's own figure and that of the others.
Own(v) == IF v = None THEN 0 ELSE v

Rows(I) == {j \in Item : I[j] # None}

LEMMA Totalled ==
  ASSUME NEW I \in [Item -> Figure], IsFiniteSet(Rows(I)), NEW i \in Item
  PROVE  /\ SumFunctionOnSet(I, Rows(I) \ {i}) \in Nat /\ Own(I[i]) \in Nat
         /\ SumFunctionOnSet(I, Rows(I)) = Own(I[i]) + SumFunctionOnSet(I, Rows(I) \ {i})
<1>1. \A x \in Rows(I) : I[x] \in Nat
  BY DEF Rows, Figure
<1>2. IsFiniteSet(Rows(I) \ {i}) /\ \A x \in Rows(I) \ {i} : I[x] \in Nat
  BY <1>1, FS_Subset
<1>3. SumFunctionOnSet(I, Rows(I) \ {i}) \in Nat
  BY <1>2, SumIsNumber
<1>4. Own(I[i]) \in Nat
  BY DEF Own, Figure
<1>5. CASE i \in Rows(I)
  <2>1. SumFunctionOnSet(I, Rows(I)) = I[i] + SumFunctionOnSet(I, Rows(I) \ {i})
    BY <1>1, <1>5, SumSplits
  <2> QED BY <1>3, <1>4, <1>5, <2>1 DEF Own, Rows
<1>6. CASE i \notin Rows(I)
  <2>1. Rows(I) \ {i} = Rows(I) /\ I[i] = None
    BY <1>6 DEF Rows
  <2> QED BY <1>3, <1>4, <2>1 DEF Own
<1> QED BY <1>3, <1>4, <1>5, <1>6

LEMMA SpentIs ==
  ASSUME MoneyIndInv, CapShapes, NEW i \in Item
  PROVE  /\ SpentBut(i) \in Nat /\ Own(item[i]) \in Nat
         /\ SumFunctionOnSet(item, Live) = Own(item[i]) + SpentBut(i)
         /\ IsFiniteSet(Live)
<1>1. Live = Rows(item) /\ Live \subseteq used /\ item \in [Item -> Figure]
  BY DEF Live, Rows, CapShapes, MoneyIndInv, Shapes
<1>2. IsFiniteSet(Live)
  BY <1>1, FS_Subset DEF CapShapes
<1> QED BY <1>1, <1>2, Totalled DEF SpentBut

\* Changing one item changes the total by that item.
LEMMA SpentAfter ==
  ASSUME MoneyIndInv, CapShapes, CapShapes', NEW i \in Item, NEW v \in Figure,
         item' = [item EXCEPT ![i] = v]
  PROVE  SumFunctionOnSet(item', Live') = Own(v) + SpentBut(i)
<1>1. /\ item' \in [Item -> Figure] /\ item'[i] = v
      /\ Rows(item') \ {i} = Live \ {i} /\ Live' = Rows(item') /\ Live' \subseteq used'
      /\ \A x \in Live \ {i} : item'[x] = item[x]
  BY DEF Live, Rows, CapShapes, MoneyIndInv, Shapes
<1>2. IsFiniteSet(Rows(item'))
  BY <1>1, FS_Subset DEF CapShapes
<1>3. IsFiniteSet(Live \ {i})
  BY <1>1, <1>2, FS_Subset
<1>4. SumFunctionOnSet(item', Live \ {i}) = SumFunctionOnSet(item, Live \ {i})
  BY <1>1, <1>3, SumDepends
<1>5. SumFunctionOnSet(item', Rows(item')) =
        Own(item'[i]) + SumFunctionOnSet(item', Rows(item') \ {i})
  BY <1>1, <1>2, Totalled
<1> QED BY <1>1, <1>4, <1>5 DEF SpentBut

\* One request moves on and neither the items nor the cap change.
LEMMA CapMovesOn ==
  ASSUME CapIndInv, CapShapes', UNCHANGED <<item, cap, excused>>, used \subseteq used',
         NEW c \in Clerk, NEW t, Checked(used', t), task'[c] = t,
         \A e \in Clerk : e # c => task'[e] = task[e]
  PROVE  CapIndInv'
<1>1. \A e \in Clerk : Checked(used', task'[e])
  BY DEF CapIndInv, Checked
<1>2. CapHeld'
  BY DEF CapIndInv, CapHeld, Live
<1> QED BY <1>1, <1>2 DEF CapIndInv

LEMMA CapBegins ==
  ASSUME MoneyIndInv, CapIndInv, NEW c \in Clerk, NEW i \in Item, NEW n \in Amount \cup {None},
         \/ BeginUpdate(c, i, n) \/ (n \in Amount /\ BeginCreate(c, i, n))
         \/ BeginDelete(c, i)
  PROVE  CapIndInv'
<1>1. /\ UNCHANGED <<item, cap, excused, lost, crowded>> /\ used \subseteq used'
      /\ used' \in {used, used \cup {i}} /\ n \in Figure
      /\ item[i] \in Figure /\ (n \in Amount => n \in Nat)
      /\ task = [e \in Clerk |-> task[e]]
  BY AmountAssumption DEF BeginUpdate, BeginCreate, BeginDelete, Figure, MoneyIndInv, Shapes
<1>2. CapShapes'
  <2>1. IsFiniteSet(used')
    BY <1>1, FS_AddElement DEF CapIndInv, CapShapes
  <2> QED BY <1>1, <2>1 DEF CapIndInv, CapShapes
<1>3. ASSUME NEW p \in {"cap", "write"}, NEW ch, NEW v, NEW w,
             task' = [task EXCEPT ![c] =
                [at |-> p, item |-> i, change |-> ch, new |-> v, prev |-> w,
                 room |-> None, seen |-> 0]],
             ch = "created" => i \in used',
             ch \in {"created", "spend_changed"} => v \in Nat,
             ch = "updated" => v \in {None, w},
             ch = "deleted" => v = None,
             p = "cap" => ch \in {"created", "spend_changed"}
      PROVE  CapIndInv'
  <2> DEFINE t == [at |-> p, item |-> i, change |-> ch, new |-> v, prev |-> w,
                   room |-> None, seen |-> 0]
  <2>1. Checked(used', t)
    BY <1>3 DEF Checked
  <2>2. task' = [task EXCEPT ![c] = t]
    BY <1>3
  <2> HIDE DEF t
  <2>3. task'[c] = t /\ \A e \in Clerk : e # c => task'[e] = task[e]
    BY <1>1, <2>2
  <2> QED BY <1>1, <1>2, <2>1, <2>3, CapMovesOn
<1>4. CASE BeginUpdate(c, i, n)
  BY <1>1, <1>3, <1>4 DEF BeginUpdate
<1>5. CASE n \in Amount /\ BeginCreate(c, i, n)
  BY <1>1, <1>3, <1>5 DEF BeginCreate
<1>6. CASE BeginDelete(c, i)
  BY <1>1, <1>3, <1>6 DEF BeginDelete
<1> QED BY <1>4, <1>5, <1>6

\* assertStatutoryCap, and the steps that only end a request.
LEMMA CapChecks ==
  ASSUME MoneyIndInv, CapIndInv, NEW c \in Clerk, ReadCap(c) \/ CheckSum(c)
  PROVE  CapIndInv'
<1>0. /\ Asking(task[c]) /\ Checked(used, task[c]) /\ cap \in Figure
      /\ UNCHANGED <<item, used, cap, excused, lost, crowded>>
      /\ task = [e \in Clerk |-> task[e]]
  BY ShapeByPlace DEF ReadCap, CheckSum, MoneyIndInv, Shapes, CapIndInv
<1>1. CapShapes' /\ used \subseteq used'
  BY <1>0 DEF CapIndInv, CapShapes
<1>2. CASE ReadCap(c)
  <2> DEFINE p == IF cap = None THEN "write" ELSE "sum"
             t == [task[c] EXCEPT !.at = p, !.room = cap]
  <2>1. p \in {"sum", "write"} /\ (p = "write" <=> cap = None)
    OBVIOUS
  <2> HIDE DEF p
  <2>2. /\ t.at = p /\ t.room = cap /\ t.seen = task[c].seen /\ t.change = task[c].change
        /\ t.new = task[c].new /\ t.item = task[c].item /\ t.prev = task[c].prev
    BY <1>0 DEF Asking
  <2>3. task' = [task EXCEPT ![c] = t] /\ task[c].at = "cap"
    BY <1>2 DEF ReadCap, p
  <2> HIDE DEF t
  <2>4. Checked(used', t)
    BY <1>0, <2>1, <2>2, <2>3 DEF Checked
  <2>5. task'[c] = t /\ \A e \in Clerk : e # c => task'[e] = task[e]
    BY <1>0, <2>3
  <2> QED BY <1>0, <1>1, <2>4, <2>5, CapMovesOn
<1>3. CASE CheckSum(c)
  <2>1. CASE Ends(c)
    <3>1. Checked(used', Resting)
      BY DEF Checked, Resting
    <3>2. task'[c] = Resting /\ \A e \in Clerk : e # c => task'[e] = task[e]
      BY <1>0, <2>1 DEF Ends
    <3> QED BY <1>0, <1>1, <3>1, <3>2, CapMovesOn
  <2>2. CASE /\ task' = [task EXCEPT ![c].at = "write", ![c].seen = SpentBut(task[c].item)]
             /\ ~(SpentBut(task[c].item) + task[c].new > task[c].room)
    <3> DEFINE s == SpentBut(task[c].item)
               t == [task[c] EXCEPT !.at = "write", !.seen = s]
    <3>0. task[c].item \in Item /\ task[c].room \in Figure
      BY <1>0 DEF Asking
    <3>1. s \in Nat
      BY <3>0, SpentIs DEF CapIndInv
    <3> HIDE DEF s
    <3>2. /\ t.at = "write" /\ t.room = task[c].room /\ t.seen = s /\ t.change = task[c].change
          /\ t.new = task[c].new /\ t.item = task[c].item /\ t.prev = task[c].prev
      BY <1>0 DEF Asking
    <3>3. task' = [task EXCEPT ![c] = t]
      BY <2>2 DEF s
    <3> HIDE DEF t
    <3>4. /\ task[c].room \in Nat /\ task[c].new \in Nat /\ s + task[c].new <= task[c].room
          /\ task[c].at = "sum"
      <4>1. task[c].at = "sum"
        BY <1>3 DEF CheckSum
      <4>2. task[c].room \in Nat /\ task[c].new \in Nat
        BY <1>0, <3>0, <4>1 DEF Checked, Figure
      <4> QED BY <2>2, <3>1, <4>1, <4>2 DEF s
    <3>5. Checked(used', t)
      BY <1>0, <3>1, <3>2, <3>4 DEF Checked
    <3>6. task'[c] = t /\ \A e \in Clerk : e # c => task'[e] = task[e]
      BY <1>0, <3>3
    <3> QED BY <1>0, <1>1, <3>5, <3>6, CapMovesOn
  <2> QED BY <1>3, <2>1, <2>2 DEF CheckSum
<1> QED BY <1>2, <1>3

LEMMA CapEnds ==
  ASSUME MoneyIndInv, CapIndInv, NEW c \in Clerk,
         \/ WriteLedger(c) \/ FailBudget(c) \/ InsertGift(c)
         \/ \E d \in Donor, n \in Amount : BeginGift(c, d, n)
  PROVE  CapIndInv'
<1>1. /\ UNCHANGED <<item, cap, excused, used>> /\ task = [e \in Clerk |-> task[e]]
      /\ \/ task' = [task EXCEPT ![c] = Resting]
         \/ \E d \in Donor, n \in Amount :
              task' = [task EXCEPT ![c] = [at |-> "gift", donor |-> d, amount |-> n,
                                           seen |-> gifts[d]]]
  BY DEF WriteLedger, FailBudget, InsertGift, BeginGift, Ends, MoneyIndInv, Shapes
<1>2. /\ task'[c].at \in {"idle", "gift"}
      /\ \A e \in Clerk : e # c => task'[e] = task[e]
  BY <1>1 DEF Resting
<1>3. Checked(used', task'[c])
  BY <1>2 DEF Checked
<1>4. lost' \subseteq Item /\ crowded' \subseteq Donor
  <2>1. CASE FailBudget(c)
    <3>1. task[c].at = "ledger" => task[c].item \in Item
      BY ShapeByPlace DEF MoneyIndInv, Shapes, Writing
    <3> QED BY <2>1, <3>1 DEF FailBudget, CapIndInv, CapShapes
  <2>2. CASE InsertGift(c)
    <3>1. task[c].donor \in Donor
      BY <2>2, ShapeByPlace DEF InsertGift, MoneyIndInv, Shapes, Giving
    <3> QED BY <2>2, <3>1 DEF InsertGift, CapIndInv, CapShapes
  <2>3. CASE WriteLedger(c) \/ \E d \in Donor, n \in Amount : BeginGift(c, d, n)
    BY <2>3 DEF WriteLedger, BeginGift, CapIndInv, CapShapes
  <2> QED BY <2>1, <2>2, <2>3
<1>5. CapShapes'
  BY <1>1, <1>4 DEF CapIndInv, CapShapes
<1> QED BY <1>1, <1>2, <1>3, <1>5, CapMovesOn

\* The UPDATE, the INSERT or the DELETE lands: the total stays under the cap,
\* unless what the request relied on has changed.
LEMMA CapWrites ==
  ASSUME MoneyIndInv, CapIndInv, NEW c \in Clerk, Write(c)
  PROVE  CapIndInv'
<1> DEFINE t == task[c]
           i == task[c].item
<1>0. /\ Asking(t) /\ t.at = "write" /\ Checked(used, t)
      /\ UNCHANGED <<used, cap, lost, crowded>>
      /\ task = [e \in Clerk |-> task[e]] /\ item \in [Item -> Figure] /\ cap \in Figure
  BY ShapeByPlace DEF Write, MoneyIndInv, Shapes, CapIndInv
<1>1. /\ i \in Item /\ t.new \in Figure /\ t.room \in Figure /\ t.seen \in Nat
      /\ t.change \in Change
      /\ t.change = "created" => i \in used
      /\ t.change \in {"created", "spend_changed"} => t.new \in Nat
      /\ t.change = "updated" => t.new \in {None, t.prev}
      /\ t.change = "deleted" => t.new = None
      /\ t.change \in {"created", "spend_changed"} /\ t.new # 0 =>
              t.room = None \/ t.seen + t.new <= t.room
  BY <1>0 DEF Asking, Checked
<1>2. CASE Ends(c) /\ UNCHANGED <<item, excused>>
  <2>1. Checked(used', Resting)
    BY DEF Checked, Resting
  <2>2. task'[c] = Resting /\ \A e \in Clerk : e # c => task'[e] = task[e]
    BY <1>0, <1>2 DEF Ends
  <2>3. CapShapes' /\ used \subseteq used'
    BY <1>0, <1>2 DEF CapIndInv, CapShapes
  <2> QED BY <1>0, <1>2, <2>1, <2>2, <2>3, CapMovesOn
<1>3. CASE /\ ~(t.change \in {"updated", "spend_changed"} /\ item[i] = None)
           /\ item' = [item EXCEPT ![i] =
                  IF t.change = "updated" /\ t.new = None THEN item[i] ELSE t.new]
           /\ task' = [task EXCEPT ![c] = [at |-> "ledger", item |-> i, new |-> item'[i]]]
           /\ excused' = (excused \/ OutOfDate(t))
  <2>1. PICK v \in Figure :
           /\ v = IF t.change = "updated" /\ t.new = None THEN item[i] ELSE t.new
           /\ item' = [item EXCEPT ![i] = v]
    BY <1>0, <1>1, <1>3
  <2>2. \A j \in Item : item'[j] = IF j = i THEN v ELSE item[j]
    BY <1>0, <2>1
  <2>3. v # None => i \in used
    <3>1. item[i] # None => i \in used
      BY <1>1 DEF CapIndInv, CapShapes
    <3> QED BY <1>1, <1>3, <2>1, <3>1 DEF Change
  <2>4. excused \in BOOLEAN /\ excused' \in BOOLEAN /\ (excused => excused')
    BY <1>3, Zenon DEF CapIndInv, CapShapes
  <2>5. CapShapes'
    BY <1>0, <2>2, <2>3, <2>4 DEF CapIndInv, CapShapes
  <2>6. \A e \in Clerk : Checked(used', task'[e])
    <3>1. task'[c].at = "ledger" /\ \A e \in Clerk : e # c => task'[e] = task[e]
      BY <1>0, <1>3
    <3> QED BY <1>0, <3>1 DEF CapIndInv, Checked
  <2>7. CapHeld'
    <3> SUFFICES ASSUME ~excused', cap # None
                 PROVE  SumFunctionOnSet(item', Live') <= cap
      BY <1>0 DEF CapHeld
    <3>1. ~OutOfDate(t) /\ ~excused
      BY <1>3, Zenon
    <3>2. /\ SpentBut(i) \in Nat /\ Own(item[i]) \in Nat /\ cap \in Nat
          /\ Own(item[i]) + SpentBut(i) <= cap
      BY <1>0, <1>1, <3>1, SpentIs DEF CapIndInv, CapHeld, Figure
    <3>3. SumFunctionOnSet(item', Live') = Own(v) + SpentBut(i)
      BY <1>1, <2>1, <2>5, SpentAfter DEF CapIndInv
    <3>4. Own(v) \in Nat /\ Own(v) + SpentBut(i) <= cap
      <4>1. CASE v = item[i] \/ v = None
        BY <3>2, <4>1 DEF Own
      <4>2. CASE v # item[i] /\ v # None
        <5>1. t.change \in {"created", "spend_changed"} /\ v = t.new
          BY <1>1, <2>1, <3>1, <4>2 DEF OutOfDate, Change
        <5>2. CASE v = 0
          BY <3>2, <5>2 DEF Own
        <5>3. CASE v # 0
          <6>1. SpentBut(i) = t.seen /\ cap = t.room
            BY <3>1, <5>1, <5>3 DEF OutOfDate
          <6>2. t.seen + v <= cap /\ v \in Nat /\ Own(v) = v
            BY <1>1, <4>2, <5>1, <5>3, <6>1 DEF Own
          <6> QED BY <3>2, <6>1, <6>2
        <5> QED BY <5>2, <5>3
      <4> QED BY <4>1, <4>2
    <3> QED BY <3>3, <3>4
  <2> QED BY <2>5, <2>6, <2>7 DEF CapIndInv
<1> QED BY <1>2, <1>3 DEF Write

LEMMA CapSet ==
  ASSUME MoneyIndInv, CapIndInv, NEW n \in Caps, SetCap(n)
  PROVE  CapIndInv'
<1>1. UNCHANGED <<item, used, task, lost, crowded>> /\ cap' = n
  BY DEF SetCap
<1>2. excused' \in BOOLEAN /\ (SumFunctionOnSet(item, Live) > n => excused')
  BY Zenon DEF SetCap
<1>3. IsFiniteSet(Live) /\ \A x \in Live : item[x] \in Nat
  <2>1. Live \subseteq used /\ \A x \in Live : item[x] \in Nat
    BY DEF Live, CapIndInv, CapShapes, MoneyIndInv, Shapes, Figure
  <2> QED BY <2>1, FS_Subset DEF CapIndInv, CapShapes
<1>4. SumFunctionOnSet(item, Live) \in Nat /\ n \in Nat
  BY <1>3, SumIsNumber, CapAssumption
<1>5. CapHeld'
  <2>1. Live' = Live /\ item' = item
    BY <1>1 DEF Live
  <2>2. ~(SumFunctionOnSet(item, Live) > n) => SumFunctionOnSet(item, Live) <= n
    BY <1>4
  <2> QED BY <1>1, <1>2, <2>1, <2>2 DEF CapHeld
<1>6. CapShapes'
  BY <1>1, <1>2 DEF CapIndInv, CapShapes
<1> QED BY <1>1, <1>5, <1>6 DEF CapIndInv

LEMMA CapStarts == MoneyInit => CapIndInv
<1> SUFFICES ASSUME MoneyInit PROVE CapIndInv
  OBVIOUS
<1>1. Live = {} /\ IsFiniteSet({})
  BY FS_EmptySet DEF MoneyInit, Live
<1>2. CapShapes
  BY <1>1 DEF MoneyInit, CapShapes
<1>3. \A c \in Clerk : Checked(used, task[c])
  BY DEF MoneyInit, Checked, Resting
<1>4. CapHeld
  <2>1. SumFunctionOnSet(item, {}) = 0
    BY <1>1, SumIsTotal, TotalEmpty
  <2>2. cap = None \/ cap \in Nat
    BY CapAssumption DEF MoneyInit
  <2> QED BY <1>1, <2>1, <2>2 DEF CapHeld
<1> QED BY <1>2, <1>3, <1>4 DEF CapIndInv

LEMMA CapInductive == MoneyIndInv /\ CapIndInv /\ [MoneyNext]_moneyVars => CapIndInv'
<1> SUFFICES ASSUME MoneyIndInv, CapIndInv, [MoneyNext]_moneyVars PROVE CapIndInv'
  OBVIOUS
<1>1. ASSUME NEW c \in Clerk, NEW i \in Item, NEW n \in Amount \cup {None}, BeginUpdate(c, i, n)
      PROVE  CapIndInv'
  BY <1>1, CapBegins
<1>2. ASSUME NEW c \in Clerk, NEW i \in Item, NEW n \in Amount, BeginCreate(c, i, n)
      PROVE  CapIndInv'
  BY <1>2, CapBegins
<1>3. ASSUME NEW c \in Clerk, NEW i \in Item, BeginDelete(c, i)
      PROVE  CapIndInv'
  <2>1. None \in Amount \cup {None}
    OBVIOUS
  <2> QED BY <1>3, <2>1, CapBegins
<1>4. ASSUME NEW c \in Clerk,
             ReadCap(c) \/ CheckSum(c) \/ Write(c) \/ WriteLedger(c) \/ FailBudget(c)
      PROVE  CapIndInv'
  BY <1>4, CapChecks, CapWrites, CapEnds
<1>5. ASSUME NEW n \in Caps, SetCap(n)
      PROVE  CapIndInv'
  BY <1>5, CapSet
<1>6. CASE GiftNext
  BY <1>6, CapEnds DEF GiftNext
<1>7. CASE UNCHANGED moneyVars
  BY <1>7 DEF moneyVars, CapIndInv, CapShapes, CapHeld, Live
<1> QED
  BY <1>1, <1>2, <1>3, <1>4, <1>5, <1>6, <1>7 DEF MoneyNext, BudgetNext

LEMMA MoneyIsKept == MoneyIndInv /\ CapIndInv => MoneyInv
<1> SUFFICES ASSUME MoneyIndInv, CapIndInv PROVE MoneyInv
  OBVIOUS
<1>1. ASSUME NEW c \in Clerk
      PROVE  task[c] \in Request
  <2>1. Shape(task[c]) /\ Checked(used, task[c])
    BY DEF MoneyIndInv, Shapes, CapIndInv
  <2>2. CASE Asking(task[c])
    <3>1. task[c].seen \in Nat
      BY <2>1, <2>2 DEF Asking, Checked
    <3>2. task[c] \in [at : {"cap", "sum", "write"}, item : Item, change : Change,
                       new : Figure, prev : Figure, room : Figure, seen : Nat]
      BY <2>2, <3>1 DEF Asking
    <3> QED BY <3>2 DEF Request
  <2> QED BY <2>1, <2>2 DEF Shape, Writing, Giving, Request
<1>2. task \in [Clerk -> Request]
  <2>1. task = [c \in Clerk |-> task[c]]
    BY DEF MoneyIndInv, Shapes
  <2> QED BY <1>1, <2>1
<1>3. MoneyTypeOK
  BY <1>2 DEF MoneyTypeOK, MoneyIndInv, Shapes, CapIndInv, CapShapes
<1> QED BY <1>3 DEF MoneyInv, CapIndInv, MoneyIndInv

\* assertStatutoryCap: for any number of items, figures, caps and requests that
\* overlap and fail, the total passes the statutory cap only through a check
\* that was out of date when its statement landed, or through a cap set below
\* the total; a donor's only through donations checked against one sum.
THEOREM MoneySound == MoneySpec => []MoneyInv
<1>1. MoneySpec => [](MoneyIndInv /\ CapIndInv)
  BY MoneyStarts, MoneyInductive, CapStarts, CapInductive, PTL DEF MoneySpec
<1> QED BY <1>1, MoneyIsKept, PTL

-----------------------------------------------------------------------------
(* Voter data                                                              *)

\* What a request rests on: the panelist's consent was granted when it was read,
\* and the row that an erasure names is deleted, or was not found, and then
\* logged, before the request goes on.
JobGrounded(h) ==
    /\ job[h].at = "enrol" => consent[job[h].c] \in {"granted", "withdrawn"}
    /\ job[h].at \in {"erase", "log", "close"} => dsar[job[h].d].status # "none"
    /\ job[h].at \in {"log", "close"} => \A v \in dsar[job[h].d].subject :
           voter[v] = "erased" \/ job[h].d \in unfound
    /\ job[h].at = "close" /\ dsar[job[h].d].subject # {} => job[h].d \in erasures

Grounded == \A h \in Handler : JobGrounded(h)

VoterIndInv == VoterInv /\ ErasureReal /\ Grounded

\* The parts of a request, by where it is.
LEMMA JobParts ==
  ASSUME NEW j \in Job
  PROVE  /\ j.at = "trail" => j.todo \subseteq Voter
         /\ j.at = "enrol" => j.p \in Panelist /\ j.c \in Consent
         /\ j.at \in {"erase", "log", "close"} => j.d \in Dsar
         /\ j = Waiting \/ j.at \in {"trail", "enrol", "erase", "log", "close"}
         /\ j = Waiting => j.at = "idle"
  BY DEF Job, Waiting

LEMMA SubjectKnown ==
  ASSUME VoterTypeOK, NEW d \in Dsar, dsar[d].status # "none"
  PROVE  dsar[d].subject \subseteq Voter
  BY DEF VoterTypeOK

-----------------------------------------------------------------------------
LEMMA TypesStay ==
  ASSUME VoterTypeOK, Grounded, [VoterNext]_voterVars
  PROVE  VoterTypeOK'
<1> USE DEF VoterTypeOK
<1>0. Waiting \in Job
  BY DEF Job
<1>1. ASSUME NEW h \in Handler, NEW rows \in SUBSET Voter, InsertChunk(h, rows)
      PROVE  VoterTypeOK'
  <2>1. [at |-> "trail", todo |-> rows] \in Job
    BY DEF Job
  <2> QED BY <1>1, <2>1 DEF InsertChunk
<1>2. ASSUME NEW h \in Handler, WriteConsent(h) PROVE VoterTypeOK'
  <2> PICK v \in job[h].todo : trail' = [trail EXCEPT ![v] = {"consent"}]
    BY <1>2 DEF WriteConsent
  <2>1. trail' \in [Voter -> SUBSET {"consent", "provenance"}]
    OBVIOUS
  <2> QED BY <1>2, <2>1 DEF WriteConsent
<1>3. ASSUME NEW h \in Handler, WriteProvenance(h) PROVE VoterTypeOK'
  <2> PICK v \in job[h].todo :
        /\ trail' = [trail EXCEPT ![v] = @ \cup {"provenance"}]
        /\ job' = [job EXCEPT ![h].todo = @ \ {v}]
    BY <1>3 DEF WriteProvenance
  <2>1. job[h] \in [at : {"trail"}, todo : SUBSET Voter]
    BY <1>3 DEF WriteProvenance, Job, Waiting
  <2>2. job' \in [Handler -> Job]
    BY <2>1 DEF Job
  <2> QED BY <1>3, <2>2 DEF WriteProvenance
<1>4. ASSUME NEW h \in Handler, ImportEnds(h) PROVE VoterTypeOK'
  BY <1>0, <1>4 DEF ImportEnds, Done
<1>5. ASSUME NEW c \in Consent, NEW granted \in BOOLEAN, RecordConsent(c, granted)
      PROVE  VoterTypeOK'
  BY <1>5 DEF RecordConsent
<1>6. ASSUME NEW c \in Consent, WithdrawConsent(c) PROVE VoterTypeOK'
  BY <1>6 DEF WithdrawConsent
<1>7. ASSUME NEW h \in Handler, NEW p \in Panelist, NEW c \in Consent, BeginEnrol(h, p, c)
      PROVE  VoterTypeOK'
  <2>1. [at |-> "enrol", p |-> p, c |-> c] \in Job
    BY DEF Job
  <2> QED BY <1>7, <2>1 DEF BeginEnrol
<1>8. ASSUME NEW h \in Handler, Enrol(h) PROVE VoterTypeOK'
  <2>1. job[h].p \in Panelist /\ job[h].c \in Consent
    BY <1>8, JobParts DEF Enrol
  <2> QED BY <1>0, <1>8, <2>1 DEF Enrol, Done
<1>9. ASSUME NEW h \in Handler, NEW p \in Panelist, RecordResponses(h, p)
      PROVE  VoterTypeOK'
  BY <1>9 DEF RecordResponses
<1>10. ASSUME NEW d \in Dsar, NEW s \in SUBSET Voter, FileDsar(d, s) PROVE VoterTypeOK'
  BY <1>10 DEF FileDsar
<1>11. ASSUME NEW h \in Handler, NEW d \in Dsar, Reject(h, d) PROVE VoterTypeOK'
  BY <1>11 DEF Reject
<1>12. ASSUME NEW h \in Handler, NEW d \in Dsar, BeginFulfil(h, d) PROVE VoterTypeOK'
  <2>1. \A a \in {"erase", "close"} : [at |-> a, d |-> d] \in Job
    BY DEF Job
  <2> QED BY <1>12, <2>1 DEF BeginFulfil
<1>13. ASSUME NEW h \in Handler, job[h].at \in {"erase", "log", "close"}
       PROVE  /\ job[h].d \in Dsar /\ dsar[job[h].d].subject \subseteq Voter
              /\ job[h] \in [at : {"erase", "log", "close"}, d : Dsar]
              /\ dsar[job[h].d] \in [status : {"received", "fulfilled", "rejected"}, subject : SUBSET Voter]
  BY <1>13, JobParts, SubjectKnown DEF Grounded, JobGrounded, Job, Waiting
<1>14. ASSUME NEW h \in Handler, Erase(h) PROVE VoterTypeOK'
  <2>1. [job[h] EXCEPT !.at = "log"] \in Job
    BY <1>13, <1>14 DEF Erase, Job
  <2>2. job' \in [Handler -> Job]
    BY <1>14, <2>1 DEF Erase
  <2>3. voter' \in [Voter -> {"absent", "live", "erased"}]
    BY <1>14 DEF Erase
  <2>4. unfound' \subseteq Dsar
    BY <1>13, <1>14 DEF Erase
  <2> QED BY <1>14, <2>2, <2>3, <2>4 DEF Erase
<1>15. ASSUME NEW h \in Handler, LogErasure(h) PROVE VoterTypeOK'
  <2>1. [job[h] EXCEPT !.at = "close"] \in Job
    BY <1>13, <1>15 DEF LogErasure, Job
  <2>2. job' \in [Handler -> Job] /\ erasures' \subseteq Dsar
    BY <1>13, <1>15, <2>1 DEF LogErasure
  <2> QED BY <1>15, <2>2 DEF LogErasure
<1>16. ASSUME NEW h \in Handler, CloseDsar(h) PROVE VoterTypeOK'
  BY <1>0, <1>13, <1>16 DEF CloseDsar, Done
<1>17. ASSUME NEW h \in Handler, FailVoter(h) PROVE VoterTypeOK'
  <2>1. orphans' \subseteq Voter
    BY <1>17, JobParts DEF FailVoter
  <2>2. unlogged' \subseteq Dsar
    BY <1>13, <1>17 DEF FailVoter
  <2> QED BY <1>0, <1>17, <2>1, <2>2 DEF FailVoter, Done
<1>18. CASE UNCHANGED voterVars
  BY <1>18 DEF voterVars
<1> QED
  BY <1>1, <1>2, <1>3, <1>4, <1>5, <1>6, <1>7, <1>8, <1>9, <1>10, <1>11, <1>12,
     <1>14, <1>15, <1>16, <1>17, <1>18 DEF VoterNext, RegisterNext, PanelNext

-----------------------------------------------------------------------------
(* The trail of every row                                                  *)

LEMMA TrailStays ==
  ASSUME VoterTypeOK, Grounded, TrailTraced, [VoterNext]_voterVars
  PROVE  TrailTraced'
<1> USE DEF TrailTraced
<1>0. ASSUME UNCHANGED <<voter, trail, orphans>>,
             \A h \in Handler : job[h].at = "trail" => job'[h] = job[h]
      PROVE  TrailTraced'
  BY <1>0
<1>1. ASSUME NEW h \in Handler, NEW rows \in SUBSET Voter, InsertChunk(h, rows)
      PROVE  TrailTraced'
  <2>1. /\ \A v \in rows : job'[h].at = "trail" /\ v \in job'[h].todo
        /\ \A v \in Voter \ rows : voter'[v] = voter[v]
        /\ \A g \in Handler \ {h} : job'[g] = job[g]
        /\ job[h].at = "trail" => job[h].todo = {}
    BY <1>1 DEF InsertChunk, VoterTypeOK, Waiting
  <2> QED BY <1>1, <2>1 DEF InsertChunk
<1>2. ASSUME NEW h \in Handler, WriteConsent(h) PROVE TrailTraced'
  BY <1>2 DEF WriteConsent, VoterTypeOK
<1>3. ASSUME NEW h \in Handler, WriteProvenance(h) PROVE TrailTraced'
  <2> PICK v \in job[h].todo :
        /\ trail[v] = {"consent"}
        /\ trail' = [trail EXCEPT ![v] = @ \cup {"provenance"}]
        /\ job' = [job EXCEPT ![h].todo = @ \ {v}]
    BY <1>3 DEF WriteProvenance
  <2>1. /\ v \in Voter => trail'[v] = {"consent", "provenance"}
        /\ \A w \in Voter \ {v} : trail'[w] = trail[w]
    BY DEF VoterTypeOK
  <2>2. job[h].at = "trail" /\ job[h] \in [at : {"trail"}, todo : SUBSET Voter]
    BY <1>3 DEF WriteProvenance, VoterTypeOK, Job, Waiting
  <2>3. /\ job'[h].at = "trail" /\ job'[h].todo = job[h].todo \ {v}
        /\ \A g \in Handler \ {h} : job'[g] = job[g]
    BY <2>2 DEF VoterTypeOK
  <2> QED BY <1>3, <2>1, <2>2, <2>3 DEF WriteProvenance
<1>4. ASSUME NEW h \in Handler, ImportEnds(h) PROVE TrailTraced'
  BY <1>4 DEF ImportEnds, Done, VoterTypeOK
<1>5. ASSUME NEW h \in Handler, NEW p \in Panelist, NEW c \in Consent, BeginEnrol(h, p, c)
      PROVE  TrailTraced'
  BY <1>5 DEF BeginEnrol, VoterTypeOK, Waiting
<1>6. ASSUME NEW h \in Handler, Enrol(h) PROVE TrailTraced'
  BY <1>6 DEF Enrol, Done, VoterTypeOK
<1>7. ASSUME NEW h \in Handler, NEW d \in Dsar, BeginFulfil(h, d) PROVE TrailTraced'
  BY <1>7 DEF BeginFulfil, VoterTypeOK, Waiting
<1>8. ASSUME NEW h \in Handler, Erase(h) PROVE TrailTraced'
  <2>1. \A g \in Handler : job[g].at = "trail" => job'[g] = job[g]
    BY <1>8 DEF Erase, VoterTypeOK
  <2>2. \A v \in Voter : voter'[v] # "absent" => voter[v] # "absent"
    BY <1>8 DEF Erase, VoterTypeOK
  <2> QED BY <1>8, <2>1, <2>2 DEF Erase
<1>9. ASSUME NEW h \in Handler, LogErasure(h) PROVE TrailTraced'
  <2>1. \A g \in Handler : job[g].at = "trail" => job'[g] = job[g]
    BY <1>9 DEF LogErasure, VoterTypeOK
  <2> QED BY <1>0, <1>9, <2>1 DEF LogErasure
<1>10. ASSUME NEW h \in Handler, CloseDsar(h) PROVE TrailTraced'
  BY <1>10 DEF CloseDsar, Done, VoterTypeOK
<1>11. ASSUME NEW h \in Handler, FailVoter(h) PROVE TrailTraced'
  BY <1>11 DEF FailVoter, Done, VoterTypeOK
<1>12. \A c \in Consent : \/ \E granted \in BOOLEAN : RecordConsent(c, granted)
                          \/ WithdrawConsent(c)
                          => UNCHANGED <<voter, trail, orphans, job>>
  BY DEF RecordConsent, WithdrawConsent
<1>13. /\ \A h \in Handler, p \in Panelist :
             RecordResponses(h, p) => UNCHANGED <<voter, trail, orphans, job>>
       /\ \A h \in Handler, d \in Dsar :
             Reject(h, d) => UNCHANGED <<voter, trail, orphans, job>>
       /\ \A d \in Dsar : \A s : FileDsar(d, s) => UNCHANGED <<voter, trail, orphans, job>>
  BY DEF RecordResponses, Reject, FileDsar
<1>14. UNCHANGED voterVars => UNCHANGED <<voter, trail, orphans, job>>
  BY DEF voterVars
<1> QED
  BY <1>0, <1>1, <1>2, <1>3, <1>4, <1>5, <1>6, <1>7, <1>8, <1>9, <1>10, <1>11,
     <1>12, <1>13, <1>14 DEF VoterNext, RegisterNext, PanelNext

-----------------------------------------------------------------------------
(* Consent and erasure                                                     *)

LEMMA PanelStays ==
  ASSUME VoterTypeOK, Grounded, PanelConsented, [VoterNext]_voterVars
  PROVE  PanelConsented'
<1> USE DEF PanelConsented
<1>1. ASSUME NEW c \in Consent, NEW granted \in BOOLEAN, RecordConsent(c, granted)
      PROVE  PanelConsented'
  BY <1>1 DEF RecordConsent, VoterTypeOK
<1>2. ASSUME NEW c \in Consent, WithdrawConsent(c) PROVE PanelConsented'
  BY <1>2 DEF WithdrawConsent, VoterTypeOK
<1>3. ASSUME NEW h \in Handler, Enrol(h) PROVE PanelConsented'
  <2>1. consent[job[h].c] \in {"granted", "withdrawn"}
    BY <1>3 DEF Enrol, Grounded, JobGrounded
  <2> QED BY <1>3, <2>1 DEF Enrol, VoterTypeOK
<1>4. CASE UNCHANGED <<consent, panel>>
  BY <1>4
<1>5. /\ RegisterNext => UNCHANGED <<consent, panel>>
      /\ \A h \in Handler : FailVoter(h) => UNCHANGED <<consent, panel>>
      /\ UNCHANGED voterVars => UNCHANGED <<consent, panel>>
  BY DEF RegisterNext, InsertChunk, WriteConsent, WriteProvenance, ImportEnds, Erase,
         LogErasure, CloseDsar, FileDsar, Reject, BeginFulfil, FailVoter, voterVars
<1>6. \A h \in Handler, p \in Panelist :
          \/ \E c \in Consent : BeginEnrol(h, p, c)
          \/ RecordResponses(h, p)
          => UNCHANGED <<consent, panel>>
  BY DEF BeginEnrol, RecordResponses
<1> QED
  BY <1>1, <1>2, <1>3, <1>4, <1>5, <1>6 DEF VoterNext, PanelNext

\* Subjects are stored and stay known, and what was erased or logged stays so.
LEMMA RecordsStay ==
  ASSUME VoterTypeOK, Grounded, [VoterNext]_voterVars
  PROVE  /\ erasures \subseteq erasures' /\ unlogged \subseteq unlogged'
         /\ unfound \subseteq unfound'
         /\ \A v \in Voter : /\ voter[v] # "absent" => voter'[v] # "absent"
                             /\ voter[v] = "erased" => voter'[v] = "erased"
         /\ \A d \in Dsar : dsar[d].status # "none" =>
                /\ dsar'[d].subject = dsar[d].subject /\ dsar'[d].status # "none"
         /\ \A c \in Consent : consent[c] \in {"granted", "withdrawn"}
                => consent'[c] \in {"granted", "withdrawn"}
<1> USE DEF VoterTypeOK
<1>1. ASSUME NEW h \in Handler, NEW rows \in SUBSET Voter, InsertChunk(h, rows)
      PROVE  \A v \in Voter : /\ voter[v] # "absent" => voter'[v] # "absent"
                              /\ voter[v] = "erased" => voter'[v] = "erased"
  BY <1>1 DEF InsertChunk
<1>2. ASSUME NEW h \in Handler, Erase(h)
      PROVE  \A v \in Voter : /\ voter[v] # "absent" => voter'[v] # "absent"
                              /\ voter[v] = "erased" => voter'[v] = "erased"
  BY <1>2 DEF Erase
<1>3. ASSUME NEW h \in Handler, NEW rows \in SUBSET Voter,
             \/ InsertChunk(h, rows) \/ WriteConsent(h) \/ WriteProvenance(h)
             \/ ImportEnds(h) \/ Erase(h) \/ LogErasure(h) \/ Enrol(h) \/ FailVoter(h)
      PROVE  /\ erasures \subseteq erasures' /\ unlogged \subseteq unlogged'
             /\ unfound \subseteq unfound'
             /\ UNCHANGED <<dsar, consent>>
  BY <1>3 DEF InsertChunk, WriteConsent, WriteProvenance, ImportEnds, Erase, LogErasure,
              Enrol, FailVoter
<1>4. ASSUME NEW h \in Handler,
             \/ WriteConsent(h) \/ WriteProvenance(h) \/ ImportEnds(h) \/ LogErasure(h)
             \/ CloseDsar(h) \/ Enrol(h) \/ FailVoter(h)
      PROVE  UNCHANGED voter
  BY <1>4 DEF WriteConsent, WriteProvenance, ImportEnds, LogErasure, CloseDsar, Enrol,
              FailVoter
<1>5. ASSUME NEW h \in Handler, CloseDsar(h)
      PROVE  /\ UNCHANGED <<voter, erasures, unlogged, unfound, consent>>
             /\ \A d \in Dsar : dsar[d].status # "none" =>
                   /\ dsar'[d].subject = dsar[d].subject /\ dsar'[d].status # "none"
  BY <1>5 DEF CloseDsar
<1>6. ASSUME NEW d \in Dsar, NEW s, FileDsar(d, s)
      PROVE  /\ UNCHANGED <<voter, erasures, unlogged, unfound, consent>>
             /\ \A e \in Dsar : dsar[e].status # "none" => dsar'[e] = dsar[e]
  BY <1>6 DEF FileDsar
<1>7. ASSUME NEW h \in Handler, NEW d \in Dsar, Reject(h, d)
      PROVE  /\ UNCHANGED <<voter, erasures, unlogged, unfound, consent>>
             /\ \A e \in Dsar : dsar[e].status # "none" =>
                   /\ dsar'[e].subject = dsar[e].subject /\ dsar'[e].status # "none"
  BY <1>7 DEF Reject
<1>8. \A h \in Handler, d \in Dsar : BeginFulfil(h, d) =>
          UNCHANGED <<voter, erasures, unlogged, unfound, consent, dsar>>
  BY DEF BeginFulfil
<1>9. ASSUME NEW c \in Consent,
             (\E granted \in BOOLEAN : RecordConsent(c, granted)) \/ WithdrawConsent(c)
      PROVE  /\ UNCHANGED <<voter, erasures, unlogged, unfound, dsar>>
             /\ \A b \in Consent : consent[b] \in {"granted", "withdrawn"}
                   => consent'[b] \in {"granted", "withdrawn"}
  BY <1>9 DEF RecordConsent, WithdrawConsent
<1>10. \A h \in Handler, p \in Panelist :
          (\E c \in Consent : BeginEnrol(h, p, c)) \/ RecordResponses(h, p) =>
          UNCHANGED <<voter, erasures, unlogged, unfound, consent, dsar>>
  BY DEF BeginEnrol, RecordResponses
<1>11. UNCHANGED voterVars => UNCHANGED <<voter, erasures, unlogged, unfound, consent, dsar>>
  BY DEF voterVars
<1> QED
  BY <1>1, <1>2, <1>3, <1>4, <1>5, <1>6, <1>7, <1>8, <1>9, <1>10, <1>11
     DEF VoterNext, RegisterNext, PanelNext

\* The requests whose job a step changes, and how.
LEMMA JobsMove ==
  ASSUME VoterTypeOK, [VoterNext]_voterVars, NEW h \in Handler, job'[h] # job[h]
  PROVE  \/ job'[h].at \in {"idle", "trail"} /\ (job[h].at = "log" => FailVoter(h))
         \/ \E p \in Panelist, c \in Consent : BeginEnrol(h, p, c)
         \/ \E d \in Dsar : BeginFulfil(h, d)
         \/ Erase(h) \/ LogErasure(h)
<1> USE DEF VoterTypeOK
<1>1. ASSUME NEW g \in Handler, NEW rows \in SUBSET Voter, InsertChunk(g, rows)
      PROVE  job'[h].at = "trail" /\ job[h].at # "log"
  BY <1>1 DEF InsertChunk, Waiting
<1>2. ASSUME NEW g \in Handler, WriteProvenance(g)
      PROVE  job'[h].at = "trail" /\ job[h].at # "log"
  <2>1. job[g] \in [at : {"trail"}, todo : SUBSET Voter]
    BY <1>2 DEF WriteProvenance, Job, Waiting
  <2> QED BY <1>2, <2>1 DEF WriteProvenance
<1>3. ASSUME NEW g \in Handler, ImportEnds(g) \/ Enrol(g) \/ CloseDsar(g)
      PROVE  job'[h].at = "idle" /\ job[h].at # "log"
  BY <1>3 DEF ImportEnds, Enrol, CloseDsar, Done, Waiting
<1>4. ASSUME NEW g \in Handler, FailVoter(g)
      PROVE  job'[h].at = "idle" /\ FailVoter(h)
  BY <1>4 DEF FailVoter, Done, Waiting
<1>5. ASSUME NEW g \in Handler, NEW p \in Panelist, NEW c \in Consent, BeginEnrol(g, p, c)
      PROVE  BeginEnrol(h, p, c)
  BY <1>5 DEF BeginEnrol
<1>6. ASSUME NEW g \in Handler, NEW d \in Dsar, BeginFulfil(g, d)
      PROVE  BeginFulfil(h, d)
  BY <1>6 DEF BeginFulfil
<1>7. ASSUME NEW g \in Handler, Erase(g) PROVE Erase(h)
  <2>1. g = h
    BY <1>7 DEF Erase
  <2> QED BY <1>7, <2>1
<1>8. ASSUME NEW g \in Handler, LogErasure(g) PROVE LogErasure(h)
  <2>1. g = h
    BY <1>8 DEF LogErasure
  <2> QED BY <1>8, <2>1
<1>9. /\ \A g \in Handler : ~WriteConsent(g)
      /\ \A g \in Handler, p \in Panelist : ~RecordResponses(g, p)
      /\ \A g \in Handler, d \in Dsar : ~Reject(g, d)
      /\ \A d \in Dsar : \A s : ~FileDsar(d, s)
      /\ \A c \in Consent : /\ \A granted \in BOOLEAN : ~RecordConsent(c, granted)
                            /\ ~WithdrawConsent(c)
      /\ ~UNCHANGED voterVars
  BY DEF WriteConsent, RecordResponses, Reject, FileDsar, RecordConsent, WithdrawConsent,
         voterVars
<1>10. CASE RegisterNext
  BY <1>1, <1>2, <1>3, <1>6, <1>7, <1>8, <1>9, <1>10 DEF RegisterNext
<1>11. CASE PanelNext
  BY <1>3, <1>5, <1>9, <1>11 DEF PanelNext
<1> QED BY <1>4, <1>9, <1>10, <1>11 DEF VoterNext

LEMMA GroundedStays ==
  ASSUME VoterTypeOK, Grounded, [VoterNext]_voterVars
  PROVE  Grounded'
<1> USE DEF VoterTypeOK
<1>1. ASSUME NEW h \in Handler PROVE JobGrounded(h)'
  <2> USE DEF JobGrounded
  <2>0. job[h].at \in {"erase", "log", "close"} =>
            /\ job[h].d \in Dsar /\ dsar[job[h].d].status # "none"
            /\ dsar[job[h].d].subject \subseteq Voter
    BY JobParts, SubjectKnown DEF Grounded
  <2>1. CASE job'[h] = job[h]
    BY <2>0, <2>1, RecordsStay, JobParts DEF Grounded
  <2>2. CASE job'[h].at \in {"idle", "trail"}
    BY <2>2
  <2>3. ASSUME NEW p \in Panelist, NEW c \in Consent, BeginEnrol(h, p, c)
        PROVE  JobGrounded(h)'
    BY <2>3 DEF BeginEnrol
  <2>4. ASSUME NEW d \in Dsar, BeginFulfil(h, d) PROVE JobGrounded(h)'
    BY <2>4 DEF BeginFulfil
  <2>5. CASE Erase(h)
    <3>1. job[h] \in [at : {"erase", "log", "close"}, d : Dsar]
      BY <2>5 DEF Erase, Job, Waiting
    <3>2. job'[h].at = "log" /\ job'[h].d = job[h].d
      BY <2>5, <3>1 DEF Erase
    <3>3. \A v \in dsar[job[h].d].subject : voter'[v] = "erased" \/ job[h].d \in unfound'
      BY <2>0, <2>5 DEF Erase
    <3> QED BY <2>0, <2>5, <3>1, <3>2, <3>3 DEF Erase
  <2>6. CASE LogErasure(h)
    <3>1. job[h] \in [at : {"erase", "log", "close"}, d : Dsar]
      BY <2>6 DEF LogErasure, Job, Waiting
    <3>2. job'[h].at = "close" /\ job'[h].d = job[h].d
      BY <2>6, <3>1 DEF LogErasure
    <3> QED BY <2>0, <2>6, <3>1, <3>2 DEF LogErasure, Grounded
  <2> QED
    BY <2>1, <2>2, <2>3, <2>4, <2>5, <2>6, JobsMove
<1> QED BY <1>1 DEF Grounded

LEMMA ErasureStays ==
  ASSUME VoterTypeOK, Grounded, ErasureReal, [VoterNext]_voterVars
  PROVE  ErasureReal'
<1> USE DEF VoterTypeOK
<1>1. ASSUME NEW d \in Dsar, dsar'[d].status = "fulfilled", NEW v \in dsar'[d].subject
      PROVE  d \in erasures' /\ (voter'[v] = "erased" \/ d \in unfound')
  <2>1. CASE dsar[d].status = "fulfilled"
    <3>1. v \in dsar[d].subject /\ v \in Voter
      BY <1>1, <2>1, RecordsStay, SubjectKnown
    <3> QED BY <2>1, <3>1, RecordsStay DEF ErasureReal
  <2>2. ASSUME NEW h \in Handler, CloseDsar(h), job[h].d = d
        PROVE  d \in erasures' /\ (voter'[v] = "erased" \/ d \in unfound')
    <3>1. dsar[d].status # "none"
      BY <2>2 DEF CloseDsar, Grounded, JobGrounded
    <3>2. v \in dsar[d].subject /\ v \in Voter
      BY <1>1, <3>1, RecordsStay, SubjectKnown
    <3>3. d \in erasures /\ (voter[v] = "erased" \/ d \in unfound)
      BY <2>2, <3>2 DEF CloseDsar, Grounded, JobGrounded
    <3> QED BY <3>2, <3>3, RecordsStay
  <2>3. CASE dsar[d].status # "fulfilled"
    <3>1. \A h \in Handler : CloseDsar(h) => job[h].d = d \/ dsar'[d] = dsar[d]
      BY DEF CloseDsar
    <3>2. \A h \in Handler, e \in Dsar : ~Reject(h, e)
      BY <1>1, <2>3 DEF Reject
    <3>3. \A e \in Dsar : \A s : ~FileDsar(e, s)
      BY <1>1, <2>3 DEF FileDsar
    <3>4. \A h \in Handler :
              /\ \A rows \in SUBSET Voter : InsertChunk(h, rows) => UNCHANGED dsar
              /\ \/ WriteConsent(h) \/ WriteProvenance(h) \/ ImportEnds(h) \/ Erase(h)
                 \/ LogErasure(h) \/ FailVoter(h)
                 => UNCHANGED dsar
              /\ \A e \in Dsar : BeginFulfil(h, e) => UNCHANGED dsar
      BY DEF InsertChunk, WriteConsent, WriteProvenance, ImportEnds, Erase, LogErasure,
             FailVoter, BeginFulfil
    <3>5. PanelNext \/ UNCHANGED voterVars => UNCHANGED dsar
      BY DEF PanelNext, RecordConsent, WithdrawConsent, Enrol, BeginEnrol,
             RecordResponses, voterVars
    <3> QED
      BY <1>1, <2>2, <2>3, <3>1, <3>2, <3>3, <3>4, <3>5 DEF VoterNext, RegisterNext
  <2> QED BY <2>1, <2>3
<1>2. ASSUME NEW v \in Voter, voter'[v] = "erased"
      PROVE  \E d \in Dsar :
                /\ dsar'[d].status # "none" /\ v \in dsar'[d].subject
                /\ \/ d \in erasures' \cup unlogged'
                   \/ \E h \in Handler : job'[h].at = "log" /\ job'[h].d = d
  <2>1. ASSUME NEW h \in Handler, NEW d \in Dsar, job[h].at = "log", job[h].d = d
        PROVE  d \in erasures' \cup unlogged' \/ (job'[h].at = "log" /\ job'[h].d = d)
    <3>2. CASE job'[h] = job[h]
      BY <2>1, <3>2
    <3>3. CASE LogErasure(h)
      BY <2>1, <3>3 DEF LogErasure
    <3>4. CASE FailVoter(h)
      BY <2>1, <3>4 DEF FailVoter
    <3>5. /\ \A p \in Panelist, c \in Consent : ~BeginEnrol(h, p, c)
          /\ \A e \in Dsar : ~BeginFulfil(h, e)
          /\ ~Erase(h)
      BY <2>1 DEF BeginEnrol, BeginFulfil, Erase, Waiting
    <3> QED BY <2>1, <3>2, <3>3, <3>4, <3>5, JobsMove
  <2>2. CASE voter[v] = "erased"
    <3>1. PICK d \in Dsar :
              /\ dsar[d].status # "none" /\ v \in dsar[d].subject
              /\ \/ d \in erasures \cup unlogged
                 \/ \E h \in Handler : job[h].at = "log" /\ job[h].d = d
      BY <2>2 DEF ErasureReal
    <3>2. dsar'[d].status # "none" /\ v \in dsar'[d].subject
      BY <3>1, RecordsStay
    <3>3. \/ d \in erasures' \cup unlogged'
          \/ \E h \in Handler : job'[h].at = "log" /\ job'[h].d = d
      BY <2>1, <3>1, RecordsStay
    <3> QED BY <3>2, <3>3
  <2>3. CASE voter[v] # "erased"
    <3>1. \A h \in Handler, rows \in SUBSET Voter : ~InsertChunk(h, rows)
      BY <1>2, <2>3 DEF InsertChunk
    <3>2. UNCHANGED voter \/ \E h \in Handler : Erase(h)
      BY <3>1 DEF VoterNext, RegisterNext, PanelNext, WriteConsent, WriteProvenance,
                  ImportEnds, LogErasure, CloseDsar, FileDsar, Reject, BeginFulfil,
                  RecordConsent, WithdrawConsent, Enrol, BeginEnrol, RecordResponses,
                  FailVoter, voterVars
    <3>3. PICK h \in Handler : Erase(h)
      BY <1>2, <2>3, <3>2
    <3>4. job[h] \in [at : {"erase", "log", "close"}, d : Dsar]
      BY <3>3 DEF Erase, Job, Waiting
    <3>5. v \in dsar[job[h].d].subject /\ dsar[job[h].d].status # "none"
      BY <1>2, <2>3, <3>3 DEF Erase, Grounded, JobGrounded
    <3>6. job'[h].at = "log" /\ job'[h].d = job[h].d /\ dsar' = dsar
      BY <3>3, <3>4 DEF Erase
    <3> QED BY <3>4, <3>5, <3>6
  <2> QED BY <2>2, <2>3
<1> QED BY <1>1, <1>2 DEF ErasureReal

-----------------------------------------------------------------------------
LEMMA VoterAlways == VoterSpec => []VoterIndInv
<1>1. VoterInit => VoterIndInv
  BY DEF VoterInit, VoterIndInv, VoterInv, VoterTypeOK, TrailTraced, PanelConsented, ErasureReal,
         Grounded, JobGrounded, Job, Waiting
<1>2. VoterIndInv /\ [VoterNext]_voterVars => VoterIndInv'
  BY TypesStay, TrailStays, PanelStays, GroundedStays, ErasureStays DEF VoterIndInv, VoterInv
<1> QED BY <1>1, <1>2, PTL DEF VoterSpec

\* Whatever requests overlap, fail or are repeated: every voter row has its
\* consent record and its provenance entry, or an import that still has to write
\* them or failed before it did; and nobody is on the panel without a consent that
\* had been granted.
THEOREM VoterDataSound == VoterSpec => []VoterInv
<1>1. VoterIndInv => VoterInv
  BY DEF VoterIndInv
<1> QED BY <1>1, VoterAlways, PTL

\* An erasure that names a row and is called fulfilled has left its tombstone, and
\* the row is gone unless the DELETE found none; behind every row that is gone is
\* a request that named it, with its tombstone or a handler that owes it or died.
THEOREM VoterDataSafe == VoterSpec => []ErasureReal
<1>1. VoterIndInv => ErasureReal
  BY DEF VoterIndInv
<1> QED BY <1>1, VoterAlways, PTL

-----------------------------------------------------------------------------
(* The war room                                                            *)

Ops == {"status", "assign", "escalate", "resolve"}
Edit == {NoChange} \cup
        [at : {"update"}, of : Incident, op : Ops, tell : Profile] \cup
        [at : {"audit", "tell"}, of : Incident, to : IncidentStatus, tell : Profile]

EditsOK ==
    /\ change \in [Editor -> Edit]
    /\ \A c \in Editor : change[c].at # "idle" => incident[change[c].of] # NoOne

Auditing(c, i) == change[c].at = "audit" /\ change[c].of = i

\* TrailTellsStatus, with the request that still owes the audit row: it is the
\* only one, and the row will name the status of the incident.
TrailDue ==
    \A i \in Incident \ (unaudited \cup crossed) :
        /\ \A c, d \in Editor : Auditing(c, i) /\ Auditing(d, i) => c = d
        /\ \A c \in Editor : Auditing(c, i) => change[c].to = incident[i].status
        /\ (\A c \in Editor : ~Auditing(c, i)) =>
               IF incident[i] = NoOne THEN audited[i] = NoOne
               ELSE audited[i] = incident[i].status

\* The registered connections of a user.
StreamsOf(u) == {s \in clients : stream[s].user = u}

\* The registry holds open streams, all of them until the server shuts down, and
\* the count of a user is never above what the registry holds.
Registry ==
    /\ behind \subseteq clients
    /\ \A s \in clients : stream[s] \in StreamRow /\ stream[s].at = "open"
    /\ ~stopping => \A s \in Stream :
          stream[s] \in StreamRow /\ stream[s].at = "open" => s \in clients
    /\ \A u \in Viewer : perUser[u] <= Cardinality(StreamsOf(u))

WarRoomIndInv ==
    WarRoomTypeOK /\ EditsOK /\ TrailDue /\ Registry /\ StreamsCounted /\ ViewersTold

LEMMA EditFields ==
  ASSUME EditsOK, NEW c \in Editor
  PROVE  /\ change[c].at \in {"idle", "update", "audit", "tell"}
         /\ change[c] = NoChange <=> change[c].at = "idle"
         /\ change[c].at # "idle" => change[c].of \in Incident /\ change[c].tell \in Profile
         /\ change[c].at \in {"audit", "tell"} =>
               /\ change[c].to \in IncidentStatus
               /\ [change[c] EXCEPT !.at = "tell"] \in Edit
               /\ [change[c] EXCEPT !.at = "tell"].at = "tell"
               /\ [change[c] EXCEPT !.at = "tell"].of = change[c].of
<1>1. change[c] \in Edit
  BY DEF EditsOK
<1> QED BY <1>1 DEF Edit, NoChange

\* What an UPDATE of a request does to the rows, whichever route it came by.
RowWritten(c, i, to, tell) ==
    /\ change[c].at \in {"idle", "update"}
    /\ incident'[i] \in IncidentRow /\ incident'[i].status = to
    /\ incident[i] # NoOne => incident'[i].profile = incident[i].profile
    /\ \A j \in Incident \ {i} : incident'[j] = incident[j]
    /\ incident' \in [Incident -> {NoOne} \cup IncidentRow]
    /\ Applied(c, i, to, tell)

LEMMA RowIsWritten ==
  ASSUME WarRoomTypeOK, EditsOK, NEW c \in Editor,
         \/ \E i \in Incident, p \in Profile : addWarRoomIncident(c, i, p)
         \/ \E status \in IncidentStatus : updateIncidentStatus(c, status)
         \/ assignIncident(c) \/ escalateIncident(c) \/ resolveIncident(c)
  PROVE  \E i \in Incident, to \in IncidentStatus, tell \in Profile : RowWritten(c, i, to, tell)
<1> USE DEF WarRoomTypeOK
<1> DEFINE i == change[c].of
           tell == change[c].tell
<1>0. ASSUME change[c].at = "update"
      PROVE  /\ i \in Incident /\ tell \in Profile /\ incident[i] \in IncidentRow
             /\ incident[i] # NoOne
             /\ incident[i].status \in IncidentStatus /\ incident[i].profile \in Profile
  BY <1>0, EditFields DEF EditsOK, IncidentRow
<1>1. ASSUME NEW j \in Incident, NEW p \in Profile, addWarRoomIncident(c, j, p)
      PROVE  RowWritten(c, j, "open", p)
  <2>1. [profile |-> p, status |-> "open", resolvedAt |-> FALSE] \in IncidentRow
    BY DEF IncidentRow, IncidentStatus
  <2> QED BY <1>1, <2>1 DEF addWarRoomIncident, RowWritten, NoChange
<1>2. ASSUME NEW status \in IncidentStatus, updateIncidentStatus(c, status)
      PROVE  i \in Incident /\ tell \in Profile /\ RowWritten(c, i, status, tell)
  <2>1. change[c].at = "update" /\ Applied(c, i, status, tell)
        /\ incident' = [incident EXCEPT ![i].status = status,
                            ![i].resolvedAt = status = "resolved"]
    BY <1>2 DEF updateIncidentStatus, Updating
  <2>2. PICK b \in BOOLEAN : b = (status = "resolved")
    OBVIOUS
  <2>3. incident' = [incident EXCEPT ![i] = [[incident[i] EXCEPT !.status = status]
                                               EXCEPT !.resolvedAt = b]]
    BY <1>0, <2>1, <2>2
  <2>4. LET y == [[incident[i] EXCEPT !.status = status] EXCEPT !.resolvedAt = b]
        IN y \in IncidentRow /\ y.status = status /\ y.profile = incident[i].profile
    BY <1>0, <2>1, <2>2 DEF IncidentRow
  <2>5. /\ incident'[i] \in IncidentRow
        /\ incident'[i].status = status
        /\ incident'[i].profile = incident[i].profile
        /\ incident' \in [Incident -> {NoOne} \cup IncidentRow]
        /\ \A j \in Incident \ {i} : incident'[j] = incident[j]
    <3>1. change[c].at = "update"
      BY <2>1
    <3> QED BY <1>0, <3>1, <2>3, <2>4
  <2>6. change[c].at = "update" /\ Applied(c, i, status, tell)
    BY <2>1
  <2> QED BY <1>0, <2>5, <2>6 DEF RowWritten
<1>3. ASSUME assignIncident(c)
      PROVE  i \in Incident /\ tell \in Profile /\ RowWritten(c, i, incident[i].status, tell)
  BY <1>0, <1>3 DEF assignIncident, Updating, RowWritten
<1>4. ASSUME escalateIncident(c)
      PROVE  i \in Incident /\ tell \in Profile /\ RowWritten(c, i, "escalated", tell)
  <2>1. change[c].at = "update" /\ Applied(c, i, "escalated", tell)
        /\ incident' = [incident EXCEPT ![i].status = "escalated"]
    BY <1>4 DEF escalateIncident, Updating
  <2>2. LET y == [incident[i] EXCEPT !.status = "escalated"]
        IN y \in IncidentRow /\ y.status = "escalated" /\ y.profile = incident[i].profile
    BY <1>0, <2>1 DEF IncidentRow, IncidentStatus
  <2> QED BY <1>0, <2>1, <2>2 DEF RowWritten
<1>5. ASSUME resolveIncident(c)
      PROVE  i \in Incident /\ tell \in Profile /\ RowWritten(c, i, "resolved", tell)
  <2>1. change[c].at = "update" /\ Applied(c, i, "resolved", tell)
        /\ incident' = [incident EXCEPT ![i] = [[incident[i] EXCEPT !.status = "resolved"]
                                                  EXCEPT !.resolvedAt = TRUE]]
    BY <1>5 DEF resolveIncident, Updating
  <2>2. LET y == [[incident[i] EXCEPT !.status = "resolved"] EXCEPT !.resolvedAt = TRUE]
        IN y \in IncidentRow /\ y.status = "resolved" /\ y.profile = incident[i].profile
    BY <1>0, <2>1 DEF IncidentRow, IncidentStatus
  <2> QED BY <1>0, <2>1, <2>2 DEF RowWritten
<1>6. ASSUME change[c].at = "update" PROVE incident[i].status \in IncidentStatus
  BY <1>0, <1>6
<1> QED
  BY <1>0, <1>1, <1>2, <1>3, <1>4, <1>5, <1>6 DEF assignIncident, Updating, IncidentStatus

\* The streams are the concern of their own handlers: an edit touches none.
LEMMA StreamsStay ==
  ASSUME Registry, StreamsCounted, UNCHANGED streamVars, behind' \subseteq clients
  PROVE  Registry' /\ StreamsCounted'
BY DEF Registry, StreamsCounted, StreamsOf, streamVars

LEMMA EditorsStay ==
  ASSUME EditsOK, TrailDue, UNCHANGED incidentVars
  PROVE  EditsOK' /\ TrailDue'
BY DEF EditsOK, TrailDue, Auditing, incidentVars

\* After the UPDATE of a request the audit row is due, and every viewer behind
\* has a broadcast ahead: the one of this request, or an earlier one, as no
\* UPDATE moves a row to another profile.
LEMMA WriteKeeps ==
  ASSUME WarRoomIndInv, NEW c \in Editor, NEW i \in Incident, NEW to \in IncidentStatus,
         NEW tell \in Profile, RowWritten(c, i, to, tell)
  PROVE  WarRoomIndInv'
<1> DEFINE e == [at |-> "audit", of |-> i, to |-> to, tell |-> tell]
<1>1. /\ change' = [change EXCEPT ![c] = e]
      /\ behind' = behind \cup Of(incident'[i].profile)
      /\ crossed' = IF Crossing(i) THEN crossed \cup {i} ELSE crossed
      /\ UNCHANGED <<audited, unaudited, missed, streamVars>>
  BY DEF RowWritten, Applied
<1>2. /\ e \in Edit
      /\ change'[c] = e
      /\ \A d \in Editor \ {c} : change'[d] = change[d]
      /\ change' \in [Editor -> Edit]
  <2>1. e \in Edit
    BY DEF Edit
  <2> QED BY <1>1, <2>1 DEF WarRoomIndInv, EditsOK
<1>3. /\ change[c].at \in {"idle", "update"}
      /\ incident'[i] \in IncidentRow /\ incident'[i].status = to
      /\ incident[i] # NoOne => incident'[i].profile = incident[i].profile
      /\ \A j \in Incident \ {i} : incident'[j] = incident[j]
      /\ incident' \in [Incident -> {NoOne} \cup IncidentRow]
  BY DEF RowWritten
<1>4. behind' \subseteq clients
  BY <1>1 DEF Of, WarRoomIndInv, Registry
<1>5. Registry' /\ StreamsCounted'
  BY <1>1, <1>4, StreamsStay DEF WarRoomIndInv
<1>6. EditsOK'
  <2> SUFFICES ASSUME NEW d \in Editor, change'[d].at # "idle"
               PROVE  incident'[change'[d].of] # NoOne
    BY <1>2 DEF EditsOK
  <2>1. CASE d = c
    BY <2>1, <1>2, <1>3, NoOneAssumption
  <2>2. CASE d # c
    <3>1. change[d].of \in Incident /\ incident[change[d].of] # NoOne
      BY <2>2, <1>2, EditFields DEF WarRoomIndInv, EditsOK
    <3> QED BY <2>2, <3>1, <1>2, <1>3, NoOneAssumption
  <2> QED BY <2>1, <2>2
<1>7. WarRoomTypeOK'
  <2>1. \A d \in Editor : change'[d].at \in {"idle", "update", "audit", "tell"}
    BY <1>6, EditFields, <1>2 DEF Edit, NoChange
  <2>2. clients' \subseteq Stream /\ behind' \subseteq Stream /\ crossed' \subseteq Incident
    BY <1>1, <1>4 DEF WarRoomIndInv, WarRoomTypeOK, streamVars
  <2> QED BY <1>1, <1>3, <2>1, <2>2 DEF WarRoomIndInv, WarRoomTypeOK, streamVars
<1>8. TrailDue'
  <2> SUFFICES ASSUME NEW j \in Incident, j \notin unaudited', j \notin crossed'
               PROVE  /\ \A a, d \in Editor : Auditing(a, j)' /\ Auditing(d, j)' => a = d
                      /\ \A a \in Editor : Auditing(a, j)' => change'[a].to = incident'[j].status
                      /\ (\A a \in Editor : ~Auditing(a, j)') =>
                           IF incident'[j] = NoOne THEN audited'[j] = NoOne
                           ELSE audited'[j] = incident'[j].status
    BY DEF TrailDue, Auditing
  <2>1. j \notin unaudited /\ j \notin crossed
    BY <1>1
  <2>2. CASE j # i
    <3>1. \A d \in Editor : (Auditing(d, j)' <=> Auditing(d, j))
      BY <2>2, <1>2, <1>3 DEF Auditing
    <3>2. \A d \in Editor : Auditing(d, j) => change'[d] = change[d]
      BY <1>2, <1>3 DEF Auditing
    <3> QED BY <2>1, <2>2, <3>1, <3>2, <1>1, <1>3 DEF WarRoomIndInv, TrailDue
  <2>3. CASE j = i
    <3>1. \A d \in Editor : ~Auditing(d, i)
      BY <2>3, <1>1 DEF Crossing, Auditing
    <3>2. \A d \in Editor : Auditing(d, i)' => d = c
      BY <3>1, <1>2 DEF Auditing
    <3>3. Auditing(c, i)' /\ change'[c].to = to
      BY <1>2 DEF Auditing
    <3> QED BY <2>3, <3>2, <3>3, <1>3
  <2> QED BY <2>2, <2>3
<1>9. ViewersTold'
  <2> SUFFICES ASSUME NEW s \in clients', s \in behind', s \notin missed'
               PROVE  \E d \in Editor : /\ change'[d].at \in {"audit", "tell"}
                                        /\ incident'[change'[d].of].profile = stream'[s].profile
    BY DEF ViewersTold
  <2>1. CASE s \in Of(incident'[i].profile)
    BY <2>1, <1>1, <1>2 DEF Of, streamVars
  <2>2. CASE s \notin Of(incident'[i].profile)
    <3>1. s \in behind /\ s \in clients /\ s \notin missed
      BY <2>2, <1>1 DEF streamVars
    <3>2. PICK d \in Editor : /\ change[d].at \in {"audit", "tell"}
                              /\ incident[change[d].of].profile = stream[s].profile
      BY <3>1 DEF WarRoomIndInv, ViewersTold
    <3>3. d # c /\ change'[d] = change[d]
      BY <3>2, <1>2, <1>3
    <3>4. change[d].of \in Incident /\ incident[change[d].of] # NoOne
      BY <3>2, EditFields DEF WarRoomIndInv, EditsOK
    <3>5. incident'[change[d].of].profile = incident[change[d].of].profile
      BY <3>4, <1>3
    <3> QED BY <3>2, <3>3, <3>5, <1>1 DEF streamVars
  <2> QED BY <2>1, <2>2
<1> QED BY <1>5, <1>6, <1>7, <1>8, <1>9 DEF WarRoomIndInv

\* The steps of a request before and after its UPDATE leave the rows alone.
LEMMA RequestKeeps ==
  ASSUME WarRoomIndInv, NEW c \in Editor,
         \/ \E i \in Incident, p \in Profile, op \in Ops : BeginChange(c, i, op, p)
         \/ writeIncidentAudit(c)
         \/ broadcastWarRoomUpdate(c)
         \/ FailChange(c)
  PROVE  WarRoomIndInv'
<1> DEFINE i == change[c].of
<1>0. /\ EditsOK /\ change \in [Editor -> Edit] /\ incident' = incident
      /\ UNCHANGED <<crossed, streamVars>>
  BY DEF WarRoomIndInv, EditsOK, BeginChange, writeIncidentAudit, broadcastWarRoomUpdate, FailChange
<1>1. /\ behind' \subseteq behind
      /\ clients' = clients /\ stream' = stream
      /\ \E e \in Edit : /\ change' = [change EXCEPT ![c] = e]
                         /\ e.at # "idle" => incident[e.of] # NoOne
  <2>1. ASSUME NEW j \in Incident, NEW p \in Profile, NEW op \in Ops, BeginChange(c, j, op, p)
        PROVE  \E e \in Edit : /\ change' = [change EXCEPT ![c] = e]
                               /\ e.at # "idle" => incident[e.of] # NoOne
    <3>1. [at |-> "update", of |-> j, op |-> op, tell |-> p] \in Edit
      BY DEF Edit
    <3> QED BY <2>1, <3>1 DEF BeginChange
  <2>2. ASSUME writeIncidentAudit(c)
        PROVE  \E e \in Edit : /\ change' = [change EXCEPT ![c] = e]
                               /\ e.at # "idle" => incident[e.of] # NoOne
    <3>1. change[c].at = "audit" /\ change' = [change EXCEPT ![c] = [change[c] EXCEPT !.at = "tell"]]
      BY <2>2 DEF writeIncidentAudit
    <3>2. incident[i] # NoOne
      BY <3>1, <1>0 DEF EditsOK
    <3> QED BY <3>1, <3>2, <1>0, EditFields
  <2>3. ASSUME broadcastWarRoomUpdate(c) \/ FailChange(c)
        PROVE  \E e \in Edit : /\ change' = [change EXCEPT ![c] = e]
                               /\ e.at # "idle" => incident[e.of] # NoOne
    <3>1. NoChange \in Edit /\ NoChange.at = "idle"
      BY DEF Edit, NoChange
    <3> QED BY <2>3, <3>1 DEF broadcastWarRoomUpdate, FailChange
  <2>4. behind' \subseteq behind
    BY DEF BeginChange, writeIncidentAudit, broadcastWarRoomUpdate, FailChange
  <2> QED BY <1>0, <2>1, <2>2, <2>3, <2>4 DEF streamVars
<1>2. PICK e \in Edit : /\ change' = [change EXCEPT ![c] = e]
                        /\ e.at # "idle" => incident[e.of] # NoOne
  BY <1>1
<1>3. change'[c] = e /\ \A d \in Editor \ {c} : change'[d] = change[d]
  BY <1>0, <1>2
<1>4. EditsOK'
  BY <1>0, <1>2, <1>3 DEF EditsOK
<1>5. Registry' /\ StreamsCounted'
  BY <1>0, <1>1, StreamsStay DEF WarRoomIndInv, Registry
<1>6. WarRoomTypeOK'
  <2>1. \A d \in Editor : change'[d].at \in {"idle", "update", "audit", "tell"}
    BY <1>3, <1>0, EditFields DEF Edit, NoChange
  <2>2. audited' \in [Incident -> {NoOne} \cup IncidentStatus] /\ unaudited' \subseteq Incident
    <3>1. change[c].at \in {"audit", "tell"} => i \in Incident /\ change[c].to \in IncidentStatus
      BY <1>0, EditFields
    <3> QED BY <3>1 DEF WarRoomIndInv, WarRoomTypeOK, BeginChange, writeIncidentAudit,
                         broadcastWarRoomUpdate, FailChange
  <2> QED BY <1>0, <1>1, <2>1, <2>2 DEF WarRoomIndInv, WarRoomTypeOK, streamVars
<1>7. TrailDue'
  <2>0. TrailDue
    BY DEF WarRoomIndInv
  <2>1. CASE writeIncidentAudit(c)
    <3>1. /\ change[c].at = "audit" /\ i \in Incident /\ incident[i] # NoOne
          /\ audited' = [audited EXCEPT ![i] = change[c].to] /\ unaudited' = unaudited
          /\ change' = [change EXCEPT ![c] = [change[c] EXCEPT !.at = "tell"]]
      BY <2>1, <1>0, EditFields DEF writeIncidentAudit, EditsOK
    <3>2. change'[c].at = "tell"
      BY <3>1, <1>0, EditFields
    <3> SUFFICES ASSUME NEW j \in Incident, j \notin unaudited, j \notin crossed
                 PROVE  /\ \A a, d \in Editor : Auditing(a, j)' /\ Auditing(d, j)' => a = d
                        /\ \A a \in Editor : Auditing(a, j)' => change'[a].to = incident[j].status
                        /\ (\A a \in Editor : ~Auditing(a, j)') =>
                             IF incident[j] = NoOne THEN audited'[j] = NoOne
                             ELSE audited'[j] = incident[j].status
      BY <1>0, <3>1 DEF TrailDue, Auditing
    <3>3. \A a \in Editor : Auditing(a, j)' => Auditing(a, j) /\ change'[a] = change[a]
      BY <3>2, <1>3 DEF Auditing
    <3>4. \A a, d \in Editor : Auditing(a, j)' /\ Auditing(d, j)' => a = d
      BY <2>0, <3>3 DEF TrailDue
    <3>5. \A a \in Editor : Auditing(a, j)' => change'[a].to = incident[j].status
      BY <2>0, <3>3 DEF TrailDue
    <3>6. CASE j = i
      <4>1. Auditing(c, i)
        BY <3>1 DEF Auditing
      <4>2. change[c].to = incident[i].status
        BY <4>1, <3>6, <2>0 DEF TrailDue
      <4>3. audited'[i] = incident[i].status
        BY <4>2, <3>1 DEF WarRoomIndInv, WarRoomTypeOK
      <4> QED BY <3>4, <3>5, <3>6, <4>3, <3>1
    <3>7. CASE j # i
      <4>1. audited'[j] = audited[j] /\ ~Auditing(c, j)
        BY <3>1, <3>7 DEF WarRoomIndInv, WarRoomTypeOK, Auditing
      <4>2. \A a \in Editor : Auditing(a, j) => Auditing(a, j)'
        BY <4>1, <1>3 DEF Auditing
      <4> QED BY <3>4, <3>5, <4>1, <4>2, <2>0 DEF TrailDue
    <3> QED BY <3>6, <3>7
  <2>2. CASE ~writeIncidentAudit(c)
    <3>1. /\ audited' = audited
          /\ unaudited' = IF change[c].at = "audit" THEN unaudited \cup {i} ELSE unaudited
          /\ e.at \in {"idle", "update"}
      <4>1. CASE \E j \in Incident, p \in Profile, op \in Ops : BeginChange(c, j, op, p)
        BY <4>1, <1>0, <1>3 DEF BeginChange, NoChange
      <4>2. CASE broadcastWarRoomUpdate(c)
        BY <4>2, <1>0, <1>3 DEF broadcastWarRoomUpdate, NoChange
      <4>3. CASE FailChange(c)
        BY <4>3, <1>0, <1>3 DEF FailChange, NoChange
      <4> QED BY <2>2, <4>1, <4>2, <4>3
    <3> SUFFICES ASSUME NEW j \in Incident, j \notin unaudited', j \notin crossed
                 PROVE  /\ \A a, d \in Editor : Auditing(a, j)' /\ Auditing(d, j)' => a = d
                        /\ \A a \in Editor : Auditing(a, j)' => change'[a].to = incident[j].status
                        /\ (\A a \in Editor : ~Auditing(a, j)') =>
                             IF incident[j] = NoOne THEN audited[j] = NoOne
                             ELSE audited[j] = incident[j].status
      BY <1>0, <3>1 DEF TrailDue, Auditing
    <3>2. j \notin unaudited /\ ~Auditing(c, j) /\ ~Auditing(c, j)'
      BY <3>1, <1>3 DEF Auditing
    <3>3. \A a \in Editor : (Auditing(a, j)' <=> Auditing(a, j))
      BY <3>2, <1>3 DEF Auditing
    <3>4. \A a \in Editor : Auditing(a, j) => change'[a] = change[a]
      BY <3>2, <1>3
    <3> QED BY <2>0, <3>2, <3>3, <3>4 DEF TrailDue
  <2> QED BY <2>1, <2>2
<1>8. ViewersTold'
  <2> SUFFICES ASSUME NEW s \in clients, s \in behind', s \notin missed'
               PROVE  \E d \in Editor : /\ change'[d].at \in {"audit", "tell"}
                                        /\ incident[change'[d].of].profile = stream[s].profile
    BY <1>0, <1>1 DEF ViewersTold
  <2>1. s \in behind /\ s \notin missed
    BY <1>1 DEF BeginChange, writeIncidentAudit, broadcastWarRoomUpdate, FailChange
  <2>2. PICK d \in Editor : /\ change[d].at \in {"audit", "tell"}
                            /\ incident[change[d].of].profile = stream[s].profile
    BY <2>1 DEF WarRoomIndInv, ViewersTold
  <2>3. CASE d # c
    BY <2>2, <2>3, <1>3
  <2>4. CASE d = c
    <3>1. s \in Of(incident[i].profile)
      BY <2>2, <2>4 DEF Of
    <3>2. CASE \E j \in Incident, p \in Profile, op \in Ops : BeginChange(c, j, op, p)
      BY <3>2, <2>2, <2>4 DEF BeginChange, NoChange
    <3>3. CASE writeIncidentAudit(c)
      <4>1. change' = [change EXCEPT ![c] = [change[c] EXCEPT !.at = "tell"]]
        BY <3>3 DEF writeIncidentAudit
      <4>2. change'[c].at = "tell" /\ change'[c].of = i
        BY <4>1, <2>2, <2>4, <1>0, EditFields
      <4> QED BY <4>2, <2>2, <2>4
    <3>4. CASE broadcastWarRoomUpdate(c)
      BY <3>4, <3>1, <2>1 DEF broadcastWarRoomUpdate
    <3>5. CASE FailChange(c)
      BY <3>5, <3>1, <2>1, <2>2, <2>4 DEF FailChange
    <3> QED BY <3>2, <3>3, <3>4, <3>5
  <2> QED BY <2>3, <2>4
<1> QED BY <1>4, <1>5, <1>6, <1>7, <1>8 DEF WarRoomIndInv

-----------------------------------------------------------------------------
(* The registry of the streams                                             *)

\* The connections of a user are a finite part of the streams.
LEMMA StreamsFinite ==
  ASSUME WarRoomTypeOK, NEW u
  PROVE  /\ StreamsOf(u) \subseteq clients
         /\ IsFiniteSet(clients) /\ Cardinality(clients) \in Nat
         /\ IsFiniteSet(StreamsOf(u)) /\ Cardinality(StreamsOf(u)) \in Nat
         /\ Cardinality(StreamsOf(u)) <= Cardinality(Stream)
         /\ Cardinality(Stream) \in Nat
<1>1. StreamsOf(u) \subseteq clients /\ StreamsOf(u) \subseteq Stream /\ clients \subseteq Stream
  BY DEF StreamsOf, WarRoomTypeOK
<1> QED BY <1>1, StreamAssumption, FS_Subset, FS_CardinalityType

\* A connection that is not registered changes or ends: the registry stays.
LEMMA OutsideKeeps ==
  ASSUME WarRoomIndInv, NEW s \in Stream, s \notin clients,
         NEW row \in {NoOne} \cup StreamRow,
         row \in StreamRow => row.at = "checking",
         stream' = [stream EXCEPT ![s] = row],
         UNCHANGED <<clients, perUser, stopping, behind, missed, incidentVars>>
  PROVE  WarRoomIndInv'
<1>1. /\ stream'[s] = row /\ \A t \in Stream \ {s} : stream'[t] = stream[t]
      /\ stream' \in [Stream -> {NoOne} \cup StreamRow]
      /\ clients \subseteq Stream
  BY DEF WarRoomIndInv, WarRoomTypeOK
<1>2. \A t \in clients : stream'[t] = stream[t]
  BY <1>1
<1>3. \A u : StreamsOf(u)' = StreamsOf(u)
  BY <1>2 DEF StreamsOf
<1>4. WarRoomTypeOK'
  BY <1>1 DEF WarRoomIndInv, WarRoomTypeOK, incidentVars
<1>5. EditsOK' /\ TrailDue'
  BY EditorsStay DEF WarRoomIndInv
<1>6. Registry'
  <2>1. behind' \subseteq clients' /\ \A t \in clients' : stream'[t] \in StreamRow /\ stream'[t].at = "open"
    BY <1>2 DEF WarRoomIndInv, Registry
  <2>2. \A u \in Viewer : perUser'[u] <= Cardinality(StreamsOf(u)')
    BY <1>3 DEF WarRoomIndInv, Registry
  <2>3. ~stopping' => \A t \in Stream :
           stream'[t] \in StreamRow /\ stream'[t].at = "open" => t \in clients'
    BY <1>1 DEF WarRoomIndInv, Registry
  <2> QED BY <2>1, <2>2, <2>3 DEF Registry
<1>7. StreamsCounted'
  BY <1>3 DEF WarRoomIndInv, StreamsCounted, StreamsOf
<1>8. ViewersTold'
  BY <1>2 DEF WarRoomIndInv, ViewersTold, incidentVars
<1> QED BY <1>4, <1>5, <1>6, <1>7, <1>8 DEF WarRoomIndInv

\* A registration counts the connection in both totals, below both caps.
LEMMA RegisterKeeps ==
  ASSUME WarRoomIndInv, NEW s \in Stream, registerSseClient(s), HasRoom(stream[s].user)
  PROVE  WarRoomIndInv'
<1>0. /\ WarRoomTypeOK /\ Registry /\ StreamsCounted
      /\ stream[s] \in StreamRow /\ stream[s].at = "checking" /\ stream[s].user \in Viewer
      /\ s \notin clients /\ s \notin behind
  BY DEF WarRoomIndInv, WarRoomTypeOK, Registry, registerSseClient, StreamRow
<1>u. PICK u \in Viewer : u = stream[s].user
  BY <1>0
<1>1. /\ stream' = [stream EXCEPT ![s] = [stream[s] EXCEPT !.at = "open"]]
      /\ clients' = clients \cup {s}
      /\ perUser' = [perUser EXCEPT ![u] = perUser[u] + 1]
      /\ UNCHANGED <<stopping, behind, missed, incidentVars>>
  BY <1>u DEF registerSseClient
<1>2. /\ [stream[s] EXCEPT !.at = "open"] \in StreamRow
      /\ [stream[s] EXCEPT !.at = "open"].at = "open"
      /\ [stream[s] EXCEPT !.at = "open"].user = u
  BY <1>0, <1>u DEF StreamRow
<1>3. /\ stream'[s] \in StreamRow /\ stream'[s].at = "open" /\ stream'[s].user = u
      /\ \A t \in Stream \ {s} : stream'[t] = stream[t]
      /\ stream' \in [Stream -> {NoOne} \cup StreamRow]
  BY <1>0, <1>1, <1>2 DEF WarRoomTypeOK
<1>4. clients \subseteq Stream /\ \A t \in clients : stream'[t] = stream[t]
  BY <1>0, <1>3 DEF WarRoomTypeOK
<1>5. StreamsOf(u)' = StreamsOf(u) \cup {s} /\ s \notin StreamsOf(u)
  BY <1>0, <1>1, <1>3, <1>4 DEF StreamsOf
<1>6. \A v \in Viewer \ {u} : StreamsOf(v)' = StreamsOf(v)
  BY <1>1, <1>3, <1>4 DEF StreamsOf
<1>7. /\ Cardinality(StreamsOf(u)') = Cardinality(StreamsOf(u)) + 1
      /\ Cardinality(clients') = Cardinality(clients) + 1
  <2>1. IsFiniteSet(StreamsOf(u)) /\ IsFiniteSet(clients)
    BY <1>0, StreamsFinite
  <2> QED BY <2>1, <1>0, <1>1, <1>5, FS_AddElement
<1>8. perUser'[u] = perUser[u] + 1 /\ \A v \in Viewer \ {u} : perUser'[v] = perUser[v]
  BY <1>0, <1>1 DEF WarRoomTypeOK
<1>9. \A v \in Viewer : perUser[v] \in Nat
  BY <1>0, StreamsFinite DEF WarRoomTypeOK
<1>10. /\ \A v \in Viewer : perUser'[v] <= Cardinality(StreamsOf(v)')
       /\ \A v \in Viewer : Cardinality(StreamsOf(v)') <= Cardinality(Stream)
       /\ Cardinality(Stream) \in Nat
  <2>1. perUser[u] <= Cardinality(StreamsOf(u)) /\ Cardinality(StreamsOf(u)) \in Nat
    BY <1>0, StreamsFinite DEF Registry
  <2>2. perUser'[u] <= Cardinality(StreamsOf(u)')
    BY <2>1, <1>0, <1>7, <1>8, <1>9
  <2>3. \A v \in Viewer \ {u} : perUser'[v] <= Cardinality(StreamsOf(v)')
    BY <1>0, <1>6, <1>8 DEF Registry
  <2>4. \A v \in Viewer : StreamsOf(v)' \subseteq Stream
    BY <1>1, <1>4 DEF StreamsOf
  <2>5. \A v \in Viewer : Cardinality(StreamsOf(v)') <= Cardinality(Stream)
    BY <2>4, StreamAssumption, FS_Subset
  <2> QED BY <2>2, <2>3, <2>5, <1>0, StreamsFinite
<1>11. \A v \in Viewer : Cardinality(StreamsOf(v)') \in Nat
  BY <1>0, <1>6, <1>7, StreamsFinite
<1>12. perUser' \in [Viewer -> 0..Cardinality(Stream)]
  <2>1. \A v \in Viewer : perUser'[v] \in Nat
    BY <1>0, <1>8, <1>9
  <2>2. \A v \in Viewer : perUser'[v] \in 0..Cardinality(Stream)
    BY <2>1, <1>10, <1>11
  <2>3. perUser' \in [Viewer -> {perUser'[v] : v \in Viewer}]
    BY <1>0, <1>1 DEF WarRoomTypeOK
  <2> QED BY <2>2, <2>3
<1>13. WarRoomTypeOK'
  BY <1>0, <1>1, <1>3, <1>12 DEF WarRoomTypeOK, incidentVars
<1>14. EditsOK' /\ TrailDue'
  BY <1>1, EditorsStay DEF WarRoomIndInv
<1>15. Registry'
  <2>1. \A t \in clients' : stream'[t] \in StreamRow /\ stream'[t].at = "open"
    BY <1>0, <1>1, <1>3, <1>4 DEF Registry
  <2>2. ~stopping' => \A t \in Stream :
           stream'[t] \in StreamRow /\ stream'[t].at = "open" => t \in clients'
    BY <1>0, <1>1, <1>3 DEF Registry
  <2>3. behind' \subseteq clients'
    BY <1>0, <1>1 DEF Registry
  <2> QED BY <2>1, <2>2, <2>3, <1>10 DEF Registry
<1>16. StreamsCounted'
  <2> SUFFICES ASSUME ~stopping
               PROVE  /\ Cardinality(clients') <= MaxClients
                      /\ \A v \in Viewer : perUser'[v] = Cardinality(StreamsOf(v)')
                      /\ \A v \in Viewer : perUser'[v] <= MaxPerUser
    BY <1>1 DEF StreamsCounted, StreamsOf
  <2>1. Cardinality(clients) \in Nat /\ Cardinality(clients) < MaxClients /\ perUser[u] < MaxPerUser
    BY <1>0, <1>u, StreamsFinite DEF HasRoom
  <2>2. \A v \in Viewer : perUser[v] = Cardinality(StreamsOf(v)) /\ perUser[v] <= MaxPerUser
    BY <1>0 DEF StreamsCounted, StreamsOf
  <2>3. Cardinality(clients') <= MaxClients
    BY <2>1, <1>7, CapsAssumption
  <2>4. perUser'[u] = Cardinality(StreamsOf(u)') /\ perUser'[u] <= MaxPerUser
    BY <2>1, <2>2, <1>0, <1>7, <1>8, <1>9, CapsAssumption
  <2>5. \A v \in Viewer \ {u} : perUser'[v] = Cardinality(StreamsOf(v)') /\ perUser'[v] <= MaxPerUser
    BY <2>2, <1>6, <1>8
  <2> QED BY <2>3, <2>4, <2>5
<1>17. ViewersTold'
  BY <1>0, <1>1, <1>4 DEF WarRoomIndInv, ViewersTold, incidentVars
<1> QED BY <1>13, <1>14, <1>15, <1>16, <1>17 DEF WarRoomIndInv

\* The end of a connection counts it out once; after a shutdown the count may
\* fall below the registry, never below zero.
LEMMA UnregisterKeeps ==
  ASSUME WarRoomIndInv, NEW s \in Stream, unregister(s)
  PROVE  WarRoomIndInv'
<1>0. /\ WarRoomTypeOK /\ Registry /\ StreamsCounted
      /\ stream[s] \in StreamRow /\ stream[s].at = "open" /\ stream[s].user \in Viewer
      /\ ~stopping => s \in clients
  BY DEF WarRoomIndInv, WarRoomTypeOK, Registry, unregister, StreamRow
<1>u. PICK u \in Viewer : u = stream[s].user
  BY <1>0
<1>1. /\ clients' = clients \ {s}
      /\ perUser' = [perUser EXCEPT ![u] = IF perUser[u] <= 1 THEN 0 ELSE perUser[u] - 1]
      /\ stream' = [stream EXCEPT ![s] = NoOne]
      /\ behind' = behind \ {s} /\ missed' = missed \ {s}
      /\ UNCHANGED <<stopping, incidentVars>>
  BY <1>u DEF unregister
<1>3. /\ stream'[s] = NoOne
      /\ \A t \in Stream \ {s} : stream'[t] = stream[t]
      /\ stream' \in [Stream -> {NoOne} \cup StreamRow]
      /\ clients \subseteq Stream
  BY <1>0, <1>1 DEF WarRoomTypeOK
<1>4. \A t \in clients' : t \in clients /\ stream'[t] = stream[t]
  BY <1>1, <1>3
<1>5. StreamsOf(u)' = StreamsOf(u) \ {s}
  BY <1>1, <1>3, <1>u DEF StreamsOf
<1>6. \A v \in Viewer \ {u} : StreamsOf(v)' = StreamsOf(v)
  BY <1>1, <1>3, <1>u DEF StreamsOf
<1>7. /\ Cardinality(StreamsOf(u)') = IF s \in clients THEN Cardinality(StreamsOf(u)) - 1
                                      ELSE Cardinality(StreamsOf(u))
      /\ s \in clients => Cardinality(StreamsOf(u)) >= 1
      /\ Cardinality(StreamsOf(u)') \in Nat
      /\ Cardinality(clients') <= Cardinality(clients)
  <2>1. /\ IsFiniteSet(StreamsOf(u)) /\ IsFiniteSet(clients) /\ Cardinality(StreamsOf(u)) \in Nat
        /\ (s \in StreamsOf(u)) <=> s \in clients
    BY <1>0, <1>u, StreamsFinite DEF StreamsOf
  <2>2. IsFiniteSet(StreamsOf(u)') /\ Cardinality(clients') <= Cardinality(clients)
    BY <2>1, <1>1, <1>5, FS_RemoveElement, FS_Subset
  <2>3. Cardinality(StreamsOf(u)') \in Nat
    BY <2>2, FS_CardinalityType
  <2>4. CASE s \in clients
    <3>1. Cardinality(StreamsOf(u)') = Cardinality(StreamsOf(u)) - 1
      BY <2>1, <2>4, <1>5, FS_RemoveElement
    <3> QED BY <3>1, <2>1, <2>2, <2>3, <2>4
  <2>5. CASE s \notin clients
    <3>1. StreamsOf(u)' = StreamsOf(u)
      BY <2>1, <2>5, <1>5
    <3> QED BY <3>1, <2>2, <2>3, <2>5
  <2> QED BY <2>4, <2>5
<1>8. /\ perUser'[u] = IF perUser[u] <= 1 THEN 0 ELSE perUser[u] - 1
      /\ \A v \in Viewer \ {u} : perUser'[v] = perUser[v]
  BY <1>0, <1>1 DEF WarRoomTypeOK
<1>9. \A v \in Viewer : perUser[v] \in Nat /\ perUser[v] <= Cardinality(Stream)
  BY <1>0, StreamsFinite DEF WarRoomTypeOK
<1>10. /\ perUser'[u] \in Nat /\ perUser'[u] <= perUser[u]
       /\ s \in clients => perUser'[u] = IF perUser[u] = 0 THEN 0 ELSE perUser[u] - 1
  BY <1>0, <1>8, <1>9
<1>11. \A v \in Viewer : perUser'[v] <= Cardinality(StreamsOf(v)')
  <2>1. perUser[u] <= Cardinality(StreamsOf(u)) /\ Cardinality(StreamsOf(u)) \in Nat /\ perUser[u] \in Nat
    BY <1>0, <1>9, StreamsFinite DEF Registry
  <2>2. perUser'[u] <= Cardinality(StreamsOf(u)')
    BY <2>1, <1>7, <1>10
  <2>3. \A v \in Viewer \ {u} : perUser'[v] <= Cardinality(StreamsOf(v)')
    BY <1>0, <1>6, <1>8 DEF Registry
  <2> QED BY <2>2, <2>3
<1>12. perUser' \in [Viewer -> 0..Cardinality(Stream)]
  <2>1. Cardinality(Stream) \in Nat
    BY <1>0, StreamsFinite
  <2>2. perUser'[u] \in 0..Cardinality(Stream)
    BY <2>1, <1>0, <1>9, <1>10
  <2> QED BY <2>2, <1>0, <1>1, <1>8 DEF WarRoomTypeOK
<1>13. WarRoomTypeOK'
  BY <1>0, <1>1, <1>3, <1>12 DEF WarRoomTypeOK, incidentVars
<1>14. EditsOK' /\ TrailDue'
  BY <1>1, EditorsStay DEF WarRoomIndInv
<1>15. Registry'
  <2>1. \A t \in clients' : stream'[t] \in StreamRow /\ stream'[t].at = "open"
    BY <1>0, <1>4 DEF Registry
  <2>2. ~stopping' => \A t \in Stream :
           stream'[t] \in StreamRow /\ stream'[t].at = "open" => t \in clients'
    BY <1>0, <1>1, <1>3, NoOneAssumption DEF Registry
  <2>3. behind' \subseteq clients'
    BY <1>0, <1>1 DEF Registry
  <2> QED BY <2>1, <2>2, <2>3, <1>11 DEF Registry
<1>16. StreamsCounted'
  <2> SUFFICES ASSUME ~stopping
               PROVE  /\ Cardinality(clients') <= MaxClients
                      /\ \A v \in Viewer : perUser'[v] = Cardinality(StreamsOf(v)')
                      /\ \A v \in Viewer : perUser'[v] <= MaxPerUser
    BY <1>1 DEF StreamsCounted, StreamsOf
  <2>1. /\ Cardinality(clients) \in Nat /\ Cardinality(clients) <= MaxClients
        /\ IsFiniteSet(clients)
    BY <1>0, StreamsFinite DEF StreamsCounted
  <2>2. \A v \in Viewer : perUser[v] = Cardinality(StreamsOf(v)) /\ perUser[v] <= MaxPerUser
    BY <1>0 DEF StreamsCounted, StreamsOf
  <2>3. Cardinality(clients') \in Nat
    BY <2>1, <1>1, FS_RemoveElement, FS_CardinalityType
  <2>4. Cardinality(clients') <= MaxClients
    BY <2>1, <2>3, <1>7, CapsAssumption
  <2>5. s \in clients /\ perUser[u] = Cardinality(StreamsOf(u)) /\ perUser[u] <= MaxPerUser
        /\ perUser[u] \in Nat
    BY <1>0, <1>9, <2>2
  <2>6. perUser'[u] = Cardinality(StreamsOf(u)') /\ perUser'[u] <= MaxPerUser
    BY <2>5, <1>7, <1>10, CapsAssumption
  <2>7. \A v \in Viewer \ {u} : perUser'[v] = Cardinality(StreamsOf(v)') /\ perUser'[v] <= MaxPerUser
    BY <2>2, <1>6, <1>8
  <2> QED BY <2>4, <2>6, <2>7
<1>17. ViewersTold'
  BY <1>1, <1>4 DEF WarRoomIndInv, ViewersTold, incidentVars
<1> QED BY <1>13, <1>14, <1>15, <1>16, <1>17 DEF WarRoomIndInv

LEMMA ShutdownKeeps ==
  ASSUME WarRoomIndInv, destroyAllSseClients
  PROVE  WarRoomIndInv'
<1>1. /\ stopping' = TRUE /\ clients' = {} /\ perUser' = [u \in Viewer |-> 0]
      /\ behind' = {} /\ missed' = {}
      /\ UNCHANGED <<stream, incidentVars>>
  BY DEF destroyAllSseClients
<1>2. WarRoomTypeOK'
  <2>1. Cardinality(Stream) \in Nat
    BY StreamsFinite DEF WarRoomIndInv
  <2>2. perUser' \in [Viewer -> 0..Cardinality(Stream)]
    BY <1>1, <2>1
  <2> QED BY <1>1, <2>2 DEF WarRoomIndInv, WarRoomTypeOK, incidentVars
<1>3. EditsOK' /\ TrailDue'
  BY <1>1, EditorsStay DEF WarRoomIndInv
<1>4. Registry'
  <2>1. \A u \in Viewer : perUser'[u] <= Cardinality(StreamsOf(u)')
    <3>1. \A u \in Viewer : StreamsOf(u)' = {} /\ perUser'[u] = 0
      BY <1>1 DEF StreamsOf
    <3> QED BY <3>1, FS_EmptySet
  <2> QED BY <1>1, <2>1 DEF Registry
<1>5. StreamsCounted' /\ ViewersTold'
  BY <1>1 DEF StreamsCounted, ViewersTold
<1> QED BY <1>2, <1>3, <1>4, <1>5 DEF WarRoomIndInv

LEMMA StreamKeeps ==
  ASSUME WarRoomIndInv, NEW s \in Stream,
         \/ \E u \in Viewer, p \in Profile : OpenStream(s, u, p)
         \/ HangUpEarly(s) \/ registerSseClient(s) \/ RefuseStream(s) \/ unregister(s)
  PROVE  WarRoomIndInv'
<1>0. /\ stream \in [Stream -> {NoOne} \cup StreamRow]
      /\ stream[s] = NoOne => s \notin clients
      /\ stream[s] # NoOne /\ stream[s].at = "checking" => s \notin clients
  BY NoOneAssumption DEF WarRoomIndInv, WarRoomTypeOK, Registry
<1>1. CASE \E u \in Viewer, p \in Profile : OpenStream(s, u, p)
  <2>1. PICK u \in Viewer, p \in Profile : OpenStream(s, u, p)
    BY <1>1
  <2> DEFINE row == [at |-> "checking", user |-> u, profile |-> p, gone |-> FALSE]
  <2>2. row \in StreamRow /\ row.at = "checking"
    BY DEF StreamRow
  <2>3. /\ s \notin clients /\ stream' = [stream EXCEPT ![s] = row]
        /\ UNCHANGED <<clients, perUser, stopping, behind, missed, incidentVars>>
    BY <2>1, <1>0 DEF OpenStream
  <2> HIDE DEF row
  <2> QED BY <2>2, <2>3, OutsideKeeps
<1>2. CASE HangUpEarly(s)
  <2> DEFINE row == [stream[s] EXCEPT !.gone = TRUE]
  <2>1. /\ stream[s] \in StreamRow /\ stream[s].at = "checking" /\ s \notin clients
        /\ stream' = [stream EXCEPT ![s] = row]
        /\ UNCHANGED <<clients, perUser, stopping, behind, missed, incidentVars>>
    BY <1>2, <1>0 DEF HangUpEarly
  <2>2. row \in StreamRow /\ row.at = "checking"
    BY <2>1 DEF StreamRow
  <2> HIDE DEF row
  <2> QED BY <2>1, <2>2, OutsideKeeps
<1>3. CASE RefuseStream(s) \/ (registerSseClient(s) /\ ~HasRoom(stream[s].user))
  <2>1. /\ s \notin clients /\ stream' = [stream EXCEPT ![s] = NoOne]
        /\ UNCHANGED <<clients, perUser, stopping, behind, missed, incidentVars>>
    BY <1>3, <1>0 DEF RefuseStream, registerSseClient
  <2> QED BY <2>1, OutsideKeeps, NoOneAssumption
<1>4. CASE registerSseClient(s) /\ HasRoom(stream[s].user)
  BY <1>4, RegisterKeeps
<1>5. CASE unregister(s)
  BY <1>5, UnregisterKeeps
<1> QED BY <1>1, <1>2, <1>3, <1>4, <1>5

LEMMA WarRoomInductive ==
  ASSUME WarRoomIndInv, [WarRoomNext]_warRoomVars
  PROVE  WarRoomIndInv'
<1>1. ASSUME NEW c \in Editor,
             \/ \E i \in Incident, p \in Profile : addWarRoomIncident(c, i, p)
             \/ \E status \in IncidentStatus : updateIncidentStatus(c, status)
             \/ assignIncident(c) \/ escalateIncident(c) \/ resolveIncident(c)
      PROVE  WarRoomIndInv'
  <2>1. WarRoomTypeOK /\ EditsOK
    BY DEF WarRoomIndInv
  <2> QED BY <1>1, <2>1, RowIsWritten, WriteKeeps
<1>2. ASSUME NEW c \in Editor,
             \/ \E i \in Incident, p \in Profile, op \in Ops : BeginChange(c, i, op, p)
             \/ writeIncidentAudit(c) \/ broadcastWarRoomUpdate(c) \/ FailChange(c)
      PROVE  WarRoomIndInv'
  BY <1>2, RequestKeeps
<1>3. CASE UNCHANGED warRoomVars
  BY <1>3 DEF WarRoomIndInv, WarRoomTypeOK, EditsOK, TrailDue, Auditing, Registry, StreamsOf,
              StreamsCounted, ViewersTold, warRoomVars
<1> QED BY <1>1, <1>2, <1>3, StreamKeeps, ShutdownKeeps
        DEF WarRoomNext, IncidentNext, StreamNext, Ops

LEMMA WarRoomStarts == WarRoomInit => WarRoomIndInv
<1> SUFFICES ASSUME WarRoomInit PROVE WarRoomIndInv
  OBVIOUS
<1> USE DEF WarRoomInit
<1>1. EditsOK
  BY DEF EditsOK, Edit, NoChange
<1>2. WarRoomTypeOK
  <2>1. Cardinality(Stream) \in Nat
    BY StreamAssumption, FS_CardinalityType
  <2>2. perUser \in [Viewer -> 0..Cardinality(Stream)]
    BY <2>1
  <2> QED BY <2>2 DEF WarRoomTypeOK, NoChange
<1>3. TrailDue
  BY DEF TrailDue, Auditing, NoChange
<1>4. \A u \in Viewer : StreamsOf(u) = {} /\ Cardinality(StreamsOf(u)) = 0 /\ perUser[u] = 0
  BY FS_EmptySet DEF StreamsOf
<1>5. Registry
  BY <1>4, NoOneAssumption DEF Registry
<1>6. StreamsCounted
  BY <1>4, FS_EmptySet, CapsAssumption DEF StreamsCounted, StreamsOf
<1>7. ViewersTold
  BY DEF ViewersTold
<1> QED BY <1>1, <1>2, <1>3, <1>5, <1>6, <1>7 DEF WarRoomIndInv

LEMMA WarRoomAlways == WarRoomSpec => []WarRoomIndInv
<1>1. WarRoomIndInv /\ [WarRoomNext]_warRoomVars => WarRoomIndInv'
  BY WarRoomInductive
<1> QED BY <1>1, WarRoomStarts, PTL DEF WarRoomSpec

\* For every number of requests and of streams and all caps: once no audit row
\* is due, the latest one names the status of the incident (unless an INSERT
\* failed or two requests crossed), and the streams kept open stay within
\* SSE_MAX_CLIENTS and SSE_MAX_STREAMS_PER_USER with exact counts, over the streams that were let in and have not ended.
THEOREM WarRoomSound == WarRoomSpec => []WarRoomInv
<1>1. WarRoomIndInv => WarRoomInv
  <2>1. WarRoomIndInv => TrailTellsStatus
    BY DEF WarRoomIndInv, TrailDue, TrailTellsStatus, Auditing
  <2>2. WarRoomIndInv => RegistryIsExact
    BY NoOneAssumption DEF WarRoomIndInv, WarRoomTypeOK, Registry, RegistryIsExact
  <2> QED BY <2>1, <2>2 DEF WarRoomIndInv, WarRoomInv
<1> QED BY <1>1, WarRoomAlways, PTL

\* A viewer whose screen is out of date has a broadcast ahead of him, whatever
\* requests overlap, and however streams come and go between the UPDATE and the
\* broadcast.
THEOREM ViewersAreTold == WarRoomSpec => []ViewersTold
<1>1. WarRoomIndInv => ViewersTold
  BY DEF WarRoomIndInv
<1> QED BY <1>1, WarRoomAlways, PTL
==============================================================================
