------------------------------- MODULE Budget -------------------------------
(***************************************************************************)
(* Campaign money of one profile (campaign-platform/server/db.ts): budget  *)
(* items under the statutory spending cap, the append-only ledger of their *)
(* changes, and donations under the aggregate cap per donor.  No operation *)
(* runs in a transaction: every await is a point where another request of  *)
(* the event loop, or of another process, goes on, and where the request   *)
(* can fail and leave the earlier statements behind.                       *)
(***************************************************************************)
EXTENDS Integers, FiniteSets, Functions

CONSTANTS Item,         \* ids of budget_items; an id is used once
          Donor,        \* donor_name values
          Clerk,        \* concurrent requests
          Amount,       \* figures that a request may carry
          Caps,         \* values of budget_statutory_caps.cap_amount
          DonorCap,     \* CAMPAIGN_PER_DONOR_CAP_NGN
          None

ASSUME AmountAssumption == Amount \subseteq Nat
ASSUME CapAssumption == Caps \subseteq Nat /\ DonorCap \in Nat
ASSUME NoneAssumption == None \notin Nat \cup Donor

VARIABLES item,         \* spent_amount by id; None: no row
          used,         \* ids that were handed out
          cap,          \* cap of the profile's office, or None
          ledger,       \* budget_spend_ledger: new_spent, None for "deleted"
          gifts,        \* sum of fundraising_transactions by donor
          task,         \* what a request has read and does next
          lost,         \* ghost: items with a change whose ledger row failed
          excused,      \* ghost: a write landed on a check that was out of
                        \* date, or the cap was set below the total
          crowded       \* ghost: donors with a gift checked before another
                        \* one landed

moneyVars == <<item, used, cap, ledger, gifts, task, lost, excused, crowded>>

Figure == Nat \cup {None}
Change == {"created", "updated", "spend_changed", "deleted"}
Live == {i \in Item : item[i] # None}

\* SUM(spent_amount) of the profile without the item that is being changed.
SpentBut(i) == SumFunctionOnSet(item, Live \ {i})

Resting == [at |-> "idle"]

\* The request ends, with an answer or an error.
Ends(c) == task' = [task EXCEPT ![c] = Resting]

MoneyInit ==
    /\ item = [i \in Item |-> None]
    /\ used = {}
    /\ cap \in Caps \cup {None}
    /\ ledger = {}
    /\ gifts = [d \in Donor |-> 0]
    /\ task = [c \in Clerk |-> Resting]
    /\ lost = {}
    /\ excused = FALSE
    /\ crowded = {}

-----------------------------------------------------------------------------
(* upsertBudgetItem, deleteBudgetItem, upsertBudgetCap                     *)

\* The row is read; the cap is checked only if the spend figure changes.  A
\* request without a figure (None) leaves spent_amount alone.
BeginUpdate(c, i, new) ==
    /\ task[c] = Resting
    /\ item[i] # None
    /\ LET changes == new # None /\ new # item[i]
       IN task' = [task EXCEPT ![c] =
              [at |-> IF changes THEN "cap" ELSE "write", item |-> i,
               change |-> IF changes THEN "spend_changed" ELSE "updated",
               new |-> new, prev |-> item[i], room |-> None, seen |-> 0]]
    /\ UNCHANGED <<item, used, cap, ledger, gifts, lost, excused, crowded>>

\* A new item is checked if it starts with a spend figure.
BeginCreate(c, i, new) ==
    /\ task[c] = Resting
    /\ i \notin used
    /\ used' = used \cup {i}
    /\ task' = [task EXCEPT ![c] =
           [at |-> IF new > 0 THEN "cap" ELSE "write", item |-> i,
            change |-> "created", new |-> new, prev |-> None, room |-> None, seen |-> 0]]
    /\ UNCHANGED <<item, cap, ledger, gifts, lost, excused, crowded>>

BeginDelete(c, i) ==
    /\ task[c] = Resting
    /\ item[i] # None
    /\ task' = [task EXCEPT ![c] =
           [at |-> "write", item |-> i, change |-> "deleted", new |-> None,
            prev |-> item[i], room |-> None, seen |-> 0]]
    /\ UNCHANGED <<item, used, cap, ledger, gifts, lost, excused, crowded>>

\* assertStatutoryCap reads the cap of the office; without one nothing is
\* checked.
ReadCap(c) ==
    /\ task[c].at = "cap"
    /\ task' = [task EXCEPT ![c].at = IF cap = None THEN "write" ELSE "sum",
                            ![c].room = cap]
    /\ UNCHANGED <<item, used, cap, ledger, gifts, lost, excused, crowded>>

\* Bug: the new figure is held against the cap without the other items.
CheckAlone(c) ==
    /\ task[c].at = "sum"
    /\ IF task[c].new > task[c].room
       THEN Ends(c)
       ELSE task' = [task EXCEPT ![c].at = "write",
                                 ![c].seen = SpentBut(task[c].item)]
    /\ UNCHANGED <<item, used, cap, ledger, gifts, lost, excused, crowded>>

\* ... and then the total of the other items.
CheckSum(c) ==
    /\ task[c].at = "sum"
    /\ IF SpentBut(task[c].item) + task[c].new > task[c].room
       THEN Ends(c)
       ELSE task' = [task EXCEPT ![c].at = "write",
                                 ![c].seen = SpentBut(task[c].item)]
    /\ UNCHANGED <<item, used, cap, ledger, gifts, lost, excused, crowded>>

\* What the request relied on has changed since it looked: the total of the
\* others, the cap, or the figure that it took for unchanged.
OutOfDate(t) ==
    \/ t.change \in {"created", "spend_changed"} /\ t.new # 0
           /\ (SpentBut(t.item) # t.seen \/ cap # t.room)
    \/ t.change = "updated" /\ t.new # None /\ item[t.item] # t.prev

\* The UPDATE finds no row if the item was deleted meanwhile (assertUpdated
\* throws); the DELETE does not mind, and its ledger row follows all the same.
Write(c) ==
    LET t == task[c]
    IN /\ t.at = "write"
       /\ IF t.change \in {"updated", "spend_changed"} /\ item[t.item] = None
          THEN Ends(c) /\ UNCHANGED <<item, excused>>
          ELSE /\ item' = [item EXCEPT ![t.item] =
                      IF t.change = "updated" /\ t.new = None THEN @ ELSE t.new]
               /\ task' = [task EXCEPT ![c] =
                      [at |-> "ledger", item |-> t.item, new |-> item'[t.item]]]
               /\ excused' = (excused \/ OutOfDate(t))
       /\ UNCHANGED <<used, cap, ledger, gifts, lost, crowded>>

\* Bug: a deletion leaves no row in the ledger.
WriteLedgerUnlessDeleted(c) ==
    LET t == task[c]
    IN /\ t.at = "ledger"
       /\ ledger' = IF t.new = None THEN ledger
                    ELSE ledger \cup {[item |-> t.item, new |-> t.new]}
       /\ Ends(c)
       /\ UNCHANGED <<item, used, cap, gifts, lost, excused, crowded>>

\* writeBudgetLedger, in a statement of its own.
WriteLedger(c) ==
    LET t == task[c]
    IN /\ t.at = "ledger"
       /\ ledger' = ledger \cup {[item |-> t.item, new |-> t.new]}
       /\ Ends(c)
       /\ UNCHANGED <<item, used, cap, gifts, lost, excused, crowded>>

\* A statement fails, or the process dies.
FailBudget(c) ==
    /\ task[c].at \in {"cap", "sum", "write", "ledger"}
    /\ lost' = IF task[c].at = "ledger" THEN lost \cup {task[c].item} ELSE lost
    /\ Ends(c)
    /\ UNCHANGED <<item, used, cap, ledger, gifts, excused, crowded>>

\* upsertBudgetCap does not look at what has been spent.
SetCap(n) ==
    /\ cap' = n
    /\ excused' = (excused \/ SumFunctionOnSet(item, Live) > n)
    /\ UNCHANGED <<item, used, ledger, gifts, task, lost, crowded>>

-----------------------------------------------------------------------------
(* addScreenedFundraisingTransaction.  Anonymous and unattested donations  *)
(* only meet refusals; a donation without a name is not aggregated.        *)

\* The sum of the donor's gifts is read and held against the cap.
BeginGift(c, d, n) ==
    /\ task[c] = Resting
    /\ gifts[d] + n <= DonorCap
    /\ task' = [task EXCEPT ![c] = [at |-> "gift", donor |-> d, amount |-> n,
                                   seen |-> gifts[d]]]
    /\ UNCHANGED <<item, used, cap, ledger, gifts, lost, excused, crowded>>

InsertGift(c) ==
    LET t == task[c]
    IN /\ t.at = "gift"
       /\ gifts' = [gifts EXCEPT ![t.donor] = @ + t.amount]
       /\ crowded' = IF gifts[t.donor] # t.seen
                     THEN crowded \cup {t.donor} ELSE crowded
       /\ Ends(c)
       /\ UNCHANGED <<item, used, cap, ledger, lost, excused>>

BudgetNext ==
    \/ \E c \in Clerk, i \in Item :
          \/ \E n \in Amount \cup {None} : BeginUpdate(c, i, n)
          \/ \E n \in Amount : BeginCreate(c, i, n)
          \/ BeginDelete(c, i)
    \/ \E c \in Clerk : \/ ReadCap(c) \/ CheckSum(c) \/ Write(c)
                        \/ WriteLedger(c) \/ FailBudget(c)
    \/ \E n \in Caps : SetCap(n)

GiftNext ==
    \/ \E c \in Clerk, d \in Donor, n \in Amount : BeginGift(c, d, n)
    \/ \E c \in Clerk : InsertGift(c)

MoneyNext == BudgetNext \/ GiftNext

MoneySpec == MoneyInit /\ [][MoneyNext]_moneyVars

-----------------------------------------------------------------------------
(* Properties                                                              *)

Request ==
    {Resting} \cup
    [at : {"ledger"}, item : Item, new : Figure] \cup
    [at : {"cap", "sum", "write"}, item : Item, change : Change,
     new : Figure, prev : Figure, room : Figure, seen : Nat] \cup
    [at : {"gift"}, donor : Donor, amount : Nat, seen : Nat]

\* The tables and the requests keep their shape.
MoneyTypeOK ==
    /\ item \in [Item -> Figure]
    /\ used \subseteq Item
    /\ cap \in Figure
    /\ ledger \subseteq [item : Item, new : Figure]
    /\ gifts \in [Donor -> Nat]
    /\ task \in [Clerk -> Request]
    /\ lost \subseteq Item
    /\ excused \in BOOLEAN
    /\ crowded \subseteq Donor

\* assertStatutoryCap: creations, updates, deletions and failures in any order
\* pass the cap only through a check that was out of date when its UPDATE
\* landed, or through a cap set below the total.
CapHeld == ~excused => cap = None \/ SumFunctionOnSet(item, Live) <= cap

\* What the comment of assertStatutoryCap promises without a condition.
TotalWithinCap == cap = None \/ SumFunctionOnSet(item, Live) <= cap

\* addScreenedFundraisingTransaction: a donor passes the aggregate cap only if
\* two donations were checked against one sum.
DonorCapHeld == \A d \in Donor \ crowded : gifts[d] <= DonorCap

PendingRow(i) == \E c \in Clerk : task[c].at = "ledger" /\ task[c].item = i

\* writeBudgetLedger: the ledger knows the figure of every item and the removal
\* of every item that is gone, unless the row is still to come or was lost
\* with its request, which the comments of the code leave out: see
\* MutationsRecorded and RemovalRecordedFirst.
LedgerTraces ==
    \A i \in Item \ lost : ~PendingRow(i) =>
        /\ item[i] # None => \E l \in ledger : l.item = i /\ l.new = item[i]
        /\ item[i] = None /\ (\E l \in ledger : l.item = i)
              => \E l \in ledger : l.item = i /\ l.new = None

\* What the comment on budget_spend_ledger promises without a condition, once no
\* ledger row is outstanding: every mutation is recorded.
MutationsRecorded ==
    (\A i \in Item : ~PendingRow(i)) => \A i \in Item :
        item[i] # None => \E l \in ledger : l.item = i /\ l.new = item[i]

\* What the comment of deleteBudgetItem promises: the deletion is in the ledger
\* before the row is gone.
RemovalRecordedFirst ==
    \A i \in Item : item[i] = None /\ (\E l \in ledger : l.item = i)
        => \E l \in ledger : l.item = i /\ l.new = None

\* The invariant of the money: shape, the statutory cap and the donors' cap.
MoneyInv == MoneyTypeOK /\ CapHeld /\ DonorCapHeld
=============================================================================
