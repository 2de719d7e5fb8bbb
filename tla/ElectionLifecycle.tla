-------------------------- MODULE ElectionLifecycle --------------------------
(***************************************************************************)
(* One election from draft to declaration, over the results and disputes   *)
(* of ResultPipeline: TransitionElection with the electionFSM table and    *)
(* its guards, and the declaration endpoint handleDeclareResult.           *)
(*                                                                         *)
(* Both lock the election's row, then evaluate their guard through another *)
(* connection, then write and commit.  Nothing else locks that row, so     *)
(* captures, validations, disputes and corrections run between a guard and *)
(* its commit.  The vote arithmetic of assessDeclaration is abstracted to  *)
(* its verdict: with a finalized result the outcome may or may not be      *)
(* inconclusive, without one it is not.                                    *)
(***************************************************************************)
EXTENDS ResultPipeline

CONSTANTS Admin          \* administrators' requests that move the election

VARIABLES moving,        \* the transition whose transaction holds the row
          declaration    \* declared_at and winner_payload, None before

lifecycleVars == <<moving, declaration>>
allVars == <<vars, lifecycleVars>>

ElectionState == {"draft", "scheduled", "active", "voting", "collating", "closed",
                  "cancelled", "disputed", "suspended", "postponed", "declared"}

ASSUME StatusAssumption == ElectionState \subseteq Status

electionFSM ==
    { [from |-> "draft",     event |-> "schedule",         to |-> "scheduled"],
      [from |-> "scheduled", event |-> "activate",         to |-> "active"],
      [from |-> "active",    event |-> "open_voting",      to |-> "voting"],
      [from |-> "voting",    event |-> "close_voting",     to |-> "collating"],
      [from |-> "collating", event |-> "finalize",         to |-> "closed"],
      [from |-> "scheduled", event |-> "cancel",           to |-> "cancelled"],
      [from |-> "draft",     event |-> "cancel",           to |-> "cancelled"],
      [from |-> "closed",    event |-> "dispute",          to |-> "disputed"],
      [from |-> "disputed",  event |-> "resolve_dispute",  to |-> "closed"],
      [from |-> "scheduled", event |-> "postpone",         to |-> "postponed"],
      [from |-> "postponed", event |-> "reschedule",       to |-> "scheduled"],
      [from |-> "active",    event |-> "suspend",          to |-> "suspended"],
      [from |-> "voting",    event |-> "suspend",          to |-> "suspended"],
      [from |-> "collating", event |-> "suspend",          to |-> "suspended"],
      [from |-> "suspended", event |-> "resume_active",    to |-> "active"],
      [from |-> "suspended", event |-> "resume_voting",    to |-> "voting"],
      [from |-> "suspended", event |-> "resume_collating", to |-> "collating"],
      [from |-> "collating", event |-> "declare",          to |-> "declared"],
      [from |-> "closed",    event |-> "declare",          to |-> "declared"] }

-----------------------------------------------------------------------------
\* COUNT(DISTINCT polling_unit_code) of the results in the given states.
UnitsIn(states) == {pu[r] : r \in {x \in Result : st[x] \in states}}

OpenDisputes == {d \in Dispute : disp[d] # "absent" /\ ~Closed(d)}

\* What canonicalPartyTotals sums up.
Counted == {r \in Result : st[r] = "finalized"}

\* The guard of "finalize".  It ignores the errors of its queries: a count that
\* failed is 0, no unit is to be accounted for and no dispute is open.
guardFinalize(failed) ==
    /\ "disputes" \in failed \/ OpenDisputes = {}
    /\ \/ "units" \in failed
       \/ Cardinality(UnitsIn({"finalized", "voided", "disputed"})) >= Cardinality(PU)

\* assessDeclaration's Complete: the units are counted status by status.
Complete ==
    Cardinality(UnitsIn({"finalized"})) + Cardinality(UnitsIn({"disputed"}))
        + Cardinality(UnitsIn({"voided"})) >= Cardinality(PU)

\* assessDeclaration's Inconclusive: margin of lead, tie and spread rules.
InconclusiveVerdicts == IF Counted = {} THEN {FALSE} ELSE BOOLEAN

\* The guard of "declare".
guardDeclare == Complete /\ OpenDisputes = {} /\ FALSE \in InconclusiveVerdicts

Guard(event, failed) ==
    /\ event = "finalize" => guardFinalize(failed)
    /\ event = "declare" => guardDeclare

\* What the transaction of a transition remembers of its guard.
Move(t, record) ==
    [from |-> t.from, to |-> t.to, event |-> t.event, record |-> record,
     units |-> UnitsIn({"finalized", "voided", "disputed"})]

RowLocked == \E a \in Admin : moving[a] # None

-----------------------------------------------------------------------------
\* What handleCreateElection accepts as the status of a new election; the
\* FSM ignores the legacy values "upcoming" and "completed".
Creatable == {"draft", "scheduled", "active", "voting", "collating", "closed",
              "cancelled", "disputed"}

LifecycleInit ==
    /\ Init
    /\ status \in Creatable
    /\ moving = [a \in Admin |-> None]
    /\ declaration = None

\* Mutant of BeginTransition: no FOR UPDATE.
BeginUnlocked(a, t, failed) ==
    /\ moving[a] = None
    /\ t.from = status
    /\ Guard(t.event, failed)
    /\ moving' = [moving EXCEPT ![a] = Move(t, None)]
    /\ UNCHANGED <<vars, declaration>>

\* TransitionElection: lock the row, find the transition, pass its guard.
BeginTransition(a, t, failed) ==
    /\ ~RowLocked
    /\ t.from = status
    /\ Guard(t.event, failed)
    /\ moving' = [moving EXCEPT ![a] = Move(t, None)]
    /\ UNCHANGED <<vars, declaration>>

\* Mutant of BeginDeclare: a winner is declared without a finalized result.
DeclareNothing(a, force, inconclusive) ==
    /\ ~RowLocked
    /\ declaration = None
    /\ status \in {"collating", "closed", "disputed"}
    /\ Complete
    /\ OpenDisputes = {}
    /\ inconclusive => force
    /\ moving' = [moving EXCEPT ![a] =
          Move([from |-> status, event |-> "declare", to |-> "declared"],
               [outcome |-> IF force THEN "inconclusive" ELSE "winner_declared",
                basis   |-> Counted])]
    /\ UNCHANGED <<vars, declaration>>

\* handleDeclareResult: force is declare_inconclusive of the request.
BeginDeclare(a, force, inconclusive) ==
    /\ ~RowLocked
    /\ declaration = None
    /\ status \in {"collating", "closed", "disputed"}
    /\ Complete
    /\ OpenDisputes = {}
    /\ inconclusive => force
    /\ Counted = {} => force
    /\ moving' = [moving EXCEPT ![a] =
          Move([from |-> status, event |-> "declare", to |-> "declared"],
               [outcome |-> IF force THEN "inconclusive" ELSE "winner_declared",
                basis   |-> Counted])]
    /\ UNCHANGED <<vars, declaration>>

\* The UPDATE of the elections row commits.
CommitMove(a) ==
    /\ moving[a] # None
    /\ status' = moving[a].to
    /\ declaration' = IF moving[a].record # None THEN moving[a].record ELSE declaration
    /\ moving' = [moving EXCEPT ![a] = None]
    /\ UNCHANGED <<resultVars, disputeVars, caseVars, capture, auditVars, history>>

\* A database error or a crash rolls the transition back.
AbortMove(a) ==
    /\ moving[a] # None
    /\ moving' = [moving EXCEPT ![a] = None]
    /\ UNCHANGED <<vars, declaration>>

LifecycleNext ==
    \/ ResultNext /\ UNCHANGED lifecycleVars
    \/ \E a \in Admin, t \in electionFSM, failed \in SUBSET {"disputes", "units"} :
          BeginTransition(a, t, failed)
    \/ \E a \in Admin, force \in BOOLEAN, i \in InconclusiveVerdicts : BeginDeclare(a, force, i)
    \/ \E a \in Admin : CommitMove(a) \/ AbortMove(a)

LifecycleSpec == LifecycleInit /\ [][LifecycleNext]_allVars

-----------------------------------------------------------------------------
\* The declaration endpoint may also leave "disputed".
Edges == {<<t.from, t.to>> : t \in electionFSM} \cup {<<"disputed", "declared">>}

\* Concurrent transitions serialize: "exactly one can observe a given source
\* state and win", so the election only ever moves along an edge of the FSM,
\* and once declared nobody rewrites its status or its declaration, even when
\* an FSM "declare" event and declaration requests race
\* (TransitionElection, handleDeclareResult).
RacersSerialize ==
    [][/\ status' # status => <<status, status'>> \in Edges
       /\ status = "declared" => UNCHANGED <<status, declaration>>]_allVars

\* A declared winner rests on finalized results, and on one result per
\* polling unit (assessDeclaration over canonicalPartyTotals).
DeclarationBacked ==
    declaration # None =>
        /\ declaration.outcome = "winner_declared" => declaration.basis # {}
        /\ \A r, x \in declaration.basis : pu[r] = pu[x] => r = x

\* "every polling unit must be accounted for": an election that is about to be
\* declared has a finalized, disputed or voided result at every polling unit
\* (assessDeclaration).
DeclaredComplete ==
    \A a \in Admin :
        moving[a] # None /\ moving[a].event = "declare" => moving[a].units = PU

\* "Open disputes block declaration": no dispute is open when a declaration is
\* recorded (handleDeclareResult).
DisputesBlock == [][declaration' # declaration => OpenDisputes = {}]_allVars

=============================================================================
