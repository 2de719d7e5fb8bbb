----------------------- MODULE ElectionLifecycleProofs -----------------------
(***************************************************************************)
(* Proofs about ResultPipeline and ElectionLifecycle for every number of   *)
(* polling units, results, disputes, officers, administrators and          *)
(* requests.                                                               *)
(***************************************************************************)
EXTENDS ElectionLifecycle, TLAPS

-----------------------------------------------------------------------------
(* The results of an election                                              *)

\* What a results row remembers: validated_at and the history variables go
\* with its status, and references point to rows that exist.
RowsConsistent ==
    /\ \A r \in Result :
          /\ st[r] = "absent" =>
                /\ ~validatedAt[r]
                /\ validator[r] = None /\ finalizer[r] = None /\ supersedes[r] = None
          /\ st[r] = "pending" => ~validatedAt[r]
          /\ st[r] \in {"validated", "finalized"} => validatedAt[r]
          /\ validatedAt[r] => validator[r] # None
          /\ st[r] = "disputed" =>
                before[r] = IF validatedAt[r] THEN "validated" ELSE "pending"
    /\ \A d \in Dispute :
          /\ disp[d] = "absent" => dispOf[d] = None
          /\ dispOf[d] # None => st[dispOf[d]] # "absent"

IInv ==
    /\ TypeOK
    /\ RowsConsistent
    /\ OneCanonicalResult
    /\ AnnulledStaysOut
    /\ CorrectionTrail
    /\ EvidenceMatches
    /\ SubmitterApart

\* Steps that write no results row and close no dispute.
LEMMA QuietKeepsIInv ==
  ASSUME IInv, TypeOK', UNCHANGED <<resultVars, disputeVars, history>>
  PROVE  IInv'
BY DEF IInv, resultVars, disputeVars, history, RowsConsistent, OneCanonicalResult,
       AnnulledStaysOut, CorrectionTrail, EvidenceMatches, SubmitterApart, Canonical

\* The shapes of the tables survive every step.
LEMMA StepKeepsTypes ==
  ASSUME TypeOK, [Next]_vars
  PROVE  TypeOK'
<1> USE NoneAssumption DEF TypeOK
<1>1. ASSUME NEW k \in Client, NEW p \in PU, NEW o \in Officer \cup {None}, NEW v \in BOOLEAN,
             BeginCapture(k, p, o, v)
      PROVE  TypeOK'
  BY <1>1 DEF BeginCapture, resultVars, disputeVars, caseVars, auditVars, history
<1>2. ASSUME NEW k \in Client, NEW r \in Result, CommitCapture(k, r) PROVE TypeOK'
  BY <1>2 DEF CommitCapture, NewResult, Attest, Idle, disputeVars, caseVars, auditVars, ResultStatus
<1>3. ASSUME NEW k \in Client, EndCapture(k) PROVE TypeOK'
  BY <1>3 DEF EndCapture, Idle, resultVars, disputeVars, caseVars, auditVars, history
<1>4. ASSUME NEW o \in Officer, NEW r \in Result, Validate(o, r) PROVE TypeOK'
  BY <1>4 DEF Validate, Attest, disputeVars, caseVars, ResultStatus
<1>5. ASSUME NEW o \in Officer, NEW r \in Result, AuditValidation(o, r) PROVE TypeOK'
  BY <1>5 DEF AuditValidation, resultVars, disputeVars, caseVars, history
<1>6. ASSUME NEW o \in Officer, NEW r \in Result, LoseAudit(o, r) PROVE TypeOK'
  BY <1>6 DEF LoseAudit, resultVars, disputeVars, caseVars, history
<1>7. ASSUME NEW o \in Officer, NEW r \in Result, Finalize(o, r) PROVE TypeOK'
  BY <1>7 DEF Finalize, Attest, disputeVars, caseVars, auditVars, ResultStatus
<1>8. ASSUME NEW r \in Result, DisputeResult(r) PROVE TypeOK'
  BY <1>8 DEF DisputeResult, Attest, disputeVars, caseVars, auditVars, ResultStatus
<1>9. ASSUME NEW d \in Dispute, NEW r \in Result \cup {None}, FileDispute(d, r) PROVE TypeOK'
  BY <1>9 DEF FileDispute, resultVars, caseVars, auditVars, history, DisputeStatus
<1>10. ASSUME NEW d \in Dispute, ReviewDispute(d) PROVE TypeOK'
  BY <1>10 DEF ReviewDispute, resultVars, caseVars, auditVars, history, DisputeStatus
<1>11. ASSUME NEW d \in Dispute, EscalateDispute(d) PROVE TypeOK'
  BY <1>11 DEF EscalateDispute, resultVars, caseVars, auditVars, history, DisputeStatus
<1>12. ASSUME NEW d \in Dispute, NEW outcome \in Outcome, ResolveDispute(d, outcome) PROVE TypeOK'
  <2>1. \A r \in Result : Remediated(r, outcome) \in ResultStatus
    BY DEF Remediated, ResultStatus
  <2> QED
    BY <1>12, <2>1 DEF ResolveDispute, caseVars, auditVars, history, DisputeStatus
<1>13. ASSUME NEW o \in Officer, NEW r \in Result, NEW new \in Result, CorrectResult(o, r, new)
       PROVE  TypeOK'
  BY <1>13 DEF CorrectResult, NewResult, Attest, disputeVars, caseVars, auditVars, ResultStatus
<1>14. ASSUME NEW c \in Case, NEW r \in Result, OpenCase(c, r) PROVE TypeOK'
  BY <1>14 DEF OpenCase, resultVars, disputeVars, auditVars, history
<1>15. ASSUME NEW c \in Case, ResolveCase(c) PROVE TypeOK'
  BY <1>15 DEF ResolveCase, resultVars, disputeVars, auditVars, history
<1>16. CASE ElectionMoves
  BY <1>16 DEF ElectionMoves, resultVars, disputeVars, caseVars, auditVars, history
<1>17. CASE UNCHANGED vars
  BY <1>17 DEF vars, resultVars, disputeVars, caseVars, auditVars, history
<1> QED
  BY <1>1, <1>2, <1>3, <1>4, <1>5, <1>6, <1>7, <1>8, <1>9, <1>10, <1>11, <1>12,
     <1>13, <1>14, <1>15, <1>16, <1>17 DEF Next, ResultNext

-----------------------------------------------------------------------------
\* A capture or a correction adds a row under an id that nothing refers to.
LEMMA CaptureKeepsIInv ==
  ASSUME IInv, TypeOK', NEW k \in Client, NEW r \in Result, CommitCapture(k, r)
  PROVE  IInv'
<1> USE NoneAssumption DEF IInv, TypeOK, Canonical, Historic
<1> DEFINE s == IF capture[k].override THEN "disputed" ELSE "pending"
<1>1. /\ st[r] = "absent" /\ s \in {"pending", "disputed"}
      /\ ~ \E x \in Result : Canonical(x) /\ pu[x] = capture[k].pu
      /\ st' = [st EXCEPT ![r] = s]
      /\ pu' = [pu EXCEPT ![r] = capture[k].pu]
      /\ by' = [by EXCEPT ![r] = capture[k].by]
      /\ supersedes' = [supersedes EXCEPT ![r] = None]
      /\ attested' = [attested EXCEPT ![r] = s]
      /\ before' = [before EXCEPT ![r] = "pending"]
      /\ UNCHANGED <<validatedAt, disp, dispOf, validator, finalizer>>
  BY DEF CommitCapture, NewResult, Attest, disputeVars
<1> HIDE DEF s
<1>2. RowsConsistent'
  BY <1>1 DEF RowsConsistent
<1>3. OneCanonicalResult'
  BY <1>1 DEF OneCanonicalResult
<1>4. AnnulledStaysOut'
  BY <1>1 DEF AnnulledStaysOut, RowsConsistent
<1>5. CorrectionTrail'
  BY <1>1 DEF CorrectionTrail, RowsConsistent
<1>6. EvidenceMatches'
  BY <1>1 DEF EvidenceMatches
<1>7. SubmitterApart'
  BY <1>1 DEF SubmitterApart, RowsConsistent
<1> QED
  BY <1>2, <1>3, <1>4, <1>5, <1>6, <1>7

LEMMA CorrectionKeepsIInv ==
  ASSUME IInv, TypeOK', NEW o \in Officer, NEW r \in Result, NEW new \in Result,
         CorrectResult(o, r, new)
  PROVE  IInv'
<1> USE NoneAssumption DEF IInv, TypeOK, Canonical, Historic
<1>1. /\ st[new] = "absent" /\ Canonical(r)
      /\ st' = [st EXCEPT ![r] = "superseded", ![new] = "pending"]
      /\ pu' = [pu EXCEPT ![new] = pu[r]]
      /\ by' = [by EXCEPT ![new] = o]
      /\ supersedes' = [supersedes EXCEPT ![new] = r]
      /\ attested' = [attested EXCEPT ![new] = "pending"]
      /\ before' = [before EXCEPT ![new] = "pending"]
      /\ UNCHANGED <<validatedAt, disp, dispOf, validator, finalizer>>
  BY DEF CorrectResult, NewResult, Attest, disputeVars
<1>2. new # r
  BY <1>1
<1>3. RowsConsistent'
  BY <1>1, <1>2 DEF RowsConsistent
<1>4. OneCanonicalResult'
  BY <1>1, <1>2 DEF OneCanonicalResult
<1>5. AnnulledStaysOut'
  BY <1>1, <1>2 DEF AnnulledStaysOut, RowsConsistent
<1>6. CorrectionTrail'
  <2>1. /\ \A x \in Result : supersedes[x] # r /\ supersedes[x] # new
        /\ supersedes[new] = None
    BY <1>1 DEF CorrectionTrail, RowsConsistent
  <2>2. /\ supersedes'[new] = r
        /\ \A x \in Result : x # new => supersedes'[x] = supersedes[x] /\ pu'[x] = pu[x]
        /\ pu'[new] = pu[r] /\ pu'[r] = pu[r]
        /\ st'[r] = "superseded" /\ st'[new] = "pending"
        /\ \A x \in Result : x \notin {r, new} => st'[x] = st[x]
    BY <1>1, <1>2
  <2>3. ASSUME NEW x \in Result
        PROVE  /\ supersedes'[x] = r <=> x = new
               /\ supersedes'[x] # new
               /\ \A y \in Result \ {r, new} : supersedes'[x] = y <=> supersedes[x] = y
    BY <1>2, <2>1, <2>2, <2>3
  <2>4. ASSUME NEW y \in Result
        PROVE  st'[y] = "superseded" <=> \E x \in Result : supersedes'[x] = y
    <3>1. CASE y \in {r, new}
      BY <3>1, <2>2, <2>3
    <3>2. CASE y \notin {r, new}
      BY <3>2, <2>2, <2>3 DEF CorrectionTrail
    <3> QED
      BY <3>1, <3>2
  <2>5. ASSUME NEW y \in Result, NEW x \in Result, supersedes'[x] = y
        PROVE  pu'[x] = pu'[y]
    BY <1>2, <2>1, <2>2, <2>3, <2>5 DEF CorrectionTrail
  <2>6. ASSUME NEW y \in Result, NEW x \in Result, NEW z \in Result,
               supersedes'[x] = y, supersedes'[z] = y
        PROVE  x = z
    <3>1. CASE y = r
      BY <3>1, <2>3, <2>6
    <3>2. CASE y \notin {r, new}
      BY <3>2, <2>3, <2>6 DEF CorrectionTrail
    <3> QED
      BY <3>1, <3>2, <2>3, <2>6
  <2> QED
    BY <2>4, <2>5, <2>6 DEF CorrectionTrail
<1>7. EvidenceMatches'
  BY <1>1, <1>2 DEF EvidenceMatches
<1>8. SubmitterApart'
  BY <1>1, <1>2 DEF SubmitterApart, RowsConsistent
<1> QED
  BY <1>3, <1>4, <1>5, <1>6, <1>7, <1>8

\* Closing a dispute touches at most the status of the linked result.
LEMMA ResolutionKeepsIInv ==
  ASSUME IInv, TypeOK', NEW d \in Dispute, NEW outcome \in Outcome,
         ResolveDispute(d, outcome)
  PROVE  IInv'
<1> USE NoneAssumption DEF IInv, TypeOK
<1>1. /\ disp[d] # "absent" /\ disp[d] \notin Outcome
      /\ disp' = [disp EXCEPT ![d] = outcome]
      /\ \A r \in Result : st'[r] = IF r = dispOf[d] THEN Remediated(r, outcome) ELSE st[r]
      /\ UNCHANGED <<pu, by, validatedAt, supersedes, attested, dispOf, validator,
                     finalizer, before>>
  BY DEF ResolveDispute, Closed, history
<1>2. ASSUME NEW r \in Result
      PROVE  /\ Canonical(r)' => Canonical(r)
             /\ st'[r] # st[r] =>
                  \/ st'[r] = "voided" /\ Canonical(r)
                  \/ /\ st[r] = "disputed"
                     /\ st'[r] = IF validatedAt[r] THEN "validated" ELSE "pending"
             /\ st'[r] = "absent" <=> st[r] = "absent"
             /\ st'[r] = "superseded" <=> st[r] = "superseded"
             /\ st[r] \in Historic => st'[r] \in Historic
             /\ r = dispOf[d] /\ st[r] # "absent"
                 /\ outcome \in {"result_annulled", "rerun_ordered"} => st'[r] \in Historic
  BY <1>1, <1>2 DEF Remediated, Canonical, Historic
<1>3. RowsConsistent'
  BY <1>1, <1>2 DEF RowsConsistent, Outcome
<1>4. OneCanonicalResult'
  BY <1>1, <1>2 DEF OneCanonicalResult
<1>5. AnnulledStaysOut'
  BY <1>1, <1>2 DEF AnnulledStaysOut, RowsConsistent
<1>6. CorrectionTrail'
  BY <1>1, <1>2 DEF CorrectionTrail
<1>7. EvidenceMatches'
  BY <1>1, <1>2 DEF EvidenceMatches, Canonical, Historic
<1>8. SubmitterApart'
  BY <1>1, <1>2 DEF SubmitterApart
<1> QED
  BY <1>3, <1>4, <1>5, <1>6, <1>7, <1>8

\* Validation, finalization and disputing move one row along validTransitions.
LEMMA TransitionKeepsIInv ==
  ASSUME IInv, TypeOK', NEW r \in Result,
         \/ \E o \in Officer : Validate(o, r) \/ Finalize(o, r)
         \/ DisputeResult(r)
  PROVE  IInv'
<1> USE NoneAssumption DEF IInv, TypeOK, canTransition, validTransitions, Canonical, Historic
<1>1. /\ UNCHANGED <<pu, by, supersedes, disp, dispOf>>
      /\ st[r] \in {"pending", "validated", "disputed"}
      /\ st'[r] \in {"validated", "finalized", "disputed"}
      /\ \A x \in Result : x # r =>
           /\ st'[x] = st[x] /\ attested'[x] = attested[x] /\ before'[x] = before[x]
           /\ validatedAt'[x] = validatedAt[x]
           /\ validator'[x] = validator[x] /\ finalizer'[x] = finalizer[x]
      /\ attested'[r] = st'[r]
  BY DEF Validate, Attest, Finalize, DisputeResult, disputeVars
<1>2. RowsConsistent'
  BY <1>1 DEF RowsConsistent, Validate, Attest, Finalize, DisputeResult
<1>3. OneCanonicalResult'
  BY <1>1 DEF OneCanonicalResult
<1>4. AnnulledStaysOut'
  BY <1>1 DEF AnnulledStaysOut
<1>5. CorrectionTrail'
  BY <1>1 DEF CorrectionTrail
<1>6. EvidenceMatches'
  BY <1>1 DEF EvidenceMatches
<1>7. SubmitterApart'
  BY <1>1 DEF SubmitterApart, RowsConsistent, Validate, Attest, Finalize, DisputeResult
<1> QED
  BY <1>2, <1>3, <1>4, <1>5, <1>6, <1>7

\* Filing, reviewing and escalating close no dispute and write no row.
LEMMA FilingKeepsIInv ==
  ASSUME IInv, TypeOK', NEW d \in Dispute,
         \/ \E r \in Result \cup {None} : FileDispute(d, r)
         \/ ReviewDispute(d) \/ EscalateDispute(d)
  PROVE  IInv'
<1> USE NoneAssumption DEF IInv, TypeOK
<1>1. /\ UNCHANGED <<resultVars, history>>
      /\ disp'[d] \in {"filed", "under_review", "escalated"}
      /\ \A x \in Dispute : x # d => disp'[x] = disp[x] /\ dispOf'[x] = dispOf[x]
      /\ dispOf'[d] # None /\ dispOf'[d] # dispOf[d] => st[dispOf'[d]] # "absent"
  BY DEF FileDispute, ReviewDispute, EscalateDispute
<1> USE DEF resultVars, history
<1>2. RowsConsistent'
  BY <1>1 DEF RowsConsistent
<1>3. AnnulledStaysOut'
  BY <1>1 DEF AnnulledStaysOut
<1>4. /\ OneCanonicalResult' /\ CorrectionTrail'
      /\ EvidenceMatches' /\ SubmitterApart'
  BY <1>1 DEF OneCanonicalResult, CorrectionTrail, EvidenceMatches, SubmitterApart, Canonical
<1> QED
  BY <1>2, <1>3, <1>4

\* The invariant is inductive.
LEMMA StepKeepsIInv ==
  ASSUME IInv, [Next]_vars
  PROVE  IInv'
<1>1. TypeOK'
  BY StepKeepsTypes DEF IInv
<1>2. ASSUME NEW k \in Client, NEW p \in PU, NEW o \in Officer \cup {None}, NEW v \in BOOLEAN,
             BeginCapture(k, p, o, v)
      PROVE  IInv'
  BY <1>1, <1>2, QuietKeepsIInv DEF BeginCapture
<1>3. ASSUME NEW k \in Client, NEW r \in Result, CommitCapture(k, r) PROVE IInv'
  BY <1>1, <1>3, CaptureKeepsIInv
<1>4. ASSUME NEW k \in Client, EndCapture(k) PROVE IInv'
  BY <1>1, <1>4, QuietKeepsIInv DEF EndCapture
<1>5. ASSUME NEW o \in Officer, NEW r \in Result, Validate(o, r) \/ Finalize(o, r)
      PROVE  IInv'
  BY <1>1, <1>5, TransitionKeepsIInv
<1>6. ASSUME NEW o \in Officer, NEW r \in Result, AuditValidation(o, r) \/ LoseAudit(o, r)
      PROVE  IInv'
  BY <1>1, <1>6, QuietKeepsIInv DEF AuditValidation, LoseAudit
<1>7. ASSUME NEW r \in Result, DisputeResult(r) PROVE IInv'
  BY <1>1, <1>7, TransitionKeepsIInv
<1>8. ASSUME NEW d \in Dispute, NEW r \in Result \cup {None}, FileDispute(d, r) PROVE IInv'
  BY <1>1, <1>8, FilingKeepsIInv
<1>9. ASSUME NEW d \in Dispute, ReviewDispute(d) \/ EscalateDispute(d) PROVE IInv'
  BY <1>1, <1>9, FilingKeepsIInv
<1>10. ASSUME NEW d \in Dispute, NEW outcome \in Outcome, ResolveDispute(d, outcome) PROVE IInv'
  BY <1>1, <1>10, ResolutionKeepsIInv
<1>11. ASSUME NEW o \in Officer, NEW r \in Result, NEW new \in Result, CorrectResult(o, r, new)
       PROVE  IInv'
  BY <1>1, <1>11, CorrectionKeepsIInv
<1>12. ASSUME NEW c \in Case, NEW r \in Result, OpenCase(c, r) PROVE IInv'
  BY <1>1, <1>12, QuietKeepsIInv DEF OpenCase
<1>13. ASSUME NEW c \in Case, ResolveCase(c) PROVE IInv'
  BY <1>1, <1>13, QuietKeepsIInv DEF ResolveCase
<1>14. CASE ElectionMoves
  BY <1>1, <1>14, QuietKeepsIInv DEF ElectionMoves
<1>15. CASE UNCHANGED vars
  BY <1>1, <1>15, QuietKeepsIInv DEF vars
<1> QED
  BY <1>2, <1>3, <1>4, <1>5, <1>6, <1>7, <1>8, <1>9, <1>10, <1>11, <1>12, <1>13,
     <1>14, <1>15 DEF Next, ResultNext

LEMMA InitIInv ==
  ASSUME Init
  PROVE  IInv
<1> USE NoneAssumption DEF Init
<1>1. TypeOK
  BY DEF TypeOK, ResultStatus, DisputeStatus, Idle
<1>2. RowsConsistent /\ CorrectionTrail /\ SubmitterApart
  BY DEF RowsConsistent, CorrectionTrail, SubmitterApart
<1>3. OneCanonicalResult /\ AnnulledStaysOut /\ EvidenceMatches
  BY DEF OneCanonicalResult, AnnulledStaysOut, EvidenceMatches, Canonical
<1> QED
  BY <1>1, <1>2, <1>3 DEF IInv

LEMMA IInvHolds == Spec => []IInv
<1>1. Init => IInv
  BY InitIInv
<1>2. IInv /\ [Next]_vars => IInv'
  BY StepKeepsIInv
<1> QED
  BY <1>1, <1>2, PTL DEF Spec

-----------------------------------------------------------------------------
\* The tables keep their shape through every handler.
THEOREM TypeCorrect == Spec => []TypeOK
BY IInvHolds, PTL DEF IInv

\* The partial index, the row locks and the remediation rules together leave
\* every polling unit with at most one result that counts, however many
\* captures, corrections, annulments and disputes there are.
THEOREM OneResultCounts == Spec => []OneCanonicalResult
BY IInvHolds, PTL DEF IInv

\* An annulled result never comes back (handleResolveDispute).
THEOREM AnnulledForGood == Spec => []AnnulledStaysOut
BY IInvHolds, PTL DEF IInv

\* Supersession is a forest of chains, each within one polling unit
\* (handleCorrectResult).
THEOREM TrailIsExact == Spec => []CorrectionTrail
BY IInvHolds, PTL DEF IInv

\* The newest evidence event agrees with the row, up to dismissed disputes
\* (recordIntegrityEventTx).
THEOREM EvidenceAgrees == Spec => []EvidenceMatches
BY IInvHolds, PTL DEF IInv

\* The submitter neither validates nor finalizes (handleValidateResult,
\* handleFinalizeResult).
THEOREM SubmitterStaysApart == Spec => []SubmitterApart
BY IInvHolds, PTL DEF IInv

-----------------------------------------------------------------------------
\* How one step may change the status of a row.
LEMMA StatusSteps ==
  ASSUME IInv, [Next]_vars, NEW r \in Result
  PROVE  /\ st[r] \in Historic => st'[r] = st[r]
         /\ st[r] = "finalized" => st'[r] \in {"finalized"} \cup Historic
         /\ st[r] = "disputed" /\ attested'[r] = "disputed"
               => st'[r] \in {"disputed", before[r]} \cup Historic
<1> USE NoneAssumption DEF IInv, TypeOK, Canonical, Historic
<1>1. ASSUME NEW k \in Client, NEW x \in Result, CommitCapture(k, x)
      PROVE  st[x] = "absent" /\ \A y \in Result \ {x} : st'[y] = st[y]
  BY <1>1 DEF CommitCapture, NewResult, Attest
<1>2. ASSUME NEW x \in Result,
             \/ \E o \in Officer : Validate(o, x) \/ Finalize(o, x)
             \/ DisputeResult(x)
      PROVE  /\ st[x] \in {"pending", "validated", "disputed"}
             /\ st[x] = "disputed" => attested'[x] # "disputed"
             /\ \A y \in Result \ {x} : st'[y] = st[y]
  BY <1>2 DEF Validate, Attest, Finalize, DisputeResult, canTransition, validTransitions
<1>3. ASSUME NEW d \in Dispute, NEW outcome \in Outcome, ResolveDispute(d, outcome)
      PROVE  st'[r] \in {st[r], Remediated(r, outcome)}
  BY <1>3 DEF ResolveDispute
<1>4. ASSUME NEW outcome \in Outcome
      PROVE  \/ Remediated(r, outcome) = st[r]
             \/ Remediated(r, outcome) = "voided" /\ Canonical(r)
             \/ st[r] = "disputed" /\ Remediated(r, outcome) = before[r]
  BY DEF Remediated, RowsConsistent
<1>5. ASSUME NEW o \in Officer, NEW x \in Result, NEW new \in Result, CorrectResult(o, x, new)
      PROVE  /\ Canonical(x) /\ st'[x] = "superseded" /\ st[new] = "absent"
             /\ \A y \in Result \ {x, new} : st'[y] = st[y]
  BY <1>5 DEF CorrectResult, NewResult, Attest
<1> DEFINE Allowed ==
             /\ st[r] \in Historic => st'[r] = st[r]
             /\ st[r] = "finalized" => st'[r] \in {"finalized"} \cup Historic
             /\ st[r] = "disputed" /\ attested'[r] = "disputed"
                   => st'[r] \in {"disputed", before[r]} \cup Historic
<1> SUFFICES Allowed
  OBVIOUS
<1>6. ASSUME NEW k \in Client, NEW x \in Result, CommitCapture(k, x) PROVE Allowed
  BY <1>1, <1>6
<1>7. ASSUME NEW o \in Officer, NEW x \in Result, Validate(o, x) \/ Finalize(o, x)
      PROVE  Allowed
  BY <1>2, <1>7
<1>8. ASSUME NEW x \in Result, DisputeResult(x) PROVE Allowed
  BY <1>2, <1>8
<1>9. ASSUME NEW d \in Dispute, NEW outcome \in Outcome, ResolveDispute(d, outcome)
      PROVE  Allowed
  BY <1>3, <1>4, <1>9
<1>10. ASSUME NEW o \in Officer, NEW x \in Result, NEW new \in Result, CorrectResult(o, x, new)
       PROVE  Allowed
  BY <1>5, <1>10
<1>11. UNCHANGED st => Allowed
  OBVIOUS
<1>12. ASSUME \/ UNCHANGED vars \/ ElectionMoves
              \/ \E k \in Client, p \in PU, o \in Officer \cup {None}, v \in BOOLEAN :
                    BeginCapture(k, p, o, v)
              \/ \E k \in Client : EndCapture(k)
              \/ \E o \in Officer, x \in Result : AuditValidation(o, x) \/ LoseAudit(o, x)
              \/ \E d \in Dispute, x \in Result \cup {None} : FileDispute(d, x)
              \/ \E d \in Dispute : ReviewDispute(d) \/ EscalateDispute(d)
              \/ \E c \in Case, x \in Result : OpenCase(c, x)
              \/ \E c \in Case : ResolveCase(c)
       PROVE  UNCHANGED st
  BY <1>12 DEF BeginCapture, EndCapture, AuditValidation, LoseAudit, FileDispute,
     ReviewDispute, EscalateDispute, OpenCase, ResolveCase, ElectionMoves, vars, resultVars
<1> HIDE DEF Allowed, IInv, TypeOK, Canonical, Historic
<1>13. CASE ResultNext
  BY <1>6, <1>7, <1>8, <1>9, <1>10, <1>11, <1>12, <1>13 DEF ResultNext
<1>14. CASE ElectionMoves \/ UNCHANGED vars
  BY <1>11, <1>12, <1>14
<1> QED
  BY <1>13, <1>14 DEF Next

\* Only handleResolveDispute writes a closed dispute's row, and it refuses to.
LEMMA ClosedDisputesStay ==
  ASSUME TypeOK, [Next]_vars, NEW d \in Dispute, Closed(d)
  PROVE  disp'[d] = disp[d]
BY DEF TypeOK, Next, ResultNext, BeginCapture, CommitCapture, EndCapture, Validate, Attest,
   AuditValidation, LoseAudit, Finalize, DisputeResult, FileDispute, ReviewDispute,
   EscalateDispute, ResolveDispute, CorrectResult, OpenCase, ResolveCase,
   ElectionMoves, vars, disputeVars, Closed, Outcome

\* History is frozen: superseded and voided rows, finalized rows up to
\* supersession and annulment, and closed disputes.
THEOREM HistoryStaysFrozen == Spec => HistoryFrozen
<1>1. ASSUME IInv, [Next]_vars
      PROVE  [/\ \A r \in Result :
                    /\ st[r] \in Historic => st'[r] = st[r]
                    /\ st[r] = "finalized" => st'[r] \in {"finalized"} \cup Historic
              /\ \A d \in Dispute : Closed(d) => disp'[d] = disp[d]]_vars
  BY <1>1, StatusSteps, ClosedDisputesStay DEF IInv
<1> QED
  BY <1>1, IInvHolds, PTL DEF Spec, HistoryFrozen

\* A dismissal puts a result back to what it was before the dispute: the
\* validated_at stamp never lies about it (handleResolveDispute).
THEOREM DismissalIsExact == Spec => DismissalRestores
<1>1. ASSUME IInv, [Next]_vars
      PROVE  [\A r \in Result : st[r] = "disputed" /\ attested'[r] = "disputed"
                => st'[r] \in {"disputed", before[r]} \cup Historic]_vars
  BY <1>1, StatusSteps
<1> QED
  BY <1>1, IInvHolds, PTL DEF Spec, DismissalRestores

-----------------------------------------------------------------------------
(* The election that they belong to                                        *)

\* The row lock: at most one transition is between its guard and its commit,
\* the election still is where that transition starts, and it follows an edge.
MoveInv ==
    /\ moving = [a \in Admin |-> moving[a]]
    /\ \A a, b \in Admin : moving[a] # None /\ moving[b] # None => a = b
    /\ \A a \in Admin : moving[a] # None =>
          /\ moving[a].from = status
          /\ <<moving[a].from, moving[a].to>> \in Edges

\* A declaration, written or about to be, rests on rows that exist, one per
\* polling unit, and names a winner only if there are such rows.
Backed(record) ==
    record # None =>
        /\ record.outcome = "winner_declared" => record.basis # {}
        /\ \A r \in record.basis : r \in Result /\ st[r] # "absent"
        /\ \A r, x \in record.basis : pu[r] = pu[x] => r = x

RecordInv ==
    /\ Backed(declaration)
    /\ \A a \in Admin : moving[a] # None => Backed(moving[a].record)

-----------------------------------------------------------------------------
\* Every edge joins two election states, and none leaves "declared".
LEMMA EdgesAreStates ==
  ASSUME NEW e \in Edges
  PROVE  e[1] \in ElectionState \ {"declared"} /\ e[2] \in ElectionState
BY DEF Edges, electionFSM, ElectionState

\* The handlers of ResultPipeline never write the elections row.
LEMMA ResultsLeaveStatus ==
  ASSUME ResultNext
  PROVE  UNCHANGED status
BY DEF ResultNext, BeginCapture, CommitCapture, EndCapture, Validate, AuditValidation,
   LoseAudit, Finalize, DisputeResult, FileDispute, ReviewDispute, EscalateDispute,
   ResolveDispute, CorrectResult, OpenCase, ResolveCase

\* A step of the election is a step of ResultPipeline.
LEMMA StepRefines ==
  ASSUME MoveInv, [LifecycleNext]_allVars
  PROVE  [Next]_vars
<1>1. CASE ResultNext /\ UNCHANGED lifecycleVars
  BY <1>1 DEF Next
<1>2. ASSUME NEW a \in Admin, NEW t \in electionFSM, NEW f, BeginTransition(a, t, f)
      PROVE  UNCHANGED vars
  BY <1>2 DEF BeginTransition
<1>3. ASSUME NEW a \in Admin, NEW force \in BOOLEAN, NEW i \in InconclusiveVerdicts,
             BeginDeclare(a, force, i)
      PROVE  UNCHANGED vars
  BY <1>3 DEF BeginDeclare
<1>4. ASSUME NEW a \in Admin, CommitMove(a) PROVE ElectionMoves
  <2>1. moving[a] # None /\ status' = moving[a].to
    BY <1>4 DEF CommitMove
  <2>2. moving[a].to \in Status
    BY <2>1, EdgesAreStates, StatusAssumption DEF MoveInv
  <2> QED
    BY <1>4, <2>1, <2>2 DEF CommitMove, ElectionMoves
<1>5. ASSUME NEW a \in Admin, AbortMove(a) PROVE UNCHANGED vars
  BY <1>5 DEF AbortMove
<1>6. CASE UNCHANGED allVars
  BY <1>6 DEF allVars
<1> QED
  BY <1>1, <1>2, <1>3, <1>4, <1>5, <1>6 DEF LifecycleNext, Next

\* The row lock is kept by every step.
LEMMA StepKeepsMoveInv ==
  ASSUME MoveInv, [LifecycleNext]_allVars
  PROVE  MoveInv'
<1> USE DEF MoveInv
<1>1. CASE ResultNext /\ UNCHANGED lifecycleVars
  BY <1>1, ResultsLeaveStatus DEF lifecycleVars
<1>2. ASSUME NEW a \in Admin, NEW t \in electionFSM, NEW f, BeginTransition(a, t, f)
      PROVE  MoveInv'
  <2>1. <<t.from, t.to>> \in Edges
    BY DEF Edges
  <2> QED
    BY <1>2, <2>1 DEF BeginTransition, RowLocked, Move, vars
<1>3. ASSUME NEW a \in Admin, NEW force \in BOOLEAN, NEW i \in InconclusiveVerdicts,
             BeginDeclare(a, force, i)
      PROVE  MoveInv'
  <2>1. <<status, "declared">> \in Edges
    BY <1>3 DEF BeginDeclare, Edges, electionFSM
  <2> QED
    BY <1>3, <2>1 DEF BeginDeclare, RowLocked, Move, vars
<1>4. ASSUME NEW a \in Admin, CommitMove(a) \/ AbortMove(a) PROVE MoveInv'
  BY <1>4 DEF CommitMove, AbortMove
<1>5. CASE UNCHANGED allVars
  BY <1>5 DEF allVars, vars, lifecycleVars
<1> QED
  BY <1>1, <1>2, <1>3, <1>4, <1>5 DEF LifecycleNext

LEMMA LifecycleIInv == LifecycleSpec => [](IInv /\ MoveInv)
<1>1. LifecycleInit => IInv /\ MoveInv
  BY InitIInv DEF LifecycleInit, MoveInv
<1>2. IInv /\ MoveInv /\ [LifecycleNext]_allVars => (IInv /\ MoveInv)'
  BY StepRefines, StepKeepsIInv, StepKeepsMoveInv
<1> QED
  BY <1>1, <1>2, PTL DEF LifecycleSpec

-----------------------------------------------------------------------------
\* However many administrators race, every change of the election's status
\* follows an edge of the FSM table or the declaration endpoint's own edge, and
\* a declared election stays declared under the declaration it got.
THEOREM RacersTakeTurns == LifecycleSpec => RacersSerialize
<1>1. ASSUME MoveInv, [LifecycleNext]_allVars, status' # status
      PROVE  <<status, status'>> \in Edges
  BY <1>1, ResultsLeaveStatus
  DEF LifecycleNext, MoveInv, BeginTransition, BeginDeclare, CommitMove, AbortMove, vars, allVars
<1>2. ASSUME MoveInv, [LifecycleNext]_allVars, status = "declared"
      PROVE  UNCHANGED <<status, declaration>>
  <2>1. \A a \in Admin : moving[a] = None
    BY <1>2, EdgesAreStates DEF MoveInv
  <2> QED
    BY <1>2, <2>1, ResultsLeaveStatus
    DEF LifecycleNext, BeginTransition, BeginDeclare, CommitMove, AbortMove, vars,
        lifecycleVars, allVars
<1>3. MoveInv /\ [LifecycleNext]_allVars
        => [/\ status' # status => <<status, status'>> \in Edges
            /\ status = "declared" => UNCHANGED <<status, declaration>>]_allVars
  BY <1>1, <1>2
<1> QED
  BY <1>3, LifecycleIInv, PTL DEF LifecycleSpec, RacersSerialize

-----------------------------------------------------------------------------
\* A row that exists goes on existing and stays at its polling unit.
LEMMA RowsStay ==
  ASSUME IInv, [Next]_vars, NEW r \in Result, st[r] # "absent"
  PROVE  st'[r] # "absent" /\ pu'[r] = pu[r]
<1> USE DEF IInv, TypeOK
<1> DEFINE Stays == st'[r] # "absent" /\ pu'[r] = pu[r]
<1> SUFFICES Stays
  OBVIOUS
<1>1. ASSUME NEW k \in Client, NEW x \in Result, CommitCapture(k, x) PROVE Stays
  BY <1>1 DEF CommitCapture, NewResult
<1>2. ASSUME NEW o \in Officer, NEW x \in Result, Validate(o, x) \/ Finalize(o, x) PROVE Stays
  BY <1>2 DEF Validate, Finalize
<1>3. ASSUME NEW x \in Result, DisputeResult(x) PROVE Stays
  BY <1>3 DEF DisputeResult
<1>4. ASSUME NEW d \in Dispute, NEW outcome \in Outcome, ResolveDispute(d, outcome) PROVE Stays
  BY <1>4 DEF ResolveDispute, Remediated
<1>5. ASSUME NEW o \in Officer, NEW x \in Result, NEW new \in Result, CorrectResult(o, x, new)
      PROVE  Stays
  BY <1>5 DEF CorrectResult, NewResult
<1>6. ASSUME UNCHANGED resultVars PROVE Stays
  BY <1>6 DEF resultVars
<1>7. ASSUME NEW k \in Client, NEW p \in PU, NEW o \in Officer \cup {None}, NEW v \in BOOLEAN,
             BeginCapture(k, p, o, v)
      PROVE  UNCHANGED resultVars
  BY <1>7 DEF BeginCapture
<1>8. ASSUME NEW k \in Client, EndCapture(k) PROVE UNCHANGED resultVars
  BY <1>8 DEF EndCapture
<1>9. ASSUME NEW o \in Officer, NEW x \in Result, AuditValidation(o, x) \/ LoseAudit(o, x)
      PROVE  UNCHANGED resultVars
  BY <1>9 DEF AuditValidation, LoseAudit
<1>10. ASSUME NEW d \in Dispute, NEW x \in Result \cup {None},
              FileDispute(d, x) \/ ReviewDispute(d) \/ EscalateDispute(d)
       PROVE  UNCHANGED resultVars
  BY <1>10 DEF FileDispute, ReviewDispute, EscalateDispute
<1>11. ASSUME NEW c \in Case, NEW x \in Result, OpenCase(c, x) PROVE UNCHANGED resultVars
  BY <1>11 DEF OpenCase
<1>12. ASSUME NEW c \in Case, ResolveCase(c) PROVE UNCHANGED resultVars
  BY <1>12 DEF ResolveCase
<1>13. ASSUME ElectionMoves \/ UNCHANGED vars PROVE UNCHANGED resultVars
  BY <1>13 DEF ElectionMoves, vars
<1> HIDE DEF Stays, IInv, TypeOK
<1> QED
  BY <1>1, <1>2, <1>3, <1>4, <1>5, <1>6, <1>7, <1>8, <1>9, <1>10, <1>11, <1>12, <1>13
  DEF Next, ResultNext

\* What was backed stays backed.
LEMMA BackedStays ==
  ASSUME IInv, [Next]_vars, NEW record, Backed(record)
  PROVE  (record # None =>
            /\ record.outcome = "winner_declared" => record.basis # {}
            /\ \A r \in record.basis : r \in Result /\ st'[r] # "absent"
            /\ \A r, x \in record.basis : pu'[r] = pu'[x] => r = x)
BY RowsStay DEF Backed

LEMMA StepKeepsRecordInv ==
  ASSUME IInv, MoveInv, RecordInv, [LifecycleNext]_allVars
  PROVE  RecordInv'
<1>1. [Next]_vars
  BY StepRefines
<1>2. ASSUME NEW record, Backed(record)
      PROVE  /\ record # None =>
                  /\ record.outcome = "winner_declared" => record.basis # {}
                  /\ \A r \in record.basis : r \in Result /\ st'[r] # "absent"
                  /\ \A r, x \in record.basis : pu'[r] = pu'[x] => r = x
  BY <1>1, <1>2, BackedStays
<1>3. CASE UNCHANGED <<moving, declaration>>
  BY <1>2, <1>3 DEF RecordInv, Backed
<1>4. ASSUME NEW a \in Admin, NEW t \in electionFSM, NEW f, BeginTransition(a, t, f)
      PROVE  RecordInv'
  <2>1. /\ declaration' = declaration
        /\ \A b \in Admin : moving'[b] # None =>
              moving'[b].record = None \/ (b # a /\ moving'[b] = moving[b])
    BY <1>4 DEF BeginTransition, MoveInv, Move
  <2> QED
    BY <1>2, <2>1 DEF RecordInv, Backed
<1>5. ASSUME NEW a \in Admin, NEW force \in BOOLEAN, NEW i \in InconclusiveVerdicts,
             BeginDeclare(a, force, i)
      PROVE  RecordInv'
  <2> DEFINE record == [outcome |-> IF force THEN "inconclusive" ELSE "winner_declared",
                        basis   |-> Counted]
  <2>1. Backed(record)
    BY <1>5 DEF BeginDeclare, Backed, Counted, IInv, OneCanonicalResult, Canonical, Historic
  <2>2. /\ declaration' = declaration
        /\ moving'[a].record = record
        /\ \A b \in Admin : b # a => moving'[b] = moving[b]
    BY <1>5 DEF BeginDeclare, MoveInv, Move
  <2> HIDE DEF record
  <2> QED
    BY <1>2, <2>1, <2>2 DEF RecordInv, Backed
<1>6. ASSUME NEW a \in Admin, CommitMove(a) \/ AbortMove(a) PROVE RecordInv'
  <2>1. /\ \A b \in Admin : moving'[b] # None => moving'[b] = moving[b]
        /\ moving[a] # None
        /\ declaration' \in {declaration, moving[a].record}
    BY <1>6 DEF CommitMove, AbortMove, MoveInv
  <2> QED
    BY <1>2, <2>1 DEF RecordInv, Backed
<1> QED
  BY <1>3, <1>4, <1>5, <1>6 DEF LifecycleNext, lifecycleVars, allVars

\* A declared winner rests on finalized results, one per polling unit, and
\* later captures, corrections and disputes do not change that.
THEOREM DeclarationStaysBacked == LifecycleSpec => []DeclarationBacked
<1>1. LifecycleInit => RecordInv
  BY DEF LifecycleInit, RecordInv, Backed
<1>2. IInv /\ MoveInv /\ RecordInv /\ [LifecycleNext]_allVars => RecordInv'
  BY StepKeepsRecordInv
<1>3. RecordInv => DeclarationBacked
  BY DEF RecordInv, Backed, DeclarationBacked
<1> QED
  BY <1>1, <1>2, <1>3, LifecycleIInv, PTL DEF LifecycleSpec
==============================================================================
