--------------------------- MODULE ResultPipeline ---------------------------
(***************************************************************************)
(* The life of polling-unit results in one election: capture through       *)
(* applyResultTx, validation, finalization, disputing, the disputes table  *)
(* and its remediation, corrections by supersession, and blocking          *)
(* reconciliation cases.                                                   *)
(*                                                                         *)
(* Every handler except the capture is one transaction that holds the      *)
(* result row (SELECT ... FOR UPDATE) from its checks to its commit, so it *)
(* is one action.  The capture reads the election's status without a lock, *)
(* and the RESULT_VALIDATED audit row is written after the validation      *)
(* committed: these are actions of their own.                              *)
(*                                                                         *)
(* Role, tenancy, geofence and policy-version checks only refuse requests; *)
(* a refused request is a request that does not happen.  The election's    *)
(* status belongs to ElectionLifecycle; here it may change at any time.    *)
(***************************************************************************)
EXTENDS Naturals, FiniteSets

CONSTANTS PU,            \* polling units
          Result,        \* ids of results rows
          Dispute,       \* ids of disputes rows
          Case,          \* ids of blocking reconciliation_cases rows
          Officer,       \* user identities
          Client,        \* capture requests in flight: goroutines and workers
          Status,        \* values of elections.status
          None           \* SQL NULL

ASSUME NoneAssumption == None \notin PU \cup Result \cup Officer

VARIABLES status,        \* elections.status
          st,            \* results.status, "absent" before the INSERT
          pu,            \* results.polling_unit_code
          by,            \* results.presiding_officer_id, None for a device
          validatedAt,   \* results.validated_at IS NOT NULL
          supersedes,    \* results.supersedes_result_id
          attested,      \* the status that the newest lifecycle event of
                         \* result_evidence_events records, "absent" if none
          disp,          \* disputes.status and disputes.outcome
          dispOf,        \* disputes.result_id
          caseSt,        \* reconciliation_cases.status
          caseOf,        \* reconciliation_cases.result_id
          capture,       \* what a capture that passed its status check holds
          auditDue,      \* validations committed, audit row not yet written
          auditBy,       \* user_id of the newest RESULT_VALIDATED audit row
          validator,     \* history: who validated the result last
          finalizer,     \* history: who finalized it
          before         \* history: its status before it became disputed

resultVars == <<st, pu, by, validatedAt, supersedes, attested>>
disputeVars == <<disp, dispOf>>
caseVars == <<caseSt, caseOf>>
auditVars == <<auditDue, auditBy>>
history == <<validator, finalizer, before>>
vars == <<status, resultVars, disputeVars, caseVars, capture, auditVars, history>>

ResultStatus == {"absent", "pending", "validated", "disputed", "finalized",
                 "voided", "superseded"}

Outcome == {"upheld", "dismissed", "correction_ordered", "result_annulled",
            "rerun_ordered"}

\* A closed dispute keeps its outcome; "dismissed" is status and outcome.
DisputeStatus == {"absent", "filed", "under_review", "escalated"} \cup Outcome

Historic == {"superseded", "voided"}

\* What the partial index results_canonical_pu_unique covers.
Canonical(r) == st[r] \notin {"absent"} \cup Historic

validTransitions ==
    { <<"pending", "validated">>,   <<"pending", "disputed">>,
      <<"validated", "finalized">>, <<"validated", "disputed">>,
      <<"disputed", "pending">>,    <<"disputed", "validated">> }

canTransition(from, to) == <<from, to>> \in validTransitions

HasBlockingCase(r) == \E c \in Case : caseSt[c] = "open" /\ caseOf[c] = r

\* recordIntegrityEventTx: the newest lifecycle event of r records status s.
Attest(r, s) == attested' = [attested EXCEPT ![r] = s]

Closed(d) == disp[d] \in Outcome

Idle == [pu |-> None, by |-> None, override |-> FALSE]

\* Elections in these states accept results (applyResultTx).
Accepting == {"active", "voting", "collating"}

Init ==
    /\ status \in Status
    /\ st = [r \in Result |-> "absent"]
    /\ pu = [r \in Result |-> None]
    /\ by = [r \in Result |-> None]
    /\ validatedAt = [r \in Result |-> FALSE]
    /\ supersedes = [r \in Result |-> None]
    /\ attested = [r \in Result |-> "absent"]
    /\ disp = [d \in Dispute |-> "absent"]
    /\ dispOf = [d \in Dispute |-> None]
    /\ caseSt = [c \in Case |-> "absent"]
    /\ caseOf = [c \in Case |-> None]
    /\ capture = [k \in Client |-> Idle]
    /\ auditDue = {}
    /\ auditBy = [r \in Result |-> None]
    /\ validator = [r \in Result |-> None]
    /\ finalizer = [r \in Result |-> None]
    /\ before = [r \in Result |-> "absent"]

-----------------------------------------------------------------------------
\* Capture: applyResultTx, for handleSubmitResult, queue ingestion and the
\* device gateway (which has no user identity).

\* The transaction finds the election accepting; the row is not locked.
BeginCapture(k, p, o, override) ==
    /\ capture[k] = Idle
    /\ status \in Accepting
    /\ capture' = [capture EXCEPT ![k] = [pu |-> p, by |-> o, override |-> override]]
    /\ UNCHANGED <<status, resultVars, disputeVars, caseVars, auditVars, history>>

\* A result row with its evidence event.
NewResult(r, p, o, s, old) ==
    /\ st[r] = "absent"
    /\ pu' = [pu EXCEPT ![r] = p]
    /\ by' = [by EXCEPT ![r] = o]
    /\ supersedes' = [supersedes EXCEPT ![r] = old]
    /\ Attest(r, s)

\* INSERT ... ON CONFLICT DO NOTHING takes effect and the transaction commits.
CommitCapture(k, r) ==
    LET c == capture[k]
        s == IF c.override THEN "disputed" ELSE "pending"
    IN  /\ c # Idle
        /\ ~ \E x \in Result : Canonical(x) /\ pu[x] = c.pu
        /\ NewResult(r, c.pu, c.by, s, None)
        /\ st' = [st EXCEPT ![r] = s]
        /\ before' = [before EXCEPT ![r] = "pending"]
        /\ capture' = [capture EXCEPT ![k] = Idle]
        /\ UNCHANGED <<status, validatedAt, disputeVars, caseVars, auditVars,
                       validator, finalizer>>

\* A duplicate, a conflict (first writer wins), an error or a crash: no row.
EndCapture(k) ==
    /\ capture[k] # Idle
    /\ capture' = [capture EXCEPT ![k] = Idle]
    /\ UNCHANGED <<status, resultVars, disputeVars, caseVars, auditVars, history>>

-----------------------------------------------------------------------------
\* Mutant of Validate: the submitter may validate.
ValidateOwn(o, r) ==
    /\ canTransition(st[r], "validated")
    /\ ~HasBlockingCase(r)
    /\ st' = [st EXCEPT ![r] = "validated"]
    /\ validatedAt' = [validatedAt EXCEPT ![r] = TRUE]
    /\ Attest(r, "validated")
    /\ auditDue' = auditDue \cup {<<r, o>>}
    /\ validator' = [validator EXCEPT ![r] = o]
    /\ UNCHANGED <<status, pu, by, supersedes, disputeVars, caseVars, capture,
                   auditBy, finalizer, before>>

\* Mutant of Validate: the validation does not stamp validated_at.
ValidateUnstamped(o, r) ==
    /\ by[r] # o
    /\ canTransition(st[r], "validated")
    /\ ~HasBlockingCase(r)
    /\ st' = [st EXCEPT ![r] = "validated"]
    /\ Attest(r, "validated")
    /\ auditDue' = auditDue \cup {<<r, o>>}
    /\ validator' = [validator EXCEPT ![r] = o]
    /\ UNCHANGED <<status, pu, by, validatedAt, supersedes, disputeVars, caseVars,
                   capture, auditBy, finalizer, before>>

\* handleValidateResult up to its commit.
Validate(o, r) ==
    /\ by[r] # o
    /\ canTransition(st[r], "validated")
    /\ ~HasBlockingCase(r)
    /\ st' = [st EXCEPT ![r] = "validated"]
    /\ validatedAt' = [validatedAt EXCEPT ![r] = TRUE]
    /\ Attest(r, "validated")
    /\ auditDue' = auditDue \cup {<<r, o>>}
    /\ validator' = [validator EXCEPT ![r] = o]
    /\ UNCHANGED <<status, pu, by, supersedes, disputeVars, caseVars, capture,
                   auditBy, finalizer, before>>

\* ... its trailing logAudit("RESULT_VALIDATED"), visible to the read pool.
AuditValidation(o, r) ==
    /\ <<r, o>> \in auditDue
    /\ auditDue' = auditDue \ {<<r, o>>}
    /\ auditBy' = [auditBy EXCEPT ![r] = o]
    /\ UNCHANGED <<status, resultVars, disputeVars, caseVars, capture, history>>

\* ... or the audit write fails, which is only logged, or the process dies.
LoseAudit(o, r) ==
    /\ <<r, o>> \in auditDue
    /\ auditDue' = auditDue \ {<<r, o>>}
    /\ UNCHANGED <<status, resultVars, disputeVars, caseVars, capture, auditBy, history>>

\* Mutant of Finalize: the evidence event is forgotten.
FinalizeWithoutEvent(o, r) ==
    /\ by[r] # o /\ auditBy[r] # o
    /\ canTransition(st[r], "finalized")
    /\ ~HasBlockingCase(r)
    /\ attested[r] # "absent"
    /\ st' = [st EXCEPT ![r] = "finalized"]
    /\ finalizer' = [finalizer EXCEPT ![r] = o]
    /\ UNCHANGED <<status, pu, by, validatedAt, supersedes, attested, disputeVars,
                   caseVars, capture, auditVars, validator, before>>

\* handleFinalizeResult.  The validator's identity comes from audit_log.
Finalize(o, r) ==
    /\ by[r] # o
    /\ auditBy[r] # o
    /\ canTransition(st[r], "finalized")
    /\ ~HasBlockingCase(r)
    /\ attested[r] # "absent"
    /\ st' = [st EXCEPT ![r] = "finalized"]
    /\ Attest(r, "finalized")
    /\ finalizer' = [finalizer EXCEPT ![r] = o]
    /\ UNCHANGED <<status, pu, by, validatedAt, supersedes, disputeVars, caseVars,
                   capture, auditVars, validator, before>>

\* handleDisputeResult: flips the row, files no dispute.
DisputeResult(r) ==
    /\ canTransition(st[r], "disputed")
    /\ st' = [st EXCEPT ![r] = "disputed"]
    /\ Attest(r, "disputed")
    /\ before' = [before EXCEPT ![r] = st[r]]
    /\ UNCHANGED <<status, pu, by, validatedAt, supersedes, disputeVars, caseVars,
                   capture, auditVars, validator, finalizer>>

-----------------------------------------------------------------------------
\* handleFileDispute: about a result of the election, or about none.
FileDispute(d, r) ==
    /\ disp[d] = "absent"
    /\ r # None => st[r] # "absent"
    /\ disp' = [disp EXCEPT ![d] = "filed"]
    /\ dispOf' = [dispOf EXCEPT ![d] = r]
    /\ UNCHANGED <<status, resultVars, caseVars, capture, auditVars, history>>

ReviewDispute(d) ==
    /\ disp[d] = "filed"
    /\ disp' = [disp EXCEPT ![d] = "under_review"]
    /\ UNCHANGED <<status, resultVars, dispOf, caseVars, capture, auditVars, history>>

EscalateDispute(d) ==
    /\ disp[d] \in {"filed", "under_review"}
    /\ disp' = [disp EXCEPT ![d] = "escalated"]
    /\ UNCHANGED <<status, resultVars, dispOf, caseVars, capture, auditVars, history>>

\* Mutant of Remediated: a dismissal restores the result whatever its status.
RemediatedBlindly(r, outcome) ==
    IF outcome = "dismissed"
    THEN IF validatedAt[r] THEN "validated" ELSE "pending"
    ELSE IF outcome \in {"result_annulled", "rerun_ordered"} /\ Canonical(r)
    THEN "voided"
    ELSE st[r]

\* Mutant of Remediated: an annulled result gets a status of its own.
RemediatedMisnamed(r, outcome) ==
    IF outcome = "dismissed" /\ st[r] = "disputed"
    THEN IF validatedAt[r] THEN "validated" ELSE "pending"
    ELSE IF outcome \in {"result_annulled", "rerun_ordered"} /\ Canonical(r)
    THEN "annulled"
    ELSE st[r]

\* results.status after a dispute about r is closed with the outcome.
Remediated(r, outcome) ==
    IF outcome = "dismissed" /\ st[r] = "disputed"
    THEN IF validatedAt[r] THEN "validated" ELSE "pending"
    ELSE IF outcome \in {"result_annulled", "rerun_ordered"} /\ Canonical(r)
    THEN "voided"
    ELSE st[r]

\* Mutant of ResolveDispute: a closed dispute can be resolved again.
ResolveAgain(d, outcome) ==
    /\ disp[d] # "absent"
    /\ disp' = [disp EXCEPT ![d] = outcome]
    /\ st' = [r \in Result |-> IF r = dispOf[d] THEN Remediated(r, outcome) ELSE st[r]]
    /\ UNCHANGED <<status, pu, by, validatedAt, supersedes, attested, dispOf,
                   caseVars, capture, auditVars, history>>

\* handleResolveDispute, actions "resolve" and "dismiss".
ResolveDispute(d, outcome) ==
    /\ disp[d] # "absent"
    /\ ~Closed(d)
    /\ disp' = [disp EXCEPT ![d] = outcome]
    /\ st' = [r \in Result |-> IF r = dispOf[d] THEN Remediated(r, outcome) ELSE st[r]]
    /\ UNCHANGED <<status, pu, by, validatedAt, supersedes, attested, dispOf,
                   caseVars, capture, auditVars, history>>

-----------------------------------------------------------------------------
\* Mutant of CorrectResult: a superseded result can be corrected again.
CorrectAnyResult(o, r, new) ==
    /\ st[r] \notin {"absent", "voided"}
    /\ NewResult(new, pu[r], o, "pending", r)
    /\ st' = [st EXCEPT ![r] = "superseded", ![new] = "pending"]
    /\ before' = [before EXCEPT ![new] = "pending"]
    /\ UNCHANGED <<status, validatedAt, disputeVars, caseVars, capture, auditVars,
                   validator, finalizer>>

\* handleCorrectResult: supersede the row, insert its replacement.
CorrectResult(o, r, new) ==
    /\ Canonical(r)
    /\ NewResult(new, pu[r], o, "pending", r)
    /\ st' = [st EXCEPT ![r] = "superseded", ![new] = "pending"]
    /\ before' = [before EXCEPT ![new] = "pending"]
    /\ UNCHANGED <<status, validatedAt, disputeVars, caseVars, capture, auditVars,
                   validator, finalizer>>

\* handleOpenReconciliationCase, for a blocking case.
OpenCase(c, r) ==
    /\ caseSt[c] = "absent"
    /\ st[r] # "absent"
    /\ caseSt' = [caseSt EXCEPT ![c] = "open"]
    /\ caseOf' = [caseOf EXCEPT ![c] = r]
    /\ UNCHANGED <<status, resultVars, disputeVars, capture, auditVars, history>>

\* handleResolveReconciliationCase; resolved and dismissed are both closed.
ResolveCase(c) ==
    /\ caseSt[c] = "open"
    /\ caseSt' = [caseSt EXCEPT ![c] = "closed"]
    /\ UNCHANGED <<status, resultVars, disputeVars, caseOf, capture, auditVars, history>>

\* The election moves on (see ElectionLifecycle).
ElectionMoves ==
    /\ status' \in Status
    /\ UNCHANGED <<resultVars, disputeVars, caseVars, capture, auditVars, history>>

ResultNext ==
    \/ \E k \in Client, p \in PU, o \in Officer \cup {None}, v \in BOOLEAN :
          BeginCapture(k, p, o, v)
    \/ \E k \in Client, r \in Result : CommitCapture(k, r)
    \/ \E k \in Client : EndCapture(k)
    \/ \E o \in Officer, r \in Result :
          \/ Validate(o, r)
          \/ AuditValidation(o, r)
          \/ LoseAudit(o, r)
          \/ Finalize(o, r)
    \/ \E r \in Result : DisputeResult(r)
    \/ \E d \in Dispute, r \in Result \cup {None} : FileDispute(d, r)
    \/ \E d \in Dispute : ReviewDispute(d) \/ EscalateDispute(d)
    \/ \E d \in Dispute, outcome \in Outcome : ResolveDispute(d, outcome)
    \/ \E o \in Officer, r \in Result, new \in Result : CorrectResult(o, r, new)
    \/ \E c \in Case, r \in Result : OpenCase(c, r)
    \/ \E c \in Case : ResolveCase(c)

Next == ResultNext \/ ElectionMoves

Spec == Init /\ [][Next]_vars

-----------------------------------------------------------------------------
\* Shapes of the tables.
TypeOK ==
    /\ status \in Status
    /\ st \in [Result -> ResultStatus]
    /\ pu \in [Result -> PU \cup {None}]
    /\ by \in [Result -> Officer \cup {None}]
    /\ validatedAt \in [Result -> BOOLEAN]
    /\ supersedes \in [Result -> Result \cup {None}]
    /\ attested \in [Result -> ResultStatus]
    /\ disp \in [Dispute -> DisputeStatus]
    /\ dispOf \in [Dispute -> Result \cup {None}]
    /\ caseSt \in [Case -> {"absent", "open", "closed"}]
    /\ caseOf \in [Case -> Result \cup {None}]
    /\ capture \in [Client -> [pu : PU \cup {None}, by : Officer \cup {None},
                               override : BOOLEAN]]
    /\ auditDue \in SUBSET (Result \X Officer)
    /\ auditBy \in [Result -> Officer \cup {None}]
    /\ validator \in [Result -> Officer \cup {None}]
    /\ finalizer \in [Result -> Officer \cup {None}]
    /\ before \in [Result -> ResultStatus]

\* A polling unit never has two results that count: not through concurrent
\* captures, a correction, a re-capture after an annulment, or a dismissal.
OneCanonicalResult ==
    \A r, x \in Result :
        Canonical(r) /\ Canonical(x) /\ pu[r] = pu[x] => r = x

\* Once a dispute about a result ended in annulment or a rerun, the result
\* never counts again, whatever later disputes about it decide
\* (handleResolveDispute).
AnnulledStaysOut ==
    \A d \in Dispute :
        disp[d] \in {"result_annulled", "rerun_ordered"} /\ dispOf[d] # None
            => st[dispOf[d]] \in Historic

\* Dismissing a dispute "restores the result to its pre-dispute status":
\* validated_at is enough to know that status, even after repeated disputes
\* and validations (handleResolveDispute, handleDisputeResult).
DismissalRestores ==
    [][\A r \in Result : st[r] = "disputed" /\ attested'[r] = "disputed"
          => st'[r] \in {"disputed", before[r]} \cup Historic]_vars

\* The correction trail: a superseded result has exactly one replacement, at
\* its own polling unit, and only superseded results have one
\* (handleCorrectResult).
CorrectionTrail ==
    \A r \in Result :
        /\ st[r] = "superseded" <=> \E x \in Result : supersedes[x] = r
        /\ \A x \in Result : supersedes[x] = r => pu[x] = pu[r]
        /\ \A x, y \in Result : supersedes[x] = r /\ supersedes[y] = r => x = y

\* A result that counts says what its newest lifecycle evidence says, except
\* that a dismissed dispute leaves it attested as disputed; a finalized result
\* is always attested as finalized (recordIntegrityEventTx).
EvidenceMatches ==
    \A r \in Result :
        Canonical(r) => \/ attested[r] = st[r]
                        \/ attested[r] = "disputed" /\ st[r] \in {"pending", "validated"}

\* Superseded and voided rows are history that nothing changes, a finalized
\* row can only become history, and a closed dispute keeps its outcome
\* (validTransitions, handleResolveDispute, handleCorrectResult).
HistoryFrozen ==
    [][/\ \A r \in Result :
             /\ st[r] \in Historic => st'[r] = st[r]
             /\ st[r] = "finalized" => st'[r] \in {"finalized"} \cup Historic
       /\ \A d \in Dispute : Closed(d) => disp'[d] = disp[d]]_vars

\* Four eyes, as far as the row itself records the identities: the officer
\* who captured or corrected a result neither validates nor finalizes it, and
\* a finalized result was validated by somebody.
SubmitterApart ==
    \A r \in Result :
        /\ by[r] # None => by[r] \notin {validator[r], finalizer[r]}
        /\ finalizer[r] # None => validator[r] # None

\* "a single identity must never run the pipeline alone": the finalizer is
\* not the officer who validated (handleFinalizeResult).
FourEyes ==
    \A r \in Result : finalizer[r] # None => finalizer[r] # validator[r]

\* "terminal elections never accept new results": no capture lands in an
\* election that was closed, cancelled or declared (applyResultTx).
NoLateResult ==
    [][\A r \in Result : st[r] = "absent" /\ st'[r] # "absent" /\ supersedes'[r] = None
          => status \notin {"closed", "cancelled", "declared"}]_vars

=============================================================================
