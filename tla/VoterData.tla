------------------------------ MODULE VoterData ------------------------------
(***************************************************************************)
(* Personal data of one campaign (campaign-platform/server/db.ts): voter   *)
(* rows with their consent record and provenance entry, consent and its    *)
(* withdrawal, data subject requests, and the survey panel.  A request is  *)
(* a sequence of single statements without a transaction; it can be        *)
(* overtaken, or fail, between any two of them.                            *)
(***************************************************************************)
EXTENDS Naturals, FiniteSets

CONSTANTS Voter,        \* ids of voter_registrations
          Consent,      \* ids of consent_records that managers record by hand
          Dsar,         \* ids of data_subject_requests of type erasure
          Panelist,     \* ids of survey_panelists
          Handler,      \* concurrent requests
          Chunk         \* BULK_INSERT_CHUNK_SIZE

ASSUME ChunkAssumption == Chunk \in Nat \ {0}

VARIABLES voter,        \* absent, live or erased
          trail,        \* which of the two trail entries a voter row has
          consent,      \* state of a consent record
          dsar,         \* status and subject of a request
          erasures,     \* requests with a dsar_erasure row in data_access_audit
          panel,        \* the consent that a panelist was enrolled with
          job,          \* what a handler has read and does next
          orphans,      \* ghost: rows whose handler failed before their trail
          unfound,      \* ghost: requests whose DELETE found no row
          unlogged,     \* ghost: requests whose handler failed before the log
          late          \* ghost: panelists who answered although their consent
                        \* was withdrawn before the request arrived

voterVars == <<voter, trail, consent, dsar, erasures, panel, job,
               orphans, unfound, unlogged, late>>

Waiting == [at |-> "idle"]
Done(h) == job' = [job EXCEPT ![h] = Waiting]

VoterInit ==
    /\ voter = [v \in Voter |-> "absent"]
    /\ trail = [v \in Voter |-> {}]
    /\ consent = [c \in Consent |-> "absent"]
    /\ dsar = [d \in Dsar |-> [status |-> "none"]]
    /\ erasures = {}
    /\ panel = [p \in Panelist |-> {}]
    /\ job = [h \in Handler |-> Waiting]
    /\ orphans = {}
    /\ unfound = {}
    /\ unlogged = {}
    /\ late = {}

-----------------------------------------------------------------------------
(* addVoterRegistration (a chunk of one row) and bulkAddVoterRegistrations *)

\* A chunk of rows is inserted by one statement; the trail of each row follows.
\* A bulk import goes on with the next chunk when the trails are written.
InsertChunk(h, rows) ==
    /\ job[h] = Waiting \/ job[h] = [at |-> "trail", todo |-> {}]
    /\ rows # {} /\ Cardinality(rows) <= Chunk
    /\ \A v \in rows : voter[v] = "absent"
    /\ voter' = [v \in Voter |-> IF v \in rows THEN "live" ELSE voter[v]]
    /\ job' = [job EXCEPT ![h] = [at |-> "trail", todo |-> rows]]
    /\ UNCHANGED <<trail, consent, dsar, erasures, panel, orphans, unfound, unlogged, late>>

\* writeVoterComplianceTrail: first the consent record ...
WriteConsent(h) ==
    /\ job[h].at = "trail"
    /\ \E v \in job[h].todo :
          /\ trail[v] = {}
          /\ \A w \in job[h].todo : trail[w] = {}
          /\ trail' = [trail EXCEPT ![v] = {"consent"}]
    /\ UNCHANGED <<voter, consent, dsar, erasures, panel, job, orphans, unfound, unlogged, late>>

\* ... then the provenance entry.
WriteProvenance(h) ==
    /\ job[h].at = "trail"
    /\ \E v \in job[h].todo :
          /\ trail[v] = {"consent"}
          /\ trail' = [trail EXCEPT ![v] = @ \cup {"provenance"}]
          /\ job' = [job EXCEPT ![h].todo = @ \ {v}]
    /\ UNCHANGED <<voter, consent, dsar, erasures, panel, orphans, unfound, unlogged, late>>

ImportEnds(h) ==
    /\ job[h] = [at |-> "trail", todo |-> {}]
    /\ Done(h)
    /\ UNCHANGED <<voter, trail, consent, dsar, erasures, panel, orphans, unfound, unlogged, late>>

-----------------------------------------------------------------------------
(* Consent and the survey panel                                            *)

\* recordConsent: a record that declares another lawful basis grants nothing.
RecordConsent(c, granted) ==
    /\ consent[c] = "absent"
    /\ consent' = [consent EXCEPT ![c] = IF granted THEN "granted" ELSE "declined"]
    /\ UNCHANGED <<voter, trail, dsar, erasures, panel, job, orphans, unfound, unlogged, late>>

\* withdrawConsent stamps any record of the profile and leaves the panel alone.
WithdrawConsent(c) ==
    /\ consent[c] # "absent"
    /\ consent' = [consent EXCEPT ![c] =
           IF @ \in {"granted", "withdrawn"} THEN "withdrawn" ELSE "stamped"]
    /\ UNCHANGED <<voter, trail, dsar, erasures, panel, job, orphans, unfound, unlogged, late>>

\* Bug: the consent record only has to exist.
BeginEnrolAnyConsent(h, p, c) ==
    /\ job[h] = Waiting
    /\ panel[p] = {} /\ \A g \in Handler : job[g].at = "enrol" => job[g].p # p
    /\ consent[c] # "absent"
    /\ job' = [job EXCEPT ![h] = [at |-> "enrol", p |-> p, c |-> c]]
    /\ UNCHANGED <<voter, trail, consent, dsar, erasures, panel, orphans, unfound, unlogged, late>>

\* addSurveyPanelist reads the consent record and refuses an inactive one.
BeginEnrol(h, p, c) ==
    /\ job[h] = Waiting
    /\ panel[p] = {} /\ \A g \in Handler : job[g].at = "enrol" => job[g].p # p
    /\ consent[c] = "granted"
    /\ job' = [job EXCEPT ![h] = [at |-> "enrol", p |-> p, c |-> c]]
    /\ UNCHANGED <<voter, trail, consent, dsar, erasures, panel, orphans, unfound, unlogged, late>>

Enrol(h) ==
    /\ job[h].at = "enrol"
    /\ panel' = [panel EXCEPT ![job[h].p] = {job[h].c}]
    /\ Done(h)
    /\ UNCHANGED <<voter, trail, consent, dsar, erasures, orphans, unfound, unlogged, late>>

\* recordSurveyResponses looks at survey_panelists.status alone, which no
\* statement of the server sets to anything but its default, "active".
RecordResponses(h, p) ==
    /\ job[h] = Waiting
    /\ panel[p] # {}
    /\ late' = late \cup {q \in {p} : \E c \in panel[p] : consent[c] = "withdrawn"}
    /\ UNCHANGED <<voter, trail, consent, dsar, erasures, panel, job, orphans, unfound, unlogged>>

-----------------------------------------------------------------------------
(* fileDsar and resolveDsar                                                *)

\* subjectTable and subjectId are optional, and nothing looks whether the row
\* that they name exists in the campaign: an id that is absent stands for one of
\* another campaign too.
FileDsar(d, s) ==
    /\ dsar[d].status = "none"
    /\ dsar' = [dsar EXCEPT ![d] = [status |-> "received", subject |-> s]]
    /\ UNCHANGED <<voter, trail, consent, erasures, panel, job, orphans, unfound, unlogged, late>>

\* The request is read; its status is not looked at, so a request that was
\* fulfilled or rejected can be resolved again.
Reject(h, d) ==
    /\ job[h] = Waiting
    /\ dsar[d].status # "none"
    /\ dsar' = [dsar EXCEPT ![d].status = "rejected"]
    /\ UNCHANGED <<voter, trail, consent, erasures, panel, job, orphans, unfound, unlogged, late>>

\* Without a subject there is nothing to delete or to log.
BeginFulfil(h, d) ==
    /\ job[h] = Waiting
    /\ dsar[d].status # "none"
    /\ job' = [job EXCEPT ![h] =
           [at |-> IF dsar[d].subject = {} THEN "close" ELSE "erase", d |-> d]]
    /\ UNCHANGED <<voter, trail, consent, dsar, erasures, panel, orphans, unfound, unlogged, late>>

\* Bug: the request goes on to its end without the DELETE.
EraseNothing(h) ==
    /\ job[h].at = "erase"
    /\ job' = [job EXCEPT ![h].at = "log"]
    /\ UNCHANGED <<voter, trail, consent, dsar, erasures, panel, orphans, unfound, unlogged, late>>

\* The DELETE, whatever number of rows it finds; the consent record and the
\* provenance entry stay.
Erase(h) ==
    LET d == job[h].d
    IN /\ job[h].at = "erase"
       /\ voter' = [v \in Voter |-> IF v \in dsar[d].subject /\ voter[v] = "live"
                                    THEN "erased" ELSE voter[v]]
       /\ unfound' = unfound \cup
              {e \in {d} : \E v \in dsar[d].subject : voter[v] = "absent"}
       /\ job' = [job EXCEPT ![h].at = "log"]
       /\ UNCHANGED <<trail, consent, dsar, erasures, panel, orphans, unlogged, late>>

\* The tombstone names the request, and counts one row whatever was deleted.
LogErasure(h) ==
    /\ job[h].at = "log"
    /\ erasures' = erasures \cup {job[h].d}
    /\ job' = [job EXCEPT ![h].at = "close"]
    /\ UNCHANGED <<voter, trail, consent, dsar, panel, orphans, unfound, unlogged, late>>

CloseDsar(h) ==
    /\ job[h].at = "close"
    /\ dsar' = [dsar EXCEPT ![job[h].d].status = "fulfilled"]
    /\ Done(h)
    /\ UNCHANGED <<voter, trail, consent, erasures, panel, orphans, unfound, unlogged, late>>

\* A statement fails or the process dies; what was written stays.
FailVoter(h) ==
    /\ job[h] # Waiting
    /\ orphans' = IF job[h].at = "trail" THEN orphans \cup job[h].todo ELSE orphans
    /\ unlogged' = IF job[h].at = "log"
                   THEN unlogged \cup {job[h].d} ELSE unlogged
    /\ Done(h)
    /\ UNCHANGED <<voter, trail, consent, dsar, erasures, panel, unfound, late>>

RegisterNext ==
    \/ \E h \in Handler, rows \in SUBSET Voter : InsertChunk(h, rows)
    \/ \E h \in Handler : \/ WriteConsent(h) \/ WriteProvenance(h) \/ ImportEnds(h)
                          \/ Erase(h) \/ LogErasure(h) \/ CloseDsar(h)
    \/ \E d \in Dsar : FileDsar(d, {}) \/ \E v \in Voter : FileDsar(d, {v})
    \/ \E h \in Handler, d \in Dsar : Reject(h, d) \/ BeginFulfil(h, d)

PanelNext ==
    \/ \E c \in Consent : \/ \E granted \in BOOLEAN : RecordConsent(c, granted)
                          \/ WithdrawConsent(c)
    \/ \E h \in Handler : Enrol(h)
    \/ \E h \in Handler, p \in Panelist :
          \/ \E c \in Consent : BeginEnrol(h, p, c)
          \/ RecordResponses(h, p)

VoterNext == RegisterNext \/ PanelNext \/ \E h \in Handler : FailVoter(h)

VoterSpec == VoterInit /\ [][VoterNext]_voterVars

-----------------------------------------------------------------------------
(* Properties                                                              *)

Job ==
    {Waiting} \cup [at : {"trail"}, todo : SUBSET Voter]
        \cup [at : {"enrol"}, p : Panelist, c : Consent]
        \cup [at : {"erase", "log", "close"}, d : Dsar]

\* The tables and the requests keep their shape.
VoterTypeOK ==
    /\ voter \in [Voter -> {"absent", "live", "erased"}]
    /\ trail \in [Voter -> SUBSET {"consent", "provenance"}]
    /\ consent \in [Consent -> {"absent", "granted", "declined", "withdrawn", "stamped"}]
    /\ dsar \in [Dsar -> [status : {"none"}] \cup
           [status : {"received", "fulfilled", "rejected"}, subject : SUBSET Voter]]
    /\ erasures \subseteq Dsar /\ unfound \subseteq Dsar /\ unlogged \subseteq Dsar
    /\ panel \in [Panelist -> SUBSET Consent]
    /\ job \in [Handler -> Job]
    /\ orphans \subseteq Voter /\ late \subseteq Panelist

\* writeVoterComplianceTrail: a voter row has both trail entries, or its import
\* still has to write them, or the import failed on the way.
TrailTraced ==
    \A v \in Voter : voter[v] # "absent" =>
        \/ trail[v] = {"consent", "provenance"}
        \/ v \in orphans
        \/ \E h \in Handler : job[h].at = "trail" /\ v \in job[h].todo

\* What the comment on consent-gated writes promises without a condition, once
\* no import is under way.
NoRowWithoutTrail ==
    (\A h \in Handler : job[h].at # "trail") =>
        \A v \in Voter : voter[v] # "absent" => trail[v] = {"consent", "provenance"}

\* resolveDsar: a fulfilled erasure that names a row has left a tombstone, and
\* the row is gone unless the DELETE found none, however requests overlap, fail
\* and are resolved again; and behind every row that is gone is a request that
\* named it, with a tombstone unless the handler died before it.
ErasureReal ==
    /\ \A d \in Dsar : dsar[d].status = "fulfilled" => \A v \in dsar[d].subject :
           d \in erasures /\ (voter[v] = "erased" \/ d \in unfound)
    /\ \A v \in Voter : voter[v] = "erased" => \E d \in Dsar :
           /\ dsar[d].status # "none" /\ v \in dsar[d].subject
           /\ \/ d \in erasures \cup unlogged
              \/ \E h \in Handler : job[h].at = "log" /\ job[h].d = d

\* What the comment of resolveDsar promises: fulfilling an erasure is a real
\* deletion of the subject's row.
FulfilledMeansErased ==
    \A d \in Dsar : dsar[d].status = "fulfilled" =>
        \E v \in dsar[d].subject : voter[v] = "erased"

\* addSurveyPanelist fails closed: everyone on the panel was enrolled with a
\* consent that had been granted, whatever is withdrawn while the enrolment
\* runs.
PanelConsented ==
    \A p \in Panelist : \A c \in panel[p] : consent[c] \in {"granted", "withdrawn"}

\* What recordSurveyResponses says of withdrawn panelists.
NoAnswerAfterWithdrawal == late = {}

\* The invariant of the personal data: shape, the trail of every row, and the
\* consent behind every panelist.
VoterInv == VoterTypeOK /\ TrailTraced /\ PanelConsented
=============================================================================
