-------------------------- MODULE CampaignLiveProofs --------------------------
(***************************************************************************)
(* Proofs about Scheduled, for any deadlines, agents, managers and number  *)
(* of overlapping checks, and about Admission, for any callers, accounts,  *)
(* signers and limits.                                                     *)
(***************************************************************************)
EXTENDS Scheduled, Admission, FiniteSetTheorems, TLAPS

-----------------------------------------------------------------------------
(* Scheduled                                                               *)

\* Two checks under way know of each other.
OverlapsShared ==
    \A r, q \in Run : r # q /\ run[r].at # "idle" /\ run[q].at # "idle" => run[r].shared

\* An alert of the day is stamped, or the check that sent it stamps it next.
AlertsStamped ==
    \A d \in sent \ blurred : stamp[d] = "today" \/ \E r \in Run : run[r].at = d

\* What a check alone on the table has read of the stamps is still true.
ReadingHolds ==
    \A r \in Run : run[r].at # "idle" /\ ~run[r].shared =>
        \A d \in run[r].todo \ run[r].fresh : stamp[d] # "today" /\ run[r].at # d

ScheduleIndInv ==
    /\ ScheduleInv
    /\ OverlapsShared /\ AlertsStamped /\ ReadingHolds

\* The parts that the deadline check alone writes.
CheckInv ==
    /\ AlertedOnce /\ OverlapsShared /\ AlertsStamped /\ ReadingHolds

LEMMA NoRunType ==
  NoRun \in [at : {"idle", "next"} \cup Deadline, todo : SUBSET Deadline,
             fresh : SUBSET Deadline, shared : BOOLEAN]
  BY DEF NoRun

LEMMA ScheduleStarts == ScheduleInit => ScheduleIndInv
<1> SUFFICES ASSUME ScheduleInit PROVE ScheduleIndInv
  OBVIOUS
<1>1. ScheduleTypeOK
  <2>1. run \in [Run -> [at : {"idle", "next"} \cup Deadline, todo : SUBSET Deadline,
                        fresh : SUBSET Deadline, shared : BOOLEAN]]
    BY NoRunType DEF ScheduleInit
  <2>2. age \in [Agent -> 0 .. OldAge]
    BY OldAgeAssumption DEF ScheduleInit
  <2> QED BY <2>1, <2>2 DEF ScheduleInit, ScheduleTypeOK
<1>2. AlertedOnce /\ OffMeansOff
  BY DEF ScheduleInit, AlertedOnce, OffMeansOff
<1>3. CheckInv
  BY DEF ScheduleInit, CheckInv, AlertedOnce, OverlapsShared,
         AlertsStamped, ReadingHolds, NoRun
<1> QED BY <1>1, <1>2, <1>3 DEF ScheduleIndInv, ScheduleInv, CheckInv

LEMMA ScheduleTypes ==
  ASSUME ScheduleTypeOK, [ScheduleNext]_scheduleVars
  PROVE  ScheduleTypeOK'
<1> USE OldAgeAssumption DEF ScheduleTypeOK, jobVars, agentVars, deadlineVars
<1> DEFINE Runs == [at : {"idle", "next"} \cup Deadline, todo : SUBSET Deadline,
                    fresh : SUBSET Deadline, shared : BOOLEAN]
<1>1. ASSUME NEW r \in Run, StartCheck(r) PROVE ScheduleTypeOK'
  <2>1. \A q \in Run \ {r} : [run[q] EXCEPT !.shared = q \in Busy] \in Runs
    <3>1. ASSUME NEW x \in Runs, NEW b \in BOOLEAN PROVE [x EXCEPT !.shared = b] \in Runs
      BY <3>1
    <3>2. \A q \in Run : run[q] \in Runs /\ (q \in Busy) \in BOOLEAN
      OBVIOUS
    <3> QED BY <3>1, <3>2
  <2>2. [at |-> "next", todo |-> near, fresh |-> {d \in near : stamp[d] = "today"},
         shared |-> Busy # {}] \in Runs
    OBVIOUS
  <2>3. run' \in [Run -> Runs]
    BY <1>1, <2>1, <2>2 DEF StartCheck
  <2> QED BY <1>1, <2>3 DEF StartCheck
<1>2. ASSUME NEW r \in Run, StampAlert(r) PROVE ScheduleTypeOK'
  BY <1>2 DEF StampAlert
<1>3. ASSUME NEW r \in Run, EndCheck(r) \/ FailCheck(r) PROVE ScheduleTypeOK'
  BY NoRunType, <1>3 DEF EndCheck, FailCheck
<1>4. ASSUME NEW r \in Run, NEW d \in Deadline, SkipAlerted(r, d) \/ notifyOwnerFalse(r, d)
      PROVE  ScheduleTypeOK'
  BY <1>4 DEF SkipAlerted, notifyOwnerFalse
<1>5. ASSUME NEW r \in Run, NEW d \in Deadline, notifyOwner(r, d) PROVE ScheduleTypeOK'
  BY <1>5 DEF notifyOwner, Alerted
<1>6. ASSUME NEW d \in Deadline, DayPasses(d) PROVE ScheduleTypeOK'
  BY <1>6 DEF DayPasses
<1>7. ASSUME NEW d \in Deadline, TimePasses(d) PROVE ScheduleTypeOK'
  BY <1>7 DEF TimePasses
<1>8. CASE JobNext
  BY <1>8 DEF JobNext, enable, disable, BeginDisable
<1>9. CASE AgentNext
  BY <1>9 DEF AgentNext, agentCheckIn, Grow, upsertFieldAgent, scanSilentAgents
<1>10. CASE UNCHANGED scheduleVars
  BY <1>10 DEF scheduleVars
<1> QED
  BY <1>1, <1>2, <1>3, <1>4, <1>5, <1>6, <1>7, <1>8, <1>9, <1>10
     DEF ScheduleNext, DeadlineNext

\* The jobs of a profile whose alerts one user switches on and off.
LEMMA OffStaysOff ==
  ASSUME ScheduleTypeOK, OffMeansOff, [ScheduleNext]_scheduleVars
  PROVE  OffMeansOff'
<1> USE DEF OffMeansOff, ScheduleTypeOK
<1>1. CASE JobNext
  BY <1>1 DEF JobNext, enable, disable, BeginDisable
<1>2. CASE UNCHANGED jobVars
  BY <1>2 DEF jobVars
<1>3. CASE DeadlineNext
  BY <1>2, <1>3 DEF DeadlineNext, StartCheck, StampAlert, EndCheck, FailCheck,
     SkipAlerted, notifyOwner, notifyOwnerFalse, Alerted, DayPasses, TimePasses
<1>4. CASE AgentNext
  BY <1>2, <1>4 DEF AgentNext, agentCheckIn, Grow, upsertFieldAgent, scanSilentAgents
<1> QED BY <1>1, <1>2, <1>3, <1>4 DEF ScheduleNext, scheduleVars, jobVars

\* The deadline check, one lemma for each of its steps.
LEMMA CheckStarts ==
  ASSUME ScheduleTypeOK, CheckInv, NEW r \in Run, StartCheck(r)
  PROVE  CheckInv'
<1> USE DEF CheckInv, AlertedOnce, ScheduleTypeOK
<1>1. /\ UNCHANGED <<near, stamp, sent, blurred, twice>> /\ run[r].at = "idle"
      /\ run'[r].at = "next" /\ run'[r].todo = near
      /\ run'[r].fresh = {d \in near : stamp[d] = "today"}
      /\ run'[r].shared = (\E q \in Run : run[q].at # "idle")
  BY DEF StartCheck, Busy
<1>2. \A q \in Run \ {r} : /\ run'[q].at = run[q].at /\ run'[q].todo = run[q].todo
                           /\ run'[q].fresh = run[q].fresh
                           /\ run'[q].shared = (run[q].at # "idle")
  BY DEF StartCheck, Busy
<1>4. OverlapsShared'
  BY <1>1, <1>2 DEF OverlapsShared
<1>5. AlertsStamped'
  BY <1>1, <1>2, DeadlineAssumption DEF AlertsStamped
<1>6. ReadingHolds'
  BY <1>1, <1>2, DeadlineAssumption DEF ReadingHolds
<1> QED BY <1>1, <1>4, <1>5, <1>6

\* A step that only shortens the list of a check, or lets it go on.
LEMMA CheckGoesOn ==
  ASSUME ScheduleTypeOK, CheckInv, NEW r \in Run, run[r].at = "next",
         UNCHANGED <<stamp, sent, blurred, twice>>,
         \/ run'[r].at = "next" /\ run'[r].todo \subseteq run[r].todo
            /\ run'[r].fresh = run[r].fresh /\ run'[r].shared = run[r].shared
         \/ run'[r] = NoRun,
         \A q \in Run \ {r} : run'[q] = run[q]
  PROVE  CheckInv'
<1> USE DEF CheckInv, AlertedOnce, ScheduleTypeOK
<1>1. OverlapsShared'
  BY DEF OverlapsShared, NoRun
<1>2. AlertsStamped'
  BY DeadlineAssumption DEF AlertsStamped
<1>3. ReadingHolds'
  BY DEF ReadingHolds, NoRun
<1> QED BY <1>1, <1>2, <1>3

LEMMA CheckAlerts ==
  ASSUME ScheduleTypeOK, CheckInv, NEW r \in Run, NEW d \in Deadline, notifyOwner(r, d)
  PROVE  CheckInv'
<1> USE DEF CheckInv, ScheduleTypeOK
<1>1. /\ run[r].at = "next" /\ d \in run[r].todo \ run[r].fresh
      /\ run'[r].at = d /\ run'[r].todo = run[r].todo \ {d}
      /\ run'[r].fresh = run[r].fresh /\ run'[r].shared = run[r].shared
      /\ \A q \in Run \ {r} : run'[q] = run[q]
      /\ UNCHANGED stamp /\ sent' = sent \cup {d}
      /\ blurred \subseteq blurred' /\ blurred' \subseteq blurred \cup {d}
      /\ run[r].shared => d \in blurred'
  BY DEF notifyOwner, Alerted
<1>2. d # "idle" /\ d # "next"
  BY DeadlineAssumption
<1>3. d \notin sent \ blurred'
  <2> SUFFICES ASSUME d \in sent \ blurred', ~run[r].shared PROVE FALSE
    BY <1>1
  <2>1. stamp[d] # "today"
    BY <1>1 DEF ReadingHolds
  <2>2. PICK q \in Run : run[q].at = d
    BY <1>1, <2>1 DEF AlertsStamped
  <2>3. q # r
    BY <1>1, <1>2, <2>2
  <2> QED BY <1>1, <1>2, <2>2, <2>3 DEF OverlapsShared
<1>4. AlertedOnce'
  BY <1>3 DEF AlertedOnce, notifyOwner, Alerted
<1>5. OverlapsShared'
  BY <1>1, <1>2 DEF OverlapsShared
<1>6. AlertsStamped'
  BY <1>1, <1>2, DeadlineAssumption DEF AlertsStamped
<1>7. ReadingHolds'
  BY <1>1, <1>2 DEF ReadingHolds
<1> QED BY <1>4, <1>5, <1>6, <1>7

LEMMA CheckStamps ==
  ASSUME ScheduleTypeOK, CheckInv, NEW r \in Run, StampAlert(r)
  PROVE  CheckInv'
<1> USE DEF CheckInv, AlertedOnce, ScheduleTypeOK
<1> DEFINE d == run[r].at
<1>1. /\ d \in Deadline /\ d # "idle" /\ UNCHANGED <<sent, blurred, twice>>
      /\ run'[r].at = "next" /\ run'[r].todo = run[r].todo
      /\ run'[r].fresh = run[r].fresh /\ run'[r].shared = run[r].shared
      /\ \A q \in Run \ {r} : run'[q] = run[q]
      /\ stamp'[d] = "today" /\ \A e \in Deadline \ {d} : stamp'[e] = stamp[e]
  BY DeadlineAssumption DEF StampAlert
<1>2. OverlapsShared'
  BY <1>1 DEF OverlapsShared
<1>3. AlertsStamped'
  BY <1>1 DEF AlertsStamped
<1>4. ReadingHolds'
  <2> SUFFICES ASSUME NEW q \in Run, run'[q].at # "idle", ~run'[q].shared,
                      NEW e \in run'[q].todo \ run'[q].fresh
               PROVE  stamp'[e] # "today" /\ run'[q].at # e
    BY DEF ReadingHolds
  <2>1. q = r
    BY <1>1 DEF OverlapsShared
  <2>2. stamp[e] # "today" /\ e # d /\ e \in Deadline
    BY <1>1, <2>1 DEF ReadingHolds
  <2> QED BY <1>1, <2>1, <2>2, DeadlineAssumption
<1> QED BY <1>1, <1>2, <1>3, <1>4

LEMMA CheckFails ==
  ASSUME ScheduleTypeOK, CheckInv, NEW r \in Run, FailCheck(r)
  PROVE  CheckInv'
<1> USE DEF CheckInv, AlertedOnce, ScheduleTypeOK
<1>1. /\ run'[r] = NoRun /\ \A q \in Run \ {r} : run'[q] = run[q]
      /\ blurred \subseteq blurred'
      /\ run[r].at \in Deadline => run[r].at \in blurred'
      /\ UNCHANGED <<stamp, sent, twice>>
  BY DEF FailCheck
<1>2. OverlapsShared'
  BY <1>1 DEF OverlapsShared, NoRun
<1>3. AlertsStamped'
  <2> SUFFICES ASSUME NEW d \in sent \ blurred', stamp[d] # "today"
               PROVE  \E q \in Run : run'[q].at = d
    BY <1>1 DEF AlertsStamped
  <2>1. PICK q \in Run : run[q].at = d
    BY <1>1 DEF AlertsStamped
  <2> QED BY <1>1, <2>1
<1>4. ReadingHolds'
  BY <1>1 DEF ReadingHolds, NoRun
<1> QED BY <1>1, <1>2, <1>3, <1>4

LEMMA CheckStep ==
  ASSUME ScheduleTypeOK, CheckInv, [ScheduleNext]_scheduleVars
  PROVE  CheckInv'
<1>0. ASSUME UNCHANGED <<stamp, sent, run, blurred, twice>> PROVE CheckInv'
  BY <1>0 DEF CheckInv, AlertedOnce, OverlapsShared, AlertsStamped, ReadingHolds
<1>1. ASSUME NEW r \in Run, NEW d \in Deadline, SkipAlerted(r, d) \/ notifyOwnerFalse(r, d)
      PROVE  CheckInv'
  BY <1>1, CheckGoesOn DEF SkipAlerted, notifyOwnerFalse, ScheduleTypeOK
<1>2. ASSUME NEW r \in Run, EndCheck(r) PROVE CheckInv'
  BY <1>2, CheckGoesOn DEF EndCheck, ScheduleTypeOK
<1>3. ASSUME NEW d \in Deadline, DayPasses(d) PROVE CheckInv'
  <2>1. \A r \in Run : run[r].at = "idle"
    BY <1>3 DEF DayPasses, Busy
  <2>2. /\ UNCHANGED <<run, twice>> /\ sent' = sent \ {d} /\ blurred' = blurred \ {d}
        /\ \A e \in Deadline \ {d} : stamp'[e] = stamp[e]
    BY <1>3 DEF DayPasses, ScheduleTypeOK
  <2>3. AlertsStamped'
    BY <2>1, <2>2 DEF CheckInv, AlertsStamped, ScheduleTypeOK
  <2> QED
    BY <2>1, <2>2, <2>3 DEF CheckInv, AlertedOnce, OverlapsShared, ReadingHolds
<1>4. ASSUME NEW d \in Deadline, TimePasses(d) PROVE CheckInv'
  BY <1>0, <1>4 DEF TimePasses
<1>5. CASE JobNext
  BY <1>0, <1>5 DEF JobNext, enable, disable, BeginDisable, deadlineVars
<1>6. CASE AgentNext
  BY <1>0, <1>6 DEF AgentNext, agentCheckIn, Grow, upsertFieldAgent, scanSilentAgents,
     deadlineVars
<1>7. CASE UNCHANGED scheduleVars
  BY <1>0, <1>7 DEF scheduleVars
<1> QED
  BY <1>1, <1>2, <1>3, <1>4, <1>5, <1>6, <1>7, CheckStarts, CheckAlerts, CheckStamps,
     CheckFails DEF ScheduleNext, DeadlineNext

\* The deadline check never alerts a deadline twice within a day, unless checks
\* overlapped or a stamp was lost, and alerts that were switched off stay off,
\* for any number of deadlines, of checks and of users.
THEOREM ScheduleSound == ScheduleSpec => []ScheduleInv
<1>1. ScheduleIndInv /\ [ScheduleNext]_scheduleVars => ScheduleIndInv'
  BY ScheduleTypes, OffStaysOff, CheckStep DEF ScheduleIndInv, ScheduleInv, CheckInv
<1>2. ScheduleIndInv => ScheduleInv
  BY DEF ScheduleIndInv
<1> QED BY <1>1, <1>2, ScheduleStarts, PTL DEF ScheduleSpec

-----------------------------------------------------------------------------
(* Admission                                                               *)

UserKeys == {<<"user", a>> : a \in Account}
LoginVisit == [at : {"compare", "reset"}, key : UserKeys, who : Account,
               current : BOOLEAN, used : 0 .. Retries]
SignVisit == [at : {"address", "insert"}, key : DedupKeys \cup {<<"staff">>}, who : Signer,
              current : BOOLEAN, used : 0 .. Retries]
FetchVisit == [at : {"fetch"}, key : {<<"llm">>}, who : Caller,
               current : BOOLEAN, used : 0 .. Retries]
Visit == {Away} \cup LoginVisit \cup SignVisit \cup FetchVisit

\* A request carries the key of whom it acts for.
KeysNameTheirOwner ==
    \A c \in Caller :
        /\ visit[c].at \in {"compare", "reset"} => visit[c].key = <<"user", visit[c].who>>
        /\ visit[c].at \in {"address", "insert"} /\ visit[c].key \in DedupKeys
               => \E w \in Spelling : visit[c].key = DedupKey(visit[c].who, w)
        /\ visit[c].at = "address" => visit[c].key \in DedupKeys

VisitOK == visit \in [Caller -> Visit] /\ KeysNameTheirOwner

\* Requests of this window that are about to compare a password, in all and of
\* one account.
Comparing == {c \in Caller : visit[c].at = "compare" /\ visit[c].current}
ComparingAs(a) == {c \in Comparing : visit[c].who = a}

\* Every comparison, made or to come, has its hit in both windows.
GuessesCounted ==
    /\ tries + Cardinality(Comparing) <= hits[<<"ip">>]
    /\ tries + Cardinality(Comparing) <= IpLimit
    /\ \A a \in Account :
          /\ wrong[a] + Cardinality(ComparingAs(a)) <= hits[<<"user", a>>]
          /\ wrong[a] + Cardinality(ComparingAs(a)) <= UserLimit

\* The calls of the model that requests of this hour may still make.
CallsLeft ==
    {x \in Caller \X (0 .. Retries) :
        visit[x[1]].at = "fetch" /\ visit[x[1]].current /\ visit[x[1]].used <= x[2]}

SpendCounted ==
    /\ paid + Cardinality(CallsLeft) <= hits[<<"llm">>] * (Retries + 1)
    /\ paid + Cardinality(CallsLeft) <= LlmLimit * (Retries + 1)

\* Every hit of a dedup key has the cause that a refusal will be given for.
HitsDeserved == \A k \in DedupKeys : hits[k] > 0 => Deserved(k)

SignsAccounted == RefusedHaveSigned /\ HitsDeserved

AdmissionIndInv ==
    AdmissionTypeOK /\ VisitOK /\ SignsAccounted /\ GuessesCounted /\ SpendCounted

\* The keys of the limiter tell the windows apart.
LEMMA KeysApart ==
  /\ <<"ip">> \in LoginKeys /\ UserKeys \subseteq LoginKeys
  /\ <<"llm">> \in HourKeys /\ <<"signip">> \in HourKeys
  /\ LoginKeys \subseteq Keys /\ HourKeys \subseteq Keys /\ DedupKeys \subseteq Keys
  /\ \A k \in LoginKeys : k \notin HourKeys /\ k \notin DedupKeys
  /\ \A k \in HourKeys : k \notin LoginKeys /\ k \notin DedupKeys
  /\ \A k \in DedupKeys : k \notin LoginKeys /\ k \notin HourKeys
  /\ \A k \in UserKeys : k # <<"ip">>
  /\ <<"llm">> # <<"signip">>
  /\ <<"staff">> \notin LoginKeys \cup HourKeys \cup DedupKeys
  /\ \A a, b \in Account : <<"user", a>> = <<"user", b>> => a = b
<1> USE DEF Keys, LoginKeys, HourKeys, DedupKeys, UserKeys
<1>1. \A k \in UserKeys : k[1] = "user"
  OBVIOUS
<1>2. \A k \in DedupKeys : k[1] \in {"dedup", "ipdedup"}
  BY DEF DedupKey
<1>3. <<"ip">>[1] = "ip" /\ <<"llm">>[1] = "llm" /\ <<"signip">>[1] = "signip"
      /\ <<"staff">>[1] = "staff"
  OBVIOUS
<1>4. \A a, b \in Account : <<"user", a>> = <<"user", b>> => a = b
  OBVIOUS
<1>5. \A k \in LoginKeys : k[1] \in {"ip", "user"}
  BY <1>1, <1>3
<1>6. \A k \in HourKeys : k[1] \in {"llm", "signip"}
  BY <1>3
<1>7. <<"ip">> \in LoginKeys /\ UserKeys \subseteq LoginKeys
      /\ <<"llm">> \in HourKeys /\ <<"signip">> \in HourKeys
      /\ LoginKeys \subseteq Keys /\ HourKeys \subseteq Keys /\ DedupKeys \subseteq Keys
  OBVIOUS
<1> HIDE DEF Keys, LoginKeys, HourKeys, DedupKeys, UserKeys
<1> QED BY <1>1, <1>2, <1>3, <1>4, <1>5, <1>6, <1>7

LEMMA Limits ==
  /\ LimitOf(<<"ip">>) = IpLimit /\ LimitOf(<<"llm">>) = LlmLimit
  /\ LimitOf(<<"signip">>) = SignLimit
  /\ \A k \in DedupKeys : LimitOf(k) = 1
  /\ \A a \in Account : LimitOf(<<"user", a>>) = UserLimit
  /\ \A k \in Keys : LimitOf(k) \in Nat
<1>0. \A a \in Account : <<"user", a>> \in UserKeys
  BY DEF UserKeys
<1>1. <<"ip">> # <<"llm">> /\ <<"ip">> # <<"signip">> /\ <<"llm">> # <<"signip">>
  BY KeysApart
<1>2. LimitOf(<<"ip">>) = IpLimit /\ LimitOf(<<"llm">>) = LlmLimit
      /\ LimitOf(<<"signip">>) = SignLimit
  BY <1>1, KeysApart DEF LimitOf
<1>3. \A k \in DedupKeys : LimitOf(k) = 1
  BY KeysApart DEF LimitOf
<1>4. \A a \in Account : LimitOf(<<"user", a>>) = UserLimit
  <2> TAKE a \in Account
  <2>1. <<"user", a>> # <<"ip">> /\ <<"user", a>> # <<"llm">> /\ <<"user", a>> # <<"signip">>
        /\ <<"user", a>> \notin DedupKeys
    BY <1>0, KeysApart
  <2> QED BY <2>1 DEF LimitOf
<1>5. \A k \in Keys : LimitOf(k) \in Nat
  <2> SUFFICES ASSUME NEW k \in Keys PROVE LimitOf(k) \in Nat
    OBVIOUS
  <2>1. k \in {<<"ip">>, <<"llm">>, <<"signip">>} \cup DedupKeys
        \/ \E a \in Account : k = <<"user", a>>
    BY DEF Keys, LoginKeys, HourKeys
  <2> QED BY <1>2, <1>3, <1>4, <2>1, LimitsAssumption
<1> QED BY <1>2, <1>3, <1>4, <1>5

\* hitRateLimit counts its keys up, and only them, as far as one past the limit.
LEMMA HitsGrow ==
  ASSUME AdmissionTypeOK, NEW ks \in SUBSET Keys, hitRateLimit(ks)
  PROVE  /\ hits' \in [Keys -> Nat] /\ \A k \in Keys : hits'[k] <= LimitOf(k)
         /\ \A k \in Keys : hits'[k] >= hits[k]
         /\ \A k \in Keys \ ks : hits'[k] = hits[k]
         /\ \A k \in ks : Allowed(k) => hits'[k] = hits[k] + 1 /\ hits'[k] <= LimitOf(k)
         /\ \A k \in ks : ~Allowed(k) => hits[k] >= LimitOf(k)
  BY Limits DEF AdmissionTypeOK, hitRateLimit, Allowed

\* What a request under way holds.
LEMMA VisitFields ==
  ASSUME VisitOK, NEW c \in Caller
  PROVE  /\ visit[c] = Away <=> visit[c].at = "away"
         /\ visit[c].at \in {"away", "compare", "reset", "address", "insert", "fetch"}
         /\ visit[c].at \in {"compare", "reset"} =>
               visit[c] \in LoginVisit /\ visit[c].key = <<"user", visit[c].who>>
         /\ visit[c].at \in {"address", "insert"} => visit[c] \in SignVisit
         /\ visit[c].at = "fetch" => visit[c] \in FetchVisit
  BY DEF VisitOK, KeysNameTheirOwner, Visit, LoginVisit, SignVisit, FetchVisit, Away

LEMMA NewVisits ==
  /\ Away \in Visit
  /\ \A a \in Account : [at |-> "compare", key |-> <<"user", a>>, who |-> a,
                         current |-> TRUE, used |-> 0] \in LoginVisit
  /\ \A p \in Signer, w \in Spelling :
        [at |-> "address", key |-> DedupKey(p, w), who |-> p,
         current |-> TRUE, used |-> 0] \in SignVisit
  /\ \A p \in Signer : [at |-> "insert", key |-> <<"staff">>, who |-> p,
                        current |-> TRUE, used |-> 0] \in SignVisit
  /\ \A c \in Caller : [at |-> "fetch", key |-> <<"llm">>, who |-> c,
                        current |-> TRUE, used |-> 0] \in FetchVisit
<1>1. 0 \in 0 .. Retries
  BY LimitsAssumption
<1> QED BY <1>1 DEF Visit, LoginVisit, SignVisit, FetchVisit, UserKeys, DedupKeys

\* A request that goes on, or that the window leaves behind, keeps its kind.
LEMMA VisitsGoOn ==
  /\ \A x \in LoginVisit :
        LET y == [x EXCEPT !.at = "reset"]
        IN y \in LoginVisit /\ y.at = "reset" /\ y.key = x.key /\ y.who = x.who
  /\ \A x \in SignVisit :
        LET y == [x EXCEPT !.at = "insert"]
        IN y \in SignVisit /\ y.at = "insert" /\ y.key = x.key /\ y.who = x.who
  /\ \A x \in FetchVisit : x.used # Retries =>
        LET y == [x EXCEPT !.used = x.used + 1]
        IN /\ y \in FetchVisit /\ y.at = "fetch" /\ y.key = x.key
           /\ y.used = x.used + 1 /\ y.current = x.current
  /\ \A x \in LoginVisit \cup SignVisit \cup FetchVisit :
        LET y == [x EXCEPT !.current = FALSE]
        IN /\ y \in Visit /\ y.at = x.at /\ y.key = x.key /\ y.who = x.who
           /\ ~y.current
<1>1. ASSUME NEW x \in LoginVisit
      PROVE  LET y == [x EXCEPT !.at = "reset"]
             IN y \in LoginVisit /\ y.at = "reset" /\ y.key = x.key /\ y.who = x.who
  BY DEF LoginVisit
<1>2. ASSUME NEW x \in SignVisit
      PROVE  LET y == [x EXCEPT !.at = "insert"]
             IN y \in SignVisit /\ y.at = "insert" /\ y.key = x.key /\ y.who = x.who
  BY DEF SignVisit
<1>3. ASSUME NEW x \in FetchVisit, x.used # Retries
      PROVE  LET y == [x EXCEPT !.used = x.used + 1]
             IN /\ y \in FetchVisit /\ y.at = "fetch" /\ y.key = x.key
                /\ y.used = x.used + 1 /\ y.current = x.current
  BY <1>3, LimitsAssumption DEF FetchVisit
<1>4. ASSUME NEW x \in LoginVisit \cup SignVisit \cup FetchVisit
      PROVE  LET y == [x EXCEPT !.current = FALSE]
             IN /\ y \in Visit /\ y.at = x.at /\ y.key = x.key /\ y.who = x.who
                /\ ~y.current
  BY DEF Visit, LoginVisit, SignVisit, FetchVisit
<1> QED BY <1>1, <1>2, <1>3, <1>4

LEMMA ComparingFinite ==
  /\ IsFiniteSet(Comparing) /\ Cardinality(Comparing) \in Nat
  /\ \A a : IsFiniteSet(ComparingAs(a)) /\ Cardinality(ComparingAs(a)) \in Nat
<1>1. Comparing \subseteq Caller
  BY DEF Comparing
<1>2. \A a : ComparingAs(a) \subseteq Caller
  BY <1>1 DEF ComparingAs
<1> QED BY <1>1, <1>2, CallerAssumption, FS_Subset, FS_CardinalityType

LEMMA CallsLeftFinite ==
  IsFiniteSet(CallsLeft) /\ Cardinality(CallsLeft) \in Nat
<1>1. IsFiniteSet(Caller \X (0 .. Retries))
  <2>1. 0 \in Int /\ Retries \in Int
    BY LimitsAssumption
  <2>2. IsFiniteSet(0 .. Retries)
    BY <2>1, FS_Interval
  <2> QED BY <2>2, CallerAssumption, FS_Product
<1>2. CallsLeft \subseteq Caller \X (0 .. Retries)
  BY DEF CallsLeft
<1> QED BY <1>1, <1>2, FS_Subset, FS_CardinalityType

\* A step in which no request starts to compare, no comparison is made and no
\* hit of a login is taken back.
LEMMA GuessesKept ==
  ASSUME AdmissionTypeOK, GuessesCounted, tries' = tries, wrong' = wrong,
         hits' \in [Keys -> Nat],
         \A k \in LoginKeys : hits'[k] >= hits[k],
         \A c \in Caller : visit'[c].at = "compare" /\ visit'[c].current =>
             visit[c].at = "compare" /\ visit[c].current /\ visit'[c].who = visit[c].who
  PROVE  GuessesCounted'
<1>1. Comparing' \subseteq Comparing /\ \A a \in Account : ComparingAs(a)' \subseteq ComparingAs(a)
  BY DEF Comparing, ComparingAs
<1>2. /\ Cardinality(Comparing') <= Cardinality(Comparing)
      /\ \A a \in Account : Cardinality(ComparingAs(a)') <= Cardinality(ComparingAs(a))
  BY <1>1, ComparingFinite, FS_Subset
<1>3. /\ Cardinality(Comparing') \in Nat
      /\ \A a \in Account : Cardinality(ComparingAs(a)') \in Nat
  BY <1>1, ComparingFinite, FS_Subset, FS_CardinalityType
<1>4. <<"ip">> \in LoginKeys /\ LoginKeys \subseteq Keys
      /\ \A a \in Account : <<"user", a>> \in LoginKeys
  BY KeysApart DEF UserKeys
<1>5. /\ tries' + Cardinality(Comparing') <= hits'[<<"ip">>]
      /\ tries' + Cardinality(Comparing') <= IpLimit
  BY <1>2, <1>3, <1>4, ComparingFinite, LimitsAssumption DEF GuessesCounted, AdmissionTypeOK
<1>6. ASSUME NEW a \in Account
      PROVE  /\ wrong'[a] + Cardinality(ComparingAs(a)') <= hits'[<<"user", a>>]
             /\ wrong'[a] + Cardinality(ComparingAs(a)') <= UserLimit
  BY <1>2, <1>3, <1>4, ComparingFinite, LimitsAssumption DEF GuessesCounted, AdmissionTypeOK
<1> QED BY <1>5, <1>6 DEF GuessesCounted

\* A step that starts no call of the model, and makes none.
LEMMA SpendKept ==
  ASSUME AdmissionTypeOK, VisitOK, VisitOK', SpendCounted, paid' = paid,
         hits' \in [Keys -> Nat], hits'[<<"llm">>] >= hits[<<"llm">>],
         \A c \in Caller : visit'[c].at = "fetch" /\ visit'[c].current =>
             visit[c].at = "fetch" /\ visit[c].current /\ visit[c].used <= visit'[c].used
  PROVE  SpendCounted'
<1>1. CallsLeft' \subseteq CallsLeft
  <2> SUFFICES ASSUME NEW x \in CallsLeft' PROVE x \in CallsLeft
    OBVIOUS
  <2>1. /\ x \in Caller \X (0 .. Retries) /\ x[1] \in Caller /\ x[2] \in 0 .. Retries
        /\ visit'[x[1]].at = "fetch" /\ visit'[x[1]].current /\ visit'[x[1]].used <= x[2]
    BY DEF CallsLeft
  <2>2. visit[x[1]].at = "fetch" /\ visit[x[1]].current
        /\ visit[x[1]].used <= visit'[x[1]].used
    BY <2>1
  <2>3. visit[x[1]].used \in Nat /\ visit'[x[1]].used \in Nat
    BY <2>1, <2>2, VisitFields, LimitsAssumption DEF VisitOK, Visit, FetchVisit, LoginVisit,
       SignVisit, Away
  <2>4. visit[x[1]].used <= x[2]
    BY <2>1, <2>2, <2>3
  <2> QED BY <2>1, <2>2, <2>4 DEF CallsLeft
<1>2. Cardinality(CallsLeft') <= Cardinality(CallsLeft) /\ Cardinality(CallsLeft') \in Nat
  BY <1>1, CallsLeftFinite, FS_Subset, FS_CardinalityType
<1>3. \A m, n \in Nat : m >= n => m * (Retries + 1) >= n * (Retries + 1)
  BY LimitsAssumption
<1>4. hits[<<"llm">>] \in Nat /\ hits'[<<"llm">>] \in Nat
  BY KeysApart DEF AdmissionTypeOK
<1> QED
  BY <1>2, <1>3, <1>4, CallsLeftFinite, LimitsAssumption DEF SpendCounted, AdmissionTypeOK

\* A step that lets no cause go, and that has one for what it counts or refuses.
LEMMA RefusedKept ==
  ASSUME AdmissionTypeOK, SignsAccounted, signed \subseteq signed', burnt \subseteq burnt',
         \A k \in DedupKeys : hits'[k] = hits[k] \/ Deserved(k)' \/ hits'[k] = 0,
         \A k \in told' : k \in told \/ Deserved(k)',
         \A c \in Caller : visit[c] # Away /\ visit[c].key \in DedupKeys =>
             \/ visit'[c] # Away /\ visit'[c].key = visit[c].key
             \/ visit[c].key \in burnt'
             \/ \E w \in Spelling : visit[c].who \in signed' /\ visit[c].key = DedupKey(visit[c].who, w)
  PROVE  SignsAccounted'
<1>1. ASSUME NEW k \in DedupKeys, Deserved(k) PROVE Deserved(k)'
  BY <1>1 DEF Deserved
<1>2. told \subseteq DedupKeys /\ \A k \in told : Deserved(k)
  BY DEF AdmissionTypeOK, SignsAccounted, RefusedHaveSigned
<1>3. RefusedHaveSigned'
  <2>1. ASSUME NEW k \in told' PROVE Deserved(k)'
    BY <1>1, <1>2
  <2> QED BY <2>1 DEF RefusedHaveSigned
<1>4. HitsDeserved'
  BY <1>1 DEF HitsDeserved, SignsAccounted
<1> QED BY <1>3, <1>4 DEF SignsAccounted

\* A request that ends, or that goes on without comparing or calling: what the
\* counts need of it.
LEMMA RequestMovesOn ==
  ASSUME AdmissionIndInv, NEW c \in Caller, NEW v \in Visit,
         visit' = [visit EXCEPT ![c] = v],
         v = Away \/ (visit[c].at # "away" /\ v.key = visit[c].key /\ v.who = visit[c].who),
         v.at \notin {"compare", "fetch", "address"},
         v.at = "reset" => visit[c].at = "compare",
         v.at = "insert" => visit[c].at \in {"address", "insert"}
  PROVE  /\ VisitOK'
         /\ \A d \in Caller : visit'[d].at = "compare" /\ visit'[d].current =>
               visit[d].at = "compare" /\ visit[d].current /\ visit'[d].who = visit[d].who
         /\ \A d \in Caller : visit'[d].at = "fetch" /\ visit'[d].current =>
               visit[d].at = "fetch" /\ visit[d].current /\ visit[d].used <= visit'[d].used
<1> USE DEF AdmissionIndInv, VisitOK
<1>1. visit'[c] = v /\ \A d \in Caller \ {c} : visit'[d] = visit[d]
  OBVIOUS
<1>2. KeysNameTheirOwner'
  BY <1>1 DEF KeysNameTheirOwner, Away
<1>3. \A d \in Caller : visit[d].at = "fetch" => visit[d].used \in Nat
  BY VisitFields, LimitsAssumption DEF FetchVisit
<1> QED BY <1>1, <1>2, <1>3

LEMMA AbortStep ==
  ASSUME AdmissionIndInv, NEW c \in Caller, Abort(c)
  PROVE  AdmissionIndInv'
<1> USE DEF AdmissionIndInv
<1>1. /\ UNCHANGED <<hits, tries, wrong, sessions, signed, verified, told, paid>>
      /\ visit' = [visit EXCEPT ![c] = Away]
      /\ burnt \subseteq burnt' /\ burnt' \subseteq DedupKeys
      /\ visit[c].key \in DedupKeys => visit[c].key \in burnt'
  BY DEF Abort, loginVars, AdmissionTypeOK
<1>2. Away \in Visit /\ Away.at = "away"
  BY NewVisits DEF Away
<1>3. /\ VisitOK'
      /\ \A d \in Caller : visit'[d].at = "compare" /\ visit'[d].current =>
            visit[d].at = "compare" /\ visit[d].current /\ visit'[d].who = visit[d].who
      /\ \A d \in Caller : visit'[d].at = "fetch" /\ visit'[d].current =>
            visit[d].at = "fetch" /\ visit[d].current /\ visit[d].used <= visit'[d].used
  BY <1>1, <1>2, RequestMovesOn
<1>4. AdmissionTypeOK'
  BY <1>1 DEF AdmissionTypeOK
<1>5. /\ \A k \in Keys : hits[k] \in Nat /\ hits'[k] = hits[k]
      /\ <<"llm">> \in Keys /\ LoginKeys \subseteq Keys /\ hits' \in [Keys -> Nat]
  BY <1>1, KeysApart DEF AdmissionTypeOK
<1>6. GuessesCounted' /\ SpendCounted'
  BY <1>1, <1>3, <1>5, GuessesKept, SpendKept
<1>7. SignsAccounted'
  BY <1>1, RefusedKept DEF VisitOK
<1> QED BY <1>3, <1>4, <1>6, <1>7

\* The step where a comparison ends: it is counted, and no longer to come.
LEMMA CompareEnds ==
  ASSUME AdmissionTypeOK, VisitOK, GuessesCounted, NEW c \in Caller,
         visit[c].at = "compare", Tried(c), hits' = hits,
         visit'[c].at # "compare", \A d \in Caller \ {c} : visit'[d] = visit[d],
         \/ wrong' = wrong
         \/ wrong' = [wrong EXCEPT ![visit[c].who] = IF visit[c].current THEN @ + 1 ELSE @]
  PROVE  GuessesCounted' /\ tries' \in Nat /\ wrong' \in [Account -> Nat]
<1>0. PICK w \in Account : w = visit[c].who
  BY VisitFields DEF LoginVisit
<1>1. CASE visit[c].current
  <2>1. c \in Comparing /\ Comparing' = Comparing \ {c}
    BY <1>1 DEF Comparing
  <2>2. c \in ComparingAs(w) /\ ComparingAs(w)' = ComparingAs(w) \ {c}
    BY <1>0, <2>1 DEF Comparing, ComparingAs
  <2>3. ASSUME NEW a \in Account \ {w} PROVE ComparingAs(a)' = ComparingAs(a)
    <3>1. Comparing \subseteq Caller /\ visit[c].who # a
      BY <1>0 DEF Comparing
    <3>2. \A d \in Comparing \ {c} : visit'[d].who = visit[d].who
      BY <3>1
    <3> QED BY <2>1, <3>1, <3>2 DEF ComparingAs
  <2>4. Cardinality(Comparing') = Cardinality(Comparing) - 1
        /\ Cardinality(ComparingAs(w)') = Cardinality(ComparingAs(w)) - 1
    BY <2>1, <2>2, ComparingFinite, FS_RemoveElement
  <2>5. tries' = tries + 1
    BY <1>1 DEF Tried
  <2>6. wrong' \in [Account -> Nat] /\ wrong'[w] <= wrong[w] + 1
        /\ \A a \in Account \ {w} : wrong'[a] = wrong[a]
    BY <1>0, <1>1 DEF AdmissionTypeOK
  <2>7. hits[<<"ip">>] \in Nat /\ \A a \in Account : hits[<<"user", a>>] \in Nat
    BY KeysApart DEF AdmissionTypeOK, UserKeys
  <2>8. /\ tries' + Cardinality(Comparing') <= hits'[<<"ip">>]
        /\ tries' + Cardinality(Comparing') <= IpLimit
    BY <2>4, <2>5, <2>7, ComparingFinite, LimitsAssumption DEF GuessesCounted, AdmissionTypeOK
  <2>9. ASSUME NEW a \in Account
        PROVE  /\ wrong'[a] + Cardinality(ComparingAs(a)') <= hits'[<<"user", a>>]
               /\ wrong'[a] + Cardinality(ComparingAs(a)') <= UserLimit
    <3>1. CASE a = w
      <4> DEFINE n == Cardinality(ComparingAs(w))
      <4>1. n \in Nat /\ wrong[w] \in Nat /\ wrong'[w] \in Nat /\ hits[<<"user", w>>] \in Nat
        BY <1>0, <2>6, <2>7, ComparingFinite DEF AdmissionTypeOK
      <4>2. wrong[w] + n <= hits[<<"user", w>>] /\ wrong[w] + n <= UserLimit
        BY <1>0 DEF GuessesCounted
      <4>3. Cardinality(ComparingAs(w)') = n - 1 /\ wrong'[w] <= wrong[w] + 1
        BY <2>4, <2>6
      <4> HIDE DEF n
      <4>4. /\ wrong'[w] + Cardinality(ComparingAs(w)') <= hits[<<"user", w>>]
            /\ wrong'[w] + Cardinality(ComparingAs(w)') <= UserLimit
        BY <4>1, <4>2, <4>3, LimitsAssumption
      <4> QED BY <3>1, <4>4
    <3>2. CASE a # w
      BY <2>3, <2>6, <3>2 DEF GuessesCounted
    <3> QED BY <3>1, <3>2
  <2> QED BY <2>5, <2>6, <2>8, <2>9 DEF GuessesCounted, AdmissionTypeOK
<1>2. CASE ~visit[c].current
  <2>1. Comparing' = Comparing
    BY <1>2 DEF Comparing
  <2>2. \A a \in Account : ComparingAs(a)' = ComparingAs(a)
    BY <1>2, <2>1 DEF Comparing, ComparingAs
  <2>3. tries' = tries /\ wrong' = wrong
    BY <1>0, <1>2 DEF Tried, AdmissionTypeOK
  <2> QED BY <2>1, <2>2, <2>3 DEF GuessesCounted, AdmissionTypeOK
<1> QED BY <1>1, <1>2

LEMMA WrongPasswordStep ==
  ASSUME AdmissionIndInv, NEW c \in Caller, WrongPassword(c)
  PROVE  AdmissionIndInv'
<1> USE DEF AdmissionIndInv
<1>1. /\ visit[c].at = "compare" /\ Tried(c)
      /\ UNCHANGED <<hits, sessions, signed, verified, burnt, told, paid>>
      /\ visit' = [visit EXCEPT ![c] = Away]
      /\ wrong' = [wrong EXCEPT ![visit[c].who] = IF visit[c].current THEN @ + 1 ELSE @]
  BY DEF WrongPassword, signVars
<1>2. Away \in Visit /\ Away.at = "away"
  BY NewVisits DEF Away
<1>3. /\ VisitOK'
      /\ \A d \in Caller : visit'[d].at = "fetch" /\ visit'[d].current =>
            visit[d].at = "fetch" /\ visit[d].current /\ visit[d].used <= visit'[d].used
  BY <1>1, <1>2, RequestMovesOn
<1>4. visit'[c].at = "away" /\ \A d \in Caller \ {c} : visit'[d] = visit[d]
  BY <1>1, <1>2 DEF VisitOK
<1>5. GuessesCounted' /\ tries' \in Nat /\ wrong' \in [Account -> Nat]
  BY <1>1, <1>4, CompareEnds
<1>6. AdmissionTypeOK'
  BY <1>1, <1>5 DEF AdmissionTypeOK
<1>7. SpendCounted'
  BY <1>1, <1>3, KeysApart, SpendKept DEF AdmissionTypeOK
<1>8. SignsAccounted'
  <2>1. visit[c].key \notin DedupKeys
    BY <1>1, KeysApart, VisitFields DEF LoginVisit
  <2> QED BY <1>1, <1>4, <2>1, RefusedKept
<1> QED BY <1>3, <1>5, <1>6, <1>7, <1>8

LEMMA RightPasswordStep ==
  ASSUME AdmissionIndInv, NEW c \in Caller, NEW barred \in BOOLEAN, RightPassword(c, barred)
  PROVE  AdmissionIndInv'
<1> USE DEF AdmissionIndInv
<1>1. /\ visit[c].at = "compare" /\ Tried(c)
      /\ UNCHANGED <<hits, wrong, sessions, signed, verified, burnt, told, paid>>
  BY DEF RightPassword, signVars
<1>2. Away \in Visit /\ Away.at = "away" /\ visit[c] \in LoginVisit
  BY <1>1, NewVisits, VisitFields DEF Away
<1>3. PICK v \in Visit : /\ visit' = [visit EXCEPT ![c] = v]
                         /\ \/ v = Away
                            \/ v.at = "reset" /\ v.key = visit[c].key /\ v.who = visit[c].who
  <2>1. CASE barred
    BY <1>2, <2>1 DEF RightPassword
  <2>2. CASE ~barred
    <3>1. visit' = [visit EXCEPT ![c] = [visit[c] EXCEPT !.at = "reset"]]
      BY <2>2 DEF RightPassword
    <3>2. LET y == [visit[c] EXCEPT !.at = "reset"]
          IN y \in LoginVisit /\ y.at = "reset" /\ y.key = visit[c].key
             /\ y.who = visit[c].who
      BY <1>2, VisitsGoOn
    <3> QED BY <3>1, <3>2 DEF Visit
  <2> QED BY <2>1, <2>2
<1>4. /\ VisitOK'
      /\ \A d \in Caller : visit'[d].at = "fetch" /\ visit'[d].current =>
            visit[d].at = "fetch" /\ visit[d].current /\ visit[d].used <= visit'[d].used
  BY <1>1, <1>2, <1>3, RequestMovesOn
<1>5. visit'[c].at # "compare" /\ \A d \in Caller \ {c} : visit'[d] = visit[d]
  BY <1>2, <1>3 DEF VisitOK
<1>6. GuessesCounted' /\ tries' \in Nat /\ wrong' \in [Account -> Nat]
  BY <1>1, <1>5, CompareEnds
<1>7. AdmissionTypeOK'
  BY <1>1, <1>6 DEF AdmissionTypeOK
<1>8. SpendCounted'
  BY <1>1, <1>4, KeysApart, SpendKept DEF AdmissionTypeOK
<1>9. SignsAccounted'
  <2>1. visit[c].key \notin DedupKeys
    BY <1>2, KeysApart DEF LoginVisit
  <2> QED BY <1>1, <1>5, <2>1, RefusedKept
<1> QED BY <1>4, <1>6, <1>7, <1>8, <1>9

LEMMA RequestStarts ==
  ASSUME VisitOK, NEW c \in Caller, NEW v \in LoginVisit \cup SignVisit \cup FetchVisit,
         visit' = [visit EXCEPT ![c] = v],
         v \in LoginVisit => v.key = <<"user", v.who>>,
         v.key \in DedupKeys => \E w \in Spelling : v.key = DedupKey(v.who, w),
         v.at = "address" => v.key \in DedupKeys
  PROVE  VisitOK' /\ visit'[c] = v /\ \A d \in Caller \ {c} : visit'[d] = visit[d]
<1>1. /\ visit' \in [Caller -> Visit]
      /\ visit'[c] = v /\ \A d \in Caller \ {c} : visit'[d] = visit[d]
  BY DEF VisitOK, Visit
<1>2. v.at \in {"compare", "reset"} => v \in LoginVisit
  BY DEF SignVisit, FetchVisit, LoginVisit
<1>3. KeysNameTheirOwner'
  BY <1>1, <1>2 DEF VisitOK, KeysNameTheirOwner
<1> QED BY <1>1, <1>3 DEF VisitOK

\* Nobody starts, but the limiter may count a hit.
LEMMA OnlyHits ==
  ASSUME AdmissionIndInv, NEW ks \in SUBSET Keys, hitRateLimit(ks),
         \A k \in DedupKeys : hits'[k] = hits[k] \/ Deserved(k)',
         \A k \in told' : k \in told \/ Deserved(k)',
         burnt \subseteq burnt', burnt' \subseteq DedupKeys, told' \subseteq DedupKeys,
         UNCHANGED <<visit, tries, wrong, sessions, signed, verified, paid>>
  PROVE  AdmissionIndInv'
<1> USE DEF AdmissionIndInv
<1>1. /\ hits' \in [Keys -> Nat] /\ \A k \in Keys : hits'[k] <= LimitOf(k)
      /\ \A k \in Keys : hits'[k] >= hits[k]
  BY HitsGrow
<1>2. AdmissionTypeOK'
  BY <1>1 DEF AdmissionTypeOK
<1>3. VisitOK'
  BY DEF VisitOK, KeysNameTheirOwner
<1>4. SignsAccounted'
  BY <1>1, RefusedKept
<1>5. GuessesCounted'
  BY <1>1, KeysApart, GuessesKept
<1>6. SpendCounted'
  <2>1. \A d \in Caller : visit[d].at = "fetch" => visit[d].used \in Nat
    BY VisitFields, LimitsAssumption DEF FetchVisit
  <2> QED BY <1>1, <1>3, <2>1, KeysApart, SpendKept
<1> QED BY <1>2, <1>3, <1>4, <1>5, <1>6

\* The limiter fails closed: the hits may be counted, nobody comes in, and who
\* wanted to sign has an attempt that failed.
LEMMA FailClosedStep ==
  ASSUME AdmissionIndInv, NEW c \in Caller, NEW ks \in SUBSET Keys, FailClosed(c, ks)
  PROVE  AdmissionIndInv'
<1> USE DEF AdmissionIndInv
<1>1. PICK counted \in SUBSET ks : hitRateLimit(counted)
  BY DEF FailClosed
<1>2. /\ UNCHANGED <<visit, tries, wrong, sessions, signed, verified, paid>>
      /\ burnt' = burnt \cup (ks \cap DedupKeys) /\ told' = told \cup (ks \cap DedupKeys)
      /\ counted \in SUBSET Keys /\ burnt' \subseteq DedupKeys /\ told' \subseteq DedupKeys
  BY <1>1 DEF FailClosed, loginVars, AdmissionTypeOK
<1>3. \A k \in Keys \ counted : hits'[k] = hits[k]
  BY <1>1, <1>2, HitsGrow
<1>4. \A k \in ks \cap DedupKeys : Deserved(k)'
  BY <1>2 DEF Deserved
<1>5. \A k \in DedupKeys : hits'[k] = hits[k] \/ Deserved(k)'
  BY <1>1, <1>3, <1>4, KeysApart
<1>6. \A k \in told' : k \in told \/ Deserved(k)'
  BY <1>2, <1>4
<1> QED BY <1>1, <1>2, <1>5, <1>6, OnlyHits

LEMMA BeginLoginStep ==
  ASSUME AdmissionIndInv, NEW c \in Caller, NEW a \in Account, BeginLogin(c, a)
  PROVE  AdmissionIndInv'
<1> USE DEF AdmissionIndInv
<1> DEFINE ks == {<<"ip">>, <<"user", a>>}
           v == [at |-> "compare", key |-> <<"user", a>>, who |-> a,
                 current |-> TRUE, used |-> 0]
<1>1. /\ ks \in SUBSET Keys /\ hitRateLimit(ks) /\ visit[c] = Away
      /\ UNCHANGED <<tries, wrong, sessions, signed, verified, burnt, told, paid>>
      /\ ks \cap DedupKeys = {} /\ <<"llm">> \notin ks /\ \A b \in Account : <<"user", b>> \in Keys
  BY KeysApart DEF BeginLogin, loginVars, signVars, UserKeys
<1>2. /\ hits' \in [Keys -> Nat] /\ \A k \in Keys : hits'[k] <= LimitOf(k)
      /\ \A k \in Keys : hits'[k] >= hits[k]
      /\ \A k \in DedupKeys : hits'[k] = hits[k]
  BY <1>1, KeysApart, HitsGrow
<1>3. CASE ~(Allowed(<<"ip">>) /\ Allowed(<<"user", a>>))
  <2>1. visit' = visit
    BY <1>1, <1>3 DEF BeginLogin, VisitOK
  <2> QED BY <1>1, <1>2, <2>1, OnlyHits DEF AdmissionTypeOK
<1>4. CASE Allowed(<<"ip">>) /\ Allowed(<<"user", a>>)
  <2>1. v \in LoginVisit /\ v.key = <<"user", v.who>> /\ v.key \notin DedupKeys
    BY <1>1, NewVisits
  <2>2. visit' = [visit EXCEPT ![c] = v]
    BY <1>4 DEF BeginLogin
  <2>3. VisitOK' /\ visit'[c] = v /\ \A d \in Caller \ {c} : visit'[d] = visit[d]
    BY <2>1, <2>2, RequestStarts
  <2>4. /\ hits'[<<"ip">>] = hits[<<"ip">>] + 1 /\ hits'[<<"ip">>] <= IpLimit
        /\ hits'[<<"user", a>>] = hits[<<"user", a>>] + 1 /\ hits'[<<"user", a>>] <= UserLimit
    BY <1>1, <1>4, HitsGrow, Limits
  <2>5. visit[c].at = "away"
    BY <1>1 DEF Away
  <2>6. c \notin Comparing /\ Comparing' = Comparing \cup {c}
    BY <2>3, <2>5 DEF Comparing
  <2>7. c \notin ComparingAs(a) /\ ComparingAs(a)' = ComparingAs(a) \cup {c}
    BY <2>3, <2>6 DEF Comparing, ComparingAs
  <2>8. ASSUME NEW b \in Account \ {a} PROVE ComparingAs(b)' = ComparingAs(b)
    <3>1. Comparing \subseteq Caller /\ visit'[c].who # b
      BY <2>3 DEF Comparing
    <3>2. \A d \in Comparing : visit'[d].who = visit[d].who
      BY <2>3, <2>6, <3>1
    <3> QED BY <2>6, <3>1, <3>2 DEF ComparingAs
  <2>9. /\ Cardinality(Comparing') = Cardinality(Comparing) + 1
        /\ Cardinality(ComparingAs(a)') = Cardinality(ComparingAs(a)) + 1
    BY <2>6, <2>7, ComparingFinite, FS_AddElement
  <2>10. /\ tries' + Cardinality(Comparing') <= hits'[<<"ip">>]
         /\ tries' + Cardinality(Comparing') <= IpLimit
    BY <1>1, <2>4, <2>9, ComparingFinite, LimitsAssumption DEF GuessesCounted, AdmissionTypeOK
  <2>11. ASSUME NEW b \in Account
         PROVE  /\ wrong'[b] + Cardinality(ComparingAs(b)') <= hits'[<<"user", b>>]
                /\ wrong'[b] + Cardinality(ComparingAs(b)') <= UserLimit
    <3>1. CASE b = a
      <4> DEFINE n == Cardinality(ComparingAs(a))
      <4>1. n \in Nat /\ wrong[a] \in Nat /\ hits[<<"user", a>>] \in Nat
        BY <1>1, ComparingFinite DEF AdmissionTypeOK
      <4>2. wrong[a] + n <= hits[<<"user", a>>]
        BY DEF GuessesCounted
      <4>3. Cardinality(ComparingAs(a)') = n + 1
        BY <2>9
      <4> HIDE DEF n
      <4> QED BY <1>1, <2>4, <3>1, <4>1, <4>2, <4>3, LimitsAssumption
    <3>2. CASE b # a
      <4>1. hits'[<<"user", b>>] >= hits[<<"user", b>>] /\ hits'[<<"user", b>>] \in Nat
            /\ hits[<<"user", b>>] \in Nat
        BY <1>1, <1>2 DEF AdmissionTypeOK
      <4>2. ComparingAs(b)' = ComparingAs(b)
        BY <2>8, <3>2
      <4>3. Cardinality(ComparingAs(b)) \in Nat /\ wrong[b] \in Nat
        BY ComparingFinite DEF AdmissionTypeOK
      <4> QED BY <1>1, <4>1, <4>2, <4>3 DEF GuessesCounted
    <3> QED BY <3>1, <3>2
  <2>12. GuessesCounted'
    BY <2>10, <2>11 DEF GuessesCounted
  <2>13. SpendCounted'
    <3>1. \A d \in Caller : visit'[d].at = "fetch" /\ visit'[d].current =>
             visit[d].at = "fetch" /\ visit[d].current /\ visit[d].used <= visit'[d].used
      BY <2>3, VisitFields, LimitsAssumption DEF FetchVisit
    <3> QED BY <1>1, <1>2, <2>3, <3>1, KeysApart, SpendKept
  <2>14. SignsAccounted'
    BY <1>1, <1>2, <2>3, RefusedKept
  <2>15. AdmissionTypeOK'
    BY <1>1, <1>2 DEF AdmissionTypeOK
  <2> QED BY <2>3, <2>12, <2>13, <2>14, <2>15
<1> QED BY <1>3, <1>4

\* A window closes on some requests, and others end.
LEMMA LeftBehind ==
  ASSUME VisitOK, NEW gone \in SUBSET Caller, NEW old \in SUBSET Caller,
         \A q \in old : visit[q] # Away,
         visit' \in [Caller -> {visit'[q] : q \in Caller}],
         \A q \in Caller : visit'[q] = IF q \in gone THEN Away
                                       ELSE IF q \in old
                                       THEN [visit[q] EXCEPT !.current = FALSE]
                                       ELSE visit[q]
  PROVE  /\ VisitOK'
         /\ \A q \in gone : visit'[q] = Away /\ visit'[q].at = "away"
         /\ \A q \in old \ gone :
               /\ visit'[q] # Away /\ ~visit'[q].current /\ visit'[q].at = visit[q].at
               /\ visit'[q].key = visit[q].key /\ visit'[q].who = visit[q].who
         /\ \A q \in Caller \ (gone \cup old) : visit'[q] = visit[q]
<1>1. \A q \in gone : visit'[q] = Away /\ visit'[q].at = "away" /\ visit'[q] \in Visit
  BY NewVisits DEF Away
<1>2. ASSUME NEW q \in old \ gone
      PROVE  /\ visit'[q] \in Visit /\ ~visit'[q].current /\ visit'[q].at = visit[q].at
             /\ visit'[q].key = visit[q].key /\ visit'[q].who = visit[q].who
             /\ visit'[q] # Away
  <2>1. visit[q] \in LoginVisit \cup SignVisit \cup FetchVisit /\ visit[q].at # "away"
    BY VisitFields DEF VisitOK, Visit
  <2>2. LET y == [visit[q] EXCEPT !.current = FALSE]
        IN /\ y \in Visit /\ y.at = visit[q].at /\ y.key = visit[q].key
           /\ y.who = visit[q].who /\ ~y.current
    BY <2>1, VisitsGoOn
  <2>3. visit'[q] = [visit[q] EXCEPT !.current = FALSE]
    OBVIOUS
  <2> QED BY <2>1, <2>2, <2>3 DEF Away
<1>3. \A q \in Caller \ (gone \cup old) : visit'[q] = visit[q] /\ visit'[q] \in Visit
  BY DEF VisitOK
<1>4. visit' \in [Caller -> Visit]
  BY <1>1, <1>2, <1>3
<1>5. KeysNameTheirOwner'
  BY <1>1, <1>2, <1>3 DEF VisitOK, KeysNameTheirOwner
<1> QED BY <1>1, <1>2, <1>3, <1>4, <1>5 DEF VisitOK

LEMMA ResetStep ==
  ASSUME AdmissionIndInv, NEW c \in Caller, resetRateLimit(c)
  PROVE  AdmissionIndInv'
<1> USE DEF AdmissionIndInv
<1>0. PICK w \in Account : w = visit[c].who /\ visit[c].key = <<"user", w>>
  BY VisitFields DEF LoginVisit, resetRateLimit
<1>1. /\ UNCHANGED <<tries, signed, verified, burnt, told, paid>>
      /\ visit[c].at = "reset" /\ sessions' = sessions \cup {w}
      /\ hits' = [hits EXCEPT ![<<"user", w>>] = 0] /\ wrong' = [wrong EXCEPT ![w] = 0]
  BY <1>0 DEF resetRateLimit, signVars
<1>a. PICK old \in SUBSET Caller :
          old = {q \in Caller : visit[q] # Away /\ visit[q].key = <<"user", w>>}
  OBVIOUS
<1>2. /\ VisitOK'
      /\ visit'[c] = Away /\ visit'[c].at = "away"
      /\ \A q \in old \ {c} :
            /\ visit'[q] # Away /\ ~visit'[q].current /\ visit'[q].at = visit[q].at
            /\ visit'[q].key = visit[q].key /\ visit'[q].who = visit[q].who
      /\ \A q \in Caller \ ({c} \cup old) : visit'[q] = visit[q]
  <2>1. \A q \in Caller : visit'[q] = IF q \in {c} THEN Away
                                      ELSE IF q \in old
                                      THEN [visit[q] EXCEPT !.current = FALSE]
                                      ELSE visit[q]
    BY <1>0, <1>a DEF resetRateLimit
  <2>2. visit' \in [Caller -> {visit'[q] : q \in Caller}]
    BY DEF resetRateLimit
  <2>3. {c} \in SUBSET Caller /\ \A q \in old : visit[q] # Away
    BY <1>a
  <2>4. /\ VisitOK'
        /\ \A q \in {c} : visit'[q] = Away /\ visit'[q].at = "away"
        /\ \A q \in old \ {c} :
              /\ visit'[q] # Away /\ ~visit'[q].current /\ visit'[q].at = visit[q].at
              /\ visit'[q].key = visit[q].key /\ visit'[q].who = visit[q].who
        /\ \A q \in Caller \ ({c} \cup old) : visit'[q] = visit[q]
    BY <2>1, <2>2, <2>3, LeftBehind
  <2> QED BY <2>4
<1>3. /\ <<"user", w>> \in Keys /\ \A k \in Keys \ {<<"user", w>>} : hits'[k] = hits[k]
      /\ hits'[<<"user", w>>] = 0 /\ hits' \in [Keys -> Nat]
      /\ \A b \in Account : <<"user", b>> \in Keys /\ (b # w => <<"user", b>> # <<"user", w>>)
      /\ \A k \in DedupKeys : hits'[k] = hits[k]
      /\ <<"ip">> \in Keys /\ hits'[<<"ip">>] = hits[<<"ip">>]
      /\ <<"llm">> \in Keys /\ hits'[<<"llm">>] = hits[<<"llm">>]
  <2>1. <<"user", w>> \in UserKeys /\ \A b \in Account : <<"user", b>> \in UserKeys
    BY DEF UserKeys
  <2>2. /\ <<"user", w>> \in Keys /\ <<"user", w>> \notin DedupKeys
        /\ <<"user", w>> # <<"ip">> /\ <<"user", w>> # <<"llm">>
        /\ <<"ip">> \in Keys /\ <<"llm">> \in Keys /\ DedupKeys \subseteq Keys
        /\ \A b \in Account : <<"user", b>> \in Keys /\ (b # w => <<"user", b>> # <<"user", w>>)
    BY <2>1, KeysApart
  <2> QED BY <1>1, <2>2 DEF AdmissionTypeOK
<1>4. AdmissionTypeOK'
  <2>1. \A k \in Keys : hits'[k] <= LimitOf(k)
    BY <1>3, Limits DEF AdmissionTypeOK
  <2> QED BY <1>1, <1>3, <2>1 DEF AdmissionTypeOK
<1>5. Comparing' \subseteq Comparing
  BY <1>2 DEF Comparing
<1>6. Cardinality(Comparing') <= Cardinality(Comparing) /\ Cardinality(Comparing') \in Nat
  BY <1>5, ComparingFinite, FS_Subset, FS_CardinalityType
<1>7. ASSUME NEW a \in Account
      PROVE  /\ wrong'[a] + Cardinality(ComparingAs(a)') <= hits'[<<"user", a>>]
             /\ wrong'[a] + Cardinality(ComparingAs(a)') <= UserLimit
  <2>1. CASE a = w
    <3>1. ComparingAs(w)' = {}
      <4> SUFFICES ASSUME NEW q \in ComparingAs(w)' PROVE FALSE
        OBVIOUS
      <4>1. q \in Caller /\ visit'[q].at = "compare" /\ visit'[q].current /\ visit'[q].who = w
        BY DEF ComparingAs, Comparing
      <4>2. visit[q].at = "compare" /\ visit[q].who = w /\ q \notin old
        BY <1>2, <4>1
      <4> QED BY <1>a, <4>1, <4>2, VisitFields
    <3>2. wrong'[w] = 0
      BY <1>1 DEF AdmissionTypeOK
    <3>3. Cardinality(ComparingAs(w)') = 0
      BY <3>1, FS_EmptySet
    <3> QED BY <1>3, <2>1, <3>2, <3>3, LimitsAssumption
  <2>2. CASE a # w
    <3>1. ComparingAs(a)' \subseteq ComparingAs(a)
      BY <1>2 DEF Comparing, ComparingAs
    <3>2. Cardinality(ComparingAs(a)') <= Cardinality(ComparingAs(a))
          /\ Cardinality(ComparingAs(a)') \in Nat /\ Cardinality(ComparingAs(a)) \in Nat
      BY <3>1, ComparingFinite, FS_Subset, FS_CardinalityType
    <3>3. wrong'[a] = wrong[a] /\ hits'[<<"user", a>>] = hits[<<"user", a>>]
          /\ wrong[a] \in Nat /\ hits[<<"user", a>>] \in Nat
      BY <1>1, <1>3, <2>2 DEF AdmissionTypeOK
    <3> QED BY <3>2, <3>3, LimitsAssumption DEF GuessesCounted
  <2> QED BY <2>1, <2>2
<1>8. GuessesCounted'
  <2>1. hits[<<"ip">>] \in Nat /\ tries \in Nat
    BY <1>3 DEF AdmissionTypeOK
  <2>2. tries' + Cardinality(Comparing') <= hits'[<<"ip">>]
        /\ tries' + Cardinality(Comparing') <= IpLimit
    BY <1>1, <1>3, <1>6, <2>1, ComparingFinite, LimitsAssumption DEF GuessesCounted
  <2> QED BY <1>7, <2>2 DEF GuessesCounted
<1>9. SpendCounted'
  <2>1. \A d \in Caller : visit'[d].at = "fetch" /\ visit'[d].current =>
           visit[d].at = "fetch" /\ visit[d].current /\ visit[d].used <= visit'[d].used
    BY <1>2, VisitFields, LimitsAssumption DEF FetchVisit
  <2>2. hits'[<<"llm">>] >= hits[<<"llm">>]
    BY <1>3 DEF AdmissionTypeOK
  <2> QED BY <1>1, <1>2, <1>3, <2>1, <2>2, SpendKept
<1>10. SignsAccounted'
  <2>1. \A d \in Caller : visit[d] # Away /\ visit[d].key \in DedupKeys =>
           visit'[d] # Away /\ visit'[d].key = visit[d].key
    <3>1. <<"user", w>> \notin DedupKeys
      BY KeysApart DEF UserKeys
    <3> QED BY <1>0, <1>2, <3>1
  <2> QED BY <1>1, <1>3, <2>1, RefusedKept
<1> QED BY <1>2, <1>4, <1>8, <1>9, <1>10

\* The reset fails: the request ends with its session, and its window goes on.
LEMMA ResetFailsStep ==
  ASSUME AdmissionIndInv, NEW c \in Caller, ResetFails(c)
  PROVE  AdmissionIndInv'
<1> USE DEF AdmissionIndInv
<1>1. /\ UNCHANGED <<hits, tries, wrong, signed, verified, burnt, told, paid>>
      /\ visit[c].at = "reset" /\ visit' = [visit EXCEPT ![c] = Away]
      /\ sessions' = sessions \cup {visit[c].who}
  BY DEF ResetFails, signVars
<1>2. Away \in Visit /\ Away.at = "away" /\ visit[c].who \in Account
      /\ visit[c].key \notin DedupKeys
  BY <1>1, NewVisits, VisitFields, KeysApart DEF Away, LoginVisit
<1>3. /\ VisitOK'
      /\ \A d \in Caller : visit'[d].at = "compare" /\ visit'[d].current =>
            visit[d].at = "compare" /\ visit[d].current /\ visit'[d].who = visit[d].who
      /\ \A d \in Caller : visit'[d].at = "fetch" /\ visit'[d].current =>
            visit[d].at = "fetch" /\ visit[d].current /\ visit[d].used <= visit'[d].used
  BY <1>1, <1>2, RequestMovesOn
<1>4. AdmissionTypeOK'
  BY <1>1, <1>2 DEF AdmissionTypeOK
<1>5. /\ \A k \in Keys : hits[k] \in Nat /\ hits'[k] = hits[k]
      /\ <<"llm">> \in Keys /\ LoginKeys \subseteq Keys /\ hits' \in [Keys -> Nat]
  BY <1>1, KeysApart DEF AdmissionTypeOK
<1>6. GuessesCounted' /\ SpendCounted'
  BY <1>1, <1>3, <1>5, GuessesKept, SpendKept
<1>7. \A d \in Caller \ {c} : visit'[d] = visit[d]
  BY <1>1 DEF VisitOK
<1>8. SignsAccounted'
  BY <1>1, <1>2, <1>7, RefusedKept
<1> QED BY <1>3, <1>4, <1>6, <1>8

LEMMA WindowClosesStep ==
  ASSUME AdmissionIndInv, NEW keys \in {LoginKeys, HourKeys, DedupKeys}, WindowCloses(keys)
  PROVE  AdmissionIndInv'
<1> USE DEF AdmissionIndInv
<1>a. PICK old \in SUBSET Caller :
          old = {q \in Caller : visit[q] # Away /\ visit[q].key \in keys \ DedupKeys}
  OBVIOUS
<1>1. UNCHANGED <<sessions, signed, verified>> /\ keys \subseteq Keys
  BY KeysApart DEF WindowCloses
<1>2. /\ VisitOK'
      /\ \A q \in old :
            /\ visit'[q] # Away /\ ~visit'[q].current /\ visit'[q].at = visit[q].at
            /\ visit'[q].key = visit[q].key /\ visit'[q].who = visit[q].who
      /\ \A q \in Caller \ old : visit'[q] = visit[q]
  <2>1. \A q \in Caller : visit'[q] = IF q \in {} THEN Away
                                      ELSE IF q \in old
                                      THEN [visit[q] EXCEPT !.current = FALSE]
                                      ELSE visit[q]
    BY <1>a DEF WindowCloses
  <2>2. visit' \in [Caller -> {visit'[q] : q \in Caller}]
    BY DEF WindowCloses
  <2>3. {} \in SUBSET Caller /\ \A q \in old : visit[q] # Away
    BY <1>a
  <2>4. /\ VisitOK'
        /\ \A q \in old \ {} :
              /\ visit'[q] # Away /\ ~visit'[q].current /\ visit'[q].at = visit[q].at
              /\ visit'[q].key = visit[q].key /\ visit'[q].who = visit[q].who
        /\ \A q \in Caller \ ({} \cup old) : visit'[q] = visit[q]
    BY <2>1, <2>2, <2>3, LeftBehind
  <2> QED BY <2>4
<1>3. /\ hits' \in [Keys -> Nat] /\ \A k \in keys : hits'[k] = 0
      /\ \A k \in Keys \ keys : hits'[k] = hits[k]
  BY <1>1 DEF WindowCloses, AdmissionTypeOK
<1>4. /\ keys = LoginKeys => keys # HourKeys /\ keys # DedupKeys
      /\ keys # LoginKeys => UNCHANGED <<tries, wrong>>
      /\ keys # HourKeys => paid' = paid
      /\ keys # DedupKeys => UNCHANGED <<burnt, told>>
      /\ keys = LoginKeys => tries' = 0 /\ wrong' = [a \in Account |-> 0]
      /\ keys = HourKeys => paid' = 0
      /\ keys = DedupKeys => burnt' = {} /\ told' = {}
      /\ keys = HourKeys => keys # DedupKeys
  BY KeysApart DEF WindowCloses
<1>5. AdmissionTypeOK'
  <2>1. \A k \in Keys : hits'[k] <= LimitOf(k)
    BY <1>1, <1>3, Limits DEF AdmissionTypeOK
  <2>2. tries' \in Nat /\ paid' \in Nat /\ wrong' \in [Account -> Nat]
        /\ burnt' \subseteq DedupKeys /\ told' \subseteq DedupKeys
    BY <1>4 DEF AdmissionTypeOK
  <2> QED BY <1>1, <1>3, <2>1, <2>2 DEF AdmissionTypeOK
<1>6. GuessesCounted'
  <2>1. CASE keys = LoginKeys
    <3>1. Comparing' = {}
      <4> SUFFICES ASSUME NEW q \in Comparing' PROVE FALSE
        OBVIOUS
      <4>1. q \in Caller /\ visit'[q].at = "compare" /\ visit'[q].current
        BY DEF Comparing
      <4>2. visit[q].at = "compare" /\ q \notin old
        BY <1>2, <4>1
      <4> QED BY <1>a, <2>1, <4>1, <4>2, KeysApart, VisitFields DEF LoginVisit
    <3>2. \A a \in Account : ComparingAs(a)' = {}
      BY <3>1 DEF ComparingAs
    <3>3. /\ Cardinality(Comparing') = 0 /\ \A a \in Account : Cardinality(ComparingAs(a)') = 0
      BY <3>1, <3>2, FS_EmptySet
    <3>4. hits'[<<"ip">>] = 0 /\ \A a \in Account : hits'[<<"user", a>>] = 0
      BY <1>3, <2>1, KeysApart DEF UserKeys
    <3> QED BY <1>4, <2>1, <3>3, <3>4, LimitsAssumption DEF GuessesCounted
  <2>2. CASE keys # LoginKeys
    <3>1. \A k \in LoginKeys : k \in Keys \ keys
      BY <2>2, KeysApart
    <3>2. \A k \in LoginKeys : hits'[k] = hits[k] /\ hits[k] \in Nat
      BY <1>3, <3>1 DEF AdmissionTypeOK
    <3>3. \A c \in Caller : visit'[c].at = "compare" /\ visit'[c].current =>
             visit[c].at = "compare" /\ visit[c].current /\ visit'[c].who = visit[c].who
      BY <1>2
    <3> QED BY <1>3, <1>4, <2>2, <3>2, <3>3, GuessesKept
  <2> QED BY <2>1, <2>2
<1>7. SpendCounted'
  <2>1. CASE keys = HourKeys
    <3>1. CallsLeft' = {}
      <4> SUFFICES ASSUME NEW x \in CallsLeft' PROVE FALSE
        OBVIOUS
      <4>1. x[1] \in Caller /\ visit'[x[1]].at = "fetch" /\ visit'[x[1]].current
        BY DEF CallsLeft
      <4>2. visit[x[1]].at = "fetch" /\ x[1] \notin old
        BY <1>2, <4>1
      <4> QED BY <1>a, <2>1, <4>1, <4>2, KeysApart, VisitFields DEF FetchVisit
    <3>2. Cardinality(CallsLeft') = 0
      BY <3>1, FS_EmptySet
    <3>3. hits'[<<"llm">>] = 0 /\ 0 * (Retries + 1) = 0 /\ LlmLimit * (Retries + 1) >= 0
      BY <1>3, <2>1, KeysApart, LimitsAssumption
    <3> QED BY <1>4, <2>1, <3>2, <3>3 DEF SpendCounted
  <2>2. CASE keys # HourKeys
    <3>1. <<"llm">> \in Keys \ keys
      BY <2>2, KeysApart
    <3>2. hits'[<<"llm">>] >= hits[<<"llm">>]
      BY <1>3, <3>1 DEF AdmissionTypeOK
    <3>3. \A d \in Caller : visit'[d].at = "fetch" /\ visit'[d].current =>
             visit[d].at = "fetch" /\ visit[d].current /\ visit[d].used <= visit'[d].used
      BY <1>2, VisitFields, LimitsAssumption DEF FetchVisit
    <3> QED BY <1>2, <1>3, <1>4, <2>2, <3>2, <3>3, SpendKept
  <2> QED BY <2>1, <2>2
<1>8. SignsAccounted'
  <2>1. CASE keys = DedupKeys
    BY <1>3, <1>4, <2>1 DEF SignsAccounted, RefusedHaveSigned, HitsDeserved
  <2>2. CASE keys # DedupKeys
    <3>1. \A k \in DedupKeys : hits'[k] = hits[k]
      BY <1>3, <2>2, KeysApart
    <3> QED BY <1>1, <1>2, <1>4, <2>2, <3>1, RefusedKept
  <2> QED BY <2>1, <2>2
<1> QED BY <1>2, <1>5, <1>6, <1>7, <1>8

LEMMA BeginPublicSignStep ==
  ASSUME AdmissionIndInv, NEW c \in Caller, NEW p \in Signer, NEW w \in Spelling,
         BeginPublicSign(c, p, w)
  PROVE  AdmissionIndInv'
<1> USE DEF AdmissionIndInv
<1>0. PICK k : k = DedupKey(p, w)
  OBVIOUS
<1> DEFINE v == [at |-> "address", key |-> k, who |-> p, current |-> TRUE, used |-> 0]
<1>1. /\ k \in DedupKeys /\ {k} \in SUBSET Keys /\ hitRateLimit({k})
      /\ visit[c] = Away /\ visit[c].at = "away"
      /\ told' = IF Allowed(k) THEN told ELSE told \cup {k}
      /\ UNCHANGED <<tries, wrong, sessions, signed, verified, burnt, paid>>
  BY <1>0, KeysApart DEF BeginPublicSign, loginVars, DedupKeys, Away
<1>2. /\ hits' \in [Keys -> Nat] /\ \A j \in Keys : hits'[j] <= LimitOf(j)
      /\ \A j \in Keys : hits'[j] >= hits[j]
      /\ \A j \in Keys \ {k} : hits'[j] = hits[j]
  BY <1>1, HitsGrow
<1>3. CASE ~Allowed(k)
  <2>1. hits[k] >= 1
    BY <1>1, <1>3, HitsGrow, Limits
  <2>2. Deserved(k)
    BY <1>1, <2>1 DEF SignsAccounted, HitsDeserved, AdmissionTypeOK
  <2>3. visit' = visit
    BY <1>0, <1>3 DEF BeginPublicSign
  <2>4. Deserved(k)'
    BY <1>1, <2>2, <2>3 DEF Deserved
  <2>5. \A j \in DedupKeys : hits'[j] = hits[j] \/ Deserved(j)'
    BY <1>2, <2>4, KeysApart
  <2>6. told' = told \cup {k} /\ told' \subseteq DedupKeys /\ burnt \subseteq DedupKeys
    BY <1>1, <1>3 DEF AdmissionTypeOK
  <2>7. \A j \in told' : j \in told \/ Deserved(j)'
    BY <2>4, <2>6
  <2> QED BY <1>1, <2>3, <2>5, <2>6, <2>7, OnlyHits
<1>4. CASE Allowed(k)
  <2>1. v \in SignVisit /\ v \notin LoginVisit
    BY <1>0, NewVisits DEF LoginVisit
  <2>2. visit' = [visit EXCEPT ![c] = v]
    BY <1>0, <1>4 DEF BeginPublicSign
  <2>3. VisitOK' /\ visit'[c] = v /\ \A d \in Caller \ {c} : visit'[d] = visit[d]
    BY <1>0, <1>1, <2>1, <2>2, RequestStarts
  <2>4. AdmissionTypeOK'
    BY <1>1, <1>2, <1>4 DEF AdmissionTypeOK
  <2>5. GuessesCounted'
    <3>1. \A d \in Caller : visit'[d].at = "compare" /\ visit'[d].current =>
             visit[d].at = "compare" /\ visit[d].current /\ visit'[d].who = visit[d].who
      BY <2>3
    <3> QED BY <1>1, <1>2, <3>1, KeysApart, GuessesKept
  <2>6. SpendCounted'
    <3>1. \A d \in Caller : visit'[d].at = "fetch" /\ visit'[d].current =>
             visit[d].at = "fetch" /\ visit[d].current /\ visit[d].used <= visit'[d].used
      BY <2>3, VisitFields, LimitsAssumption DEF FetchVisit
    <3> QED BY <1>1, <1>2, <2>3, <3>1, KeysApart, SpendKept
  <2>7. SignsAccounted'
    <3>1. visit'[c] # Away /\ visit'[c].key = k
      BY <2>3 DEF Away
    <3>2. Deserved(k)'
      BY <3>1 DEF Deserved
    <3>3. \A j \in DedupKeys : hits'[j] = hits[j] \/ Deserved(j)'
      BY <1>2, <3>2, KeysApart
    <3>4. told' = told
      BY <1>1, <1>4
    <3> QED BY <1>1, <2>3, <3>3, <3>4, RefusedKept
  <2> QED BY <2>3, <2>4, <2>5, <2>6, <2>7
<1> QED BY <1>3, <1>4

LEMMA CheckAddressStep ==
  ASSUME AdmissionIndInv, NEW c \in Caller, CheckAddress(c)
  PROVE  AdmissionIndInv'
<1> USE DEF AdmissionIndInv
<1>1. /\ <<"signip">> \in Keys /\ <<"signip">> \notin DedupKeys /\ hitRateLimit({<<"signip">>})
      /\ visit[c].at = "address" /\ visit[c] \in SignVisit /\ Away.at = "away"
      /\ UNCHANGED <<tries, wrong, sessions, signed, verified, told, paid>>
  BY KeysApart, VisitFields DEF CheckAddress, loginVars, Away
<1>2. /\ hits' \in [Keys -> Nat] /\ \A j \in Keys : hits'[j] <= LimitOf(j)
      /\ \A j \in Keys : hits'[j] >= hits[j]
      /\ \A j \in DedupKeys : hits'[j] = hits[j]
  BY <1>1, HitsGrow, KeysApart
<1>3. PICK v \in Visit :
          /\ visit' = [visit EXCEPT ![c] = v]
          /\ \/ v = Away /\ burnt' = burnt \cup {visit[c].key}
             \/ /\ v.at = "insert" /\ v.key = visit[c].key /\ v.who = visit[c].who
                /\ burnt' = burnt
  <2>1. CASE ~Allowed(<<"signip">>)
    BY <2>1, NewVisits DEF CheckAddress
  <2>2. CASE Allowed(<<"signip">>)
    <3>1. visit' = [visit EXCEPT ![c] = [visit[c] EXCEPT !.at = "insert"]] /\ burnt' = burnt
      BY <2>2 DEF CheckAddress
    <3>2. LET y == [visit[c] EXCEPT !.at = "insert"]
          IN y \in SignVisit /\ y.at = "insert" /\ y.key = visit[c].key
             /\ y.who = visit[c].who
      BY <1>1, VisitsGoOn
    <3> QED BY <3>1, <3>2 DEF Visit
  <2> QED BY <2>1, <2>2
<1>4. /\ VisitOK'
      /\ \A d \in Caller : visit'[d].at = "compare" /\ visit'[d].current =>
            visit[d].at = "compare" /\ visit[d].current /\ visit'[d].who = visit[d].who
      /\ \A d \in Caller : visit'[d].at = "fetch" /\ visit'[d].current =>
            visit[d].at = "fetch" /\ visit[d].current /\ visit[d].used <= visit'[d].used
  BY <1>1, <1>3, RequestMovesOn
<1>5. visit'[c] = v /\ \A d \in Caller \ {c} : visit'[d] = visit[d]
  BY <1>3 DEF VisitOK
<1>6. visit[c].key \in DedupKeys
  BY <1>1 DEF VisitOK, KeysNameTheirOwner
<1>7. AdmissionTypeOK'
  BY <1>1, <1>2, <1>3, <1>6 DEF AdmissionTypeOK
<1>8. GuessesCounted' /\ SpendCounted'
  BY <1>1, <1>2, <1>4, KeysApart, GuessesKept, SpendKept
<1>9. SignsAccounted'
  BY <1>1, <1>2, <1>3, <1>5, RefusedKept
<1> QED BY <1>4, <1>7, <1>8, <1>9

LEMMA AddressFailsStep ==
  ASSUME AdmissionIndInv, NEW c \in Caller, AddressFails(c)
  PROVE  AdmissionIndInv'
<1> USE DEF AdmissionIndInv
<1>1. PICK counted \in SUBSET {<<"signip">>} : hitRateLimit(counted)
  BY DEF AddressFails
<1>2. /\ counted \in SUBSET Keys /\ \A k \in DedupKeys : k \notin counted
      /\ visit[c].at = "address" /\ Away \in Visit /\ Away.at = "away"
      /\ visit' = [visit EXCEPT ![c] = Away] /\ burnt' = burnt \cup {visit[c].key}
      /\ UNCHANGED <<tries, wrong, sessions, signed, verified, told, paid>>
  BY <1>1, KeysApart, NewVisits DEF AddressFails, loginVars, Away
<1>3. /\ hits' \in [Keys -> Nat] /\ \A j \in Keys : hits'[j] <= LimitOf(j)
      /\ \A j \in Keys : hits'[j] >= hits[j]
      /\ \A j \in DedupKeys : hits'[j] = hits[j]
  BY <1>1, <1>2, HitsGrow, KeysApart
<1>4. /\ VisitOK'
      /\ \A d \in Caller : visit'[d].at = "compare" /\ visit'[d].current =>
            visit[d].at = "compare" /\ visit[d].current /\ visit'[d].who = visit[d].who
      /\ \A d \in Caller : visit'[d].at = "fetch" /\ visit'[d].current =>
            visit[d].at = "fetch" /\ visit[d].current /\ visit[d].used <= visit'[d].used
  BY <1>2, RequestMovesOn
<1>5. visit[c].key \in DedupKeys /\ \A d \in Caller \ {c} : visit'[d] = visit[d]
  BY <1>2 DEF VisitOK, KeysNameTheirOwner
<1>6. AdmissionTypeOK'
  BY <1>2, <1>3, <1>5 DEF AdmissionTypeOK
<1>7. GuessesCounted' /\ SpendCounted'
  BY <1>2, <1>3, <1>4, KeysApart, GuessesKept, SpendKept
<1>8. SignsAccounted'
  BY <1>2, <1>3, <1>5, RefusedKept
<1> QED BY <1>4, <1>6, <1>7, <1>8

\* A signature of staff, or the row of a signature.
LEMMA SignStep ==
  ASSUME AdmissionIndInv, NEW c \in Caller,
         (\E p \in Signer : sign(c, p)) \/ addPetitionSignature(c)
  PROVE  AdmissionIndInv'
<1> USE DEF AdmissionIndInv
<1>1. UNCHANGED <<hits, tries, wrong, sessions, verified, burnt, told, paid>>
  BY DEF sign, addPetitionSignature, loginVars, signVars
<1>2. /\ hits' \in [Keys -> Nat] /\ \A k \in Keys : hits'[k] >= hits[k]
      /\ LoginKeys \subseteq Keys /\ <<"llm">> \in Keys
  BY <1>1, KeysApart DEF AdmissionTypeOK
<1>3. ASSUME NEW p \in Signer, sign(c, p) PROVE AdmissionIndInv'
  <2> DEFINE v == [at |-> "insert", key |-> <<"staff">>, who |-> p,
                   current |-> TRUE, used |-> 0]
  <2>1. /\ visit[c] = Away /\ visit[c].at = "away" /\ signed' = signed
        /\ visit' = [visit EXCEPT ![c] = v]
    BY <1>3 DEF sign, signVars, Away
  <2>2. v \in SignVisit /\ v \notin LoginVisit /\ v.key \notin DedupKeys
    BY NewVisits, KeysApart DEF LoginVisit
  <2>3. VisitOK' /\ visit'[c] = v /\ \A d \in Caller \ {c} : visit'[d] = visit[d]
    BY <2>1, <2>2, RequestStarts
  <2>4. AdmissionTypeOK'
    BY <1>1, <2>1 DEF AdmissionTypeOK
  <2>5. GuessesCounted'
    <3>1. \A d \in Caller : visit'[d].at = "compare" /\ visit'[d].current =>
             visit[d].at = "compare" /\ visit[d].current /\ visit'[d].who = visit[d].who
      BY <2>3
    <3> QED BY <1>1, <1>2, <3>1, GuessesKept
  <2>6. SpendCounted'
    <3>1. \A d \in Caller : visit'[d].at = "fetch" /\ visit'[d].current =>
             visit[d].at = "fetch" /\ visit[d].current /\ visit[d].used <= visit'[d].used
      BY <2>3, VisitFields, LimitsAssumption DEF FetchVisit
    <3> QED BY <1>1, <1>2, <2>3, <3>1, SpendKept
  <2>7. SignsAccounted'
    BY <1>1, <2>1, <2>3, RefusedKept
  <2> QED BY <2>3, <2>4, <2>5, <2>6, <2>7
<1>4. CASE addPetitionSignature(c)
  <2>1. /\ visit[c].at = "insert" /\ visit[c] \in SignVisit /\ signed' = signed \cup {visit[c].who}
        /\ visit' = [visit EXCEPT ![c] = Away] /\ Away \in Visit /\ Away.at = "away"
    BY <1>4, VisitFields, NewVisits DEF addPetitionSignature, Away
  <2>2. /\ VisitOK'
        /\ \A d \in Caller : visit'[d].at = "compare" /\ visit'[d].current =>
              visit[d].at = "compare" /\ visit[d].current /\ visit'[d].who = visit[d].who
        /\ \A d \in Caller : visit'[d].at = "fetch" /\ visit'[d].current =>
              visit[d].at = "fetch" /\ visit[d].current /\ visit[d].used <= visit'[d].used
    BY <2>1, RequestMovesOn
  <2>3. AdmissionTypeOK'
    BY <1>1, <2>1 DEF AdmissionTypeOK, SignVisit
  <2>4. GuessesCounted' /\ SpendCounted'
    BY <1>1, <1>2, <2>2, GuessesKept, SpendKept
  <2>5. SignsAccounted'
    <3>1. visit[c].key \in DedupKeys =>
             \E w \in Spelling : visit[c].who \in signed' /\ visit[c].key = DedupKey(visit[c].who, w)
      BY <2>1 DEF VisitOK, KeysNameTheirOwner
    <3>2. \A d \in Caller \ {c} : visit'[d] = visit[d]
      BY <2>1 DEF VisitOK
    <3> QED BY <1>1, <2>1, <3>1, <3>2, RefusedKept
  <2> QED BY <2>2, <2>3, <2>4, <2>5
<1> QED BY <1>3, <1>4

LEMMA VerifyStep ==
  ASSUME AdmissionIndInv, NEW p \in Signer, verifyPetitionSignature(p)
  PROVE  AdmissionIndInv'
<1> USE DEF AdmissionIndInv
<1>1. /\ UNCHANGED <<hits, visit, tries, wrong, sessions, signed, burnt, told, paid>>
      /\ verified' = verified \cup {p} /\ p \in signed
  BY DEF verifyPetitionSignature, loginVars
<1>2. AdmissionTypeOK'
  BY <1>1 DEF AdmissionTypeOK
<1>3. VisitOK' /\ SignsAccounted'
  BY <1>1 DEF VisitOK, KeysNameTheirOwner, SignsAccounted, RefusedHaveSigned, HitsDeserved, Deserved
<1>4. GuessesCounted' /\ SpendCounted'
  BY <1>1 DEF GuessesCounted, SpendCounted, Comparing, ComparingAs, CallsLeft
<1> QED BY <1>2, <1>3, <1>4

\* assertLlmCallAllowed admits a request with all its tries ahead of it.
LEMMA LlmAdmitStep ==
  ASSUME AdmissionIndInv, NEW c \in Caller, assertLlmCallAllowed(c)
  PROVE  AdmissionIndInv'
<1> USE DEF AdmissionIndInv
<1> DEFINE k == <<"llm">>
           v == [at |-> "fetch", key |-> k, who |-> c, current |-> TRUE, used |-> 0]
<1>1. /\ k \in Keys /\ {k} \in SUBSET Keys /\ k \notin DedupKeys /\ hitRateLimit({k})
      /\ visit[c] = Away /\ visit[c].at = "away"
      /\ UNCHANGED <<tries, wrong, sessions, signed, verified, burnt, told, paid>>
  BY KeysApart DEF assertLlmCallAllowed, loginVars, signVars, Away
<1>2. /\ hits' \in [Keys -> Nat] /\ \A j \in Keys : hits'[j] <= LimitOf(j)
      /\ \A j \in Keys : hits'[j] >= hits[j]
      /\ \A j \in DedupKeys : hits'[j] = hits[j]
  BY <1>1, HitsGrow, KeysApart
<1>3. CASE ~Allowed(k)
  <2>1. visit' = visit
    BY <1>1, <1>3 DEF assertLlmCallAllowed, VisitOK
  <2> QED BY <1>1, <1>2, <2>1, OnlyHits DEF AdmissionTypeOK
<1>4. CASE Allowed(k)
  <2>1. v \in FetchVisit /\ v \notin LoginVisit /\ v.key \notin DedupKeys /\ v.at # "address"
    BY <1>1, NewVisits DEF LoginVisit
  <2>2. visit' = [visit EXCEPT ![c] = v]
    BY <1>4 DEF assertLlmCallAllowed
  <2>3. VisitOK' /\ visit'[c] = v /\ \A d \in Caller \ {c} : visit'[d] = visit[d]
    BY <2>1, <2>2, RequestStarts
  <2>4. AdmissionTypeOK'
    BY <1>1, <1>2 DEF AdmissionTypeOK
  <2>5. GuessesCounted'
    <3>1. \A d \in Caller : visit'[d].at = "compare" /\ visit'[d].current =>
             visit[d].at = "compare" /\ visit[d].current /\ visit'[d].who = visit[d].who
      BY <2>3
    <3> QED BY <1>1, <1>2, <3>1, KeysApart, GuessesKept
  <2>6. SignsAccounted'
    BY <1>1, <1>2, <2>3, RefusedKept
  <2>7. SpendCounted'
    <3>1. hits'[k] = hits[k] + 1 /\ hits'[k] <= LlmLimit /\ hits[k] \in Nat
      BY <1>1, <1>4, HitsGrow, Limits DEF AdmissionTypeOK
    <3>2. CallsLeft' = CallsLeft \cup ({c} \X (0 .. Retries))
      <4>1. ASSUME NEW x \in CallsLeft' PROVE x \in CallsLeft \cup ({c} \X (0 .. Retries))
        <5>1. /\ x \in Caller \X (0 .. Retries) /\ visit'[x[1]].at = "fetch"
              /\ visit'[x[1]].current /\ visit'[x[1]].used <= x[2]
          BY DEF CallsLeft
        <5>2. CASE x[1] = c
          BY <5>1, <5>2
        <5>3. CASE x[1] # c
          BY <2>3, <5>1, <5>3 DEF CallsLeft
        <5> QED BY <5>2, <5>3
      <4>2. ASSUME NEW x \in CallsLeft PROVE x \in CallsLeft'
        <5>1. /\ x \in Caller \X (0 .. Retries) /\ visit[x[1]].at = "fetch"
              /\ visit[x[1]].current /\ visit[x[1]].used <= x[2]
          BY DEF CallsLeft
        <5>2. x[1] # c
          BY <1>1, <5>1
        <5> QED BY <2>3, <5>1, <5>2 DEF CallsLeft
      <4>3. ASSUME NEW x \in {c} \X (0 .. Retries) PROVE x \in CallsLeft'
        <5>1. x \in Caller \X (0 .. Retries) /\ x[1] = c /\ x[2] >= 0
          BY LimitsAssumption
        <5> QED BY <2>3, <5>1, LimitsAssumption DEF CallsLeft
      <4> QED BY <4>1, <4>2, <4>3
    <3>3. CallsLeft \cap ({c} \X (0 .. Retries)) = {}
      BY <1>1 DEF CallsLeft
    <3>4. IsFiniteSet({c} \X (0 .. Retries)) /\ Cardinality({c} \X (0 .. Retries)) = Retries + 1
      <4>1. 0 \in Int /\ Retries \in Int /\ ~(0 > Retries)
        BY LimitsAssumption
      <4>2. IsFiniteSet(0 .. Retries) /\ Cardinality(0 .. Retries) = Retries + 1
        BY <4>1, FS_Interval
      <4>3. IsFiniteSet({c}) /\ Cardinality({c}) = 1
        BY FS_Singleton
      <4>4. IsFiniteSet({c} \X (0 .. Retries))
            /\ Cardinality({c} \X (0 .. Retries)) = Cardinality({c}) * Cardinality(0 .. Retries)
        BY <4>2, <4>3, FS_Product
      <4> QED BY <4>2, <4>3, <4>4, LimitsAssumption
    <3>5. Cardinality(CallsLeft') = Cardinality(CallsLeft) + Retries + 1
      <4>1. Cardinality({}) = 0
        BY FS_EmptySet
      <4>2. Cardinality(CallsLeft \cup ({c} \X (0 .. Retries))) =
              Cardinality(CallsLeft) + Cardinality({c} \X (0 .. Retries))
              - Cardinality(CallsLeft \cap ({c} \X (0 .. Retries)))
        BY <3>4, CallsLeftFinite, FS_Union
      <4>3. Cardinality(CallsLeft \cap ({c} \X (0 .. Retries))) = 0
        BY <3>3, <4>1
      <4>4. Cardinality(CallsLeft') = Cardinality(CallsLeft \cup ({c} \X (0 .. Retries)))
        BY <3>2
      <4>5. Cardinality(CallsLeft) \in Nat
        BY CallsLeftFinite
      <4> QED BY <3>4, <4>2, <4>3, <4>4, <4>5, LimitsAssumption
    <3>6. /\ (hits[k] + 1) * (Retries + 1) = hits[k] * (Retries + 1) + (Retries + 1)
          /\ (hits[k] + 1) * (Retries + 1) <= LlmLimit * (Retries + 1)
      <4>1. \A m, n, r \in Nat : m <= n => m * (r + 1) <= n * (r + 1)
        OBVIOUS
      <4>2. \A m, r \in Nat : (m + 1) * (r + 1) = m * (r + 1) + (r + 1)
        OBVIOUS
      <4> QED BY <3>1, <4>1, <4>2, LimitsAssumption
    <3>7. \A m, r \in Nat : m * (r + 1) \in Nat
      OBVIOUS
    <3> DEFINE x == hits[k] * (Retries + 1)
               y == LlmLimit * (Retries + 1)
    <3>8. x \in Nat /\ y \in Nat
      BY <3>1, <3>7, LimitsAssumption
    <3>9. paid + Cardinality(CallsLeft) <= x /\ paid \in Nat
          /\ hits'[k] * (Retries + 1) = x + Retries + 1 /\ x + Retries + 1 <= y
      BY <3>1, <3>6, <3>8, LimitsAssumption DEF SpendCounted, AdmissionTypeOK
    <3> HIDE DEF x, y
    <3>10. paid + Cardinality(CallsLeft') <= x + Retries + 1
      BY <3>5, <3>8, <3>9, CallsLeftFinite, LimitsAssumption
    <3>11. paid + Cardinality(CallsLeft') <= y
      BY <3>5, <3>8, <3>9, <3>10, CallsLeftFinite, LimitsAssumption
    <3> QED BY <1>1, <3>9, <3>10, <3>11 DEF SpendCounted, y
  <2> QED BY <2>3, <2>4, <2>5, <2>6, <2>7
<1> QED BY <1>3, <1>4

\* Every call of the model uses up one of the tries that its request had left.
LEMMA FetchStep ==
  ASSUME AdmissionIndInv, NEW c \in Caller, NEW ok \in BOOLEAN, fetchWithBackoff(c, ok)
  PROVE  AdmissionIndInv'
<1> USE DEF AdmissionIndInv
<1>1. /\ visit[c].at = "fetch" /\ visit[c] \in FetchVisit
      /\ UNCHANGED <<hits, tries, wrong, sessions, signed, verified, burnt, told>>
      /\ paid' = IF visit[c].current THEN paid + 1 ELSE paid
  BY VisitFields DEF fetchWithBackoff, loginVars, signVars
<1>2. visit[c].used \in 0 .. Retries /\ visit[c].key \notin DedupKeys
  BY <1>1, KeysApart DEF FetchVisit
<1>3. PICK v \in Visit :
          /\ visit' = [visit EXCEPT ![c] = v]
          /\ \/ v = Away
             \/ v \in FetchVisit /\ v.used = visit[c].used + 1 /\ v.current = visit[c].current
  <2>1. CASE ok \/ visit[c].used = Retries
    BY <2>1, NewVisits DEF fetchWithBackoff
  <2>2. CASE ~(ok \/ visit[c].used = Retries)
    <3>1. visit' = [visit EXCEPT ![c] = [visit[c] EXCEPT !.used = visit[c].used + 1]]
      BY <2>2 DEF fetchWithBackoff
    <3>2. LET y == [visit[c] EXCEPT !.used = visit[c].used + 1]
          IN y \in FetchVisit /\ y.used = visit[c].used + 1 /\ y.current = visit[c].current
      BY <1>1, <2>2, VisitsGoOn
    <3> QED BY <3>1, <3>2 DEF Visit
  <2> QED BY <2>1, <2>2
<1>4. visit'[c] = v /\ \A d \in Caller \ {c} : visit'[d] = visit[d]
  BY <1>3 DEF VisitOK
<1>5. v.at \in {"away", "fetch"}
  BY <1>3 DEF Away, FetchVisit
<1>6. VisitOK'
  <2>1. visit' \in [Caller -> Visit]
    BY <1>3 DEF VisitOK
  <2>2. KeysNameTheirOwner'
    BY <1>4, <1>5 DEF VisitOK, KeysNameTheirOwner
  <2> QED BY <2>1, <2>2 DEF VisitOK
<1>7. AdmissionTypeOK'
  BY <1>1 DEF AdmissionTypeOK
<1>8. GuessesCounted'
  <2>1. \A d \in Caller : visit'[d].at = "compare" /\ visit'[d].current =>
           visit[d].at = "compare" /\ visit[d].current /\ visit'[d].who = visit[d].who
    BY <1>4, <1>5
  <2>2. hits' \in [Keys -> Nat] /\ \A k \in LoginKeys : hits'[k] >= hits[k]
    BY <1>1, KeysApart DEF AdmissionTypeOK
  <2> QED BY <1>1, <2>1, <2>2, GuessesKept
<1>9. SignsAccounted'
  BY <1>1, <1>2, <1>4, RefusedKept
<1>10. SpendCounted'
  <2>1. ASSUME visit'[c].at = "fetch" PROVE visit'[c].used = visit[c].used + 1
                                             /\ visit'[c].current = visit[c].current
    BY <1>3, <1>4, <2>1 DEF Away
  <2>2. CASE ~visit[c].current
    <3>1. \A d \in Caller : visit'[d].at = "fetch" /\ visit'[d].current =>
             visit[d].at = "fetch" /\ visit[d].current /\ visit[d].used <= visit'[d].used
      BY <1>4, <2>1, <2>2, VisitFields, LimitsAssumption DEF FetchVisit
    <3>2. hits' \in [Keys -> Nat] /\ hits'[<<"llm">>] >= hits[<<"llm">>]
      BY <1>1, KeysApart DEF AdmissionTypeOK
    <3> QED BY <1>1, <1>6, <2>2, <3>1, <3>2, SpendKept
  <2>3. CASE visit[c].current
    <3> DEFINE t == <<c, visit[c].used>>
    <3>1. t \in CallsLeft
      BY <1>1, <1>2, <2>3, LimitsAssumption DEF CallsLeft
    <3>2. CallsLeft' \subseteq CallsLeft \ {t}
      <4> SUFFICES ASSUME NEW x \in CallsLeft' PROVE x \in CallsLeft /\ x # t
        OBVIOUS
      <4>1. /\ x \in Caller \X (0 .. Retries) /\ x[1] \in Caller /\ x[2] \in 0 .. Retries
            /\ visit'[x[1]].at = "fetch" /\ visit'[x[1]].current /\ visit'[x[1]].used <= x[2]
        BY DEF CallsLeft
      <4>2. CASE x[1] # c
        BY <1>4, <4>1, <4>2 DEF CallsLeft
      <4>3. CASE x[1] = c
        <5>1. visit[c].used + 1 <= x[2]
          BY <2>1, <4>1, <4>3
        <5>2. visit[c].used <= x[2] /\ visit[c].used # x[2]
          BY <1>2, <4>1, <5>1, LimitsAssumption
        <5> QED BY <1>1, <2>3, <4>1, <4>3, <5>2 DEF CallsLeft
      <4> QED BY <4>2, <4>3
    <3>3. PICK n : n = Cardinality(CallsLeft)
      OBVIOUS
    <3>4. n \in Nat /\ IsFiniteSet(CallsLeft \ {t}) /\ Cardinality(CallsLeft \ {t}) = n - 1
      BY <3>1, <3>3, CallsLeftFinite, FS_RemoveElement
    <3>5. Cardinality(CallsLeft') <= n - 1 /\ Cardinality(CallsLeft') \in Nat
      BY <3>2, <3>4, FS_Subset, FS_CardinalityType
    <3>6. \A m, r \in Nat : m * (r + 1) \in Nat
      OBVIOUS
    <3>7. hits[<<"llm">>] * (Retries + 1) \in Nat /\ LlmLimit * (Retries + 1) \in Nat
      BY <3>6, KeysApart, LimitsAssumption DEF AdmissionTypeOK
    <3>8. paid' = paid + 1 /\ paid \in Nat /\ hits' = hits
      BY <1>1, <2>3 DEF AdmissionTypeOK
    <3>9. paid + n <= hits[<<"llm">>] * (Retries + 1) /\ paid + n <= LlmLimit * (Retries + 1)
      BY <3>3 DEF SpendCounted
    <3> DEFINE x == hits[<<"llm">>] * (Retries + 1)
               y == LlmLimit * (Retries + 1)
    <3>10. x \in Nat /\ y \in Nat /\ paid + n <= x /\ paid + n <= y
      BY <3>7, <3>9
    <3> HIDE DEF x, y
    <3>11. paid' + Cardinality(CallsLeft') <= x /\ paid' + Cardinality(CallsLeft') <= y
      BY <3>4, <3>5, <3>8, <3>10
    <3> QED BY <3>8, <3>11 DEF SpendCounted, x, y
  <2> QED BY <2>2, <2>3
<1> QED BY <1>6, <1>7, <1>8, <1>9, <1>10

LEMMA AdmissionStarts == AdmissionInit => AdmissionIndInv
<1> SUFFICES ASSUME AdmissionInit PROVE AdmissionIndInv
  OBVIOUS
<1> USE DEF AdmissionInit
<1>1. AdmissionTypeOK
  BY Limits DEF AdmissionTypeOK
<1>2. \A c \in Caller : visit[c] = Away /\ visit[c].at = "away"
  BY DEF Away
<1>3. VisitOK
  BY <1>2, NewVisits DEF VisitOK, KeysNameTheirOwner
<1>4. SignsAccounted
  BY KeysApart DEF SignsAccounted, RefusedHaveSigned, HitsDeserved
<1>5. Comparing = {} /\ CallsLeft = {} /\ \A a \in Account : ComparingAs(a) = {}
  BY <1>2 DEF Comparing, ComparingAs, CallsLeft
<1>6. Cardinality(Comparing) = 0 /\ Cardinality(CallsLeft) = 0
      /\ \A a \in Account : Cardinality(ComparingAs(a)) = 0
  BY <1>5, FS_EmptySet
<1>7. hits[<<"ip">>] = 0 /\ hits[<<"llm">>] = 0 /\ \A a \in Account : hits[<<"user", a>>] = 0
  BY KeysApart DEF UserKeys
<1>8. GuessesCounted
  BY <1>6, <1>7, LimitsAssumption DEF GuessesCounted
<1>9. \A m, r \in Nat : m * (r + 1) \in Nat /\ 0 * (r + 1) = 0
  OBVIOUS
<1>10. LlmLimit * (Retries + 1) \in Nat /\ 0 * (Retries + 1) = 0
  BY <1>9, LimitsAssumption
<1>11. SpendCounted
  BY <1>6, <1>7, <1>10 DEF SpendCounted
<1> QED BY <1>1, <1>3, <1>4, <1>8, <1>11 DEF AdmissionIndInv

LEMMA AdmissionStep ==
  ASSUME AdmissionIndInv, [AdmissionNext]_admissionVars
  PROVE  AdmissionIndInv'
<1>1. CASE UNCHANGED admissionVars
  BY <1>1 DEF AdmissionIndInv, AdmissionTypeOK, VisitOK, KeysNameTheirOwner, SignsAccounted,
     RefusedHaveSigned, HitsDeserved, Deserved, GuessesCounted, SpendCounted, Comparing, ComparingAs, CallsLeft, admissionVars
<1>2. CASE LoginNext
  <2>1. \A a \in Account : {<<"ip">>, <<"user", a>>} \in SUBSET Keys
    BY KeysApart DEF UserKeys
  <2> QED BY <1>2, <2>1, FailClosedStep, BeginLoginStep, WrongPasswordStep, RightPasswordStep,
             ResetStep, ResetFailsStep DEF LoginNext
<1>3. CASE SignNext
  <2>1. \A p \in Signer, w \in Spelling : {DedupKey(p, w)} \in SUBSET Keys
    BY KeysApart DEF DedupKeys
  <2> QED BY <1>3, <2>1, FailClosedStep, BeginPublicSignStep, CheckAddressStep,
             AddressFailsStep, SignStep, VerifyStep DEF SignNext
<1>4. CASE LlmNext
  <2>1. {<<"llm">>} \in SUBSET Keys
    BY KeysApart
  <2> QED BY <1>4, <2>1, FailClosedStep, LlmAdmitStep, FetchStep DEF LlmNext
<1> QED BY <1>1, <1>2, <1>3, <1>4, AbortStep, WindowClosesStep DEF AdmissionNext

LEMMA AdmissionSafe == AdmissionSpec => []AdmissionIndInv
<1>1. AdmissionIndInv /\ [AdmissionNext]_admissionVars => AdmissionIndInv'
  BY AdmissionStep
<1> QED BY <1>1, AdmissionStarts, PTL DEF AdmissionSpec

\* The limiter of the login, for any limits and however many requests are under
\* way at once: no more passwords are compared in a window than the address may
\* try, and no more wrong ones for an account, counted from its last good login.
THEOREM GuessesLimited == AdmissionSpec => []GuessesBounded
<1>1. AdmissionIndInv => GuessesBounded
  <2> SUFFICES ASSUME AdmissionIndInv PROVE GuessesBounded
    OBVIOUS
  <2>1. Cardinality(Comparing) \in Nat /\ \A a \in Account : Cardinality(ComparingAs(a)) \in Nat
    BY ComparingFinite
  <2>2. tries \in Nat /\ \A a \in Account : wrong[a] \in Nat
    BY DEF AdmissionIndInv, AdmissionTypeOK
  <2>3. tries <= IpLimit
    BY <2>1, <2>2, LimitsAssumption DEF AdmissionIndInv, GuessesCounted
  <2>4. ASSUME NEW a \in Account PROVE wrong[a] <= UserLimit
    <3>1. wrong[a] + Cardinality(ComparingAs(a)) <= UserLimit
      BY DEF AdmissionIndInv, GuessesCounted
    <3>2. wrong[a] \in Nat /\ Cardinality(ComparingAs(a)) \in Nat
      BY <2>1, <2>2
    <3> QED BY <3>1, <3>2, LimitsAssumption
  <2> QED BY <2>3, <2>4 DEF GuessesBounded
<1> QED BY <1>1, AdmissionSafe, PTL

\* The public signature and the language model behind the limiter: a refusal is
\* of someone who has signed, signs, or whose attempt failed, and the calls of an
\* hour, retries included, stay within the limit.
THEOREM AdmissionSound == AdmissionSpec => []AdmissionInv
<1>1. AdmissionIndInv => AdmissionInv
  <2> SUFFICES ASSUME AdmissionIndInv PROVE SpendBounded
    BY DEF AdmissionIndInv, AdmissionInv, SignsAccounted
  <2>1. \A m, r \in Nat : m * (r + 1) \in Nat
    OBVIOUS
  <2>2. LlmLimit * (Retries + 1) \in Nat /\ Cardinality(CallsLeft) \in Nat /\ paid \in Nat
    BY <2>1, CallsLeftFinite, LimitsAssumption DEF AdmissionIndInv, AdmissionTypeOK
  <2>3. paid + Cardinality(CallsLeft) <= LlmLimit * (Retries + 1)
    BY DEF AdmissionIndInv, SpendCounted
  <2> QED BY <2>2, <2>3 DEF SpendBounded
<1> QED BY <1>1, AdmissionSafe, PTL
=============================================================================
