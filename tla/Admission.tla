----------------------------- MODULE Admission ------------------------------
(***************************************************************************)
(* The throttled entry points of the campaign platform: login and change   *)
(* of password (server/_core/localAuth.ts), public and staff signatures of *)
(* a petition and the AI endpoints (server/routers.ts), over the           *)
(* fixed-window limiter (server/_core/rateLimit.ts) and the retrying call  *)
(* of the language model (server/_core/llm.ts).                            *)
(***************************************************************************)
EXTENDS Naturals, FiniteSets

CONSTANTS Caller,       \* requests under way, all from one address
          Account,
          Signer,       \* identities; a phone number has two spellings
          NoPhone,      \* the identities without a phone number
          UserLimit,    \* LOGIN_MAX_ATTEMPTS
          IpLimit,      \* LOGIN_IP_MAX_ATTEMPTS
          SignLimit,    \* PETITION_SIGN_IP_LIMIT
          LlmLimit,     \* LLM_MAX_CALLS_PER_USER
          Retries       \* RETRY_MAX_RETRIES

ASSUME LimitsAssumption ==
    /\ UserLimit \in Nat /\ IpLimit \in Nat /\ SignLimit \in Nat
    /\ LlmLimit \in Nat /\ Retries \in Nat
ASSUME CallerAssumption == IsFiniteSet(Caller)
ASSUME SignerAssumption == NoPhone \subseteq Signer

VARIABLES hits,         \* rate_limits: hits of the open window by key
          visit,        \* what a request does next
          tries,        \* ghost: password checks admitted in this window
          wrong,        \* ghost: wrong ones by account since a good login
          sessions,     \* accounts with a session
          signed,       \* petition_signatures: signers with a row
          verified,     \* signatures with status "verified"
          burnt,        \* ghost: dedup keys whose attempt failed
          told,         \* ghost: dedup keys refused as already signed
          paid          \* ghost: model calls of requests of this hour

admissionVars == <<hits, visit, tries, wrong, sessions, signed, verified,
                   burnt, told, paid>>
loginVars == <<tries, wrong, sessions>>
signVars == <<signed, verified, burnt, told>>

Spelling == {"plain", "spaced"}
LoginKeys == {<<"ip">>} \cup {<<"user", a>> : a \in Account}
HourKeys == {<<"llm">>, <<"signip">>}

\* The phone as it was typed, or else the address, which is the same for all.
DedupKey(p, w) == IF p \in NoPhone THEN <<"ipdedup">> ELSE <<"dedup", p, w>>
DedupKeys == {DedupKey(p, w) : p \in Signer, w \in Spelling}
Keys == LoginKeys \cup HourKeys \cup DedupKeys

LimitOf(k) == CASE k = <<"ip">> -> IpLimit
                [] k = <<"llm">> -> LlmLimit
                [] k = <<"signip">> -> SignLimit
                [] k \in DedupKeys -> 1
                [] OTHER -> UserLimit

Away == [at |-> "away"]

AdmissionInit ==
    /\ hits = [k \in Keys |-> 0]
    /\ visit = [c \in Caller |-> Away]
    /\ tries = 0
    /\ wrong = [a \in Account |-> 0]
    /\ sessions = {}
    /\ signed = {}
    /\ verified = {}
    /\ burnt = {}
    /\ told = {}
    /\ paid = 0

-----------------------------------------------------------------------------
(* The limiter                                                             *)

\* One atomic upsert by key.  The count is kept only as far as it matters: at
\* the limit the next hit is past it, and so are all later ones.
hitRateLimit(ks) ==
    hits' = [k \in Keys |->
                IF k \in ks /\ hits[k] < LimitOf(k)
                THEN hits[k] + 1 ELSE hits[k]]

\* count <= limit, for the count with this hit.
Allowed(k) == hits[k] + 1 <= LimitOf(k)

\* A window ends: its keys start anew.  Requests that were admitted in it and
\* go on are no longer of the current window.
WindowCloses(keys) ==
    /\ \E k \in keys : hits[k] > 0
    /\ hits' = [k \in Keys |-> IF k \in keys THEN 0 ELSE hits[k]]
    /\ visit' = [c \in Caller |->
           IF visit[c] # Away /\ visit[c].key \in keys \ DedupKeys
           THEN [visit[c] EXCEPT !.current = FALSE] ELSE visit[c]]
    /\ tries' = IF keys = LoginKeys THEN 0 ELSE tries
    /\ wrong' = IF keys = LoginKeys THEN [a \in Account |-> 0] ELSE wrong
    /\ paid' = IF keys = HourKeys THEN 0 ELSE paid
    /\ burnt' = IF keys = DedupKeys THEN {} ELSE burnt
    /\ told' = IF keys = DedupKeys THEN {} ELSE told
    /\ UNCHANGED <<sessions, signed, verified>>

\* The database fails under the hits with which a request comes in: the
\* limiter denies, whether or not the hits were counted, and the caller answers
\* as if the count were past the limit.
FailClosed(c, ks) ==
    /\ visit[c] = Away
    /\ \E counted \in SUBSET ks : hitRateLimit(counted)
    /\ burnt' = burnt \cup (ks \cap DedupKeys)
    /\ told' = told \cup (ks \cap DedupKeys)
    /\ UNCHANGED <<visit, loginVars, signed, verified, paid>>

\* The request dies at an await.
Abort(c) ==
    /\ visit[c] # Away
    /\ visit' = [visit EXCEPT ![c] = Away]
    /\ burnt' = IF visit[c].key \in DedupKeys
                THEN burnt \cup {visit[c].key} ELSE burnt
    /\ UNCHANGED <<hits, loginVars, signed, verified, told, paid>>

-----------------------------------------------------------------------------
(* Login                                                                   *)

\* Both windows are hit, whatever the outcome.
BeginLogin(c, a) ==
    /\ visit[c] = Away
    /\ hitRateLimit({<<"ip">>, <<"user", a>>})
    /\ visit' = [visit EXCEPT ![c] =
           IF Allowed(<<"ip">>) /\ Allowed(<<"user", a>>)
           THEN [at |-> "compare", key |-> <<"user", a>>, who |-> a,
                 current |-> TRUE, used |-> 0]
           ELSE Away]
    /\ UNCHANGED <<loginVars, signVars, paid>>

Tried(c) == tries' = IF visit[c].current THEN tries + 1 ELSE tries

WrongPassword(c) ==
    /\ visit[c].at = "compare"
    /\ Tried(c)
    /\ wrong' = [wrong EXCEPT ![visit[c].who] =
           IF visit[c].current THEN @ + 1 ELSE @]
    /\ visit' = [visit EXCEPT ![c] = Away]
    /\ UNCHANGED <<hits, sessions, signVars, paid>>

\* The account is active and has no second factor, or the answer is 403.
RightPassword(c, barred) ==
    /\ visit[c].at = "compare"
    /\ Tried(c)
    /\ visit' = [visit EXCEPT ![c] =
           IF barred THEN Away ELSE [@ EXCEPT !.at = "reset"]]
    /\ UNCHANGED <<hits, wrong, sessions, signVars, paid>>

\* Bug: the window of the address is cleared along with that of the user.
resetBothWindows(c) ==
    /\ visit[c].at = "reset"
    /\ hits' = [k \in Keys |->
           IF k \in {<<"ip">>, visit[c].key} THEN 0 ELSE hits[k]]
    /\ wrong' = [wrong EXCEPT ![visit[c].who] = 0]
    /\ sessions' = sessions \cup {visit[c].who}
    /\ visit' = [q \in Caller |->
           IF q = c THEN Away
           ELSE IF visit[q] # Away /\ visit[q].key = visit[c].key
                THEN [visit[q] EXCEPT !.current = FALSE] ELSE visit[q]]
    /\ UNCHANGED <<tries, signVars, paid>>

\* A good login clears the window of its user and address; the window of the
\* address alone keeps counting.  Then the session is signed.
resetRateLimit(c) ==
    /\ visit[c].at = "reset"
    /\ hits' = [hits EXCEPT ![visit[c].key] = 0]
    /\ wrong' = [wrong EXCEPT ![visit[c].who] = 0]
    /\ sessions' = sessions \cup {visit[c].who}
    /\ visit' = [q \in Caller |->
           IF q = c THEN Away
           ELSE IF visit[q] # Away /\ visit[q].key = visit[c].key
                THEN [visit[q] EXCEPT !.current = FALSE] ELSE visit[q]]
    /\ UNCHANGED <<tries, signVars, paid>>

\* The reset fails, which is only logged: the window goes on, and so does the
\* login.
ResetFails(c) ==
    /\ visit[c].at = "reset"
    /\ sessions' = sessions \cup {visit[c].who}
    /\ visit' = [visit EXCEPT ![c] = Away]
    /\ UNCHANGED <<hits, tries, wrong, signVars, paid>>

-----------------------------------------------------------------------------
(* Signatures of a petition                                                *)

\* The dedup key is used up before the address is checked and before the row
\* is inserted.
BeginPublicSign(c, p, w) ==
    /\ visit[c] = Away
    /\ LET k == DedupKey(p, w)
       IN /\ hitRateLimit({k})
          /\ visit' = IF Allowed(k)
                      THEN [visit EXCEPT ![c] =
                               [at |-> "address", key |-> k, who |-> p,
                                current |-> TRUE, used |-> 0]]
                      ELSE visit
          /\ told' = IF Allowed(k) THEN told ELSE told \cup {k}
    /\ UNCHANGED <<loginVars, signed, verified, burnt, paid>>

CheckAddress(c) ==
    /\ visit[c].at = "address"
    /\ hitRateLimit({<<"signip">>})
    /\ visit' = [visit EXCEPT ![c] =
           IF Allowed(<<"signip">>) THEN [@ EXCEPT !.at = "insert"] ELSE Away]
    /\ burnt' = IF Allowed(<<"signip">>) THEN burnt
                ELSE burnt \cup {visit[c].key}
    /\ UNCHANGED <<loginVars, signed, verified, told, paid>>

\* The limiter fails under the hit of the address and denies it.
AddressFails(c) ==
    /\ visit[c].at = "address"
    /\ \E counted \in SUBSET {<<"signip">>} : hitRateLimit(counted)
    /\ visit' = [visit EXCEPT ![c] = Away]
    /\ burnt' = burnt \cup {visit[c].key}
    /\ UNCHANGED <<loginVars, signed, verified, told, paid>>

\* Staff sign for someone without the limiter.
sign(c, p) ==
    /\ visit[c] = Away
    /\ visit' = [visit EXCEPT ![c] =
           [at |-> "insert", key |-> <<"staff">>, who |-> p,
            current |-> TRUE, used |-> 0]]
    /\ UNCHANGED <<hits, loginVars, signVars, paid>>

\* The unique index on the hash of the identity, which is made from the
\* digits of the phone, refuses a second row: CONFLICT.
addPetitionSignature(c) ==
    /\ visit[c].at = "insert"
    /\ signed' = signed \cup {visit[c].who}
    /\ visit' = [visit EXCEPT ![c] = Away]
    /\ UNCHANGED <<hits, loginVars, verified, burnt, told, paid>>

verifyPetitionSignature(p) ==
    /\ p \in signed \ verified
    /\ verified' = verified \cup {p}
    /\ UNCHANGED <<hits, visit, loginVars, signed, burnt, told, paid>>

-----------------------------------------------------------------------------
(* The language model                                                      *)

assertLlmCallAllowed(c) ==
    /\ visit[c] = Away
    /\ hitRateLimit({<<"llm">>})
    /\ visit' = [visit EXCEPT ![c] =
           IF Allowed(<<"llm">>)
           THEN [at |-> "fetch", key |-> <<"llm">>, who |-> c,
                 current |-> TRUE, used |-> 0]
           ELSE Away]
    /\ UNCHANGED <<loginVars, signVars, paid>>

\* Bug: one round of the loop too many.
fetchWithBackoffMore(c, ok) ==
    /\ visit[c].at = "fetch"
    /\ paid' = IF visit[c].current THEN paid + 1 ELSE paid
    /\ visit' = [visit EXCEPT ![c] =
           IF ok \/ @.used = Retries + 1 THEN Away
           ELSE [@ EXCEPT !.used = visit[c].used + 1]]
    /\ UNCHANGED <<hits, loginVars, signVars>>

\* Any answer but 2xx, and any network error, is tried again after a pause;
\* used is the loop's attempt.
fetchWithBackoff(c, ok) ==
    /\ visit[c].at = "fetch"
    /\ paid' = IF visit[c].current THEN paid + 1 ELSE paid
    /\ visit' = [visit EXCEPT ![c] =
           IF ok \/ @.used = Retries THEN Away
           ELSE [@ EXCEPT !.used = visit[c].used + 1]]
    /\ UNCHANGED <<hits, loginVars, signVars>>

LoginNext ==
    \E c \in Caller :
        \/ \E a \in Account :
              \/ BeginLogin(c, a)
              \/ FailClosed(c, {<<"ip">>, <<"user", a>>})
        \/ WrongPassword(c)
        \/ \E barred \in BOOLEAN : RightPassword(c, barred)
        \/ resetRateLimit(c)
        \/ ResetFails(c)

SignNext ==
    \/ \E c \in Caller :
          \/ \E p \in Signer, w \in Spelling :
                \/ BeginPublicSign(c, p, w)
                \/ FailClosed(c, {DedupKey(p, w)})
          \/ CheckAddress(c)
          \/ AddressFails(c)
          \/ \E p \in Signer : sign(c, p)
          \/ addPetitionSignature(c)
    \/ \E p \in Signer : verifyPetitionSignature(p)

LlmNext ==
    \E c \in Caller :
        \/ assertLlmCallAllowed(c)
        \/ FailClosed(c, {<<"llm">>})
        \/ \E ok \in BOOLEAN : fetchWithBackoff(c, ok)

AdmissionNext ==
    \/ LoginNext \/ SignNext \/ LlmNext
    \/ \E c \in Caller : Abort(c)
    \/ \E keys \in {LoginKeys, HourKeys, DedupKeys} : WindowCloses(keys)

AdmissionSpec == AdmissionInit /\ [][AdmissionNext]_admissionVars

-----------------------------------------------------------------------------
(* Properties                                                              *)

\* The counters and the signatures keep their shape; a counter stops at its
\* limit.
AdmissionTypeOK ==
    /\ hits \in [Keys -> Nat]
    /\ \A k \in Keys : hits[k] <= LimitOf(k)
    /\ tries \in Nat /\ paid \in Nat /\ wrong \in [Account -> Nat]
    /\ sessions \subseteq Account
    /\ verified \subseteq signed /\ signed \subseteq Signer
    /\ burnt \subseteq DedupKeys /\ told \subseteq DedupKeys

\* Wrong passwords for an account stay within the limit of the window,
\* counted from the last good login; no number of good logins between the
\* guesses lifts the limit of the address.
GuessesBounded ==
    /\ tries <= IpLimit
    /\ \A a \in Account : wrong[a] <= UserLimit

\* A key has a signature, or an attempt under way, or one that failed: at the
\* limiter, at the limit of the address, or between the two and the insert.
Deserved(k) ==
    \/ \E p \in signed, w \in Spelling : k = DedupKey(p, w)
    \/ \E c \in Caller : visit[c] # Away /\ visit[c].key = k
    \/ k \in burnt

\* Whoever is told that this phone, or this network, has already signed is told
\* so for a signature, for an attempt under way or for an attempt of the same
\* window that failed: a limiter that works refuses nobody else, whatever the
\* number of callers.  The hit of a failed attempt is not given back, and a
\* failing limiter says the same to a first-time signer.
RefusedHaveSigned == \A k \in told : Deserved(k)

\* What the refusal says, "This phone number has already signed this petition."
\* (routers.ts:126): not so, by the two causes above.
RefusalIsTrue ==
    \A k \in told : \E p \in signed, w \in Spelling : k = DedupKey(p, w)

\* What the model costs is bounded: the calls made for the requests of one
\* hour, retries included.
SpendBounded == paid <= LlmLimit * (Retries + 1)

\* The invariant of the entry points: shape, refusals that are deserved, and the
\* bound on what the language model costs.
AdmissionInv == AdmissionTypeOK /\ RefusedHaveSigned /\ SpendBounded
=============================================================================
