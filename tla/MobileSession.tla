---------------------------- MODULE MobileSession -----------------------------
(***************************************************************************)
(* The session of the mobile app: the API layer that refreshes the access  *)
(* token on a 401 (inec-mobile/src/lib/api.ts), the server that rotates    *)
(* the refresh token (inec-go-backend/handlers.go), and the root layout,   *)
(* whose guard sends a user who is not signed in to the login screen       *)
(* (app/_layout.tsx, app/index.tsx).  Access and refresh token of a pair   *)
(* carry one identifier, and a token stands for that identifier.           *)
(***************************************************************************)
EXTENDS Naturals

CONSTANTS Api,          \* API calls that may be under way at once
          MaxToken      \* pairs of tokens that the server issues

ASSUME MaxTokenAssumption == MaxToken \in Nat \ {0}

NoToken == 0
Token == 1 .. MaxToken

VARIABLES issued,       \* the last pair that the server issued
          valid,        \* the pairs that are not blacklisted
          aged,         \* the pairs whose access token is an hour old
          lapsed,       \* the pairs whose refresh token is a week old
          revoked,      \* the pairs that were blacklisted by hand
          banned,       \* the account is disabled
          access, refresh,   \* the secure store
          authMode,     \* the stored mode: none or inec
          call,         \* where each API call is, and the token it was sent with
          renew,        \* the refresh that a call has started
          wedged,       \* inflightRefresh is a promise that is long settled
          layout,       \* the mode that the root layout knows
          loading,      \* the layout still reads the stored mode
          route,        \* the screen
          due,          \* the route guard has to run
          booting,      \* the login screen checks for a session
          ended,        \* how the last session ended: "no", by the "user", or a Verdict
          torn,         \* a rotated pair never reached the store
          restarted     \* the session is older than the app

tokenVars == <<issued, valid, aged, lapsed, revoked, banned>>
storeVars == <<access, refresh, authMode>>
routeVars == <<layout, loading, route, due, booting>>
pastVars == <<ended, torn, restarted, wedged>>
sessionVars == <<tokenVars, storeVars, call, renew, routeVars, pastVars>>

NoCall == [at |-> "idle", token |-> NoToken]
NoRefresh == [at |-> "none", token |-> NoToken, answer |-> NoToken]

SessionInit ==
    /\ issued = 0 /\ valid = {} /\ aged = {} /\ lapsed = {} /\ revoked = {} /\ banned = FALSE
    /\ access = NoToken /\ refresh = NoToken /\ authMode = "none"
    /\ call = [c \in Api |-> NoCall] /\ renew = [c \in Api |-> NoRefresh]
    /\ layout = "none" /\ loading = TRUE /\ route = "index" /\ due = FALSE
    /\ booting = TRUE
    /\ ended = "no" /\ torn = FALSE /\ restarted = FALSE /\ wedged = FALSE

replaceRoute(r) == route' = r /\ due' = TRUE /\ booting' = (r = "index")

-----------------------------------------------------------------------------
(* The API layer                                                           *)

\* rawRequest: the token is read from the store when the call is sent, and a
\* call without one is sent all the same.
rawRequest(c) ==
    /\ call[c].at \in {"idle", "again"}
    /\ call' = [call EXCEPT ![c] = [at |-> IF @.at = "idle" THEN "sent" ELSE "resent",
                                    token |-> access]]
    /\ UNCHANGED <<tokenVars, storeVars, renew, routeVars, pastVars>>

Accepted(t) == t \in valid \ aged /\ ~banned

\* One refresh at a time: a later 401 joins the refresh that is under way.
StartEach(c) == [renew EXCEPT ![c].at = "reading"]      \* mutant: each call its own
StartRefresh(c) ==
    IF \E d \in Api : renew[d].at # "none" THEN renew
    ELSE [renew EXCEPT ![c].at = "reading"]

\* The answer of a call, or none.  On a 401 it waits for a refresh, and is sent
\* again once; the second answer is final, and so is the first when a refresh
\* that is long over is taken for one under way.
api(c) ==
    /\ call[c].at \in {"sent", "resent"}
    /\ \/ /\ call[c].at = "sent" /\ ~Accepted(call[c].token) /\ ~wedged
          /\ call' = [call EXCEPT ![c].at = "waits"]
          /\ renew' = StartRefresh(c)
       \/ call' = [call EXCEPT ![c] = NoCall] /\ UNCHANGED renew
    /\ UNCHANGED <<tokenVars, storeVars, routeVars, pastVars>>

\* The refresh is over, and every call that waits for it goes on.
FinishOwn(c, ok) ==                  \* mutant: the others are not told
    /\ renew' = [renew EXCEPT ![c] = NoRefresh]
    /\ call' = [call EXCEPT ![c].at = IF ok THEN "again" ELSE "idle"]
Finish(c, ok) ==
    /\ renew' = [renew EXCEPT ![c] = NoRefresh]
    /\ call' = [d \in Api |-> IF call[d].at # "waits" THEN call[d]
                                  ELSE IF ok THEN [call[d] EXCEPT !.at = "again"]
                                  ELSE NoCall]

\* No refresh token is stored, or the store throws: the refresh is over before
\* its try, and the finally that forgets the promise is not reached.
readRefresh(c) ==
    /\ renew[c].at = "reading"
    /\ \/ Finish(c, FALSE) /\ wedged' = TRUE
       \/ /\ refresh # NoToken
          /\ renew' = [renew EXCEPT ![c].at = "asked", ![c].token = refresh]
          /\ UNCHANGED <<call, wedged>>
    /\ UNCHANGED <<tokenVars, storeVars, routeVars, ended, torn, restarted>>

Rotated(t) == t \in valid \ lapsed /\ ~banned /\ issued < MaxToken

\* Why the server answers 401: the token is too old, was blacklisted by hand or
\* when it was exchanged, the query of the account failed, or it is disabled.
Verdict == {"expired", "revoked", "replayed", "database", "disabled"}
Rejected(t, why) ==
    \/ why = "expired" /\ t \in lapsed
    \/ why = "revoked" /\ t \in revoked \ lapsed
    \/ why = "replayed" /\ t \notin valid \cup revoked \cup lapsed
    \/ why = "database" /\ t \in valid \ lapsed
    \/ why = "disabled" /\ t \in valid \ lapsed /\ banned

\* The server: a live token of an active account is exchanged and blacklisted,
\* any other is rejected with 401.
handleRefreshToken(c) ==
    /\ renew[c].at = "asked"
    /\ LET t == renew[c].token
       IN \/ /\ Rotated(t)
             /\ issued' = issued + 1 /\ valid' = (valid \ {t}) \cup {issued + 1}
             /\ renew' = [renew EXCEPT ![c].at = "granted", ![c].answer = issued + 1]
          \/ \E why \in Verdict :
             /\ Rejected(t, why)
             /\ renew' = [renew EXCEPT ![c].at = why]
             /\ UNCHANGED <<issued, valid>>
    /\ UNCHANGED <<aged, lapsed, revoked, banned, storeVars, call, routeVars, pastVars>>

\* setTokens writes one item after the other.
setAccess(c) ==
    /\ renew[c].at = "granted"
    /\ access' = renew[c].answer
    /\ renew' = [renew EXCEPT ![c].at = "writing"]
    /\ UNCHANGED <<tokenVars, refresh, authMode, call, routeVars, pastVars>>

setRefresh(c) ==
    /\ renew[c].at = "writing"
    /\ refresh' = renew[c].answer
    /\ Finish(c, TRUE)
    /\ UNCHANGED <<tokenVars, access, authMode, routeVars, pastVars>>

\* isTerminalRefreshFailure: the session is cleared, and the layout drops back to
\* the login screen.
expire(c) ==
    /\ renew[c].at \in Verdict
    /\ access' = NoToken /\ refresh' = NoToken /\ authMode' = "none"
    /\ layout' = "none" /\ loading' = FALSE /\ replaceRoute("index")
    /\ ended' = IF refresh = NoToken THEN ended ELSE renew[c].at
    /\ Finish(c, FALSE)
    /\ UNCHANGED <<tokenVars, torn, restarted, wedged>>

\* The network fails, before the server or after it, or the server answers 5xx,
\* or the store throws under the new pair.
loseRefresh(c) ==
    /\ renew[c].at \in {"asked", "granted", "writing"} \cup Verdict
    /\ Finish(c, FALSE)
    /\ torn' = (torn \/ renew[c].at \in {"granted", "writing"})
    /\ UNCHANGED <<tokenVars, storeVars, routeVars, ended, restarted, wedged>>

Refreshing(c) ==
    \/ readRefresh(c) \/ handleRefreshToken(c) \/ setAccess(c)
    \/ setRefresh(c) \/ expire(c) \/ loseRefresh(c)

-----------------------------------------------------------------------------
(* The server's clock and administrators                                   *)

Age(t) ==
    /\ t \in valid \ aged /\ aged' = aged \cup {t}
    /\ UNCHANGED <<issued, valid, lapsed, revoked, banned, storeVars, call, renew,
                   routeVars, pastVars>>

Lapse(t) ==
    /\ t \in aged \ lapsed /\ lapsed' = lapsed \cup {t}
    /\ UNCHANGED <<issued, valid, aged, revoked, banned, storeVars, call, renew,
                   routeVars, pastVars>>

\* The session is revoked from another device or by an administrator.
Revoke(t) ==
    /\ t \in valid /\ valid' = valid \ {t} /\ revoked' = revoked \cup {t}
    /\ UNCHANGED <<issued, aged, lapsed, banned, storeVars, call, renew, routeVars, pastVars>>

Ban ==
    /\ ~banned /\ banned' = TRUE
    /\ UNCHANGED <<issued, valid, aged, lapsed, revoked, storeVars, call, renew,
                   routeVars, pastVars>>

-----------------------------------------------------------------------------
(* The screens                                                             *)

handleLogin ==
    /\ route = "index" /\ ~booting /\ access = NoToken /\ ~banned /\ issued < MaxToken
    /\ issued' = issued + 1 /\ valid' = valid \cup {issued + 1}
    /\ access' = issued + 1 /\ refresh' = issued + 1 /\ authMode' = "inec"
    /\ replaceRoute("feed")
    /\ ended' = "no" /\ restarted' = FALSE
    /\ torn' = (torn /\ \E c \in Api : renew[c].at # "none")
    /\ UNCHANGED <<aged, lapsed, revoked, banned, call, renew, layout, loading, wedged>>

\* More: the tokens go, the stored mode and the layout's stay.
handleLogout ==
    /\ route = "feed" /\ access # NoToken
    /\ access' = NoToken /\ refresh' = NoToken /\ ended' = "user"
    /\ replaceRoute("index")
    /\ UNCHANGED <<tokenVars, authMode, call, renew, layout, loading, torn, restarted, wedged>>

\* A notification that names a screen is tapped.  The screen is pushed over the
\* login screen, whose own check goes on: it counts as over before the tap.
tapNotification ==
    /\ route = "index" /\ ~booting /\ replaceRoute("feed")
    /\ UNCHANGED <<tokenVars, storeVars, call, renew, layout, loading, pastVars>>

\* The layout learns the stored mode, once, after it was mounted.
loadModeNever ==                  \* mutant: the answer is not put in the state
    /\ loading /\ loading' = FALSE
    /\ UNCHANGED <<tokenVars, storeVars, call, renew, layout, route, due, booting, pastVars>>
loadMode ==
    /\ loading /\ loading' = FALSE
    /\ layout' = authMode /\ due' = (due \/ layout # authMode)
    /\ UNCHANGED <<tokenVars, storeVars, call, renew, route, booting, pastVars>>

\* The route guard of the root layout.
guard ==
    /\ due
    /\ IF layout = "none" /\ route # "index" THEN replaceRoute("index")
       ELSE due' = FALSE /\ UNCHANGED <<route, booting>>
    /\ UNCHANGED <<tokenVars, storeVars, call, renew, layout, loading, pastVars>>

\* The login screen looks for a session when it is mounted.
boot ==
    /\ booting
    /\ IF access # NoToken /\ authMode = "inec" THEN replaceRoute("feed")
       ELSE booting' = FALSE /\ UNCHANGED <<route, due>>
    /\ UNCHANGED <<tokenVars, storeVars, call, renew, layout, loading, pastVars>>

\* The app is killed and started again; a pair that was on its way is lost.
Restart ==
    /\ ~restarted /\ restarted' = TRUE
    /\ call' = [c \in Api |-> NoCall] /\ renew' = [c \in Api |-> NoRefresh]
    /\ torn' = (torn \/ \E c \in Api : renew[c].at \in {"granted", "writing"})
    /\ layout' = "none" /\ loading' = TRUE /\ replaceRoute("index") /\ wedged' = FALSE
    /\ UNCHANGED <<tokenVars, storeVars, ended>>

Navigation == loadMode \/ guard \/ boot

SessionNext ==
    \/ \E c \in Api : rawRequest(c) \/ api(c) \/ Refreshing(c)
    \/ \E t \in Token : Age(t) \/ Lapse(t) \/ Revoke(t)
    \/ Ban \/ handleLogin \/ handleLogout \/ tapNotification
    \/ Navigation \/ Restart

\* A call is answered or fails, and is sent again when its refresh is over.
CallStep(c) == api(c) \/ (call[c].at = "again" /\ rawRequest(c))
CallFairness ==
    \A c \in Api : WF_sessionVars(CallStep(c)) /\ WF_sessionVars(Refreshing(c))

\* Effects run.
EffectFairness == WF_sessionVars(loadMode) /\ WF_sessionVars(guard) /\ WF_sessionVars(boot)

SessionSpec == SessionInit /\ [][SessionNext]_sessionVars
               /\ CallFairness /\ EffectFairness

-----------------------------------------------------------------------------
(* Properties                                                              *)

SignedIn == access # NoToken /\ authMode = "inec" /\ ended = "no"

Calls == [at : {"idle", "sent", "waits", "again", "resent"}, token : 0 .. issued]
Refreshes == [at : {"none", "reading", "asked", "granted", "writing"} \cup Verdict,
              token : 0 .. issued, answer : 0 .. issued]

\* The store and the calls hold tokens that the server has issued.
SessionTypeOK ==
    /\ issued \in 0 .. MaxToken /\ valid \subseteq 1 .. issued /\ aged \subseteq 1 .. issued
    /\ lapsed \subseteq 1 .. issued /\ revoked \subseteq 1 .. issued
    /\ access \in 0 .. issued /\ refresh \in 0 .. issued
    /\ authMode \in {"none", "inec"} /\ layout \in {"none", "inec"}
    /\ route \in {"index", "feed"} /\ ended \in {"no", "user"} \cup Verdict
    /\ call \in [Api -> Calls] /\ renew \in [Api -> Refreshes]
    /\ banned \in BOOLEAN /\ torn \in BOOLEAN /\ restarted \in BOOLEAN
    /\ wedged \in BOOLEAN /\ loading \in BOOLEAN /\ due \in BOOLEAN /\ booting \in BOOLEAN

\* Two calls that meet an expired token never end the session between them,
\* although each refresh token works once: a session ends because a token was
\* exchanged before only if a rotated pair, of this session or of one whose
\* refresh is still under way, never reached the store.
SessionEndsForCause == ended = "replayed" => torn

\* The invariant of the session: shape, and no end without a cause.
SessionInv == SessionTypeOK /\ SessionEndsForCause

\* Every call comes to an end, also one that waits for another's refresh.
CallsEnd == \A c \in Api : call[c].at # "idle" ~> call[c].at = "idle"

\* An officer whose session outlives the app finds the way back to the feed: the
\* guard, which does not know the mode yet, and the login screen, which does,
\* may send the user back and forth until the layout has read the mode.
RestartArrives ==
    (SignedIn /\ restarted) ~> (~SignedIn \/ ~restarted \/ (route = "feed" /\ ~due))

\* auth-refresh.ts: network errors and 5xx are transient and must not log the
\* officer out.  They do: a pair that is lost on its way is a replay later, and a
\* failing query of the server is a 401.
NetworkNeverLogsOut == ended \notin {"replayed", "database"}

\* api.ts: "on 401, refresh the 1-hour access token and retry exactly once".  Not
\* after a refresh that found no token, until the app is started again.
StaleIsRefreshed == wedged => refresh = NoToken

\* index.tsx: a user who is already authenticated goes to the feed.
SignedInArrives == SignedIn ~> (~SignedIn \/ (route = "feed" /\ ~due))
===============================================================================
