------------------------------ MODULE WarRoom -------------------------------
(***************************************************************************)
(* The war room of the campaign platform: incidents with their audit rows  *)
(* (server/db.ts, server/routers.ts) and the event streams of the viewers  *)
(* (server/_core/sse.ts, the endpoint in server/_core/index.ts).  A change *)
(* of an incident is four steps with an await between them: read, UPDATE,  *)
(* INSERT of the audit row, broadcast.                                     *)
(***************************************************************************)
EXTENDS Naturals, FiniteSets

CONSTANTS Incident, Profile, Viewer,
          Editor,       \* concurrent requests that change an incident
          Stream,       \* requests for the event stream
          MaxClients,   \* SSE_MAX_CLIENTS
          MaxPerUser,   \* SSE_MAX_STREAMS_PER_USER
          NoOne         \* no row, no value

VARIABLES incident,     \* the rows of war_room_incidents
          audited,      \* toStatus of the latest audit row by incident
          change,       \* what a request has read and does next
          stream,       \* the connections
          clients,      \* sseClients: registered connections
          perUser,      \* sseStreamsPerUser
          behind,       \* streams with a change they were not told of
          stopping,     \* shuttingDown
          unaudited,    \* ghost: incidents whose audit row was not written
          crossed,      \* ghost: incidents whose UPDATEs and audit rows of
                        \* two requests alternate
          missed        \* ghost: streams left out by a failed request, or by
                        \* one that named another profile

warRoomVars == <<incident, audited, change, stream, clients, perUser, behind,
                 stopping, unaudited, crossed, missed>>
incidentVars == <<incident, audited, change, unaudited, crossed>>
streamVars == <<stream, clients, perUser, stopping>>

IncidentStatus == {"open", "escalated", "resolved"}
IncidentRow == [profile : Profile, status : IncidentStatus, resolvedAt : BOOLEAN]
StreamRow == [at : {"checking", "open"}, user : Viewer, profile : Profile,
              gone : BOOLEAN]

ASSUME CapsAssumption == MaxClients \in Nat /\ MaxPerUser \in Nat
ASSUME StreamAssumption == IsFiniteSet(Stream)
ASSUME NoOneAssumption == NoOne \notin IncidentRow \cup StreamRow

NoChange == [at |-> "idle"]
Of(p) == {s \in clients : stream[s].profile = p}

WarRoomInit ==
    /\ incident = [i \in Incident |-> NoOne]
    /\ audited = [i \in Incident |-> NoOne]
    /\ change = [c \in Editor |-> NoChange]
    /\ stream = [s \in Stream |-> NoOne]
    /\ clients = {}
    /\ perUser = [u \in Viewer |-> 0]
    /\ behind = {}
    /\ stopping = FALSE
    /\ unaudited = {}
    /\ crossed = {}
    /\ missed = {}

-----------------------------------------------------------------------------
(* Incidents                                                               *)

\* A second UPDATE lands while the audit row of the first is still to come.
Crossing(i) == \E c \in Editor : change[c].at = "audit" /\ change[c].of = i

\* The rest of a request after its UPDATE: the viewers are behind, and the
\* audit row is next.  tell is the profile that the broadcast will name.
Applied(c, i, to, tell) ==
    /\ change' = [change EXCEPT ![c] =
           [at |-> "audit", of |-> i, to |-> to, tell |-> tell]]
    /\ behind' = behind \cup Of(incident'[i].profile)
    /\ crossed' = IF Crossing(i) THEN crossed \cup {i} ELSE crossed
    /\ UNCHANGED <<audited, unaudited, missed, streamVars>>

addWarRoomIncident(c, i, p) ==
    /\ change[c] = NoChange
    /\ incident[i] = NoOne
    /\ incident' = [incident EXCEPT ![i] =
           [profile |-> p, status |-> "open", resolvedAt |-> FALSE]]
    /\ Applied(c, i, "open", p)

\* assertRowAccess resolves the profile of the row; the caller may still name
\* another profile for the broadcast (input.profileId ?? profileId).
BeginChange(c, i, op, tell) ==
    /\ change[c] = NoChange
    /\ incident[i] # NoOne
    /\ change' = [change EXCEPT ![c] =
           [at |-> "update", of |-> i, op |-> op, tell |-> tell]]
    /\ UNCHANGED <<incident, audited, behind, unaudited, crossed, missed,
                   streamVars>>

Updating(c, op) == change[c].at = "update" /\ change[c].op = op

\* resolved_at follows the new status.
updateIncidentStatus(c, status) ==
    /\ Updating(c, "status")
    /\ LET i == change[c].of
       IN /\ incident' = [incident EXCEPT ![i].status = status,
                              ![i].resolvedAt = status = "resolved"]
          /\ Applied(c, i, status, change[c].tell)

assignIncident(c) ==
    /\ Updating(c, "assign")
    /\ LET i == change[c].of
       IN /\ incident' = incident
          /\ Applied(c, i, incident[i].status, change[c].tell)

\* Bug: the audit row of an escalation repeats the status before it.
escalateUnderOldStatus(c) ==
    /\ Updating(c, "escalate")
    /\ LET i == change[c].of
       IN /\ incident' = [incident EXCEPT ![i].status = "escalated"]
          /\ Applied(c, i, incident[i].status, change[c].tell)

\* The time of an earlier resolution stays on the row.
escalateIncident(c) ==
    /\ Updating(c, "escalate")
    /\ LET i == change[c].of
       IN /\ incident' = [incident EXCEPT ![i].status = "escalated"]
          /\ Applied(c, i, "escalated", change[c].tell)

resolveIncident(c) ==
    /\ Updating(c, "resolve")
    /\ LET i == change[c].of
       IN /\ incident' = [incident EXCEPT ![i].status = "resolved",
                              ![i].resolvedAt = TRUE]
          /\ Applied(c, i, "resolved", change[c].tell)

writeIncidentAudit(c) ==
    /\ change[c].at = "audit"
    /\ audited' = [audited EXCEPT ![change[c].of] = change[c].to]
    /\ change' = [change EXCEPT ![c].at = "tell"]
    /\ UNCHANGED <<incident, behind, unaudited, crossed, missed, streamVars>>

\* Bug: an escalation ends without the broadcast.
broadcastUnlessEscalated(c) ==
    /\ change[c].at = "tell"
    /\ behind' = IF change[c].to = "escalated" THEN behind
                 ELSE behind \ Of(change[c].tell)
    /\ change' = [change EXCEPT ![c] = NoChange]
    /\ UNCHANGED <<incident, audited, unaudited, crossed, missed, streamVars>>

\* After the notification of the owner, whose failure is swallowed.
broadcastWarRoomUpdate(c) ==
    /\ change[c].at = "tell"
    /\ LET to == Of(change[c].tell)
           left == Of(incident[change[c].of].profile) \ to
       IN /\ behind' = behind \ to
          /\ missed' = (missed \ to) \cup (left \cap behind)
    /\ change' = [change EXCEPT ![c] = NoChange]
    /\ UNCHANGED <<incident, audited, unaudited, crossed, streamVars>>

\* A statement fails, or the process is stopped: what came before stays.
FailChange(c) ==
    /\ change[c] # NoChange
    /\ LET late == change[c].at \in {"audit", "tell"}
           i == change[c].of
       IN /\ unaudited' = IF change[c].at = "audit"
                          THEN unaudited \cup {i} ELSE unaudited
          /\ missed' = IF late
                       THEN missed \cup (Of(incident[i].profile) \cap behind)
                       ELSE missed
    /\ change' = [change EXCEPT ![c] = NoChange]
    /\ UNCHANGED <<incident, audited, crossed, behind, streamVars>>

-----------------------------------------------------------------------------
(* Event streams                                                           *)

\* The session is verified and the role is read; gone: the client has hung
\* up, and the handler of "close" was not attached yet.
OpenStream(s, u, p) ==
    /\ stream[s] = NoOne
    /\ ~stopping
    /\ stream' = [stream EXCEPT ![s] =
           [at |-> "checking", user |-> u, profile |-> p, gone |-> FALSE]]
    /\ UNCHANGED <<clients, perUser, stopping, behind, missed, incidentVars>>

HangUpEarly(s) ==
    /\ stream[s] # NoOne
    /\ stream[s].at = "checking"
    /\ ~stream[s].gone
    /\ stream' = [stream EXCEPT ![s].gone = TRUE]
    /\ UNCHANGED <<clients, perUser, stopping, behind, missed, incidentVars>>

\* Bug: only the streams of the user are counted.
HasRoomOfOwn(u) == perUser[u] < MaxPerUser

HasRoom(u) == Cardinality(clients) < MaxClients /\ perUser[u] < MaxPerUser

\* The caps and the registration are one synchronous step after the awaits.
registerSseClient(s) ==
    /\ stream[s] # NoOne
    /\ stream[s].at = "checking"
    /\ LET u == stream[s].user
       IN IF HasRoom(u)
          THEN /\ stream' = [stream EXCEPT ![s].at = "open"]
               /\ clients' = clients \cup {s}
               /\ perUser' = [perUser EXCEPT ![u] = @ + 1]
          ELSE /\ stream' = [stream EXCEPT ![s] = NoOne]
               /\ UNCHANGED <<clients, perUser>>
    /\ UNCHANGED <<stopping, behind, missed, incidentVars>>

\* 403: the user has no role in the profile.
RefuseStream(s) ==
    /\ stream[s] # NoOne
    /\ stream[s].at = "checking"
    /\ stream' = [stream EXCEPT ![s] = NoOne]
    /\ UNCHANGED <<clients, perUser, stopping, behind, missed, incidentVars>>

\* The function registerSseClient returns, run by the "close" event.  It
\* counts down even if the registry was emptied in the meantime.
unregister(s) ==
    /\ stream[s] # NoOne
    /\ stream[s].at = "open"
    /\ ~stream[s].gone
    /\ clients' = clients \ {s}
    /\ perUser' = [perUser EXCEPT ![stream[s].user] =
           IF @ <= 1 THEN 0 ELSE @ - 1]
    /\ stream' = [stream EXCEPT ![s] = NoOne]
    /\ behind' = behind \ {s}
    /\ missed' = missed \ {s}
    /\ UNCHANGED <<stopping, incidentVars>>

\* shutdown: no new connection is accepted; requests under way go on until
\* the process exits.
destroyAllSseClients ==
    /\ ~stopping
    /\ stopping' = TRUE
    /\ clients' = {}
    /\ perUser' = [u \in Viewer |-> 0]
    /\ behind' = {}
    /\ missed' = {}
    /\ UNCHANGED <<stream, incidentVars>>

IncidentNext ==
    \E c \in Editor :
        \/ \E i \in Incident, p \in Profile : addWarRoomIncident(c, i, p)
        \/ \E i \in Incident, p \in Profile,
              op \in {"status", "assign", "escalate", "resolve"} :
              BeginChange(c, i, op, p)
        \/ \E status \in IncidentStatus : updateIncidentStatus(c, status)
        \/ assignIncident(c)
        \/ escalateIncident(c)
        \/ resolveIncident(c)
        \/ writeIncidentAudit(c)
        \/ broadcastWarRoomUpdate(c)
        \/ FailChange(c)

StreamNext ==
    \/ \E s \in Stream :
          \/ \E u \in Viewer, p \in Profile : OpenStream(s, u, p)
          \/ HangUpEarly(s)
          \/ registerSseClient(s)
          \/ RefuseStream(s)
          \/ unregister(s)
    \/ destroyAllSseClients

WarRoomNext == IncidentNext \/ StreamNext

WarRoomSpec == WarRoomInit /\ [][WarRoomNext]_warRoomVars

-----------------------------------------------------------------------------
(* Properties                                                              *)

\* The rows, the requests and the streams keep their shape.
WarRoomTypeOK ==
    /\ incident \in [Incident -> {NoOne} \cup IncidentRow]
    /\ audited \in [Incident -> {NoOne} \cup IncidentStatus]
    /\ \A c \in Editor :
           change[c].at \in {"idle", "update", "audit", "tell"}
    /\ stream \in [Stream -> {NoOne} \cup StreamRow]
    /\ clients \subseteq Stream /\ behind \subseteq Stream
    /\ perUser \in [Viewer -> 0..Cardinality(Stream)]
    /\ unaudited \subseteq Incident /\ crossed \subseteq Incident

\* The audit trail is the record of the workflow: once no request is on its
\* way with an incident, the latest audit row names the status of the
\* incident, unless an audit INSERT failed or two requests crossed.
TrailTellsStatus ==
    \A i \in Incident \ (unaudited \cup crossed) :
        (\A c \in Editor : change[c].at = "audit" => change[c].of # i) =>
        IF incident[i] = NoOne THEN audited[i] = NoOne
        ELSE audited[i] = incident[i].status

\* A viewer whose screen is out of date will be told: some request that has
\* changed an incident of the profile has its broadcast ahead, unless that
\* broadcast failed or was sent to another profile.
ViewersTold ==
    \A s \in (behind \cap clients) \ missed :
        \E c \in Editor :
            /\ change[c].at \in {"audit", "tell"}
            /\ incident[change[c].of].profile = stream[s].profile

\* The streams kept open stay within both caps, and the count of a user is
\* the number of the connections he holds, until the server shuts down.
StreamsCounted ==
    ~stopping =>
    /\ Cardinality(clients) <= MaxClients
    /\ \A u \in Viewer :
           /\ perUser[u] = Cardinality({s \in clients : stream[s].user = u})
           /\ perUser[u] <= MaxPerUser

\* Until the server shuts down the registry holds every stream that was let in
\* and has not ended, and no other.  The one whose client hung up before the
\* handler of "close" was attached never ends: it holds its place for good.
RegistryIsExact ==
    ~stopping => clients = {s \in Stream : stream[s] # NoOne /\ stream[s].at = "open"}

\* What the comment in broadcastWarRoomUpdate promises of a client that vanished.
CloseHandlerCleansUp == \A s \in clients : ~stream[s].gone

\* The invariant of the war room: shape, the audit trail, the registry and the
\* caps on streams.
WarRoomInv == WarRoomTypeOK /\ TrailTellsStatus /\ StreamsCounted /\ RegistryIsExact
=============================================================================
