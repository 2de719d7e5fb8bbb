------------------------------ MODULE TenantRows ------------------------------
(***************************************************************************)
(* The rows that a campaign keeps (campaign-platform/server/routers.ts and *)
(* db.ts), in the tables that differ only in who may write them and in     *)
(* what their statements check.  A route checks the caller's role, on the  *)
(* profile that the caller names or on the profile of the row, and a       *)
(* statement follows, guarded by the profile or by the id alone.           *)
(***************************************************************************)
EXTENDS Team

CONSTANT Row            \* ids; an id is used once

VARIABLES table,        \* the table that the behaviour is about
          row,          \* its rows
          rowCall       \* what a row request has read and does next

rowVars == <<table, row, rowCall>>
tenantVars == <<teamVars, rowVars>>

Roles == {"viewer", "manager", "owner", "none"}

\* The least roles of a table's routes: save takes the profile from the caller,
\* touch and remove take it from the row ("none": no such route).
Api(save, touch, remove) == [save |-> save, touch |-> touch, remove |-> remove]

\* What a table's statements go by: whether save updates an existing row of the
\* named profile, and whether removal names the profile too.
Store(updates, removesOwn) == [updates |-> updates, removesOwn |-> removesOwn]

timelineApi == Api("manager", "none", "owner")
timelineStore == Store(TRUE, FALSE)
pollingUnitsApi == Api("manager", "none", "none")
pollingUnitsStore == Store(TRUE, FALSE)
volunteersApi == Api("manager", "manager", "none")
volunteersStore == Store(FALSE, FALSE)
pressReleaseApi == Api("manager", "none", "none")
pressReleaseStore == Store(TRUE, FALSE)
socialMediaApi == Api("manager", "none", "none")
socialMediaStore == Store(TRUE, FALSE)
complianceApi == Api("manager", "none", "none")
complianceStore == Store(TRUE, FALSE)
oppositionApi == Api("manager", "none", "none")
oppositionStore == Store(TRUE, FALSE)
resultsApi == Api("manager", "none", "none")
resultsStore == Store(FALSE, FALSE)
manifestoApi == Api("manager", "none", "owner")
manifestoStore == Store(TRUE, FALSE)
diasporaApi == Api("manager", "none", "none")
diasporaStore == Store(FALSE, FALSE)
endorsementsApi == Api("manager", "none", "none")
endorsementsStore == Store(FALSE, FALSE)
mediaApi == Api("manager", "none", "owner")
mediaStore == Store(TRUE, FALSE)
debateApi == Api("manager", "none", "none")
debateStore == Store(TRUE, FALSE)
debateScoresApi == Api("manager", "none", "none")
debateScoresStore == Store(FALSE, FALSE)
stakeholdersApi == Api("manager", "none", "owner")
stakeholdersStore == Store(TRUE, FALSE)
simulationApi == Api("manager", "none", "none")
simulationStore == Store(FALSE, FALSE)
volunteerTasksApi == Api("manager", "manager", "owner")
volunteerTasksStore == Store(FALSE, FALSE)
tribunalApi == Api("manager", "none", "owner")
tribunalStore == Store(TRUE, TRUE)

Tables ==
    {[api |-> timelineApi, store |-> timelineStore],
     [api |-> pollingUnitsApi, store |-> pollingUnitsStore],
     [api |-> volunteersApi, store |-> volunteersStore],
     [api |-> pressReleaseApi, store |-> pressReleaseStore],
     [api |-> socialMediaApi, store |-> socialMediaStore],
     [api |-> complianceApi, store |-> complianceStore],
     [api |-> oppositionApi, store |-> oppositionStore],
     [api |-> resultsApi, store |-> resultsStore],
     [api |-> manifestoApi, store |-> manifestoStore],
     [api |-> diasporaApi, store |-> diasporaStore],
     [api |-> endorsementsApi, store |-> endorsementsStore],
     [api |-> mediaApi, store |-> mediaStore],
     [api |-> debateApi, store |-> debateStore],
     [api |-> debateScoresApi, store |-> debateScoresStore],
     [api |-> stakeholdersApi, store |-> stakeholdersStore],
     [api |-> simulationApi, store |-> simulationStore],
     [api |-> volunteerTasksApi, store |-> volunteerTasksStore],
     [api |-> tribunalApi, store |-> tribunalStore]}

Unused == [state |-> "unused"]

RowInit ==
    /\ TeamInit
    /\ table \in Tables
    /\ row = [r \in Row |-> Unused]
    /\ rowCall = [q \in Call |-> Quiet]

\* profileScopedProcedure: the role on the profile that the caller names.  An
\* existing row is named by its id, of whatever profile it is.
BeginSave(q, u, p, r) ==
    /\ call[q] = Quiet /\ rowCall[q] = Quiet
    /\ Allowed(u, p, table.api.save)
    /\ row[r] = Unused \/ (table.store.updates /\ row[r].state = "live")
    /\ rowCall' = [rowCall EXCEPT ![q] =
           [at |-> IF row[r] = Unused THEN "insert" ELSE "update",
            user |-> u, profile |-> p, row |-> r]]
    /\ UNCHANGED <<teamVars, table, row>>

\* assertRowAccess: the role on the profile of the row.
BeginById(q, u, r, kind) ==
    /\ call[q] = Quiet /\ rowCall[q] = Quiet
    /\ table.api[kind] # "none" /\ row[r].state = "live"
    /\ ~(kind = "remove" /\ table.store.removesOwn)
    /\ Allowed(u, row[r].profile, table.api[kind])
    /\ rowCall' = [rowCall EXCEPT ![q] =
           [at |-> kind, user |-> u, profile |-> row[r].profile, row |-> r]]
    /\ UNCHANGED <<teamVars, table, row>>

\* tribunal.delete names the profile, and so does its statement.
BeginRemoveOwn(q, u, p, r) ==
    /\ call[q] = Quiet /\ rowCall[q] = Quiet
    /\ table.store.removesOwn /\ row[r].state = "live"
    /\ Allowed(u, p, table.api.remove)
    /\ rowCall' = [rowCall EXCEPT ![q] =
           [at |-> "removeOwn", user |-> u, profile |-> p, row |-> r]]
    /\ UNCHANGED <<teamVars, table, row>>

RowReturns(q) == rowCall' = [rowCall EXCEPT ![q] = Quiet]

Insert(q) ==
    LET c == rowCall[q]
    IN /\ c.at = "insert"
       /\ \E r \in Row : /\ row[r] = Unused
                         /\ row' = [row EXCEPT ![r] = [state |-> "live",
                                profile |-> c.profile, by |-> {c.user}]]
       /\ RowReturns(q)
       /\ UNCHANGED <<teamVars, table>>

\* Bug: WHERE id = ... alone.
MatchesById(c) == row[c.row].state = "live"

\* requireTenantId and assertUpdated: WHERE id = ... AND profile_id = ...
Matches(c) == row[c.row].state = "live" /\ row[c.row].profile = c.profile

\* Bug: the profile that the caller names is written into the row.
UpdateProfileToo(q) ==
    LET c == rowCall[q]
    IN /\ c.at \in {"update", "removeOwn"}
       /\ row' = IF row[c.row].state # "live" THEN row
                 ELSE [row EXCEPT ![c.row].by = @ \cup {c.user},
                                  ![c.row].profile = c.profile]
       /\ RowReturns(q)
       /\ UNCHANGED <<teamVars, table>>

Update(q) ==
    LET c == rowCall[q]
    IN /\ c.at \in {"update", "removeOwn"}
       /\ row' = IF ~Matches(c) THEN row
                 ELSE [row EXCEPT ![c.row].by = @ \cup {c.user},
                          ![c.row].state = IF c.at = "update" THEN @ ELSE "gone"]
       /\ RowReturns(q)
       /\ UNCHANGED <<teamVars, table>>

\* Statements that go by the id alone.
ById(q) ==
    LET c == rowCall[q]
    IN /\ c.at \in {"touch", "remove"}
       /\ row' = IF row[c.row].state # "live" THEN row
                 ELSE [row EXCEPT ![c.row].by = @ \cup {c.user},
                          ![c.row].state = IF c.at = "touch" THEN @ ELSE "gone"]
       /\ RowReturns(q)
       /\ UNCHANGED <<teamVars, table>>

RowNext ==
    \/ TeamNext /\ UNCHANGED rowVars /\ \A q \in Call : call'[q] # call[q] => rowCall[q] = Quiet
    \/ \E q \in Call, u \in User, r \in Row :
          \/ \E p \in Profile : BeginSave(q, u, p, r) \/ BeginRemoveOwn(q, u, p, r)
          \/ \E kind \in {"touch", "remove"} : BeginById(q, u, r, kind)
    \/ \E q \in Call : Insert(q) \/ Update(q) \/ ById(q)

RowSpec == RowInit /\ [][RowNext]_tenantVars

-----------------------------------------------------------------------------
(* Properties                                                              *)

\* Tenant isolation: everyone who ever wrote a row owned its campaign or was a
\* manager of it at some time, however roles change while requests are under
\* way and whatever profile a request names.
WritersBelong ==
    \A r \in Row : row[r] # Unused => \A u \in row[r].by :
        \/ owner[row[r].profile] = u
        \/ <<u, row[r].profile>> \in held

\* A row stays with the campaign that created it, and a removed row stays gone.
RowsStay ==
    [][\A r \in Row : row[r] # Unused =>
          /\ row'[r] # Unused /\ row'[r].profile = row[r].profile
          /\ row[r].state = "gone" => row'[r] = row[r]]_tenantVars
=============================================================================
