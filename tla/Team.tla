-------------------------------- MODULE Team --------------------------------
(***************************************************************************)
(* Who may act for a campaign (campaign-platform/server): profiles and     *)
(* their owners, invites, memberships and roles.  A request looks up the   *)
(* caller's role, and acts on it after further awaits; other requests, and *)
(* a failure, fall in between.                                             *)
(***************************************************************************)
EXTENDS Naturals, FiniteSets

CONSTANTS User,
          Profile,      \* ids of candidate_profiles
          Member,       \* ids of campaign_members; an id is used once
          Call,         \* concurrent requests
          Nobody

ASSUME NobodyAssumption == Nobody \notin User \cup {"manager", "viewer"}

VARIABLES owner,        \* candidate_profiles.user_id; Nobody: no such profile
          member,       \* campaign_members
          expired,      \* invites older than INVITE_TTL_MS
          events,       \* data_access_audit: <<profile, action, actor>>
          call,         \* what a request has read and does next
          joined,       \* ghost: users whom an invite let in
          held,         \* ghost: <<user, profile>> of every manager so far
          muted         \* ghost: members with an event lost in a failure

teamVars == <<owner, member, expired, events, call, joined, held, muted>>

PROFILE_ROLE_RANK == [viewer |-> 1, manager |-> 2, owner |-> 3]

Actions == {"invite", "accept", "role_change", "remove"}
Vacant == [state |-> "vacant"]
Quiet == [at |-> "idle"]
Return(q) == call' = [call EXCEPT ![q] = Quiet]

Active(m) == member[m].state \in {"invited", "joined"}

\* resolveProfileRole: the owner, else the role of some membership row of the
\* user: LIMIT 1 without an order picks any of them.
RolesOf(u, p) ==
    IF owner[p] = u THEN {"owner"}
    ELSE {member[m].role : m \in {n \in Member : member[n].state = "joined" /\
                                     member[n].profile = p /\ member[n].user = u}}

\* assertProfileRole and profileScopedProcedure let the request pass.
Allowed(u, p, least) ==
    \E r \in RolesOf(u, p) : PROFILE_ROLE_RANK[r] >= PROFILE_ROLE_RANK[least]

ProfileOf(u) == {p \in Profile : owner[p] = u}

TeamInit ==
    /\ owner = [p \in Profile |-> Nobody]
    /\ member = [m \in Member |-> Vacant]
    /\ expired = {}
    /\ events = {}
    /\ call = [q \in Call |-> Quiet]
    /\ joined = [m \in Member |-> {}]
    /\ held = {}
    /\ muted = {}

-----------------------------------------------------------------------------
(* team.invite                                                             *)

BeginInvite(q, u, p, role) ==
    /\ call[q] = Quiet
    /\ Allowed(u, p, "manager")
    /\ call' = [call EXCEPT ![q] = [at |-> "invite", user |-> u, profile |-> p,
                                    role |-> role]]
    /\ UNCHANGED <<owner, member, expired, events, joined, held, muted>>

\* inviteCampaignMember: the token of the row exists in the invite URL alone.
Invite(q, m) ==
    /\ call[q].at = "invite"
    /\ member[m] = Vacant
    /\ member' = [member EXCEPT ![m] =
           [state |-> "invited", profile |-> call[q].profile,
            role |-> call[q].role, user |-> Nobody]]
    /\ call' = [call EXCEPT ![q] = [at |-> "log", user |-> call[q].user,
           member |-> m, profile |-> call[q].profile, action |-> "invite"]]
    /\ UNCHANGED <<owner, expired, events, joined, held, muted>>

\* logMembershipEvent stores the campaign, the action and the name of whoever
\* acted, and drops the id of the member it is given.  An invite goes on to look
\* up the inviter's own profile for the notification, and creates one if there
\* is none.
LogEvent(q) ==
    LET c == call[q]
    IN /\ c.at = "log"
       /\ events' = events \cup {<<c.profile, c.action, c.user>>}
       /\ IF c.action = "invite"
          THEN call' = [call EXCEPT ![q] = [at |-> "profile", user |-> c.user]]
          ELSE Return(q)
       /\ UNCHANGED <<owner, member, expired, joined, held, muted>>

-----------------------------------------------------------------------------
(* getOrCreateUserProfile, for profile.get and for the callers above       *)

BeginGetProfile(q, u) ==
    /\ call[q] = Quiet
    /\ call' = [call EXCEPT ![q] = [at |-> "profile", user |-> u]]
    /\ UNCHANGED <<owner, member, expired, events, joined, held, muted>>

FindProfile(q) ==
    /\ call[q].at = "profile"
    /\ IF ProfileOf(call[q].user) # {} THEN Return(q)
       ELSE call' = [call EXCEPT ![q].at = "create"]
    /\ UNCHANGED <<owner, member, expired, events, joined, held, muted>>

\* Bug: a plain INSERT, on a user_id that is not unique.
CreateAnother(q) ==
    /\ call[q].at = "create"
    /\ \E p \in Profile : owner[p] = Nobody /\
           owner' = [owner EXCEPT ![p] = call[q].user]
    /\ Return(q)
    /\ UNCHANGED <<member, expired, events, joined, held, muted>>

\* INSERT ... ON CONFLICT on the unique user_id.
CreateProfile(q) ==
    /\ call[q].at = "create"
    /\ IF ProfileOf(call[q].user) # {} THEN UNCHANGED owner
       ELSE \E p \in Profile : owner[p] = Nobody /\
                owner' = [owner EXCEPT ![p] = call[q].user]
    /\ Return(q)
    /\ UNCHANGED <<member, expired, events, joined, held, muted>>

-----------------------------------------------------------------------------
(* team.confirmAccept                                                      *)

Expire(m) ==
    /\ member[m].state = "invited" /\ m \notin expired
    /\ expired' = expired \cup {m}
    /\ UNCHANGED <<owner, member, events, call, joined, held, muted>>

\* Anyone with the link who types the invited address gets here.
BeginAccept(q, u, m) ==
    /\ call[q] = Quiet
    /\ member[m].state = "invited" /\ m \notin expired
    /\ call' = [call EXCEPT ![q] = [at |-> "accept", user |-> u, member |-> m]]
    /\ UNCHANGED <<owner, member, expired, events, joined, held, muted>>

\* Bug: the UPDATE goes by the id alone.
AcceptById(q) ==
    LET m == call[q].member
        u == call[q].user
    IN /\ call[q].at = "accept"
       /\ IF Active(m)
          THEN /\ member' = [member EXCEPT ![m].state = "joined", ![m].user = u]
               /\ joined' = [joined EXCEPT ![m] = @ \cup {u}]
               /\ held' = IF member[m].role = "manager"
                          THEN held \cup {<<u, member[m].profile>>} ELSE held
               /\ call' = [call EXCEPT ![q] = [at |-> "log", user |-> u,
                      member |-> m, profile |-> member[m].profile,
                      action |-> "accept"]]
          ELSE Return(q) /\ UNCHANGED <<member, joined, held>>
       /\ UNCHANGED <<owner, expired, events, muted>>

\* The conditional UPDATE finds no row if the invite was used or withdrawn.
Accept(q) ==
    LET m == call[q].member
        u == call[q].user
    IN /\ call[q].at = "accept"
       /\ IF member[m].state = "invited"
          THEN /\ member' = [member EXCEPT ![m].state = "joined", ![m].user = u]
               /\ joined' = [joined EXCEPT ![m] = @ \cup {u}]
               /\ held' = IF member[m].role = "manager"
                          THEN held \cup {<<u, member[m].profile>>} ELSE held
               /\ call' = [call EXCEPT ![q] = [at |-> "log", user |-> u,
                      member |-> m, profile |-> member[m].profile,
                      action |-> "accept"]]
          ELSE Return(q) /\ UNCHANGED <<member, joined, held>>
       /\ UNCHANGED <<owner, expired, events, muted>>

-----------------------------------------------------------------------------
(* team.updateRole and team.remove                                         *)

BeginChange(q, u, m, role) ==
    /\ call[q] = Quiet
    /\ Active(m)
    /\ Allowed(u, member[m].profile, "manager")
    /\ call' = [call EXCEPT ![q] = [at |-> "change", user |-> u, member |-> m,
                              profile |-> member[m].profile, role |-> role]]
    /\ UNCHANGED <<owner, member, expired, events, joined, held, muted>>

\* The statement goes by id; if the row is gone it changes nothing and the
\* event is written all the same.  Role Nobody stands for a removal; what is left
\* of a removed row is a ghost.
Change(q) ==
    LET m == call[q].member
        role == call[q].role
    IN /\ call[q].at = "change"
       /\ member' = IF role = Nobody
                    THEN [member EXCEPT ![m] = [state |-> "removed",
                                                profile |-> call[q].profile]]
                    ELSE IF Active(m) THEN [member EXCEPT ![m].role = role]
                    ELSE member
       /\ held' = IF role = "manager" /\ member[m].state = "joined"
                  THEN held \cup {<<member[m].user, member[m].profile>>}
                  ELSE held
       /\ call' = [call EXCEPT ![q] = [at |-> "log", user |-> call[q].user,
              member |-> m, profile |-> call[q].profile,
              action |-> IF role = Nobody THEN "remove" ELSE "role_change"]]
       /\ UNCHANGED <<owner, expired, events, joined, muted>>

\* A statement fails or the process dies.
FailCall(q) ==
    /\ call[q].at \in {"invite", "log", "profile", "create", "accept", "change"}
    /\ muted' = IF call[q].at = "log" THEN muted \cup {call[q].member} ELSE muted
    /\ Return(q)
    /\ UNCHANGED <<owner, member, expired, events, joined, held>>

TeamNext ==
    \/ \E q \in Call, u \in User :
          \/ BeginGetProfile(q, u)
          \/ \E p \in Profile, role \in {"manager", "viewer"} : BeginInvite(q, u, p, role)
          \/ \E m \in Member : \/ BeginAccept(q, u, m)
                               \/ \E role \in {"manager", "viewer", Nobody} :
                                      BeginChange(q, u, m, role)
    \/ \E q \in Call : \/ \E m \in Member : Invite(q, m)
                       \/ LogEvent(q) \/ FindProfile(q) \/ CreateProfile(q)
                       \/ Accept(q) \/ Change(q) \/ FailCall(q)
    \/ \E m \in Member : Expire(m)

-----------------------------------------------------------------------------
(* Properties                                                              *)

Request ==
    {Quiet} \cup
    [at : {"profile", "create"}, user : User] \cup
    [at : {"accept"}, user : User, member : Member] \cup
    [at : {"log"}, user : User, member : Member, profile : Profile,
     action : Actions] \cup
    [at : {"invite"}, user : User, profile : Profile,
     role : {"manager", "viewer"}] \cup
    [at : {"change"}, user : User, member : Member, profile : Profile,
     role : {"manager", "viewer", Nobody}]

\* The tables and the requests keep their shape.
TeamTypeOK ==
    /\ owner \in [Profile -> User \cup {Nobody}]
    /\ member \in [Member -> {Vacant} \cup
           [state : {"removed"}, profile : Profile] \cup
           [state : {"invited", "joined"}, profile : Profile,
            role : {"manager", "viewer"}, user : User \cup {Nobody}]]
    /\ expired \subseteq Member /\ muted \subseteq Member
    /\ call \in [Call -> Request]
    /\ joined \in [Member -> SUBSET User]

\* acceptCampaignInvite: an invite lets in one user, however many requests
\* present its token at once.
InviteAdmitsOne ==
    \A m \in Member : \A u, v \in joined[m] : u = v

\* getOrCreateUserProfile: concurrent first requests of a user, and invites
\* that the user sends, leave one profile.
OneProfilePerUser ==
    \A p, o \in Profile : owner[p] # Nobody /\ owner[p] = owner[o] => p = o

\* logMembershipEvent: whoever joined has an accept of that campaign in their
\* own name, and a campaign that invited or removed someone has an event of each
\* kind, unless one is still to be written or was lost with its request.
MembershipTraced ==
    \A m \in Member \ muted :
        (\A q \in Call : call[q].at = "log" => call[q].member # m) =>
            /\ Active(m) => \E u \in User : <<member[m].profile, "invite", u>> \in events
            /\ member[m].state = "joined" =>
                  <<member[m].profile, "accept", member[m].user>> \in events
            /\ member[m].state = "removed" =>
                  \E u \in User : <<member[m].profile, "remove", u>> \in events

\* The invariant of the team: the tables keep their shape, a user has one
\* profile, an invite lets in one user, and the membership is on record.
TeamInv == TeamTypeOK /\ OneProfilePerUser /\ InviteAdmitsOne /\ MembershipTraced
=============================================================================
