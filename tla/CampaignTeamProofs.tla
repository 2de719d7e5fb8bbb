-------------------------- MODULE CampaignTeamProofs --------------------------
(***************************************************************************)
(* Proofs about Team and TenantRows, for any users, profiles, members,     *)
(* rows and number of concurrent requests.                                 *)
(***************************************************************************)
EXTENDS TenantRows, TLAPS

Logging(m, a, u) ==
    \E q \in Call : /\ call[q].at = "log" /\ call[q].member = m
                    /\ call[q].action = a /\ call[q].user = u

\* An event is written, or a request is about to write it.
OnRecord(m, a, u) == <<member[m].profile, a, u>> \in events \/ Logging(m, a, u)

\* MembershipTraced, with the request that still owes the event.
EventsDue ==
    \A m \in Member \ muted :
        /\ Active(m) => \E u \in User : OnRecord(m, "invite", u)
        /\ member[m].state = "joined" => OnRecord(m, "accept", member[m].user)
        /\ member[m].state = "removed" => \E u \in User : OnRecord(m, "remove", u)

\* A request that changed, or is about to change, a membership has its campaign.
KnowsProfile ==
    \A q \in Call : call[q].at \in {"change", "log"} =>
        /\ member[call[q].member].state \in {"invited", "joined", "removed"}
        /\ member[call[q].member].profile = call[q].profile

\* An invite that nobody used has let nobody in.
UnusedInvites ==
    \A m \in Member : member[m].state \in {"vacant", "invited"} => joined[m] = {}

\* Whoever is a manager now is recorded as one, and is a user.
ManagersHeld ==
    \A m \in Member : member[m].state = "joined" =>
        /\ member[m].user \in User
        /\ member[m].role = "manager" => <<member[m].user, member[m].profile>> \in held

TeamIndInv ==
    /\ TeamTypeOK /\ OneProfilePerUser /\ InviteAdmitsOne
    /\ UnusedInvites /\ KnowsProfile /\ EventsDue /\ ManagersHeld

-----------------------------------------------------------------------------
(* The team                                                                *)

LEMMA EveryRequest ==
  /\ Quiet \in Request
  /\ \A u \in User : [at |-> "profile", user |-> u] \in Request
  /\ \A u \in User : [at |-> "create", user |-> u] \in Request
  /\ \A u \in User, m \in Member :
        [at |-> "accept", user |-> u, member |-> m] \in Request
  /\ \A u \in User, m \in Member, p \in Profile, a \in Actions :
        [at |-> "log", user |-> u, member |-> m, profile |-> p, action |-> a] \in Request
  /\ \A u \in User, p \in Profile, r \in {"manager", "viewer"} :
        [at |-> "invite", user |-> u, profile |-> p, role |-> r] \in Request
  /\ \A u \in User, m \in Member, p \in Profile, r \in {"manager", "viewer", Nobody} :
        [at |-> "change", user |-> u, member |-> m, profile |-> p, role |-> r] \in Request
  BY DEF Request

\* What a request under way holds.
LEMMA RequestFields ==
  ASSUME TeamTypeOK, NEW q \in Call
  PROVE  /\ call[q].at \in {"profile", "create", "accept", "log", "invite", "change"}
               => call[q].user \in User
         /\ call[q].at \in {"profile", "create"} =>
               call[q] = [at |-> call[q].at, user |-> call[q].user]
         /\ call[q].at \in {"accept", "log", "change"} => call[q].member \in Member
         /\ call[q].at = "log" => call[q].action \in Actions
         /\ call[q].at \in {"invite", "log", "change"} => call[q].profile \in Profile
         /\ call[q].at = "invite" => call[q].role \in {"manager", "viewer"}
         /\ call[q].at = "change" => call[q].role \in {"manager", "viewer", Nobody}
  BY DEF TeamTypeOK, Request, Quiet

LEMMA TeamTypes ==
  ASSUME TeamTypeOK, ManagersHeld, [TeamNext]_teamVars
  PROVE  TeamTypeOK'
<1> USE DEF TeamTypeOK
<1>1. ASSUME NEW q \in Call, NEW u \in User, NEW p \in Profile,
             NEW role \in {"manager", "viewer"}, BeginInvite(q, u, p, role)
      PROVE  TeamTypeOK'
  BY <1>1, EveryRequest DEF BeginInvite
<1>2. ASSUME NEW q \in Call, NEW u \in User, BeginGetProfile(q, u) PROVE TeamTypeOK'
  BY <1>2, EveryRequest DEF BeginGetProfile
<1>3. ASSUME NEW q \in Call, NEW u \in User, NEW m \in Member, BeginAccept(q, u, m)
      PROVE  TeamTypeOK'
  BY <1>3, EveryRequest DEF BeginAccept
<1>4. ASSUME NEW q \in Call, NEW u \in User, NEW m \in Member,
             NEW role \in {"manager", "viewer", Nobody}, BeginChange(q, u, m, role)
      PROVE  TeamTypeOK'
  <2>1. member[m].profile \in Profile
    BY <1>4 DEF BeginChange, Active, Vacant
  <2> QED BY <1>4, <2>1, EveryRequest DEF BeginChange
<1>5. ASSUME NEW q \in Call, NEW m \in Member, Invite(q, m) PROVE TeamTypeOK'
  BY <1>5, EveryRequest, RequestFields DEF Invite, Actions
<1>6. ASSUME NEW q \in Call, LogEvent(q) PROVE TeamTypeOK'
  BY <1>6, EveryRequest, RequestFields DEF LogEvent, Return
<1>7. ASSUME NEW q \in Call, FindProfile(q) PROVE TeamTypeOK'
  <2>1. [call[q] EXCEPT !.at = "create"] \in Request
    BY <1>7, EveryRequest, RequestFields DEF FindProfile
  <2> QED BY <1>7, <2>1, EveryRequest DEF FindProfile, Return
<1>8. ASSUME NEW q \in Call, CreateProfile(q) PROVE TeamTypeOK'
  BY <1>8, EveryRequest, RequestFields DEF CreateProfile, Return
<1>9. ASSUME NEW q \in Call, Accept(q) PROVE TeamTypeOK'
  <2>1. call[q].user \in User /\ call[q].member \in Member
    BY <1>9, RequestFields DEF Accept
  <2>2. call' \in [Call -> Request]
    <3>1. CASE member[call[q].member].state = "invited"
      <4>1. member[call[q].member].profile \in Profile
        BY <2>1, <3>1 DEF Vacant
      <4>2. [at |-> "log", user |-> call[q].user, member |-> call[q].member,
             profile |-> member[call[q].member].profile, action |-> "accept"] \in Request
        BY <2>1, <4>1, EveryRequest DEF Actions
      <4> QED BY <1>9, <3>1, <4>2 DEF Accept
    <3>2. CASE member[call[q].member].state # "invited"
      BY <1>9, <3>2, EveryRequest DEF Accept, Return
    <3> QED BY <3>1, <3>2
  <2>3. joined' \in [Member -> SUBSET User]
    BY <1>9, <2>1 DEF Accept
  <2>4. CASE member[call[q].member].state = "invited"
    <3> DEFINE m == call[q].member
    <3>1. member[m] \in [state : {"invited", "joined"}, profile : Profile,
                  role : {"manager", "viewer"}, user : User \cup {Nobody}]
      BY <2>1, <2>4 DEF Vacant
    <3>2. member' = [member EXCEPT ![m].state = "joined", ![m].user = call[q].user]
      BY <1>9, <2>4 DEF Accept
    <3> QED BY <1>9, <2>1, <2>2, <2>3, <3>1, <3>2 DEF Accept
  <2> QED BY <1>9, <2>2, <2>3, <2>4 DEF Accept
<1>10. ASSUME NEW q \in Call, Change(q) PROVE TeamTypeOK'
  <2>1. call[q].user \in User /\ call[q].member \in Member
        /\ call[q].role \in {"manager", "viewer", Nobody} /\ call[q].profile \in Profile
    BY <1>10, RequestFields DEF Change
  <2>2. call' \in [Call -> Request]
    BY <1>10, <2>1, EveryRequest DEF Change, Actions
  <2> DEFINE m == call[q].member
             Places == {Vacant} \cup [state : {"removed"}, profile : Profile] \cup
                 [state : {"invited", "joined"}, profile : Profile,
                  role : {"manager", "viewer"}, user : User \cup {Nobody}]
  <2>3. member' \in [Member -> Places]
    <3>1. CASE call[q].role = Nobody
      BY <1>10, <2>1, <3>1 DEF Change
    <3>2. CASE call[q].role # Nobody /\ Active(m)
      <4>1. member[m] \in [state : {"invited", "joined"}, profile : Profile,
                  role : {"manager", "viewer"}, user : User \cup {Nobody}]
        BY <2>1, <3>2 DEF Vacant, Active
      <4>2. member' = [member EXCEPT ![m].role = call[q].role]
        BY <1>10, <3>2 DEF Change
      <4>3. [member[m] EXCEPT !.role = call[q].role] \in Places
        BY <2>1, <3>2, <4>1
      <4> QED BY <2>1, <4>2, <4>3
    <3>3. CASE call[q].role # Nobody /\ ~Active(m)
      BY <1>10, <3>3 DEF Change
    <3> QED BY <3>1, <3>2, <3>3
  <2> QED BY <1>10, <2>2, <2>3 DEF Change
<1>11. ASSUME NEW q \in Call, FailCall(q) PROVE TeamTypeOK'
  BY <1>11, EveryRequest, RequestFields DEF FailCall, Return
<1>12. ASSUME NEW m \in Member, Expire(m) PROVE TeamTypeOK'
  BY <1>12 DEF Expire
<1>13. CASE UNCHANGED teamVars
  BY <1>13 DEF teamVars
<1> QED
  BY <1>1, <1>2, <1>3, <1>4, <1>5, <1>6, <1>7, <1>8, <1>9, <1>10, <1>11, <1>12, <1>13
     DEF TeamNext

\* A membership that exists keeps its campaign, and so does its trace.
LEMMA MembersKeepProfile ==
  ASSUME TeamTypeOK, KnowsProfile, [TeamNext]_teamVars, NEW m \in Member,
         member[m].state \in {"invited", "joined", "removed"}
  PROVE  /\ member'[m].state \in {"invited", "joined", "removed"}
         /\ member'[m].profile = member[m].profile
<1>1. CASE member' = member
  BY <1>1
<1>2. ASSUME NEW q \in Call, NEW n \in Member, Invite(q, n)
      PROVE  member'[m] = member[m]
  BY <1>2 DEF Invite, TeamTypeOK, Vacant
<1>3. ASSUME NEW q \in Call, Accept(q), member' # member
      PROVE  /\ member'[m].state \in {"invited", "joined", "removed"}
             /\ member'[m].profile = member[m].profile
  <2> DEFINE n == call[q].member
  <2>1. n \in Member /\ member[n].state = "invited"
        /\ member' = [member EXCEPT ![n].state = "joined", ![n].user = call[q].user]
    BY <1>3, RequestFields DEF Accept
  <2> QED BY <2>1 DEF TeamTypeOK, Vacant
<1>4. ASSUME NEW q \in Call, Change(q)
      PROVE  /\ member'[m].state \in {"invited", "joined", "removed"}
             /\ member'[m].profile = member[m].profile
  <2> DEFINE n == call[q].member
  <2>0. n \in Member /\ member[n].profile = call[q].profile
    BY <1>4, RequestFields DEF Change, KnowsProfile
  <2>1. CASE call[q].role = Nobody
    BY <1>4, <2>0, <2>1 DEF Change, TeamTypeOK
  <2>2. CASE call[q].role # Nobody /\ Active(n)
    BY <1>4, <2>0, <2>2 DEF Change, TeamTypeOK, Active, Vacant
  <2>3. CASE call[q].role # Nobody /\ ~Active(n)
    BY <1>4, <2>3 DEF Change
  <2> QED BY <2>1, <2>2, <2>3
<1> QED
  BY <1>1, <1>2, <1>3, <1>4 DEF TeamNext, BeginInvite, BeginGetProfile, BeginAccept,
     BeginChange, LogEvent, FindProfile, CreateProfile, FailCall, Expire, teamVars

LEMMA ProfilesStayKnown ==
  ASSUME TeamTypeOK, KnowsProfile, [TeamNext]_teamVars
  PROVE  KnowsProfile'
<1> DEFINE Known(q) == call[q].at \in {"change", "log"} =>
               /\ member[call[q].member].state \in {"invited", "joined", "removed"}
               /\ member[call[q].member].profile = call[q].profile
           Kept(n) == /\ member'[n].state \in {"invited", "joined", "removed"}
                      /\ member'[n].profile = member[n].profile
<1>0. ASSUME NEW q \in Call, call'[q] = call[q] PROVE Known(q)'
  <2> SUFFICES ASSUME call[q].at \in {"change", "log"}
               PROVE  /\ member'[call[q].member].state \in {"invited", "joined", "removed"}
                      /\ member'[call[q].member].profile = call[q].profile
    BY <1>0
  <2> QED BY RequestFields, MembersKeepProfile DEF KnowsProfile
<1>1. ASSUME NEW q \in Call, call'[q].at \notin {"change", "log"},
             \A o \in Call \ {q} : call'[o] = call[o]
      PROVE  KnowsProfile'
  BY <1>0, <1>1 DEF KnowsProfile
<1>2. ASSUME NEW q \in Call, Known(q)', \A o \in Call \ {q} : call'[o] = call[o]
      PROVE  KnowsProfile'
  BY <1>0, <1>2 DEF KnowsProfile
<1>3. ASSUME NEW q \in Call, NEW u \in User, NEW m \in Member,
             NEW role \in {"manager", "viewer", Nobody}, BeginChange(q, u, m, role)
      PROVE  KnowsProfile'
  <2>1. Known(q)' /\ \A o \in Call \ {q} : call'[o] = call[o]
    BY <1>3 DEF BeginChange, Active, TeamTypeOK
  <2> QED BY <1>2, <2>1
<1>4. ASSUME NEW q \in Call, NEW m \in Member, Invite(q, m) PROVE KnowsProfile'
  <2>1. Known(q)' /\ \A o \in Call \ {q} : call'[o] = call[o]
    BY <1>4 DEF Invite, TeamTypeOK
  <2> QED BY <1>2, <2>1
<1>5. ASSUME NEW q \in Call, Accept(q) PROVE KnowsProfile'
  <2>0. call[q].member \in Member
    BY <1>5, RequestFields DEF Accept
  <2>1. CASE member[call[q].member].state = "invited"
    <3>1. Kept(call[q].member)
      BY <2>0, <2>1, MembersKeepProfile
    <3>2. /\ call'[q].member = call[q].member
          /\ call'[q].profile = member[call[q].member].profile
          /\ \A o \in Call \ {q} : call'[o] = call[o]
      BY <1>5, <2>1 DEF Accept, TeamTypeOK
    <3> QED BY <1>2, <3>1, <3>2
  <2>2. CASE member[call[q].member].state # "invited"
    BY <1>1, <1>5, <2>2 DEF Accept, Return, Quiet, TeamTypeOK
  <2> QED BY <2>1, <2>2
<1>6. ASSUME NEW q \in Call, Change(q) PROVE KnowsProfile'
  <2>0. call[q].member \in Member /\ Known(q) /\ call[q].at = "change"
    BY <1>6, RequestFields DEF Change, KnowsProfile
  <2>1. Kept(call[q].member)
    BY <2>0, MembersKeepProfile
  <2>2. /\ call'[q].member = call[q].member /\ call'[q].profile = call[q].profile
        /\ \A o \in Call \ {q} : call'[o] = call[o]
    BY <1>6 DEF Change, TeamTypeOK
  <2> QED BY <1>2, <2>0, <2>1, <2>2
<1>7. ASSUME NEW q \in Call,
             LogEvent(q) \/ FindProfile(q) \/ CreateProfile(q) \/ FailCall(q)
      PROVE  KnowsProfile'
  <2>1. call'[q].at \notin {"change", "log"} /\ \A o \in Call \ {q} : call'[o] = call[o]
    <3>1. CASE FindProfile(q)
      BY <3>1, EveryRequest, RequestFields DEF FindProfile, Return, Quiet, TeamTypeOK
    <3> QED BY <1>7, <3>1 DEF LogEvent, CreateProfile, FailCall, Return, Quiet, TeamTypeOK
  <2> QED BY <1>1, <2>1
<1>8. ASSUME NEW q \in Call, NEW u \in User,
             \/ BeginGetProfile(q, u)
             \/ \E p \in Profile, role \in {"manager", "viewer"} : BeginInvite(q, u, p, role)
             \/ \E m \in Member : BeginAccept(q, u, m)
      PROVE  KnowsProfile'
  BY <1>1, <1>8 DEF BeginGetProfile, BeginInvite, BeginAccept, TeamTypeOK
<1>9. CASE call' = call
  BY <1>0, <1>9 DEF KnowsProfile
<1> QED
  BY <1>3, <1>4, <1>5, <1>6, <1>7, <1>8, <1>9 DEF TeamNext, Expire, teamVars

\* What is on record stays on record, but for the event that FailCall loses.
LEMMA RecordStays ==
  ASSUME TeamTypeOK, KnowsProfile, [TeamNext]_teamVars, NEW m \in Member \ muted',
         member[m].state \in {"invited", "joined", "removed"},
         NEW a, NEW u, OnRecord(m, a, u)
  PROVE  OnRecord(m, a, u)'
<1>1. member'[m].profile = member[m].profile
  BY MembersKeepProfile
<1>2. events \subseteq events'
  BY DEF TeamNext, teamVars, BeginInvite, BeginGetProfile, BeginAccept, BeginChange,
     Invite, LogEvent, FindProfile, CreateProfile, Accept, Change, FailCall, Expire
<1>3. CASE <<member[m].profile, a, u>> \in events
  BY <1>1, <1>2, <1>3 DEF OnRecord
<1>4. CASE Logging(m, a, u)
  <2>1. PICK o \in Call : /\ call[o].at = "log" /\ call[o].member = m
                          /\ call[o].action = a /\ call[o].user = u
    BY <1>4 DEF Logging
  <2>2. CASE call'[o] = call[o]
    BY <2>1, <2>2 DEF OnRecord, Logging
  <2>3. CASE call'[o] # call[o]
    <3>1. LogEvent(o) \/ FailCall(o)
      <4>1. ASSUME NEW q \in Call, NEW v \in User,
                   \/ BeginGetProfile(q, v)
                   \/ \E p \in Profile, role \in {"manager", "viewer"} :
                         BeginInvite(q, v, p, role)
                   \/ \E n \in Member : \/ BeginAccept(q, v, n)
                                        \/ \E role \in {"manager", "viewer", Nobody} :
                                               BeginChange(q, v, n, role)
            PROVE  FALSE
        BY <2>1, <2>3, <4>1 DEF BeginGetProfile, BeginInvite, BeginAccept, BeginChange,
           Quiet, TeamTypeOK
      <4>2. ASSUME NEW q \in Call,
                   \/ \E n \in Member : Invite(q, n)
                   \/ FindProfile(q) \/ CreateProfile(q) \/ Accept(q) \/ Change(q)
            PROVE  FALSE
        BY <2>1, <2>3, <4>2 DEF Invite, FindProfile, CreateProfile, Accept, Change,
           Return, TeamTypeOK
      <4>3. ASSUME NEW q \in Call, q # o, LogEvent(q) \/ FailCall(q) PROVE FALSE
        BY <2>3, <4>3 DEF LogEvent, FailCall, Return, TeamTypeOK
      <4> QED BY <2>3, <4>1, <4>2, <4>3 DEF TeamNext, Expire, teamVars
    <3>2. ~FailCall(o)
      BY <2>1 DEF FailCall
    <3>3. <<call[o].profile, a, u>> \in events'
      BY <2>1, <3>1, <3>2 DEF LogEvent
    <3> QED BY <1>1, <2>1, <3>3 DEF OnRecord, KnowsProfile
  <2> QED BY <2>2, <2>3
<1> QED BY <1>3, <1>4 DEF OnRecord

LEMMA EventsStayDue ==
  ASSUME TeamTypeOK, KnowsProfile, EventsDue, [TeamNext]_teamVars
  PROVE  EventsDue'
<1>0. muted \subseteq muted'
  BY DEF TeamNext, teamVars, BeginInvite, BeginGetProfile, BeginAccept, BeginChange,
     Invite, LogEvent, FindProfile, CreateProfile, Accept, Change, FailCall, Expire
<1> DEFINE Due(m) ==
        /\ Active(m) => \E u \in User : OnRecord(m, "invite", u)
        /\ member[m].state = "joined" => OnRecord(m, "accept", member[m].user)
        /\ member[m].state = "removed" => \E u \in User : OnRecord(m, "remove", u)
<1>1. ASSUME NEW m \in Member \ muted',
             member'[m].state = member[m].state,
             member[m].state = "joined" => member'[m].user = member[m].user
      PROVE  Due(m)'
  <2>1. Due(m)
    BY <1>0 DEF EventsDue
  <2>2. CASE member[m].state \in {"invited", "joined", "removed"}
    <3>1. \A a, u : OnRecord(m, a, u) => OnRecord(m, a, u)'
      BY <2>2, RecordStays
    <3> QED BY <1>1, <2>1, <3>1 DEF Active
  <2>3. CASE member[m].state \notin {"invited", "joined", "removed"}
    BY <1>1, <2>3 DEF Active
  <2> QED BY <2>2, <2>3
<1>2. ASSUME NEW q \in Call, NEW m \in Member, Invite(q, m) PROVE EventsDue'
  <2>1. /\ call'[q].at = "log" /\ call'[q].member = m /\ call'[q].action = "invite"
        /\ call'[q].user = call[q].user /\ call[q].user \in User
    BY <1>2, RequestFields DEF Invite, TeamTypeOK
  <2>2. Logging(m, "invite", call[q].user)'
    BY <2>1 DEF Logging
  <2>3. member'[m].state = "invited" /\ \A n \in Member \ {m} : member'[n] = member[n]
    BY <1>2 DEF Invite, TeamTypeOK
  <2>4. Due(m)'
    BY <2>1, <2>2, <2>3 DEF OnRecord
  <2> QED BY <1>1, <2>3, <2>4 DEF EventsDue
<1>3. ASSUME NEW q \in Call, Accept(q), member' # member PROVE EventsDue'
  <2>0. PICK m \in Member :
            m = call[q].member /\ call[q].user \in User /\ member[m].state = "invited"
    BY <1>3, RequestFields DEF Accept
  <2>1. /\ call'[q].at = "log" /\ call'[q].member = m /\ call'[q].action = "accept"
        /\ call'[q].user = call[q].user
    BY <1>3, <2>0 DEF Accept, TeamTypeOK
  <2>2. Logging(m, "accept", call[q].user)'
    BY <2>1 DEF Logging
  <2>3. /\ member'[m].state = "joined" /\ member'[m].user = call[q].user
        /\ \A n \in Member \ {m} : member'[n] = member[n]
    BY <1>3, <2>0 DEF Accept, TeamTypeOK, Vacant
  <2>4. ASSUME m \notin muted' PROVE Due(m)'
    <3>1. PICK u \in User : OnRecord(m, "invite", u)
      BY <1>0, <2>0, <2>4 DEF EventsDue, Active
    <3>2. OnRecord(m, "invite", u)'
      BY <2>0, <2>4, <3>1, RecordStays
    <3> QED BY <2>1, <2>2, <2>3, <3>2 DEF OnRecord
  <2> QED BY <1>1, <2>0, <2>3, <2>4 DEF EventsDue
<1>4. ASSUME NEW q \in Call, Change(q) PROVE EventsDue'
  <2>0. PICK m \in Member : m = call[q].member /\ call[q].user \in User
    BY <1>4, RequestFields DEF Change
  <2>1. \A n \in Member \ {m} : member'[n] = member[n]
    BY <1>4, <2>0 DEF Change, TeamTypeOK
  <2>2. CASE call[q].role = Nobody
    <3>1. member'[m].state = "removed"
      BY <1>4, <2>0, <2>2 DEF Change, TeamTypeOK
    <3>2. /\ call'[q].at = "log" /\ call'[q].member = m /\ call'[q].action = "remove"
          /\ call'[q].user = call[q].user
      BY <1>4, <2>0, <2>2 DEF Change, TeamTypeOK
    <3>3. Logging(m, "remove", call[q].user)'
      BY <3>2 DEF Logging
    <3>4. Due(m)'
      BY <2>0, <3>1, <3>2, <3>3 DEF OnRecord, Active
    <3> QED BY <1>1, <2>1, <3>4 DEF EventsDue
  <2>3. CASE call[q].role # Nobody
    <3>1. /\ member'[m].state = member[m].state
          /\ member[m].state = "joined" => member'[m].user = member[m].user
      BY <1>4, <2>0, <2>3 DEF Change, TeamTypeOK, Active, Vacant
    <3> QED BY <1>1, <2>1, <3>1 DEF EventsDue
  <2> QED BY <2>2, <2>3
<1>5. CASE member' = member
  BY <1>1, <1>5 DEF EventsDue
<1> QED
  BY <1>2, <1>3, <1>4, <1>5 DEF TeamNext, BeginInvite, BeginGetProfile, BeginAccept,
     BeginChange, LogEvent, FindProfile, CreateProfile, FailCall, Expire, teamVars

\* No step but Invite, Accept and Change writes a membership, and no step but
\* Accept and Change writes what the ghosts record of it.
MembersAlone == UNCHANGED <<member, joined, held>>

LEMMA WhoWritesMembers ==
  ASSUME TeamTypeOK, [TeamNext]_teamVars
  PROVE  \/ MembersAlone
         \/ \E q \in Call : (\E m \in Member : Invite(q, m)) \/ Accept(q) \/ Change(q)
  BY DEF TeamNext, MembersAlone, BeginInvite, BeginGetProfile, BeginAccept, BeginChange,
         LogEvent, FindProfile, CreateProfile, FailCall, Expire, teamVars

LEMMA InvitesAdmitOne ==
  ASSUME TeamTypeOK, InviteAdmitsOne, UnusedInvites, ManagersHeld, [TeamNext]_teamVars
  PROVE  InviteAdmitsOne' /\ UnusedInvites' /\ ManagersHeld' /\ held \subseteq held'
<1> USE DEF InviteAdmitsOne, UnusedInvites, ManagersHeld
<1>1. CASE MembersAlone
  BY <1>1 DEF MembersAlone
<1>2. ASSUME NEW q \in Call, NEW m \in Member, Invite(q, m)
      PROVE  InviteAdmitsOne' /\ UnusedInvites' /\ ManagersHeld' /\ held \subseteq held'
  <2>1. /\ member[m].state = "vacant" /\ member'[m].state = "invited"
        /\ \A n \in Member \ {m} : member'[n] = member[n]
        /\ UNCHANGED <<joined, held>>
    BY <1>2 DEF Invite, TeamTypeOK, Vacant
  <2> QED BY <2>1
<1>3. ASSUME NEW q \in Call, Accept(q)
      PROVE  InviteAdmitsOne' /\ UnusedInvites' /\ ManagersHeld' /\ held \subseteq held'
  <2> DEFINE m == call[q].member
             u == call[q].user
  <2>0. m \in Member /\ u \in User
    BY <1>3, RequestFields DEF Accept
  <2>1. CASE member[m].state = "invited"
    <3>1. /\ member'[m].state = "joined" /\ member'[m].user = u
          /\ member'[m].role = member[m].role /\ member'[m].profile = member[m].profile
          /\ \A n \in Member \ {m} : member'[n] = member[n]
      BY <1>3, <2>0, <2>1 DEF Accept, TeamTypeOK, Vacant
    <3>2. /\ joined'[m] = joined[m] \cup {u}
          /\ \A n \in Member \ {m} : joined'[n] = joined[n]
      BY <1>3, <2>0, <2>1 DEF Accept, TeamTypeOK
    <3>3. /\ held \subseteq held'
          /\ member[m].role = "manager" => <<u, member[m].profile>> \in held'
      BY <1>3, <2>1 DEF Accept
    <3> QED BY <2>0, <2>1, <3>1, <3>2, <3>3
  <2>2. CASE member[m].state # "invited"
    BY <1>3, <2>2 DEF Accept
  <2> QED BY <2>1, <2>2
<1>4. ASSUME NEW q \in Call, Change(q)
      PROVE  InviteAdmitsOne' /\ UnusedInvites' /\ ManagersHeld' /\ held \subseteq held'
  <2> DEFINE m == call[q].member
  <2>0. m \in Member
    BY <1>4, RequestFields DEF Change
  <2>1. \A n \in Member \ {m} : member'[n] = member[n]
    BY <1>4, <2>0 DEF Change, TeamTypeOK
  <2>2. joined' = joined /\ held \subseteq held'
    BY <1>4 DEF Change
  <2>3. CASE call[q].role = Nobody
    <3>1. member'[m].state = "removed"
      BY <1>4, <2>0, <2>3 DEF Change, TeamTypeOK
    <3> QED BY <2>0, <2>1, <2>2, <3>1
  <2>4. CASE call[q].role # Nobody /\ Active(m)
    <3>1. /\ member'[m].state = member[m].state /\ member'[m].user = member[m].user
          /\ member'[m].role = call[q].role /\ member'[m].profile = member[m].profile
      BY <1>4, <2>0, <2>4 DEF Change, TeamTypeOK, Active, Vacant
    <3>2. call[q].role = "manager" /\ member[m].state = "joined"
            => <<member[m].user, member[m].profile>> \in held'
      BY <1>4 DEF Change
    <3> QED BY <2>0, <2>1, <2>2, <3>1, <3>2
  <2>5. CASE call[q].role # Nobody /\ ~Active(m)
    <3>1. member' = member
      BY <1>4, <2>5 DEF Change
    <3> QED BY <2>2, <3>1
  <2> QED BY <2>3, <2>4, <2>5
<1> QED BY <1>1, <1>2, <1>3, <1>4, WhoWritesMembers

\* A profile that has an owner keeps it, and a user gets no second one.
LEMMA OwnersStay ==
  ASSUME TeamTypeOK, OneProfilePerUser, [TeamNext]_teamVars
  PROVE  OneProfilePerUser' /\ \A p \in Profile : owner[p] # Nobody => owner'[p] = owner[p]
<1> USE DEF OneProfilePerUser
<1>1. CASE UNCHANGED owner
  BY <1>1
<1>2. ASSUME NEW q \in Call, CreateProfile(q), owner' # owner
      PROVE  OneProfilePerUser' /\ \A p \in Profile : owner[p] # Nobody => owner'[p] = owner[p]
  <2>1. PICK p \in Profile : owner[p] = Nobody /\ owner' = [owner EXCEPT ![p] = call[q].user]
    BY <1>2 DEF CreateProfile
  <2>2. \A o \in Profile : owner[o] # call[q].user
    BY <1>2 DEF CreateProfile, ProfileOf
  <2> QED BY <2>1, <2>2 DEF TeamTypeOK
<1> QED
  BY <1>1, <1>2 DEF TeamNext, BeginInvite, BeginGetProfile, BeginAccept, BeginChange,
         Invite, LogEvent, FindProfile, Accept, Change, FailCall, Expire, teamVars

LEMMA TeamStarts == TeamInit => TeamIndInv
<1> SUFFICES ASSUME TeamInit PROVE TeamIndInv
  OBVIOUS
<1>1. TeamTypeOK
  BY EveryRequest DEF TeamInit, TeamTypeOK
<1>2. OneProfilePerUser
  BY NobodyAssumption DEF TeamInit, OneProfilePerUser
<1>3. InviteAdmitsOne /\ UnusedInvites /\ KnowsProfile /\ EventsDue /\ ManagersHeld
  BY DEF TeamInit, Vacant, Quiet, InviteAdmitsOne, UnusedInvites, KnowsProfile, EventsDue,
     ManagersHeld, Active
<1> QED BY <1>1, <1>2, <1>3 DEF TeamIndInv

LEMMA TeamStep ==
  ASSUME TeamIndInv, [TeamNext]_teamVars
  PROVE  TeamIndInv'
  BY TeamTypes, ProfilesStayKnown, EventsStayDue, InvitesAdmitOne, OwnersStay DEF TeamIndInv

LEMMA TeamIndInvImplies == TeamIndInv => TeamInv
  BY DEF TeamIndInv, TeamInv, MembershipTraced, EventsDue, OnRecord, Logging

-----------------------------------------------------------------------------
(* The rows                                                                *)

Belongs(u, p) == owner[p] = u \/ <<u, p>> \in held

RowTypeOK ==
    /\ table \in Tables
    /\ row \in [Row -> {Unused} \cup
           [state : {"live", "gone"}, profile : Profile, by : SUBSET User]]
    /\ rowCall \in [Call -> {Quiet} \cup
           [at : {"insert", "update", "touch", "remove", "removeOwn"},
            user : User, profile : Profile, row : Row]]

\* A request under way is of someone who belonged to the profile it names when
\* its role was checked, and belonging is never taken back.
CallersBelong ==
    \A q \in Call : rowCall[q].at # "idle" => Belongs(rowCall[q].user, rowCall[q].profile)

\* A statement that goes by the id alone follows a check on the row's profile,
\* and the row has not changed profiles since.
CheckedTheRow ==
    \A q \in Call : rowCall[q].at \in {"touch", "remove"} =>
        /\ row[rowCall[q].row].state \in {"live", "gone"}
        /\ row[rowCall[q].row].profile = rowCall[q].profile

RowIndInv == TeamIndInv /\ RowTypeOK /\ CallersBelong /\ CheckedTheRow /\ WritersBelong

\* No table lets a viewer write, and the ones without a route have none.
LEMMA TableRoles ==
  ASSUME NEW t \in Tables
  PROVE  /\ t.api.save = "manager"
         /\ t.api.touch \in {"manager", "none"}
         /\ t.api.remove \in {"owner", "none"}
         /\ t.store.removesOwn => t.api.remove = "owner"
  BY DEF Tables, Api, Store, timelineApi, pollingUnitsApi, volunteersApi, pressReleaseApi,
     socialMediaApi, complianceApi, oppositionApi, resultsApi, manifestoApi, diasporaApi,
     endorsementsApi, mediaApi, debateApi, debateScoresApi, stakeholdersApi, simulationApi,
     volunteerTasksApi, tribunalApi, timelineStore, pollingUnitsStore, volunteersStore,
     pressReleaseStore, socialMediaStore, complianceStore, oppositionStore, resultsStore,
     manifestoStore, diasporaStore, endorsementsStore, mediaStore, debateStore,
     debateScoresStore, stakeholdersStore, simulationStore, volunteerTasksStore, tribunalStore

\* Whoever passes a check for manager or owner belongs to the campaign.
LEMMA AllowedBelong ==
  ASSUME TeamTypeOK, ManagersHeld, NEW u \in User, NEW p \in Profile,
         NEW least \in {"manager", "owner"}, Allowed(u, p, least)
  PROVE  Belongs(u, p)
<1>1. PICK r \in RolesOf(u, p) : PROFILE_ROLE_RANK[r] >= PROFILE_ROLE_RANK[least]
  BY DEF Allowed
<1>2. CASE owner[p] = u
  BY <1>2 DEF Belongs
<1>3. CASE owner[p] # u
  <2>1. PICK m \in Member : /\ member[m].state = "joined" /\ member[m].profile = p
                            /\ member[m].user = u /\ r = member[m].role
    BY <1>1, <1>3 DEF RolesOf
  <2>2. r \in {"manager", "viewer"}
    BY <2>1 DEF TeamTypeOK, Vacant
  <2>3. r # "viewer"
    BY <1>1 DEF PROFILE_ROLE_RANK
  <2> QED BY <2>1, <2>2, <2>3 DEF ManagersHeld, Belongs
<1> QED BY <1>2, <1>3

\* A step of the team takes nobody's belonging away.
LEMMA BelongingStays ==
  ASSUME TeamIndInv, [TeamNext]_teamVars, NEW u \in User, NEW p \in Profile, Belongs(u, p)
  PROVE  Belongs(u, p)'
<1>1. u # Nobody
  BY NobodyAssumption
<1> QED BY <1>1, OwnersStay, InvitesAdmitOne DEF TeamIndInv, Belongs

LEMMA RowTypes ==
  ASSUME TeamTypeOK, RowTypeOK, [RowNext]_tenantVars
  PROVE  RowTypeOK'
<1> USE DEF RowTypeOK
<1> DEFINE Calls == {Quiet} \cup
           [at : {"insert", "update", "touch", "remove", "removeOwn"},
            user : User, profile : Profile, row : Row]
<1>0. \A a \in {"insert", "update", "touch", "remove", "removeOwn"}, u \in User,
         p \in Profile, r \in Row :
            [at |-> a, user |-> u, profile |-> p, row |-> r] \in Calls
  OBVIOUS
<1>1. CASE TeamNext /\ UNCHANGED rowVars
  BY <1>1 DEF rowVars
<1>2. ASSUME NEW q \in Call, NEW u \in User, NEW r \in Row, NEW p \in Profile,
             BeginSave(q, u, p, r) \/ BeginRemoveOwn(q, u, p, r)
      PROVE  RowTypeOK'
  BY <1>0, <1>2 DEF BeginSave, BeginRemoveOwn
<1>3. ASSUME NEW q \in Call, NEW u \in User, NEW r \in Row,
             NEW kind \in {"touch", "remove"}, BeginById(q, u, r, kind)
      PROVE  RowTypeOK'
  <2>1. row[r].profile \in Profile
    BY <1>3 DEF BeginById, Unused
  <2> QED BY <1>0, <1>3, <2>1 DEF BeginById
<1>4. ASSUME NEW q \in Call, Insert(q) PROVE RowTypeOK'
  <2>1. rowCall[q].user \in User /\ rowCall[q].profile \in Profile
    BY <1>4 DEF Insert, Quiet
  <2>2. [state |-> "live", profile |-> rowCall[q].profile, by |-> {rowCall[q].user}]
            \in [state : {"live", "gone"}, profile : Profile, by : SUBSET User]
    BY <2>1
  <2> QED BY <1>4, <2>2 DEF Insert, RowReturns
<1>5. ASSUME NEW q \in Call, Update(q) \/ ById(q) PROVE RowTypeOK'
  <2> DEFINE c == rowCall[q]
  <2>1. c.user \in User /\ c.row \in Row
    BY <1>5 DEF Update, ById, Quiet
  <2>2. UNCHANGED table /\ rowCall' \in [Call -> Calls]
    BY <1>5 DEF Update, ById, RowReturns
  <2>3. CASE row' = row
    BY <2>2, <2>3
  <2>4. CASE row' # row
    <3>1. row[c.row] \in [state : {"live", "gone"}, profile : Profile, by : SUBSET User]
      BY <1>5, <2>1, <2>4 DEF Update, ById, Matches, Unused
    <3>2. PICK st \in {"live", "gone"} :
              row' = [row EXCEPT ![c.row].by = @ \cup {c.user}, ![c.row].state = st]
      BY <1>5, <2>4, <3>1 DEF Update, ById
    <3> QED BY <2>1, <2>2, <3>1, <3>2
  <2> QED BY <2>3, <2>4
<1>6. CASE UNCHANGED tenantVars
  BY <1>6 DEF tenantVars, rowVars
<1> QED BY <1>1, <1>2, <1>3, <1>4, <1>5, <1>6 DEF RowNext

\* What a statement may do to the rows: nothing, fill an unused one, or write a
\* live one, keeping its profile.
LEMMA HowRowsChange ==
  ASSUME TeamTypeOK, RowTypeOK, NEW q \in Call, Insert(q) \/ Update(q) \/ ById(q)
  PROVE  LET c == rowCall[q]
         IN /\ UNCHANGED <<teamVars, table>>
            /\ c.at # "idle" /\ c.user \in User /\ c.profile \in Profile /\ c.row \in Row
            /\ rowCall'[q] = Quiet /\ \A o \in Call \ {q} : rowCall'[o] = rowCall[o]
            /\ \/ row' = row
               \/ \E r \in Row :
                     /\ row[r] = Unused /\ \A o \in Row \ {r} : row'[o] = row[o]
                     /\ row'[r] = [state |-> "live", profile |-> c.profile, by |-> {c.user}]
               \/ /\ row[c.row].state = "live" /\ \A o \in Row \ {c.row} : row'[o] = row[o]
                  /\ row'[c.row].state \in {"live", "gone"}
                  /\ row'[c.row].profile = row[c.row].profile
                  /\ row'[c.row].by = row[c.row].by \cup {c.user}
                  /\ c.at \in {"touch", "remove"} \/ c.profile = row[c.row].profile
<1> USE DEF RowTypeOK
<1> DEFINE c == rowCall[q]
<1>1. /\ c.at # "idle" /\ c.user \in User /\ c.profile \in Profile /\ c.row \in Row
      /\ rowCall'[q] = Quiet /\ \A o \in Call \ {q} : rowCall'[o] = rowCall[o]
      /\ UNCHANGED <<teamVars, table>>
  BY DEF Insert, Update, ById, RowReturns, Quiet
<1>2. CASE Insert(q)
  BY <1>1, <1>2 DEF Insert
<1>3. CASE Update(q) /\ row' # row
  <2>1. Matches(c)
    BY <1>3 DEF Update
  <2>2. row[c.row] \in [state : {"live", "gone"}, profile : Profile, by : SUBSET User]
    BY <1>1, <2>1 DEF Matches, Unused
  <2>3. PICK st \in {"live", "gone"} :
            row' = [row EXCEPT ![c.row].by = @ \cup {c.user}, ![c.row].state = st]
    BY <1>3, <2>2 DEF Update
  <2> QED BY <1>1, <2>1, <2>2, <2>3 DEF Matches
<1>4. CASE ById(q) /\ row' # row
  <2>1. row[c.row].state = "live" /\ c.at \in {"touch", "remove"}
    BY <1>4 DEF ById
  <2>2. row[c.row] \in [state : {"live", "gone"}, profile : Profile, by : SUBSET User]
    BY <1>1, <2>1 DEF Unused
  <2>3. PICK st \in {"live", "gone"} :
            row' = [row EXCEPT ![c.row].by = @ \cup {c.user}, ![c.row].state = st]
    BY <1>4, <2>2 DEF ById
  <2> QED BY <1>1, <2>1, <2>2, <2>3
<1> QED BY <1>1, <1>2, <1>3, <1>4

\* What a request that starts has checked.
LEMMA RowCallStarts ==
  ASSUME TeamTypeOK, ManagersHeld, RowTypeOK,
         NEW q \in Call, NEW u \in User, NEW r \in Row,
         \/ \E p \in Profile : BeginSave(q, u, p, r) \/ BeginRemoveOwn(q, u, p, r)
         \/ \E kind \in {"touch", "remove"} : BeginById(q, u, r, kind)
  PROVE  /\ UNCHANGED <<teamVars, table, row>>
         /\ \A o \in Call \ {q} : rowCall'[o] = rowCall[o]
         /\ rowCall'[q].user \in User /\ rowCall'[q].profile \in Profile
         /\ Belongs(rowCall'[q].user, rowCall'[q].profile)
         /\ rowCall'[q].at \in {"touch", "remove"} =>
               /\ row[rowCall'[q].row].state = "live"
               /\ row[rowCall'[q].row].profile = rowCall'[q].profile
<1>0. table \in Tables
  BY DEF RowTypeOK
<1>1. ASSUME NEW p \in Profile, BeginSave(q, u, p, r)
      PROVE  /\ UNCHANGED <<teamVars, table, row>> /\ Allowed(u, p, "manager")
             /\ rowCall'[q].user = u /\ rowCall'[q].profile = p
             /\ rowCall'[q].at \notin {"touch", "remove"}
             /\ \A o \in Call \ {q} : rowCall'[o] = rowCall[o]
  BY <1>0, <1>1, TableRoles DEF BeginSave, RowTypeOK
<1>2. ASSUME NEW p \in Profile, BeginRemoveOwn(q, u, p, r)
      PROVE  /\ UNCHANGED <<teamVars, table, row>> /\ Allowed(u, p, "owner")
             /\ rowCall'[q].user = u /\ rowCall'[q].profile = p
             /\ rowCall'[q].at \notin {"touch", "remove"}
             /\ \A o \in Call \ {q} : rowCall'[o] = rowCall[o]
  BY <1>0, <1>2, TableRoles DEF BeginRemoveOwn, RowTypeOK
<1>3. ASSUME NEW kind \in {"touch", "remove"}, BeginById(q, u, r, kind)
      PROVE  /\ UNCHANGED <<teamVars, table, row>> /\ row[r].profile \in Profile
             /\ \E least \in {"manager", "owner"} : Allowed(u, row[r].profile, least)
             /\ rowCall'[q].user = u /\ rowCall'[q].row = r
             /\ rowCall'[q].profile = row[r].profile /\ row[r].state = "live"
             /\ \A o \in Call \ {q} : rowCall'[o] = rowCall[o]
  <2>1. table.api[kind] \in {"manager", "owner", "none"}
    BY <1>0, TableRoles
  <2> QED BY <1>3, <2>1 DEF BeginById, RowTypeOK, Unused
<1> QED BY <1>1, <1>2, <1>3, AllowedBelong

LEMMA RowStarts == RowInit => RowIndInv
  BY TeamStarts DEF RowInit, RowIndInv, RowTypeOK, CallersBelong, CheckedTheRow,
     WritersBelong, Quiet

LEMMA RowStep ==
  ASSUME RowIndInv, [RowNext]_tenantVars
  PROVE  RowIndInv'
<1> USE DEF RowIndInv
<1>0. RowTypeOK'
  BY RowTypes DEF TeamIndInv
<1>1. ASSUME [TeamNext]_teamVars, UNCHANGED rowVars PROVE RowIndInv'
  <2>1. TeamIndInv'
    BY <1>1, TeamStep
  <2>2. \A u \in User, p \in Profile : Belongs(u, p) => Belongs(u, p)'
    BY <1>1, BelongingStays
  <2>3. CallersBelong'
    <3> SUFFICES ASSUME NEW q \in Call, rowCall[q].at # "idle"
                 PROVE  Belongs(rowCall[q].user, rowCall[q].profile)'
      BY <1>1 DEF rowVars, CallersBelong
    <3>1. rowCall[q].user \in User /\ rowCall[q].profile \in Profile
      BY DEF RowTypeOK, Quiet
    <3> QED BY <1>1, <2>2, <3>1 DEF CallersBelong, rowVars, Belongs
  <2>4. WritersBelong'
    <3> SUFFICES ASSUME NEW r \in Row, row[r] # Unused, NEW u \in row[r].by
                 PROVE  Belongs(u, row[r].profile)'
      BY <1>1 DEF rowVars, WritersBelong, Belongs
    <3>1. u \in User /\ row[r].profile \in Profile
      BY DEF RowTypeOK
    <3> QED BY <1>1, <2>2, <3>1 DEF WritersBelong, rowVars, Belongs
  <2> QED BY <1>0, <1>1, <2>1, <2>3, <2>4 DEF rowVars, CheckedTheRow
<1>2. ASSUME NEW q \in Call, NEW u \in User, NEW r \in Row,
             \/ \E p \in Profile : BeginSave(q, u, p, r) \/ BeginRemoveOwn(q, u, p, r)
             \/ \E kind \in {"touch", "remove"} : BeginById(q, u, r, kind)
      PROVE  RowIndInv'
  <2>1. /\ UNCHANGED <<teamVars, table, row>>
        /\ \A o \in Call \ {q} : rowCall'[o] = rowCall[o]
        /\ Belongs(rowCall'[q].user, rowCall'[q].profile)
        /\ rowCall'[q].at \in {"touch", "remove"} =>
               /\ row[rowCall'[q].row].state = "live"
               /\ row[rowCall'[q].row].profile = rowCall'[q].profile
    BY <1>2, RowCallStarts DEF TeamIndInv
  <2>2. TeamIndInv'
    BY <2>1, TeamStep
  <2>3. \A v, p : Belongs(v, p)' <=> Belongs(v, p)
    BY <2>1 DEF Belongs, teamVars
  <2>4. CallersBelong'
    BY <2>1, <2>3 DEF CallersBelong, Belongs, teamVars
  <2>5. CheckedTheRow'
    BY <2>1 DEF CheckedTheRow
  <2>6. WritersBelong'
    BY <2>1 DEF WritersBelong, teamVars
  <2> QED BY <1>0, <2>2, <2>4, <2>5, <2>6
<1>3. ASSUME NEW q \in Call, Insert(q) \/ Update(q) \/ ById(q) PROVE RowIndInv'
  <2> DEFINE c == rowCall[q]
  <2>1. /\ UNCHANGED <<teamVars, table>> /\ c.at # "idle"
        /\ c.user \in User /\ c.profile \in Profile /\ c.row \in Row
        /\ rowCall'[q] = Quiet /\ \A o \in Call \ {q} : rowCall'[o] = rowCall[o]
    BY <1>3, HowRowsChange DEF TeamIndInv
  <2>2. TeamIndInv'
    BY <2>1, TeamStep
  <2>3. owner' = owner /\ held' = held
    BY <2>1 DEF teamVars
  <2>4. CallersBelong'
    BY <2>1, <2>3 DEF CallersBelong, Belongs, Quiet
  <2>5. Belongs(c.user, c.profile)
    BY <2>1 DEF CallersBelong
  <2>6. CASE row' = row
    <3>1. CheckedTheRow' /\ WritersBelong'
      BY <2>1, <2>3, <2>6 DEF CheckedTheRow, WritersBelong, Quiet
    <3> QED BY <1>0, <2>2, <2>4, <3>1
  <2>7. ASSUME NEW r \in Row, row[r] = Unused, \A o \in Row \ {r} : row'[o] = row[o],
               row'[r] = [state |-> "live", profile |-> c.profile, by |-> {c.user}]
        PROVE  RowIndInv'
    <3>1. CheckedTheRow'
      BY <2>1, <2>7 DEF CheckedTheRow, RowTypeOK, Quiet, Unused
    <3>2. WritersBelong'
      BY <2>3, <2>5, <2>7 DEF WritersBelong, Belongs
    <3> QED BY <1>0, <2>2, <2>4, <3>1, <3>2
  <2>8. ASSUME row[c.row].state = "live", \A o \in Row \ {c.row} : row'[o] = row[o],
               row'[c.row].state \in {"live", "gone"},
               row'[c.row].profile = row[c.row].profile,
               row'[c.row].by = row[c.row].by \cup {c.user},
               c.at \in {"touch", "remove"} \/ c.profile = row[c.row].profile
        PROVE  RowIndInv'
    <3>1. c.profile = row[c.row].profile
      BY <2>8 DEF CheckedTheRow
    <3>2. row[c.row] # Unused
      BY <2>8 DEF Unused
    <3>3. CheckedTheRow'
      BY <2>1, <2>8 DEF CheckedTheRow, RowTypeOK, Quiet
    <3>4. WritersBelong'
      BY <2>1, <2>3, <2>5, <2>8, <3>1, <3>2 DEF WritersBelong, Belongs
    <3> QED BY <1>0, <2>2, <2>4, <3>3, <3>4
  <2> QED BY <1>3, <2>6, <2>7, <2>8, HowRowsChange DEF TeamIndInv
<1>4. CASE UNCHANGED tenantVars
  BY <1>1, <1>4 DEF tenantVars
<1> QED BY <1>1, <1>2, <1>3, <1>4 DEF RowNext

\* RowsStay, of one step.
LEMMA RowsStayStep ==
  ASSUME RowIndInv, [RowNext]_tenantVars, NEW r \in Row, row[r] # Unused
  PROVE  /\ row'[r] # Unused /\ row'[r].profile = row[r].profile
         /\ row[r].state = "gone" => row'[r] = row[r]
<1>1. CASE row' = row
  BY <1>1
<1>2. ASSUME NEW q \in Call, Insert(q) \/ Update(q) \/ ById(q)
      PROVE  /\ row'[r] # Unused /\ row'[r].profile = row[r].profile
             /\ row[r].state = "gone" => row'[r] = row[r]
  <2> DEFINE c == rowCall[q]
  <2>1. ASSUME NEW o \in Row, row[o] = Unused, \A n \in Row \ {o} : row'[n] = row[n]
        PROVE  row'[r] = row[r]
    BY <2>1
  <2>2. ASSUME row[c.row].state = "live", \A o \in Row \ {c.row} : row'[o] = row[o],
               row'[c.row].state \in {"live", "gone"},
               row'[c.row].profile = row[c.row].profile
        PROVE  /\ row'[r] # Unused /\ row'[r].profile = row[r].profile
               /\ row[r].state = "gone" => row'[r] = row[r]
    BY <2>2 DEF Unused
  <2> QED BY <1>1, <1>2, <2>1, <2>2, HowRowsChange DEF RowIndInv, TeamIndInv
<1> QED
  BY <1>1, <1>2 DEF RowNext, BeginSave, BeginRemoveOwn, BeginById, rowVars, tenantVars

LEMMA RowSafe == RowSpec => []RowIndInv
<1>1. RowIndInv /\ [RowNext]_tenantVars => RowIndInv'
  BY RowStep
<1> QED BY <1>1, RowStarts, PTL DEF RowSpec

-----------------------------------------------------------------------------
(* The theorems                                                            *)

\* However many requests accept, change, remove and invite at once, and wherever
\* they fail: the tables of the team keep their shape, a user has one profile
\* (getOrCreateUserProfile), an invite lets in one user (acceptCampaignInvite),
\* and every membership has its events, unless one was lost with its request.
THEOREM TeamSound == RowSpec => []TeamInv
<1>1. RowIndInv => TeamInv
  BY TeamIndInvImplies DEF RowIndInv
<1> QED BY <1>1, RowSafe, PTL

\* Tenant isolation for any number of campaigns, users and requests: every writer
\* of a row of the eighteen tables owned its campaign or was a manager of it.
THEOREM TenantsIsolated == RowSpec => []WritersBelong
<1>1. RowIndInv => WritersBelong
  BY DEF RowIndInv
<1> QED BY <1>1, RowSafe, PTL

\* No statement of the routes moves a row to another campaign or brings a removed
\* row back.
THEOREM RowsKeepTheirTenant == RowSpec => RowsStay
<1>1. RowIndInv /\ [RowNext]_tenantVars =>
          [\A r \in Row : row[r] # Unused =>
              /\ row'[r] # Unused /\ row'[r].profile = row[r].profile
              /\ row[r].state = "gone" => row'[r] = row[r]]_tenantVars
  BY RowsStayStep
<1> QED BY <1>1, RowSafe, PTL DEF RowSpec, RowsStay
=============================================================================
