------------------------------- MODULE Screens -------------------------------
(***************************************************************************)
(* A screen at work: requests that overtake each other, a user who selects,*)
(* refreshes, submits and leaves meanwhile, and answers that are late or   *)
(* lost.  The behaviour is the same for every screen but for what its      *)
(* description in MobileScreens, CampaignPages or InecPages says.          *)
(***************************************************************************)
EXTENDS Naturals, FiniteSets, MobileScreens, CampaignPages, InecPages

CONSTANTS Key,          \* selections; the first is the least
          MaxDraft,     \* forms that the user fills in
          MaxAsks,      \* loads that the user starts after the first
          MaxResent,    \* forms whose answer is lost and that are sent again
          Slot,         \* requests of a kind that may be out at once
          Nothing

Draft == 1 .. MaxDraft

VARIABLES part,         \* the load and the write of a screen that are watched
          open,         \* the screen is mounted
          elected,      \* the election of the load is known, or it needs none
          left,         \* loads that the user may still start
          sel,          \* the selection of the newest load
          flight,       \* the loads that are out
          newest,       \* the slot of the newest load, unless a change has overtaken it
          shown,        \* what the screen shows
          spinning,     \* the loading flag
          stale,        \* the last answer was to a load that had been overtaken
          told,         \* the failure of a load is shown
          lost,         \* a load failed since the newest was started
          draft,        \* the form that is filled in
          sent,         \* the writes that are out
          copies,       \* how often the server applied a form
          mine,         \* the forms that were acknowledged
          resent        \* the forms that the client sent again by itself

orderVars == <<newest, stale>>
loadVars == <<elected, left, sel, flight, orderVars, shown, spinning, told, lost>>
writeVars == <<draft, sent, copies, mine, resent>>
screenVars == <<part, open, loadVars, writeVars>>

\* A load that is out, by the screen's own function or inline, what a screen
\* shows, and a form that is out.
Loading == [key : Key, got : {Nothing} \cup SUBSET Draft, own : BOOLEAN]
Page == [key : Key, rows : SUBSET Draft]
Form == [draft : Draft, landed : BOOLEAN]

ASSUME ScreenAssumption ==
    /\ \E k \in Key : \A j \in Key : k <= j
    /\ Slot # {}
    /\ MaxDraft \in Nat /\ MaxAsks \in Nat /\ MaxResent \in Nat
ASSUME NothingAssumption ==
    /\ \A rows \in SUBSET Draft : rows # Nothing
    /\ Nothing \notin Loading \cup Page \cup Form \cup Slot

First == CHOOSE k \in Key : \A j \in Key : k <= j

Asked(k, own) == [key |-> k, got |-> Nothing, own |-> own]

AllParts == MobileParts \cup CampaignParts \cup InecParts

Init ==
    /\ part \in AllParts
    /\ open = TRUE /\ left = MaxAsks /\ sel = First /\ shown = Nothing
    /\ elected \in {TRUE} \cup {"election" \notin part.load.scope}
    /\ newest = CHOOSE t \in Slot : TRUE
    /\ flight = [s \in Slot |->
           IF elected /\ part.load.when \in {"open", "key"} /\ s = newest
           THEN Asked(First, TRUE) ELSE Nothing]
    /\ spinning = (/\ part.load.when \in {"open", "key"} /\ part.load.spins # "never"
                   /\ elected \/ "waits" \in part.load.scope)
    /\ stale = FALSE
    /\ told = FALSE /\ lost = FALSE
    /\ draft = 1 /\ mine = {} /\ resent = {}
    /\ sent = [s \in Slot |-> Nothing] /\ copies = [d \in Draft |-> 0]

Truth == {d \in Draft : copies[d] > 0}
Idle(f) == \A s \in Slot : f[s] = Nothing

\* What the user can reach: nothing behind a spinner or an error that fills the
\* screen, but for the button that retries, and nothing of an election before
\* there is one.
Retryable == told /\ "retry" \in part.load.again
Reachable == open /\ elected /\ ~(part.whole /\ (spinning \/ Retryable))

Dropping == part.load.late = "dropped"

\* Sends a load.  useQuery forgets the request it replaces.
Fetch(k, own) ==
    LET free == {s \in Slot : flight[s] = Nothing \/ Dropping}
        new == CHOOSE s \in free : TRUE
    IN /\ free # {}
       /\ flight' = [s \in Slot |-> IF s = new THEN Asked(k, own)
                                    ELSE IF Dropping THEN Nothing ELSE flight[s]]
       /\ newest' = new /\ sel' = k
       /\ UNCHANGED stale

\* The screen's function that loads; what it sets on a screen that was left has
\* no effect.  A key that has no entry in the cache of useQuery shows nothing.
Ask(k) ==
    /\ Fetch(k, TRUE)
    /\ IF open
       THEN /\ spinning' = (spinning \/ part.load.spins = "each"
                             \/ /\ k # sel \/ ~elected
                                /\ Dropping \/ part.load.spins = "key")
            /\ shown' = IF Dropping /\ k # sel THEN Nothing ELSE shown
            /\ told' = (told /\ ("told" \in part.load.fail => "healed" \in part.load.fail))
            /\ lost' = FALSE
       ELSE UNCHANGED <<spinning, shown, told, lost>>

\* The election is found, or another one is chosen elsewhere; no spinner stands
\* before that.
Resolve(k) ==
    /\ open /\ "election" \in part.load.scope
    /\ IF elected THEN /\ "shifts" \in part.load.scope /\ k # sel
                       /\ left > 0 /\ left' = left - 1
                  ELSE UNCHANGED left
    /\ Ask(k) /\ elected' = TRUE
    /\ UNCHANGED <<part, open, writeVars>>

UserAsks(k) ==
    /\ elected /\ left > 0 /\ left' = left - 1
    /\ Ask(k)
    /\ UNCHANGED <<part, open, elected, writeVars>>

Select(k) == Reachable /\ part.load.when = "key" /\ k # sel /\ UserAsks(k)

Request(k) ==
    /\ Reachable /\ part.load.when = "ask" /\ (part.once => Idle(flight))
    /\ UserAsks(k)

Pull ==
    /\ part.once => Idle(flight)
    /\ \/ Reachable /\ "pull" \in part.load.again
       \/ open /\ Retryable /\ ~(part.whole /\ spinning)
    /\ UserAsks(sel)

\* The user comes back to a screen that stayed mounted.
Focus ==
    /\ open /\ "focus" \in part.load.again
    /\ Dropping => Idle(flight)
    /\ UserAsks(sel)

\* An interval or an event of the server; a request for the key that is out
\* already serves useQuery.
Again ==
    /\ \/ open /\ part.load.again \cap {"poll", "push"} # {}
       \/ "leak" \in part.load.again
    /\ elected /\ (Dropping => Idle(flight))
    /\ Ask(sel)
    /\ UNCHANGED <<part, open, elected, left, writeVars>>

\* The server reads what is there.
Serve(s) ==
    /\ flight[s] # Nothing /\ flight[s].got = Nothing
    /\ flight' = [flight EXCEPT ![s].got = Truth]
    /\ UNCHANGED <<part, open, elected, left, sel, orderVars, shown, spinning, told, lost,
                   writeVars>>

Answer(s) ==
    /\ flight[s] # Nothing /\ flight[s].got # Nothing
    /\ flight' = [flight EXCEPT ![s] = Nothing]
    /\ IF open
       THEN /\ shown' = [key |-> flight[s].key, rows |-> flight[s].got]
            /\ stale' = (s # newest)
            /\ spinning' = (spinning /\ ~flight[s].own)
            /\ told' = (told /\ "healed" \notin part.load.fail)
       ELSE UNCHANGED <<shown, stale, spinning, told>>
    /\ UNCHANGED <<part, open, elected, left, sel, newest, lost, writeVars>>

\* What the handler of a write fetched is neither wiped nor told when it fails.
Fail(s) ==
    /\ flight[s] # Nothing
    /\ flight' = [flight EXCEPT ![s] = Nothing]
    /\ IF open
       THEN /\ shown' = IF flight[s].own /\ "wiped" \in part.load.fail THEN Nothing ELSE shown
            /\ told' = (told \/ (flight[s].own /\ "told" \in part.load.fail))
            /\ lost' = TRUE
            /\ spinning' = (spinning /\ (flight[s].own => part.load.ends = "answer"))
       ELSE UNCHANGED <<shown, told, lost, spinning>>
    /\ UNCHANGED <<part, open, elected, left, sel, orderVars, writeVars>>

\* The handler of a write is under way until what it fetches itself is in.
Handling == ~Idle(sent) \/ \E s \in Slot : flight[s] # Nothing /\ ~flight[s].own

Submit(s) ==
    /\ Reachable /\ part.write # NoWrite /\ draft \in Draft
    /\ part.gate => ~Handling
    /\ sent[s] = Nothing
    /\ sent' = [sent EXCEPT ![s] = [draft |-> draft, landed |-> FALSE]]
    /\ UNCHANGED <<part, open, loadVars, draft, copies, mine, resent>>

Land(s) ==
    /\ sent[s] # Nothing /\ ~sent[s].landed
    /\ sent' = [sent EXCEPT ![s].landed = TRUE]
    /\ copies' = [copies EXCEPT ![sent[s].draft] = @ + 1]
    /\ UNCHANGED <<part, open, loadVars, draft, mine, resent>>

\* The client of the INEC pages sends any request again after a network failure
\* or a 5xx answer, a write whose answer was lost included; here once per form.
\* Setting a row once more changes nothing.
Retry(s) ==
    /\ part \in InecParts /\ part.write.adds
    /\ sent[s] # Nothing /\ sent[s].landed /\ sent[s].draft \notin resent
    /\ Cardinality(resent) < MaxResent
    /\ sent' = [sent EXCEPT ![s].landed = FALSE]
    /\ resent' = resent \cup {sent[s].draft}
    /\ UNCHANGED <<part, open, loadVars, draft, copies, mine>>

\* The form is emptied when it was this one that was sent.
NextForm(s) == IF sent[s].draft = draft THEN draft + 1 ELSE draft

\* What an acknowledged write starts.  No handler looks whether its screen is
\* still there; a query that no screen watches is not fetched again.
Reloads == part.write.after = "reload" /\ part.load # NoLoad /\ (open \/ ~Dropping)
Inlines == part.write.after = "inline" /\ part.load # NoLoad /\ (open \/ ~Dropping)

\* The change is shown at once, and overtakes a load that is out.
ShowLocally(d) ==
    /\ shown' = IF open /\ part.write.after = "local" /\ shown # Nothing
                THEN [shown EXCEPT !.rows = @ \cup {d}] ELSE shown
    /\ newest' = IF part.write.after = "local" THEN Nothing ELSE newest
    /\ UNCHANGED <<sel, flight, stale, spinning, told, lost>>

\* The screen shows the change as it knows best.
Acknowledge(s) ==
    /\ sent[s] # Nothing /\ sent[s].landed
    /\ sent' = [sent EXCEPT ![s] = Nothing]
    /\ draft' = NextForm(s)
    /\ mine' = mine \cup {sent[s].draft}
    /\ \/ Reloads /\ Ask(sel)
       \/ Inlines /\ Fetch(sel, FALSE) /\ lost' = FALSE /\ UNCHANGED <<shown, spinning, told>>
       \/ ~Reloads /\ ~Inlines /\ ShowLocally(sent[s].draft)
    /\ UNCHANGED <<part, open, elected, left, copies, resent>>

\* The request or its answer is lost.  The user who sees that an applied form
\* failed fills in another one.
Refuse(s) ==
    /\ sent[s] # Nothing
    /\ sent' = [sent EXCEPT ![s] = Nothing]
    /\ draft' = IF sent[s].landed THEN NextForm(s) ELSE draft
    /\ UNCHANGED <<part, open, loadVars, copies, mine, resent>>

Leave ==
    /\ open /\ open' = FALSE
    /\ UNCHANGED <<part, loadVars, writeVars>>

Network(s) == Serve(s) \/ Answer(s) \/ Fail(s)

Next ==
    \/ \E k \in Key : Resolve(k) \/ Select(k) \/ Request(k)
    \/ \E s \in Slot : Network(s) \/ Submit(s) \/ Land(s) \/ Retry(s)
                        \/ Acknowledge(s) \/ Refuse(s)
    \/ Pull \/ Focus \/ Again \/ Leave

\* A request is answered or fails in the end.
Spec == Init /\ [][Next]_screenVars /\ \A s \in Slot : WF_screenVars(Network(s))

-----------------------------------------------------------------------------
(* Properties                                                              *)

\* Every variable stays in its type whatever the screen.
ScreenTypeOK ==
    /\ part \in AllParts
    /\ {open, elected, spinning, stale, told, lost} \subseteq BOOLEAN
    /\ newest \in {Nothing} \cup Slot
    /\ sel \in Key /\ left \in 0 .. MaxAsks
    /\ flight \in [Slot -> {Nothing} \cup Loading]
    /\ sent \in [Slot -> {Nothing} \cup Form]
    /\ shown \in {Nothing} \cup Page
    /\ copies \in [Draft -> Nat]
    /\ draft \in 1 .. MaxDraft + 1 /\ mine \cup resent \subseteq Draft

\* Screens that keep an answer which a newer request overtook, and on which that
\* request can be started meanwhile, by the user or by a change of the election.
RacingParts ==
    UNION {Parts(AlertsScreen, AlertsView),
           Parts(DashboardScreen, DashboardView),
           Parts(ReportsScreen, ReportsView),
           Parts(CommandCenterScreen, CommandCenterView),
           Parts(ComplianceScreen, ComplianceView),
           Parts(DisputesScreen, DisputesView),
           Parts(DuplicateDetectionScreen, DuplicateDetectionView),
           Parts(EvidenceScreen, EvidenceView),
           Parts(GeoMapScreen, GeoMapView),
           Parts(GOTVCampaignsScreen, GOTVCampaignsView),
           Parts(GOTVLeaderboardScreen, GOTVLeaderboardView),
           Parts(GOTVPledgesScreen, GOTVPledgesView),
           Parts(GOTVRidesScreen, GOTVRidesView),
           Parts(IncidentsScreen, IncidentsView),
           Parts(MFAScreen, MFAView),
           Parts(ResultCaptureScreen, ResultCaptureView),
           Parts(ResultsScreen, ResultsView),
           Parts(SMSVerificationScreen, SMSVerificationView),
           Parts(AdminConsolePage, AdminConsolePageJSX),
           Parts(AuditPage, AuditPageJSX),
           Parts(BVASPage, BVASPageJSX),
           Parts(BVASDevices, BVASDevicesJSX),
           Parts(BVASSyncPage, BVASSyncPageJSX),
           Parts(CollationPage, CollationPageJSX),
           Parts(ComplianceReportPage, ComplianceReportPageJSX),
           Parts(DisputeResolutionPage, DisputeResolutionPageJSX),
           Parts(DocumentAIPage, DocumentAIPageJSX),
           Parts(ElectionsPage, ElectionsPageJSX),
           Parts(EvidenceJourneyPage, EvidenceJourneyPageJSX),
           Parts(GeofencingPage, GeofencingPageJSX),
           Parts(GOTVAnalytics, GOTVAnalyticsJSX),
           Parts(GOTVLeaderboard, GOTVLeaderboardJSX),
           Parts(GOTVLocations, GOTVLocationsJSX),
           Parts(GOTVSegments, GOTVSegmentsJSX),
           Parts(GOTVTasks, GOTVTasksJSX),
           Parts(GOTVVetting, GOTVVettingJSX),
           Parts(IncidentsPage, IncidentsPageJSX),
           Parts(IntegrityScorePage, IntegrityScorePageJSX),
           Parts(PollingUnitsPage, PollingUnitsPageJSX),
           Parts(PortalIntegrationPage, PortalIntegrationPageJSX),
           Parts(ResultsPage, ResultsPageJSX),
           Parts(SMSVerificationPage, SMSVerificationPageJSX),
           Parts(TrainingPage, TrainingPageJSX),
           Parts(TVDashboardPage, TVDashboardPageJSX),
           Parts(UserManagementPage, UserManagementPageJSX),
           Parts(VoterRegistrationPage, VoterRegistrationPageJSX),
           Parts(WebhookManagementPage, WebhookManagementPageJSX),
           Parts(WorkflowEnginePage, WorkflowEnginePageJSX)}

\* Screens with a form that can be sent twice: its button, or the Enter key of
\* its field, stays live while the first copy is under way.
DoubledParts ==
    UNION {Parts(GOTVCanvasserScreen, GOTVCanvasserView),
           Parts(GOTVIndicatorsScreen, GOTVIndicatorsView),
           Parts(GOTVLoginScreen, GOTVLoginView),
           Parts(IncidentsScreen, IncidentsView),
           Parts(ElectionDayWarRoom, ElectionDayWarRoomJSX),
           Parts(GOTVSegments, GOTVSegmentsJSX),
           Parts(IncidentsPage, IncidentsPageJSX),
           Parts(TrainingPage, TrainingPageJSX),
           Parts(WebhookManagementPage, WebhookManagementPageJSX)}

\* The war room of the mobile app shows its skeleton until it has data, and
\* offers no way to ask for it again.
StuckParts == Parts(GOTVWarRoomScreen, GOTVWarRoomView)

\* The pages that withhold their records behind AuthoritativeDataUnavailable
\* whenever a load fails.  GOTVBlockchain does so but for what its handler of an
\* anchor fetches, see NeverFabricated.
AuthoritativeParts ==
    UNION {Parts(BVASPage, BVASPageJSX),
           Parts(CollationPage, CollationPageJSX),
           Parts(ComplianceReportPage, ComplianceReportPageJSX),
           Parts(GOTVLedger, GOTVLedgerJSX),
           Parts(IncidentsPage, IncidentsPageJSX),
           Parts(PredictiveAnalyticsPage, PredictiveAnalyticsPageJSX),
           Parts(ResultsPage, ResultsPageJSX),
           Parts(UserManagementPage, UserManagementPageJSX),
           Parts(WebhookManagementPage, WebhookManagementPageJSX)}

AtRest == open /\ Idle(flight) /\ Idle(sent)

\* A screen that promises to show what was acknowledged.
Echoes(p) == p.write.after \in {"reload", "inline", "local"}

\* A screen that has come to rest after its loads shows the selection that was
\* made last and every change that was acknowledged to the user, in whatever
\* order the answers came in; on the screens that are named, unless the answer
\* that came last was to a load that had been overtaken.
SettledShowsOwn ==
    AtRest /\ ~lost /\ shown # Nothing /\ (stale => part \notin RacingParts) =>
        /\ shown.key = sel
        /\ Echoes(part) => mine \subseteq shown.rows

\* A form that adds a row adds one, however fast the user presses, and one more
\* where the client sent it again after the answer was lost.
OneRowPerForm ==
    part.write.adds /\ part \notin DoubledParts =>
        \A d \in Draft : copies[d] <= IF d \in resent THEN 2 ELSE 1

\* The spinner of a page that waits for an election.
Unresolved == ~elected /\ "waits" \in part.load.scope

\* A spinner ends once the network has answered or failed, but for the two
\* screens that wait for an election which is never found.
SpinnerEnds ==
    (spinning /\ ~Unresolved /\ part \notin StuckParts) ~> (~spinning \/ ~open)

\* A handler returns: a landed form leaves its slot.
HandlerEnds == \E t \in Slot : sent[t] # Nothing /\ sent'[t] = Nothing /\ sent[t].landed

\* A screen that was left sends nothing any more, but for the one load with
\* which the handler of a write that was under way ends, and a page on useQuery
\* not even that: every interval that polls is cleared by the cleanup of the
\* effect that started it.
QuietOnceLeft ==
    [][~open =>
          /\ \A s \in Slot : sent[s] = Nothing => sent'[s] = Nothing
          /\ \A s \in Slot : flight[s] = Nothing /\ flight'[s] # Nothing =>
                HandlerEnds /\ ~Dropping]_screenVars

\* A page of authoritative data never passes old or absent records off as live
\* ones: once its newest load has failed it says so until it tries again.
FailureOwned == part \in AuthoritativeParts => (AtRest /\ lost => told)

\* What the catch block of GOTVBlockchain promises, "Never fabricate a chain on
\* failure: show the unavailable state instead" (GOTVBlockchain.tsx:50).  Its
\* handler of an anchor does not keep it: when the fetch in it fails the old
\* chain stays, and the page says that the anchor failed.  Not checked by a run.
NeverFabricated ==
    part \in Parts(GOTVBlockchain, GOTVBlockchainJSX) => (AtRest /\ lost => told)

\* What holds of the forms and of the failures of every screen.
ScreenInv == ScreenTypeOK /\ OneRowPerForm /\ FailureOwned
=============================================================================
