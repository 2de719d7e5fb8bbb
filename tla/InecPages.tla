------------------------------ MODULE InecPages -------------------------------
(***************************************************************************)
(* Pages of the commission's web frontend (inec-frontend/src/pages), each  *)
(* as its logic and its JSX.  They load with plain fetches in effects, and *)
(* none drops an answer that a newer request overtook.                     *)
(***************************************************************************)
EXTENDS ScreenKit

\* Pages that withhold their records behind AuthoritativeDataUnavailable.
Withheld == {"wiped", "told"}

AIMonitoringPage ==
    Logic([dashboard |-> OnOpen({}, "never", {}), alerts |-> OnOpen({}, "never", {})], Empty)
AIMonitoringPageJSX == View({}, {})

AdminConsolePage == Logic([all |-> Shifting(OnOpen({}, "never", {}))], Empty)
AdminConsolePageJSX == View({}, {})

AuditPage ==
    Logic([trail |-> OnOpen({"retry"}, "each", Withheld), verify |-> OnAsk("never", {})], Empty)
AuditPageJSX == View({"trail"}, {})

BlockchainPage == Logic([health |-> OnOpen({"pull"}, "each", Withheld)], Empty)
BlockchainPageJSX == View({}, {"health"})

BVASPage == Logic([all |-> Shifting(ByKey({"poll", "retry"}, "first", Withheld))], Empty)
BVASPageJSX == View({"all"}, {})
BVASDevices == Logic([devices |-> Shifting(OnOpen({}, "each", Withheld))], Empty)
BVASDevicesJSX == View({"devices"}, {})

BVASSyncPage ==
    Logic([queue |-> OnOpen({}, "never", {})], [resolve |-> Sets("reload")])
BVASSyncPageJSX == View({}, {})

PublicComplaintForm == Logic(Empty, [submit |-> Adds("none")])
PublicComplaintFormJSX == View({}, {"submit"})
CitizenPortalPage == Logic([verify |-> OnAsk("each", {"wiped"})], Empty)
CitizenPortalPageJSX == View({}, {"verify"})

\* Mutant: a failure that only empties the table.
CollationPageQuiet == Logic([level |-> Shifting(ByKey({"retry"}, "each", {"wiped"}))], Empty)

\* The levels stand behind the spinner, the election does not.
CollationPage == Logic([level |-> Shifting(ByKey({"retry"}, "each", Withheld))], Empty)
CollationPageJSX == View({"level"}, {})

ComplianceReportPage ==
    Logic([report |-> Shifting(ByKey({"retry"}, "each", Withheld))], Empty)
ComplianceReportPageJSX == View({}, {})

DataValidationPage == Logic([all |-> OnOpen({}, "never", {})], Empty)
DataValidationPageJSX == View({}, {})

\* The filters fetch again and the list stays in view behind them.
DisputeResolutionPage ==
    Logic([disputes |-> ByKey({}, "each", {"told"}), stats |-> OnOpen({}, "never", {})],
          [file |-> Only(Adds("reload"), {"disputes", "stats"}),
           resolve |-> Only(Sets("reload"), {"disputes", "stats"})])
DisputeResolutionPageJSX == View({}, {"file"})

DocumentAIPage ==
    Logic([analysis |-> OnAsk("each", Withheld), status |-> OnAsk("never", {"told"})], Empty)
DocumentAIPageJSX == View({}, {"analysis"})

DuplicateDetectionPage ==
    Logic([scan |-> OnAsk("each", Withheld)], [resolve |-> Sets("none")])
DuplicateDetectionPageJSX == View({}, {"scan"})

ElectionsPage ==
    Logic([elections |-> ByKey({}, "each", {}), stats |-> OnAsk("never", {"wiped"})],
          [create |-> Only(Adds("reload"), {"elections"}),
           update |-> Only(Sets("reload"), {"elections"}),
           delete |-> Only(Sets("reload"), {"elections"})])
ElectionsPageForm == View({}, {"create", "update"})
ElectionsPageList == View({}, {})
ElectionsPageJSX == Tabs({ElectionsPageForm, ElectionsPageList})

EvidenceJourneyPage ==
    Logic([journey |-> OnAsk("each", Withheld), materials |-> OnAsk("never", Withheld)],
          [verify |-> Sets("none")])
EvidenceJourneyPageJSX == View({}, {"journey", "verify"})

ExportCenterPage == Logic([export |-> OnAsk("each", {"told"})], Empty)
ExportCenterPageJSX == View({}, {"export"})

GeofencingPage ==
    Logic([stats |-> Shifting(OnOpen({}, "never", Withheld)), check |-> OnAsk("each", Withheld),
           spoof |-> OnAsk("each", Withheld)],
          Empty)
GeofencingPageJSX == View({}, {"check", "spoof"})

GOTVAnalytics ==
    Logic([channels |-> OnOpen({"retry"}, "each", Withheld), turnout |-> OnAsk("never", Withheld)],
          Empty)
GOTVAnalyticsJSX == View({"channels"}, {})

\* The handler of an anchor fetches the chain itself, and says of a failure of
\* that fetch that the anchor failed.
GOTVBlockchain ==
    Logic([status |-> OnOpen({"retry"}, "each", Withheld)], [anchor |-> Adds("inline")])
GOTVBlockchainJSX == View({"status"}, {"anchor"})

GOTVLeaderboard == Logic([entries |-> ByKey({}, "each", {"wiped"})], Empty)
GOTVLeaderboardJSX == View({}, {})

\* Mutant: the flag is lowered by an answer only.
GOTVLedgerLasting == Logic([accounts |-> Lasting(OnOpen({"retry"}, "each", Withheld))], Empty)

GOTVLedger == Logic([accounts |-> OnOpen({"retry"}, "each", Withheld)], Empty)
GOTVLedgerJSX == View({"accounts"}, {})

GOTVLocations ==
    Logic([capacity |-> ByKey({}, "each", {})],
          [assign |-> Sets("reload"), autoAssign |-> Sets("reload")])
GOTVLocationsJSX == View({}, {"assign", "autoAssign"})

\* The button that creates a segment is disabled only while it has no name.
GOTVSegments ==
    Logic([segments |-> OnOpen({}, "first", {"wiped"}), evaluation |-> OnAsk("never", {})],
          [create |-> Only(Adds("reload"), {"segments"})])
GOTVSegmentsJSX == View({}, {})

GOTVTasks ==
    Logic([tasks |-> ByKey({}, "each", {})],
          [create |-> Adds("reload"), setStatus |-> Sets("reload"),
           autoAssign |-> Sets("reload")])
GOTVTasksJSX == View({}, {"create", "setStatus", "autoAssign"})

\* One action at a time on a volunteer.
GOTVVetting ==
    Logic([pipeline |-> ByKey({}, "each", {})],
          [verifyNIN |-> Sets("reload"), training |-> Sets("reload"),
           decide |-> Sets("reload")])
GOTVVettingJSX == View({}, {"verifyNIN", "training", "decide"})

GOTVWarRoom ==
    Logic([summary |-> OnOpen({}, "each", {}), stream |-> Cancelled(OnOpen({"push"}, "never", {}))],
          Empty)
GOTVWarRoomJSX == View({"summary"}, {})

\* Neither the report nor the change of a status is disabled while it is under way.
IncidentsPage ==
    Logic([incidents |-> Shifting(OnOpen({"retry"}, "each", Withheld))],
          [create |-> Adds("reload"), updateStatus |-> Sets("reload")])
IncidentsPageJSX == View({"incidents"}, {})

IntegrityScorePage == Logic([heatmap |-> Shifting(ByKey({}, "each", {}))], Empty)
IntegrityScorePageJSX == View({}, {})

KYCVerificationPage ==
    Logic([status |-> OnOpen({}, "first", {"told"})],
          [verify |-> Adds("local"), liveness |-> Sets("local")])
KYCVerificationPageJSX == View({"status"}, {"verify"})

LoginPage == Logic(Empty, [login |-> Sets("none")])
LoginPageJSX == View({}, {"login"})

PollingUnitsPage ==
    Logic([states |-> OnOpen({}, "never", {}), lgas |-> ByKey({}, "never", {}),
           units |-> ByKey({}, "each", {})],
          Empty)
PollingUnitsPageJSX == View({}, {})

PortalIntegrationPage ==
    Logic([status |-> OnOpen({}, "never", {}), portal |-> OnAsk("never", {})],
          [sync |-> Sets("reload")])
PortalIntegrationPageJSX == View({}, {"sync"})

PredictiveAnalyticsPage == Logic([predictions |-> OnOpen({"retry"}, "each", Withheld)], Empty)
PredictiveAnalyticsPageJSX == View({"predictions"}, {})

\* The form is not disabled while it is sent: it relies on the server to refuse
\* a second result of the unit.  The spinner of the table is up before there is
\* an election, and stays when none is found.
ResultsPage ==
    Logic([metadata |-> OnOpen({"retry"}, "never", Withheld),
           results |-> Waiting({"shifts"}, ByKey({"retry"}, "each", Withheld))],
          [submit |-> Only(Sets("reload"), {"results"}),
           act |-> Only(Sets("reload"), {"results"})])
ResultsPageJSX == View({}, {})

\* A message of the gateway is cleared by the next request of any kind.
SMSVerificationPage ==
    Logic([sms |-> OnAsk("each", Withheld), ussd |-> OnAsk("each", {"told"}),
           stats |-> OnAsk("never", Withheld)],
          Empty)
SMSVerificationPageJSX == View({}, {"sms", "ussd"})

\* Mutant: no cleanup for the interval.
ScaleHealthPageLeaking == Logic([health |-> OnOpen({"leak", "pull"}, "first", {})], Empty)

ScaleHealthPage == Logic([health |-> OnOpen({"poll", "pull"}, "first", {})], Empty)
ScaleHealthPageJSX == View({"health"}, {})

TrainingPage ==
    Logic([stats |-> OnOpen({}, "never", {}), courses |-> OnOpen({}, "never", {}),
           enrollments |-> OnOpen({}, "never", {})],
          [create |-> Only(Adds("reload"), {"courses", "stats"}),
           enroll |-> Only(Sets("reload"), {"enrollments", "stats"})])
TrainingPageJSX == View({}, {"enroll"})

\* The error is taken back by any answer, an overtaken one too.
TVDashboardPage ==
    Logic([board |-> Shifting(OnOpen({"poll", "retry"}, "never", Withheld \cup {"healed"}))],
          Empty)
TVDashboardPageJSX == View({}, {})

UserManagementPage ==
    Logic([users |-> ByKey({"retry"}, "each", Withheld), sessions |-> OnAsk("never", Withheld)],
          [create |-> Only(Adds("reload"), {"users"}),
           update |-> Only(Sets("reload"), {"users"}),
           delete |-> Only(Sets("reload"), {"users"}),
           revoke |-> Only(Sets("reload"), {"sessions"})])
UserManagementPageForm == View({"users"}, {"create", "update"})
UserManagementPageList == View({"users"}, {})
UserManagementPageJSX == Tabs({UserManagementPageForm, UserManagementPageList})

VoterRegistrationPage ==
    Logic([stats |-> OnOpen({}, "never", {}), voters |-> ByKey({}, "never", {}),
           service |-> OnOpen({}, "never", Withheld)],
          Empty)
VoterRegistrationPageJSX == View({}, {})

\* A webhook may be created as often as the user presses.
WebhookManagementPage ==
    Logic([webhooks |-> OnOpen({"retry"}, "each", Withheld)],
          [create |-> Adds("reload"), delete |-> Sets("reload"),
           update |-> Sets("reload")])
WebhookManagementPageJSX == View({}, {})

WorkflowEnginePage ==
    Logic([workflows |-> OnOpen({"pull"}, "each", Withheld), detail |-> OnAsk("never", Withheld)],
          [advance |-> Only(Sets("reload"), {"workflows", "detail"})])
WorkflowEnginePageJSX == View({}, {"workflows", "advance"})

InecParts ==
    UNION {Parts(AIMonitoringPage, AIMonitoringPageJSX),
           Parts(AdminConsolePage, AdminConsolePageJSX),
           Parts(AuditPage, AuditPageJSX),
           Parts(BlockchainPage, BlockchainPageJSX),
           Parts(BVASPage, BVASPageJSX),
           Parts(BVASDevices, BVASDevicesJSX),
           Parts(BVASSyncPage, BVASSyncPageJSX),
           Parts(PublicComplaintForm, PublicComplaintFormJSX),
           Parts(CitizenPortalPage, CitizenPortalPageJSX),
           Parts(CollationPage, CollationPageJSX),
           Parts(ComplianceReportPage, ComplianceReportPageJSX),
           Parts(DataValidationPage, DataValidationPageJSX),
           Parts(DisputeResolutionPage, DisputeResolutionPageJSX),
           Parts(DocumentAIPage, DocumentAIPageJSX),
           Parts(DuplicateDetectionPage, DuplicateDetectionPageJSX),
           Parts(ElectionsPage, ElectionsPageJSX),
           Parts(EvidenceJourneyPage, EvidenceJourneyPageJSX),
           Parts(ExportCenterPage, ExportCenterPageJSX),
           Parts(GeofencingPage, GeofencingPageJSX),
           Parts(GOTVAnalytics, GOTVAnalyticsJSX),
           Parts(GOTVBlockchain, GOTVBlockchainJSX),
           Parts(GOTVLeaderboard, GOTVLeaderboardJSX),
           Parts(GOTVLedger, GOTVLedgerJSX),
           Parts(GOTVLocations, GOTVLocationsJSX),
           Parts(GOTVSegments, GOTVSegmentsJSX),
           Parts(GOTVTasks, GOTVTasksJSX),
           Parts(GOTVVetting, GOTVVettingJSX),
           Parts(GOTVWarRoom, GOTVWarRoomJSX),
           Parts(IncidentsPage, IncidentsPageJSX),
           Parts(IntegrityScorePage, IntegrityScorePageJSX),
           Parts(KYCVerificationPage, KYCVerificationPageJSX),
           Parts(LoginPage, LoginPageJSX),
           Parts(PollingUnitsPage, PollingUnitsPageJSX),
           Parts(PortalIntegrationPage, PortalIntegrationPageJSX),
           Parts(PredictiveAnalyticsPage, PredictiveAnalyticsPageJSX),
           Parts(ResultsPage, ResultsPageJSX),
           Parts(SMSVerificationPage, SMSVerificationPageJSX),
           Parts(ScaleHealthPage, ScaleHealthPageJSX),
           Parts(TrainingPage, TrainingPageJSX),
           Parts(TVDashboardPage, TVDashboardPageJSX),
           Parts(UserManagementPage, UserManagementPageJSX),
           Parts(VoterRegistrationPage, VoterRegistrationPageJSX),
           Parts(WebhookManagementPage, WebhookManagementPageJSX),
           Parts(WorkflowEnginePage, WorkflowEnginePageJSX)}
===============================================================================
