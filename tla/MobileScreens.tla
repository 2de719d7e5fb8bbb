---------------------------- MODULE MobileScreens -----------------------------
(***************************************************************************)
(* The screens of the mobile app (inec-mobile/app), each as its logic and  *)
(* its view.  No screen drops an answer that a newer request overtook, but *)
(* many stand behind a skeleton until their first answer.  useFocusEffect  *)
(* loads again whenever the user comes back.                               *)
(***************************************************************************)
EXTENDS ScreenKit

AlertsScreen ==
    Logic([rules |-> OnFocus({"pull"}, "first", {})],
          [saveRule |-> Adds("reload"), deleteRule |-> Sets("reload")])
AlertsView == View({}, {"saveRule"})

DashboardScreen ==
    Logic([party |-> ByKey({"focus", "pull"}, "key", {})],
          [checkIn |-> Adds("none")])
DashboardView == View({}, {"checkIn"})

\* The stream is torn down with the screen and reconnects after a pause.
FeedScreen ==
    Logic([stats |-> OnOpen({"pull"}, "first", {}), stream |-> Cancelled(OnOpen({"push"}, "never", {}))],
          Empty)
FeedView == View({}, {})

\* A report that cannot be sent is queued, and shown as pending.
ReportsScreen ==
    Logic([reports |-> OnFocus({"pull"}, "first", {})],
          [submit |-> Adds("reload")])
ReportsView == View({}, {"submit"})

AdminConsoleScreen == Logic([stats |-> OnOpen({"pull"}, "first", {})], Empty)
AdminConsoleView == View({"stats"}, {})

AIMonitoringScreen == Logic([feeds |-> OnOpen({"pull"}, "first", {})], Empty)
AIMonitoringView == View({"feeds"}, {})

AnomalyDetectionScreen ==
    Logic([anomalies |-> OnOpen({"pull"}, "each", {"told"})],
          Empty)
AnomalyDetectionView == View({}, {})

AuditScreen == Logic([trail |-> OnOpen({"pull"}, "each", {})], Empty)
AuditView == View({}, {})

BiometricsScreen == Logic([status |-> OnAsk("each", {"told"})], Empty)
BiometricsView == View({}, {"status"})

BlockchainScreen ==
    Logic([status |-> OnAsk("each", {"told"}), chain |-> OnAsk("each", {"told"})],
          Empty)
BlockchainView == View({}, {"status", "chain"})

BVASSyncScreen == Logic([status |-> OnAsk("each", {"told"})], Empty)
BVASSyncView == View({}, {"status"})

BVASScreen == Logic([devices |-> OnOpen({"pull"}, "first", {})], Empty)
BVASView == View({"devices"}, {})

CitizenPortalScreen == Logic([search |-> OnAsk("each", {"told"})], Empty)
CitizenPortalView == View({}, {"search"})

CollationScreen ==
    Logic([summary |-> PerElection(OnOpen({"pull"}, "each", {"told"}))], Empty)
CollationView == View({}, {})

CommandCenterScreen ==
    Logic([live |-> OnOpen({"poll", "pull"}, "each", {"told"})],
          [loadShedding |-> Sets("reload")])
CommandCenterView == View({}, {})

ComplianceScreen ==
    Logic([report |-> PerElection(ByKey({"pull"}, "key", {"wiped"}))], Empty)
ComplianceView == View({}, {})

DataValidationScreen == Logic([results |-> OnAsk("each", {"told"})], Empty)
DataValidationView == View({}, {"results"})

DisputesScreen ==
    Logic([disputes |-> OnFocus({"pull"}, "first", {})],
          [fileDispute |-> Adds("reload"), resolveDispute |-> Sets("reload")])
DisputesView == View({"disputes"}, {"fileDispute"})

DocumentAIScreen == Logic([lookup |-> OnAsk("each", {"told"})], Empty)
DocumentAIView == View({}, {"lookup"})

DuplicateDetectionScreen ==
    Logic([status |-> OnAsk("each", {"told"})],
          [startScan |-> Adds("reload")])
DuplicateDetectionView == View({}, {"status", "startScan"})

ElectionsScreen == Logic([elections |-> OnFocus({"pull"}, "first", {})], Empty)
ElectionsView == View({"elections"}, {})

EnrollmentKioskScreen == Logic(Empty, [submitEnrollment |-> Adds("none")])
EnrollmentKioskView == View({}, {"submitEnrollment"})

EvidenceScreen ==
    Logic([journey |-> OnOpen({"pull"}, "each", {"wiped", "told"}), materials |-> OnAsk("never", {"told"})],
          [verify |-> Sets("local")])
EvidenceView == View({"journey"}, {"verify"})

ExportCenterScreen == Logic([export |-> OnAsk("each", {"told"})], Empty)
ExportCenterView == View({}, {"export"})

\* The officials are polled while their layer is on.
GeoMapScreen ==
    Logic([stats |-> PerElection(OnOpen({}, "each", {})), officials |-> OnOpen({"poll", "pull"}, "never", {}),
              nearby |-> OnAsk("each", {"told"}), layers |-> OnAsk("never", {})],
          Empty)
GeoMapView == View({}, {})

GeofencingScreen ==
    Logic([zone |-> OnAsk("each", {"told"}), spoof |-> OnAsk("each", {"told"})],
          Empty)
GeofencingView == View({}, {"zone", "spoof"})

GOTVAnalyticsScreen == Logic([analytics |-> OnFocus({"pull"}, "first", {})], Empty)
GOTVAnalyticsView == View({"analytics"}, {})

GOTVCampaignsScreen ==
    Logic([campaigns |-> OnFocus({"pull"}, "first", {})],
          [createCampaign |-> Adds("reload"), launchCampaign |-> Sets("reload")])
GOTVCampaignsView == View({"campaigns"}, {"createCampaign"})

\* The form is emptied only once the knock has been saved.
GOTVCanvasserScreen ==
    Logic([walklist |-> OnOpen({}, "never", {})],
          [recordKnock |-> Adds("none")])
GOTVCanvasserView == View({}, {})

GOTVContactsScreen == Logic([contacts |-> OnFocus({"pull"}, "first", {})], Empty)
GOTVContactsView == View({"contacts"}, {})

GOTVIndicatorsScreen ==
    Logic([indicators |-> OnFocus({"pull"}, "first", {})],
          [generateReport |-> Adds("none")])
GOTVIndicatorsView == View({"indicators"}, {})

GOTVLeaderboardScreen == Logic([entries |-> ByKey({}, "each", {"wiped"})], Empty)
GOTVLeaderboardView == View({}, {})

\* The countdown that holds back a resend starts with its answer.
GOTVLoginScreen ==
    Logic(Empty,
          [requestOTP |-> Adds("none"), verifyOTP |-> Sets("none"),
              resendOTP |-> Adds("none")])
GOTVLoginView == View({}, {"requestOTP", "verifyOTP"})

GOTVPledgesScreen ==
    Logic([pledges |-> OnFocus({"pull"}, "first", {})],
          [updateStatus |-> Sets("reload")])
GOTVPledgesView == View({"pledges"}, {})

GOTVRidesScreen ==
    Logic([rides |-> OnFocus({"pull"}, "first", {})],
          [updateStatus |-> Sets("reload")])
GOTVRidesView == View({"rides"}, {})

GOTVSegmentsScreen == Logic([segments |-> OnFocus({"pull"}, "first", {})], Empty)
GOTVSegmentsView == View({"segments"}, {})

GOTVTerritoryScreen == Logic([territory |-> OnOpen({}, "first", {})], Empty)
GOTVTerritoryView == View({"territory"}, {})

\* The skeleton stays while there is no data, also after a failure.
GOTVWarRoomScreen == Logic([data |-> Lasting(OnFocus({"pull"}, "first", {}))], Empty)
GOTVWarRoomView == View({"data"}, {})

GOTVScreen == Logic([all |-> OnFocus({"pull"}, "first", {"told"})], Empty)
GOTVView == View({}, {})

HardwareBiometricScreen ==
    Logic([capability |-> OnOpen({}, "never", {"told"})],
          [authenticate |-> Guarded(Sets("none"))])
HardwareBiometricView == View({}, {"authenticate"})

IncidentsScreen ==
    Logic([incidents |-> OnOpen({}, "each", {})],
          [submitIncident |-> Adds("reload"), updateStatus |-> Sets("reload")])
IncidentsView == View({}, {})

\* A session that is still there leaves the screen.
LoginScreen ==
    Logic([session |-> OnOpen({}, "first", {})],
          [login |-> Sets("none")])
LoginView == View({"session"}, {"login"})

IntegrityScreen ==
    Logic([scores |-> PerElection(OnOpen({"pull"}, "key", {"wiped"}))], Empty)
IntegrityView == View({}, {})

\* The processing step replaces the button.
KYCScreen == Logic(Empty, [verify |-> Adds("none")])
KYCView == View({}, {"verify"})

MFAScreen ==
    Logic([status |-> OnOpen({}, "never", {})],
          [setup |-> Sets("local"), verify |-> Sets("reload"),
               biometric |-> Adds("reload"), backup |-> Sets("local"),
               disable |-> Sets("reload")])
MFAView == View({}, {"setup", "verify", "biometric", "backup"})

MiddlewareScreen == Logic([status |-> OnOpen({"pull"}, "first", {})], Empty)
MiddlewareView == View({"status"}, {})

MLDashboardScreen == Logic([data |-> OnOpen({"pull"}, "each", {})], Empty)
MLDashboardView == View({}, {})

ObserverMonitoringScreen == Logic([stats |-> OnAsk("each", {"told"})], Empty)
ObserverMonitoringView == View({}, {"stats"})

PollingUnitsScreen == Logic([units |-> OnOpen({"pull"}, "each", {})], Empty)
PollingUnitsView == View({}, {})

PortalIntegrationScreen == Logic([status |-> OnOpen({"pull"}, "first", {})], Empty)
PortalIntegrationView == View({"status"}, {})

PredictiveAnalyticsScreen ==
    Logic([prediction |-> OnAsk("each", {"told"}), benford |-> OnAsk("each", {"told"})],
          Empty)
PredictiveAnalyticsView == View({}, {"prediction", "benford"})

ProductionScreen == Logic([health |-> OnOpen({"pull"}, "first", {})], Empty)
ProductionView == View({"health"}, {})

PublicAPIScreen == Logic([docs |-> OnOpen({}, "first", {})], Empty)
PublicAPIView == View({"docs"}, {})

ResultCaptureScreen ==
    Logic([pending |-> OnFocus({}, "never", {})],
          [submit |-> Adds("reload"), sync |-> Sets("reload")])
ResultCaptureView == View({}, {"submit", "sync"})

ResultsScreen ==
    Logic([results |-> PerElection(OnFocus({"pull"}, "first", {})),
           collation |-> PerElection(ByKey({"focus", "pull"}, "never", {}))],
          Empty)
ResultsView == View({"results"}, {})

ScaleHealthScreen == Logic([health |-> OnFocus({"pull"}, "first", {})], Empty)
ScaleHealthView == View({"health"}, {})

SMSVerificationScreen ==
    Logic([stats |-> OnAsk("never", {"told"})],
          [sendSMS |-> Adds("none")])
SMSVerificationView == View({}, {"sendSMS"})

StakeholderScreen == Logic([data |-> OnOpen({"pull"}, "first", {})], Empty)
StakeholderView == View({"data"}, {})

TrainingScreen == Logic([courses |-> OnOpen({}, "first", {})], Empty)
TrainingView == View({"courses"}, {})

\* Without an election the indicator turns for ever.
TVDashboardScreen ==
    Logic([results |-> Waiting({}, OnOpen({"pull", "poll"}, "key", {"wiped"}))],
          Empty)
TVDashboardView == View({"results"}, {})

UserManagementScreen == Logic([users |-> OnOpen({}, "each", {})], Empty)
UserManagementView == View({}, {})

VoterRegistrationScreen ==
    Logic([service |-> OnOpen({"pull"}, "each", {"wiped", "told"})],
          Empty)
VoterRegistrationView == View({}, {})

VoterSearchScreen == Logic([search |-> OnAsk("each", {"told"})], Empty)
VoterSearchView == View({}, {"search"})

WebhookManagementScreen == Logic([hooks |-> OnOpen({"pull"}, "first", {})], Empty)
WebhookManagementView == View({"hooks"}, {})

WorkflowEngineScreen ==
    Logic([status |-> OnOpen({"pull"}, "each", {"wiped", "told"})],
          Empty)
WorkflowEngineView == View({"status"}, {})

MobileParts ==
    UNION {Parts(AlertsScreen, AlertsView),
           Parts(DashboardScreen, DashboardView),
           Parts(FeedScreen, FeedView),
           Parts(ReportsScreen, ReportsView),
           Parts(AdminConsoleScreen, AdminConsoleView),
           Parts(AIMonitoringScreen, AIMonitoringView),
           Parts(AnomalyDetectionScreen, AnomalyDetectionView),
           Parts(AuditScreen, AuditView),
           Parts(BiometricsScreen, BiometricsView),
           Parts(BlockchainScreen, BlockchainView),
           Parts(BVASSyncScreen, BVASSyncView),
           Parts(BVASScreen, BVASView),
           Parts(CitizenPortalScreen, CitizenPortalView),
           Parts(CollationScreen, CollationView),
           Parts(CommandCenterScreen, CommandCenterView),
           Parts(ComplianceScreen, ComplianceView),
           Parts(DataValidationScreen, DataValidationView),
           Parts(DisputesScreen, DisputesView),
           Parts(DocumentAIScreen, DocumentAIView),
           Parts(DuplicateDetectionScreen, DuplicateDetectionView),
           Parts(ElectionsScreen, ElectionsView),
           Parts(EnrollmentKioskScreen, EnrollmentKioskView),
           Parts(EvidenceScreen, EvidenceView),
           Parts(ExportCenterScreen, ExportCenterView),
           Parts(GeoMapScreen, GeoMapView),
           Parts(GeofencingScreen, GeofencingView),
           Parts(GOTVAnalyticsScreen, GOTVAnalyticsView),
           Parts(GOTVCampaignsScreen, GOTVCampaignsView),
           Parts(GOTVCanvasserScreen, GOTVCanvasserView),
           Parts(GOTVContactsScreen, GOTVContactsView),
           Parts(GOTVIndicatorsScreen, GOTVIndicatorsView),
           Parts(GOTVLeaderboardScreen, GOTVLeaderboardView),
           Parts(GOTVLoginScreen, GOTVLoginView),
           Parts(GOTVPledgesScreen, GOTVPledgesView),
           Parts(GOTVRidesScreen, GOTVRidesView),
           Parts(GOTVSegmentsScreen, GOTVSegmentsView),
           Parts(GOTVTerritoryScreen, GOTVTerritoryView),
           Parts(GOTVWarRoomScreen, GOTVWarRoomView),
           Parts(GOTVScreen, GOTVView),
           Parts(HardwareBiometricScreen, HardwareBiometricView),
           Parts(IncidentsScreen, IncidentsView),
           Parts(LoginScreen, LoginView),
           Parts(IntegrityScreen, IntegrityView),
           Parts(KYCScreen, KYCView),
           Parts(MFAScreen, MFAView),
           Parts(MiddlewareScreen, MiddlewareView),
           Parts(MLDashboardScreen, MLDashboardView),
           Parts(ObserverMonitoringScreen, ObserverMonitoringView),
           Parts(PollingUnitsScreen, PollingUnitsView),
           Parts(PortalIntegrationScreen, PortalIntegrationView),
           Parts(PredictiveAnalyticsScreen, PredictiveAnalyticsView),
           Parts(ProductionScreen, ProductionView),
           Parts(PublicAPIScreen, PublicAPIView),
           Parts(ResultCaptureScreen, ResultCaptureView),
           Parts(ResultsScreen, ResultsView),
           Parts(ScaleHealthScreen, ScaleHealthView),
           Parts(SMSVerificationScreen, SMSVerificationView),
           Parts(StakeholderScreen, StakeholderView),
           Parts(TrainingScreen, TrainingView),
           Parts(TVDashboardScreen, TVDashboardView),
           Parts(UserManagementScreen, UserManagementView),
           Parts(VoterRegistrationScreen, VoterRegistrationView),
           Parts(VoterSearchScreen, VoterSearchView),
           Parts(WebhookManagementScreen, WebhookManagementView),
           Parts(WorkflowEngineScreen, WorkflowEngineView)}
===============================================================================
