---------------------------- MODULE CampaignPages -----------------------------
(***************************************************************************)
(* The pages of the campaign platform (campaign-platform/client/src/pages),*)
(* each as its logic and its JSX.  All of them load with useQuery of one   *)
(* client with the default options, and a mutation invalidates the list it *)
(* changed.  A page for whose draft a language model is asked keeps the    *)
(* answer in its form.                                                     *)
(***************************************************************************)
EXTENDS ScreenKit

\* main.tsx: one query client with default options behind every page.
List == Query({})
Polled == Query({"poll"})

Saved == Adds("reload")
Changed == Sets("reload")
Drafted == Sets("none")

Analytics ==
    Logic(Empty,
          [enroll |-> Adds("none"), respond |-> Adds("none"),
           createTest |-> Adds("none"), event |-> Adds("none")])
AnalyticsPanel == View({}, {"enroll", "respond"})
AnalyticsMessageTests == View({}, {"createTest", "event"})
AnalyticsJSX == Tabs({AnalyticsPanel, AnalyticsMessageTests})

BudgetPlanner ==
    Logic([items |-> List, caps |-> List, disclosure |-> List], [add |-> Only(Saved, {"items"})])
BudgetPlannerTable == View({}, {"add"})
BudgetPlannerDisclosure == View({}, {})
BudgetPlannerJSX == Tabs({BudgetPlannerTable, BudgetPlannerDisclosure})

CampaignTeam ==
    Logic([members |-> List], [invite |-> Saved, updateRole |-> Changed, remove |-> Changed])
CampaignTeamJSX == View({}, {"invite"})

CampaignTimeline ==
    Logic([events |-> List], [upsert |-> Saved, delete |-> Changed])
CampaignTimelineJSX == View({}, {"upsert"})

CandidateProfilePage == Logic([profile |-> List], [update |-> Changed])
CandidateProfilePageJSX == View({}, {"update"})

CandidateWebsite == Logic([endorsements |-> List], [publish |-> Drafted])
CandidateWebsiteJSX == View({}, {"publish"})

Dashboard == Logic([kpis |-> Polled, electionDate |-> List], Empty)
DashboardJSX == View({}, {})

\* The two lookups follow the subject that is typed in.
DataProtection ==
    Logic([consentStatus |-> List, provenance |-> List, dsars |-> List, report |-> List],
          [recordConsent |-> Only(Saved, {"consentStatus", "report"}),
           withdrawConsent |-> Only(Changed, {"consentStatus", "report"}),
           fileDsar |-> Only(Saved, {"dsars", "report"}),
           resolveDsar |-> Only(Changed, {"dsars", "report"})])
DataProtectionConsent == View({}, {"recordConsent", "withdrawConsent"})
DataProtectionDsar == View({}, {"fileDsar", "resolveDsar"})
DataProtectionTransparency == View({}, {})
DataProtectionJSX ==
    Tabs({DataProtectionConsent, DataProtectionDsar, DataProtectionTransparency})

DebateCoach ==
    Logic([notes |-> List, opponents |-> List, scores |-> List],
          [upsert |-> Only(Adds("reload"), {"notes"}), aiPrep |-> Drafted,
           addScore |-> Only(Saved, {"scores"})])
DebateCoachDraft == View({}, {"upsert", "aiPrep"})
DebateCoachPractice == View({}, {"addScore"})
DebateCoachJSX == Tabs({DebateCoachDraft, DebateCoachPractice})

DiasporaOutreach == Logic([contacts |-> List], [add |-> Saved, aiDraft |-> Drafted])
DiasporaOutreachJSX == View({}, {"add", "aiDraft"})

\* The stream of the server invalidates what is polled anyway.  The button of
\* the report is disabled, the Enter key in its text field is not.
ElectionDayWarRoom ==
    Logic([incidents |-> Query({"poll", "push"}), agents |-> Polled],
          [addIncident |-> Only(Saved, {"incidents"}),
           resolve |-> Only(Changed, {"incidents"}),
           escalate |-> Only(Changed, {"incidents"}),
           silentScan |-> Only(Changed, {"agents"})])
ElectionDayWarRoomFeed == View({}, {})
ElectionDayWarRoomReport == View({}, {"silentScan"})
ElectionDayWarRoomJSX == Tabs({ElectionDayWarRoomFeed, ElectionDayWarRoomReport})

EndorsementTracker == Logic([endorsements |-> List], [add |-> Saved])
EndorsementTrackerJSX == View({}, {"add"})

FundraisingTracker == Logic([transactions |-> List], [add |-> Saved])
FundraisingTrackerJSX == View({}, {"add"})

Home ==
    Logic([incidents |-> Polled, history |-> List], [save |-> Only(Saved, {"history"}), narrative |-> Drafted])
HomeHub == View({}, {})
HomeSimulator == View({}, {"save"})
HomeResults == View({}, {"narrative"})
HomeHistory == View({}, {})
HomeJSX == Tabs({HomeHub, HomeSimulator, HomeResults, HomeHistory})

JoinCampaign ==
    Logic([invite |-> Cancelled(ByKey({"focus"}, "first", {"told"}))], [confirm |-> Drafted])
JoinCampaignJSX == View({"invite"}, {"confirm"})

\* "Mark compliant" on a row is never disabled, and sets that row.
LegalCompliance ==
    Logic([status |-> Polled, items |-> List],
          [enable |-> Only(Changed, {"status"}),
           disable |-> Only(Changed, {"status"}),
           testAlert |-> Sets("none"), upsert |-> Only(Saved, {"items"}),
           markCompliant |-> Only(Changed, {"items"}),
           loadPresets |-> Only(Saved, {"items"})])
LegalComplianceJSX == View({}, {"enable", "disable", "testAlert", "upsert", "loadPresets"})

Login == Logic(Empty, [login |-> Drafted])
LoginJSX == View({}, {"login"})

\* Moving a section swaps two sort orders with two mutations.
ManifestoBuilder ==
    Logic([sections |-> List],
          [upsert |-> Saved, delete |-> Changed, reorder |-> Changed,
           aiDraft |-> Drafted])
ManifestoBuilderList == View({}, {"delete"})
ManifestoBuilderDialogs == View({}, {"upsert", "aiDraft"})
ManifestoBuilderJSX == Tabs({ManifestoBuilderList, ManifestoBuilderDialogs})

MediaMonitoring ==
    Logic([items |-> List],
          [add |-> Saved, delete |-> Changed, setCompliance |-> Changed])
ComplianceControl == View({}, {"setCompliance"})
MediaMonitoringMentions == View({}, {"add"})
MediaMonitoringJSX == Tabs({ComplianceControl, MediaMonitoringMentions})

OppositionResearch == Logic([opponents |-> List], [upsert |-> Saved, aiAnalyze |-> Drafted])
OppositionResearchJSX == View({}, {"upsert", "aiAnalyze"})

PetitionDrive ==
    Logic([petitions |-> List, signatures |-> List, stats |-> List],
          [create |-> Only(Saved, {"petitions"}),
           sign |-> Only(Saved, {"signatures", "stats"}),
           verify |-> Only(Changed, {"signatures", "stats"})])
PetitionDriveJSX == View({}, {"create", "sign", "verify"})

PetitionSignPage ==
    Logic([petition |-> Cancelled(ByKey({"focus"}, "first", {"told"}))],
          [sign |-> Adds("none")])
PetitionSignPageJSX == View({"petition"}, {"sign"})

PollingUnitLocator == Logic([units |-> Query({"pull"})], [bulk |-> Saved])
PollingUnitLocatorJSX == View({}, {"bulk"})

PostElectionAnalytics ==
    Logic([results |-> List, volunteers |-> List, voters |-> List, petitions |-> List],
          [narrative |-> Drafted])
PostElectionAnalyticsJSX == View({}, {"narrative"})

PressReleaseGenerator == Logic([releases |-> List], [save |-> Saved, aiDraft |-> Drafted])
PressReleaseGeneratorJSX == View({}, {"save", "aiDraft"})

ResultsProjection == Logic([results |-> Polled], [add |-> Saved])
ResultsProjectionJSX == View({}, {"add"})

SocialMediaCenter == Logic([posts |-> List], [save |-> Saved, aiDraft |-> Drafted])
SocialMediaCenterJSX == View({}, {"save", "aiDraft"})

\* Mutant: an effect that keeps overtaken answers.
TribunalKept ==
    Logic([matters |-> ByKey({"focus"}, "first", {})], [upsert |-> Saved, delete |-> Changed])

Tribunal == Logic([matters |-> List], [upsert |-> Saved, delete |-> Changed])
TribunalJSX == View({}, {"upsert"})

VolunteerPortal ==
    Logic([volunteers |-> List, tasks |-> List],
          [addVolunteer |-> Only(Saved, {"volunteers"}),
           volunteerStatus |-> Only(Changed, {"volunteers"}),
           createTask |-> Only(Saved, {"tasks"}), updateStatus |-> Only(Changed, {"tasks"}),
           deleteTask |-> Only(Changed, {"tasks"})])
VolunteerPortalTabs == View({}, {})
VolunteerPortalAnalytics == View({}, {})
VolunteerPortalDialogs == View({}, {"addVolunteer", "createTask"})
VolunteerPortalJSX ==
    Tabs({VolunteerPortalTabs, VolunteerPortalAnalytics, VolunteerPortalDialogs})

VoterRegistration == Logic([voters |-> List], [add |-> Saved, bulk |-> Saved])
VoterRegistrationForms == View({}, {"add", "bulk"})
VoterRegistrationList == View({}, {})
VoterRegistrationJSX == Tabs({VoterRegistrationForms, VoterRegistrationList})

CampaignParts ==
    UNION {Parts(Analytics, AnalyticsJSX),
           Parts(BudgetPlanner, BudgetPlannerJSX),
           Parts(CampaignTeam, CampaignTeamJSX),
           Parts(CampaignTimeline, CampaignTimelineJSX),
           Parts(CandidateProfilePage, CandidateProfilePageJSX),
           Parts(CandidateWebsite, CandidateWebsiteJSX),
           Parts(Dashboard, DashboardJSX),
           Parts(DataProtection, DataProtectionJSX),
           Parts(DebateCoach, DebateCoachJSX),
           Parts(DiasporaOutreach, DiasporaOutreachJSX),
           Parts(ElectionDayWarRoom, ElectionDayWarRoomJSX),
           Parts(EndorsementTracker, EndorsementTrackerJSX),
           Parts(FundraisingTracker, FundraisingTrackerJSX),
           Parts(Home, HomeJSX),
           Parts(JoinCampaign, JoinCampaignJSX),
           Parts(LegalCompliance, LegalComplianceJSX),
           Parts(Login, LoginJSX),
           Parts(ManifestoBuilder, ManifestoBuilderJSX),
           Parts(MediaMonitoring, MediaMonitoringJSX),
           Parts(OppositionResearch, OppositionResearchJSX),
           Parts(PetitionDrive, PetitionDriveJSX),
           Parts(PetitionSignPage, PetitionSignPageJSX),
           Parts(PollingUnitLocator, PollingUnitLocatorJSX),
           Parts(PostElectionAnalytics, PostElectionAnalyticsJSX),
           Parts(PressReleaseGenerator, PressReleaseGeneratorJSX),
           Parts(ResultsProjection, ResultsProjectionJSX),
           Parts(SocialMediaCenter, SocialMediaCenterJSX),
           Parts(Tribunal, TribunalJSX),
           Parts(VolunteerPortal, VolunteerPortalJSX),
           Parts(VoterRegistration, VoterRegistrationJSX)}
===============================================================================
