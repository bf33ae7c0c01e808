----------------------------- MODULE PortalViews -----------------------------
(***************************************************************************)
(* What each reader of integration.js does, and what each page reads.      *)
(*                                                                         *)
(* A definition named hydrate... is the row of that function: the request  *)
(* epoch it advances (channel; also: others it advances with it), the keys *)
(* it fills (shows), empties, and leaves as failed (fails), the keys it    *)
(* marks loading (starts) or empties (clears) when it asks, and how its    *)
(* answer is fenced (see PortalReads).  A slot is a group of keys that are *)
(* always written together and is named for one of them; the references,   *)
(* policy and read state of a workspace go under its read state.           *)
(*                                                                         *)
(* The rows are those of an account for which every feature is enabled and *)
(* the bridge is available.                                                *)
(***************************************************************************)
EXTENDS Sequences, TLC

Reader(channel, shows) ==
    [channel |-> channel, also |-> {}, revokes |-> {},
     fence |-> "screen", auth |-> TRUE, throws |-> FALSE, then |-> {},
     watches |-> {}, spares |-> {},
     shows |-> shows, empties |-> {}, fails |-> shows, starts |-> {}, clears |-> {}]

\* A reader that says so while it waits.
Loading(channel, shows) == [Reader(channel, shows) EXCEPT !.starts = shows]

\* A list read that takes the open record off the screen, and the read of a
\* record whose failure takes the list off.
List(channel, shows, record) ==
    [Reader(channel, shows) EXCEPT !.empties = record, !.fails = shows \cup record]
Record(channel, shows, list) == [Reader(channel, shows) EXCEPT !.fails = shows \cup list]

\* A page: what hydrate() reads for it, and the scripts of its buttons.
On(path, chain, clicks) == path :> [chain |-> chain, clicks |-> clicks]
One(view) == <<{view}>>
Then(list, record) == <<{list}, {record}>>

-----------------------------------------------------------------------------
(* Campaigns.                                                              *)

hydrateCampaignPlans == [Loading("campaignList", {"campaignPlans"}) EXCEPT !.fence = "any"]
hydrateCampaignCalendar == Loading("campaignCalendar", {"campaignCalendar"})
hydrateCampaignPlanDetail ==
    [Reader("campaignDetail", {"campaignPlanDetail"}) EXCEPT !.fence = "given"]

refreshCampaignAfterMutation == Then("hydrateCampaignPlans", "hydrateCampaignPlanDetail")
campaigns ==
    On("/calendar", One("hydrateCampaignCalendar"), {One("hydrateCampaignCalendar")})
    @@ On("/campaigns", One("hydrateCampaignPlans"), {One("hydrateCampaignPlans")})
    @@ On("/campaigns/id", One("hydrateCampaignPlanDetail"),
          {One("hydrateCampaignPlanDetail"), refreshCampaignAfterMutation})

-----------------------------------------------------------------------------
(* Projects, their packages and Studio documents.                          *)

hydrateProjects == [Loading("projectCenterList", {"projects"}) EXCEPT !.fence = "any"]
hydrateProjectDetail ==
    [Loading("projectCenterDetail", {"projectDetail"}) EXCEPT
        !.fence = "given", !.also = {"studioDocumentDetail"}, !.clears = {"studioDocumentDetail"},
        !.empties = {"studioDocumentDetail"}, !.fails = {"projectDetail", "studioDocumentDetail"}]
hydrateStudioDocument ==
    [Reader("studioDocumentDetail", {"studioDocumentDetail"}) EXCEPT !.fence = "any", !.throws = TRUE]

\* Each project and the list of all packages have an epoch of their own.
hydrateProjectPackages == [Reader("projectPackages", {"projectPackages"}) EXCEPT !.fence = "given"]
hydrateOwnPackages ==
    [Reader("projectPackages/id", {"projectPackageProjectItems"}) EXCEPT !.fence = "given"]

studioDocumentSaved == Then("hydrateProjectDetail", "hydrateStudioDocument")
projects ==
    On("/projects", One("hydrateProjects"), {One("hydrateProjects")})
    @@ On("/projects/id", Then("hydrateProjectDetail", "hydrateOwnPackages"),
          {One("hydrateOwnPackages"), One("hydrateStudioDocument"), studioDocumentSaved})
    @@ On("/project-packages", Then("hydrateProjects", "hydrateProjectPackages"),
          {One("hydrateProjectPackages")})

-----------------------------------------------------------------------------
(* Memory, prompt library, prompt gallery.  A list answer leaves the open  *)
(* record alone if the record was asked for since.                         *)

hydrateMemoryCenter ==
    [Reader("memoryList", {"memoryNotes"}) EXCEPT
        !.fence = "any", !.fails = {"memoryNotes", "memoryNoteDetail"},
        !.watches = {"memoryNoteDetail"}, !.spares = {"memoryNoteDetail"}]
\* Another page or filter of it closes the note.
hydrateMemoryPage ==
    [hydrateMemoryCenter EXCEPT !.also = {"memoryNoteDetail"}, !.clears = {"memoryNoteDetail"}]
hydrateMemoryNote ==
    [Reader("memoryNoteDetail", {"memoryNoteDetail"}) EXCEPT !.fence = "any", !.throws = TRUE]

hydratePromptLibrary ==
    [Reader("promptLibraryList", {"promptTemplates", "promptLibraryReadState"}) EXCEPT
        !.fence = "any", !.also = {"promptTemplate"}, !.empties = {"promptTemplatePreview"},
        !.fails = {"promptTemplates", "promptLibraryReadState", "promptTemplateDetail",
                   "promptTemplatePreview"},
        !.watches = {"promptTemplate"}, !.spares = {"promptTemplateDetail", "promptTemplatePreview"}]
hydratePromptPage ==
    [hydratePromptLibrary EXCEPT !.empties = {"promptTemplateDetail", "promptTemplatePreview"}]
hydratePromptTemplate ==
    [Reader("promptTemplate", {"promptTemplateDetail", "promptLibraryReadState"}) EXCEPT
        !.fence = "given", !.empties = {"promptTemplatePreview"},
        !.fails = {"promptTemplateDetail", "promptTemplatePreview", "promptLibraryReadState"}]

hydrateFreePromptGallery ==
    [List("freePromptGalleryList", {"freePromptGalleryCatalog", "freePromptGalleryReadState"},
          {"freePromptGalleryDetail"}) EXCEPT
        !.fence = "any", !.also = {"freePromptGalleryDetail"}, !.throws = TRUE,
        !.watches = {"freePromptGalleryDetail"}, !.spares = {"freePromptGalleryDetail"}]
hydrateFreePromptGalleryDetail ==
    [Reader("freePromptGalleryDetail", {"freePromptGalleryDetail", "freePromptGalleryReadState"})
        EXCEPT !.fence = "any", !.throws = TRUE, !.fails = {"freePromptGalleryDetail"}]

memoryNoteSaved == Then("hydrateMemoryCenter", "hydrateMemoryNote")
promptTemplateSaved == Then("hydratePromptLibrary", "hydratePromptTemplate")
memory ==
    On("/notes", One("hydrateMemoryCenter"),
       {One("hydrateMemoryPage"), One("hydrateMemoryNote"), memoryNoteSaved})
prompts ==
    On("/prompt-library", One("hydratePromptLibrary"), {One("hydratePromptPage")})
    @@ On("/prompt-library/id", One("hydratePromptTemplate"),
          {One("hydratePromptTemplate"), promptTemplateSaved})
gallery ==
    On("/free-prompt-gallery", One("hydrateFreePromptGallery"),
       {One("hydrateFreePromptGallery"), One("hydrateFreePromptGalleryDetail")})

-----------------------------------------------------------------------------
(* Guides, community, music.                                               *)

hydrateGuideCenter == Reader("guideCenter", {"guideCenterCatalog"})
hydrateCommunityTrustCenter == Reader("communityTrust", {"communityTrustCatalog"})
hydrateMusicLibrary == Loading("musicLibrary", {"musicLibraryItems"})

guides == On("/guides", One("hydrateGuideCenter"), {})
community == On("/community", One("hydrateCommunityTrustCenter"), {})
music == On("/media-workspace/music", One("hydrateMusicLibrary"), {One("hydrateMusicLibrary")})

-----------------------------------------------------------------------------
(* Audio collections.                                                      *)

hydrateMediaWorkspace ==
    List("mediaWorkspaceList", {"mediaCollections", "mediaWorkspaceReadState"},
         {"mediaCollectionDetail", "audioChangeRequests", "mediaAudioAssets"})
hydrateMediaAudioAssets == Reader("mediaWorkspaceAudio", {"mediaAudioAssets"})
hydrateMediaCollection ==
    [Record("mediaWorkspaceDetail",
            {"mediaCollectionDetail", "mediaAudioAssets", "mediaWorkspaceReadState"},
            {"mediaCollections", "audioChangeRequests"}) EXCEPT
        !.fence = "route", !.also = {"audioChangeRequest"}, !.empties = {"audioChangeRequests"},
        !.then = {"hydrateAudioChangeRequests"}]
hydrateAudioChangeRequests ==
    [Loading("audioChangeRequest", {"audioChangeRequests"}) EXCEPT !.fence = "route"]

mediaCollectionSaved == Then("hydrateMediaWorkspace", "hydrateMediaCollection")
media ==
    On("/audio-hub", Then("hydrateProjects", "hydrateMediaWorkspace"),
       {One("hydrateMediaWorkspace")})
    @@ On("/audio-hub/id", Then("hydrateProjects", "hydrateMediaCollection"),
          {One("hydrateMediaCollection"), One("hydrateMediaAudioAssets"),
           One("hydrateAudioChangeRequests"), mediaCollectionSaved})

-----------------------------------------------------------------------------
(* Content Studio.                                                         *)

hydrateContentStudioAuthoring ==
    List("contentStudioAuthoring", {"contentStudioReadState"},
         {"contentBriefs", "contentBriefDetail", "contentVariantHistory"})
hydrateContentStudio ==
    List("contentStudioList", {"contentBriefs", "contentStudioReadState"},
         {"contentBriefDetail", "contentVariantHistory"})
hydrateContentBrief ==
    [Record("contentStudioDetail", {"contentBriefDetail", "contentStudioReadState"},
            {"contentBriefs", "contentVariantHistory"}) EXCEPT
        !.fence = "route", !.empties = {"contentVariantHistory"}]
hydrateContentVariantHistory ==
    [Reader("contentStudioVariantHistory", {"contentVariantHistory"}) EXCEPT
        !.fence = "route", !.throws = TRUE]

content ==
    On("/content-studio", Then("hydrateProjects", "hydrateContentStudio"),
       {One("hydrateContentStudio")})
    @@ On("/content-studio/new", Then("hydrateProjects", "hydrateContentStudioAuthoring"),
          {One("hydrateContentStudioAuthoring")})
    @@ On("/content-studio/id", Then("hydrateProjects", "hydrateContentBrief"),
          {One("hydrateContentBrief"), One("hydrateContentVariantHistory")})

-----------------------------------------------------------------------------
(* Channel strategy, content handoffs, CRM.                                *)

hydrateChannelStrategy ==
    List("channelStrategyList", {"channelStrategyProfiles", "channelStrategyReadState"},
         {"channelStrategyProfileDetail"})
hydrateChannelStrategyProfile ==
    [Record("channelStrategyDetail", {"channelStrategyProfileDetail", "channelStrategyReadState"},
            {"channelStrategyProfiles"}) EXCEPT !.fence = "given"]

hydrateContentHandoffs ==
    List("contentHandoffOwnerList", {"contentHandoffRecords", "contentHandoffReadState"},
         {"contentHandoffDetail"})
hydrateContentHandoffRecord ==
    [Reader("contentHandoffDetail", {"contentHandoffDetail", "contentHandoffReadState"})
        EXCEPT !.fence = "route"]
hydrateContentHandoffStaffQueue ==
    Reader("contentHandoffStaffList", {"contentHandoffStaffQueue", "contentHandoffReadState"})

hydratePartnerCrm ==
    List("partnerCrmList", {"partnerCrmLeads", "partnerCrmReadState"}, {"partnerCrmDetail"})
hydratePartnerCrmLead ==
    [Reader("partnerCrmDetail", {"partnerCrmDetail", "partnerCrmReadState"}) EXCEPT !.fence = "route"]
hydratePartnerCrmManagerDirectory ==
    Loading("partnerCrmManager", {"partnerCrmManagerDirectory", "partnerCrmReadState"})
hydrateConsultationCrmIntake == Loading("consultationCrmCatalog", {"consultationCrmCatalog"})

channelProfileSaved == Then("hydrateChannelStrategy", "hydrateChannelStrategyProfile")
strategy ==
    On("/content/channel-strategy", One("hydrateChannelStrategy"), {One("hydrateChannelStrategy")})
    @@ On("/content/channel-strategy/id", One("hydrateChannelStrategyProfile"),
          {One("hydrateChannelStrategyProfile"), channelProfileSaved})
contentHandoffSaved == Then("hydrateContentHandoffs", "hydrateContentHandoffRecord")
handoffs ==
    On("/content/handoffs",
       <<{"hydrateCampaignPlans"}, {"hydrateProjects"}, {"hydrateAssetVault"},
         {"hydrateContentHandoffs"}>>, {One("hydrateContentHandoffs")})
    @@ On("/content/handoffs/id",
          <<{"hydrateCampaignPlans"}, {"hydrateProjects"}, {"hydrateAssetVault"},
            {"hydrateContentHandoffRecord"}>>,
          {One("hydrateContentHandoffRecord"), contentHandoffSaved})
    @@ On("/admin/content-handoffs",
          <<{"hydrateCampaignPlans"}, {"hydrateProjects"}, {"hydrateAssetVault"},
            {"hydrateContentHandoffStaffQueue"}>>, {One("hydrateContentHandoffStaffQueue")})
partnerLeadSaved == Then("hydratePartnerCrm", "hydratePartnerCrmLead")
crm ==
    On("/crm/consultations/new", One("hydrateConsultationCrmIntake"), {One("hydrateConsultationCrmIntake")})
    @@ On("/crm/leads", One("hydratePartnerCrm"), {One("hydratePartnerCrm")})
    @@ On("/crm/leads/id", One("hydratePartnerCrmLead"),
          {One("hydratePartnerCrmLead"), partnerLeadSaved})
    @@ On("/admin/crm/leads", One("hydratePartnerCrmManagerDirectory"),
          {One("hydratePartnerCrmManagerDirectory")})

-----------------------------------------------------------------------------
(* Voice, video and image studios, and the video planners.                 *)

hydrateVoiceStudio ==
    List("voiceStudioList", {"voiceVaults", "voiceStudioReadState"},
         {"voiceVaultDetail", "voiceCueSheet"})
hydrateVoiceVault ==
    [Record("voiceStudioDetail", {"voiceVaultDetail", "voiceStudioReadState"},
            {"voiceVaults", "voiceCueSheet"}) EXCEPT
        !.fence = "route", !.empties = {"voiceCueSheet"}]
hydrateVoiceCueSheet ==
    [Reader("voiceStudioCueSheet", {"voiceCueSheet"}) EXCEPT !.fence = "route", !.throws = TRUE]

hydrateImageMotionPlannerReferences ==
    Reader("imageMotionPlannerReferences", {"imageMotionPlannerReferences"})
hydrateReferenceFormatPlannerReferences ==
    Reader("referenceFormatPlannerReferences", {"referenceFormatPlannerReferences"})
hydrateVideoStudio ==
    List("videoStudioList", {"videoPlans", "videoStudioReadState"}, {"videoPlanDetail"})
hydrateVideoPlan ==
    [Record("videoStudioDetail", {"videoPlanDetail", "videoStudioReadState"}, {"videoPlans"})
        EXCEPT !.fence = "route"]

hydrateImageStudio ==
    List("imageStudioList", {"imageArtboards", "imageStudioReferences", "imageStudioReadState"},
         {"imageArtboardDetail"})
hydrateImageStudioReferences == Reader("imageStudioReference", {"imageStudioReferences"})
hydrateImageArtboard ==
    [Record("imageStudioDetail",
            {"imageArtboardDetail", "imageStudioReferences", "imageStudioReadState"},
            {"imageArtboards"}) EXCEPT !.fence = "route"]

voiceVaultSaved == Then("hydrateVoiceStudio", "hydrateVoiceVault")
voice ==
    On("/voice-studio", Then("hydrateProjects", "hydrateVoiceStudio"), {One("hydrateVoiceStudio")})
    @@ On("/voice-studio/id", Then("hydrateProjects", "hydrateVoiceVault"),
          {One("hydrateVoiceVault"), One("hydrateVoiceCueSheet"), voiceVaultSaved})
planners ==
    On("/video-studio/image-motion-planner", One("hydrateImageMotionPlannerReferences"), {})
    @@ On("/video-studio/reference-format-planner",
          One("hydrateReferenceFormatPlannerReferences"), {})
videoPlanSaved == Then("hydrateVideoStudio", "hydrateVideoPlan")
video ==
    On("/video-studio", Then("hydrateProjects", "hydrateVideoStudio"), {One("hydrateVideoStudio")})
    @@ On("/video-studio/id", Then("hydrateProjects", "hydrateVideoPlan"),
          {One("hydrateVideoPlan"), videoPlanSaved})
images ==
    On("/image-studio", Then("hydrateProjects", "hydrateImageStudio"),
       {One("hydrateImageStudio"), One("hydrateImageStudioReferences")})
    @@ On("/image-studio/id", Then("hydrateProjects", "hydrateImageArtboard"),
          {One("hydrateImageArtboard"), One("hydrateImageStudioReferences")})

-----------------------------------------------------------------------------
(* Chat, analytics, workboard, documents, subtitles.                       *)

hydrateChatWorkspace ==
    [List("chatWorkspaceList", {"chatThreads", "chatWorkspaceReadState"},
          {"chatThreadDetail", "chatExecution"}) EXCEPT !.fence = "any"]
hydrateChatThread ==
    [Record("chatWorkspaceDetail", {"chatThreadDetail", "chatWorkspaceReadState"},
            {"chatThreads", "chatExecution"}) EXCEPT
        !.fence = "given", !.empties = {"chatExecution"}, !.then = {"hydrateChatExecution"}]
hydrateChatExecution == [Reader("chatExecution", {"chatExecution"}) EXCEPT !.fence = "given"]

hydrateAnalyticsWorkspace ==
    [List("analyticsWorkspaceList", {"analyticsReports", "analyticsWorkspaceReadState"},
          {"analyticsReportDetail"}) EXCEPT !.fence = "any"]
hydrateAnalyticsReport ==
    [Record("analyticsWorkspaceDetail", {"analyticsReportDetail", "analyticsWorkspaceReadState"},
            {"analyticsReports"}) EXCEPT !.fence = "given"]

hydrateWorkboard ==
    List("workboardList", {"workboardItems", "workboardReadState"}, {"workboardDetail"})
hydrateWorkboardItem ==
    [Record("workboardDetail", {"workboardDetail", "workboardReadState"}, {"workboardItems"})
        EXCEPT !.fence = "given"]

hydrateDocumentWorkspace ==
    [List("documentWorkspace", {"documentWorkspaces", "documentWorkspaceReadState"},
          {"documentWorkspaceDetail"}) EXCEPT !.fence = "any"]
hydrateDocumentWorkspaceDetail ==
    [Record("documentWorkspaceDetail", {"documentWorkspaceDetail", "documentWorkspaceReadState"},
            {"documentWorkspaces"}) EXCEPT !.fence = "given"]

hydrateSubtitleStudio ==
    [List("subtitleStudioList",
          {"subtitleProjects", "subtitleLanguageSources", "subtitleStudioReadState"},
          {"subtitleProjectDetail", "subtitleProjectQuality"}) EXCEPT
        !.also = {"subtitleLanguageSource"}]
\* The next page of a selector is added to the last; failing, it leaves it.
hydrateSubtitleLanguageSources ==
    [Reader("subtitleLanguageSource", {"subtitleLanguageSources"}) EXCEPT
        !.throws = TRUE, !.fails = {}]
hydrateSubtitleProject ==
    [Record("subtitleStudioDetail",
            {"subtitleProjectDetail", "subtitleProjectQuality", "subtitleStudioReadState"},
            {"subtitleProjects", "subtitleLanguageSources"}) EXCEPT
        !.fence = "given", !.starts = {"subtitleProjectQuality"}]

chatThreadSaved == Then("hydrateChatWorkspace", "hydrateChatThread")
chat ==
    On("/chat", One("hydrateChatWorkspace"), {One("hydrateChatWorkspace")})
    @@ On("/chat/id", One("hydrateChatThread"),
          {One("hydrateChatThread"), One("hydrateChatExecution"), chatThreadSaved})
refreshAnalyticsWorkspaceAfterMutation == Then("hydrateAnalyticsWorkspace", "hydrateAnalyticsReport")
analytics ==
    On("/analytics", One("hydrateAnalyticsWorkspace"), {One("hydrateAnalyticsWorkspace")})
    @@ On("/analytics/id", One("hydrateAnalyticsReport"),
          {One("hydrateAnalyticsReport"), refreshAnalyticsWorkspaceAfterMutation})
refreshWorkboardAfterMutation == Then("hydrateWorkboard", "hydrateWorkboardItem")
workboard ==
    On("/workboard", One("hydrateWorkboard"), {One("hydrateWorkboard")})
    @@ On("/workboard/id", One("hydrateWorkboardItem"),
          {One("hydrateWorkboardItem"), refreshWorkboardAfterMutation})
documentBriefSaved == Then("hydrateDocumentWorkspace", "hydrateDocumentWorkspaceDetail")
documents ==
    On("/document-workspace", Then("hydrateProjects", "hydrateDocumentWorkspace"),
       {One("hydrateDocumentWorkspace")})
    @@ On("/document-workspace/id", Then("hydrateProjects", "hydrateDocumentWorkspaceDetail"),
          {One("hydrateDocumentWorkspaceDetail"), documentBriefSaved})
subtitleProjectSaved == Then("hydrateSubtitleStudio", "hydrateSubtitleProject")
subtitles ==
    On("/subtitle-studio", Then("hydrateProjects", "hydrateSubtitleStudio"),
       {One("hydrateSubtitleStudio"), One("hydrateSubtitleLanguageSources")})
    @@ On("/subtitle-studio/id", Then("hydrateProjects", "hydrateSubtitleProject"),
          {One("hydrateSubtitleProject"), subtitleProjectSaved})

-----------------------------------------------------------------------------
(* Support.  A support desk that cannot be read revokes what was asked for *)
(* the consultation catalog beside it.                                     *)

hydrateSupportAdvisor == [Loading("supportAdvisor", {"supportAdvisor"}) EXCEPT !.throws = TRUE]
hydrateSupportConsultationCatalog ==
    Loading("supportConsultationCatalog", {"supportConsultationCatalog"})
hydrateSupportDesk ==
    [Loading("supportCustomerList", {"supportCases", "supportReadState"}) EXCEPT
        !.fails = {"supportCases", "supportReadState", "supportAdvisor", "supportConsultationCatalog"},
        !.revokes = {"supportConsultationCatalog"}]
hydrateSupportCase ==
    [Loading("supportCustomerDetail", {"supportCaseDetail", "supportReadState"}) EXCEPT
        !.fence = "route"]
hydrateSupportAdmin ==
    [List("supportAdminList",
          {"supportAdminSummary", "supportAdminCases", "supportAdminCareQueues",
           "supportAdminResolutionFeedbackSummary", "supportAdminReadState"},
          {"supportAdminCaseDetail", "supportAdminCareStaff"}) EXCEPT
        !.empties = {"supportAdminCareStaff"},
        !.clears = {"supportAdminResolutionFeedbackSummary"}]
hydrateSupportAdminCase ==
    [Reader("supportAdminDetail",
            {"supportAdminSummary", "supportAdminCaseDetail", "supportAdminCareQueues",
             "supportAdminCareStaff", "supportAdminReadState"}) EXCEPT
        !.fence = "route", !.starts = {"supportAdminCaseDetail", "supportAdminReadState"},
        !.empties = {"supportAdminResolutionFeedbackSummary"},
        !.fails = {"supportAdminCaseDetail", "supportAdminCareQueues", "supportAdminCareStaff",
                   "supportAdminResolutionFeedbackSummary", "supportAdminReadState"}]

support ==
    On("/support", <<{"hydrateSupportDesk", "hydrateSupportConsultationCatalog"}>>,
       {One("hydrateSupportDesk"), One("hydrateSupportConsultationCatalog"),
        One("hydrateSupportAdvisor")})
    @@ On("/tickets", One("hydrateSupportDesk"), {One("hydrateSupportDesk")})
    @@ On("/tickets/id", One("hydrateSupportCase"), {One("hydrateSupportCase")})
    @@ On("/admin/support", One("hydrateSupportAdmin"), {One("hydrateSupportAdmin")})
    @@ On("/admin/support/id", One("hydrateSupportAdminCase"), {One("hydrateSupportAdminCase")})

-----------------------------------------------------------------------------
(* Administration.                                                         *)

hydrateOperationsDesk == Loading("operationsDesk", {"operationsDeskItems"})
hydrateFinancePlanning == Loading("financePlanning", {"financePlanning"})
hydrateAdminAutomationMonitor == Loading("adminAutomationMonitor", {"adminAutomationMonitor"})
hydrateAdminSecurityAccessPosture ==
    Loading("adminSecurityAccessPosture", {"adminSecurityAccessPosture"})
hydrateOperations == Reader("operationsCustomer", {"operationsStatus"})
hydrateOperationsAdmin == Reader("operationsAdmin", {"operationsAdmin"})
hydrateReliabilityAdmin == Reader("reliability", {"reliabilityFollowups"})

\* clearGovernanceProjection and clearAdminArchiveProjection: everything goes
\* when a list or a document is asked for, and again if it cannot be read.
hydrateGovernanceDocuments ==
    [List("governanceDocuments", {"governanceDocuments", "governanceReadState"},
          {"governanceDocumentDetail"}) EXCEPT
        !.starts = {"governanceDocuments", "governanceReadState"},
        !.clears = {"governanceDocumentDetail"}]
hydrateGovernanceDocumentDetail ==
    [List("governanceDocumentDetail", {"governanceDocumentDetail", "governanceReadState"},
          {"governanceDocuments"}) EXCEPT
        !.starts = {"governanceDocumentDetail", "governanceReadState"},
        !.clears = {"governanceDocuments"}]
hydrateAdminArchiveDocuments ==
    [List("adminArchive", {"adminDocumentArchiveDocuments", "adminDocumentArchiveReadState"},
          {"adminDocumentArchiveDetail"}) EXCEPT
        !.starts = {"adminDocumentArchiveDocuments", "adminDocumentArchiveReadState"},
        !.clears = {"adminDocumentArchiveDetail"}]
hydrateAdminArchiveDocumentDetail ==
    [List("adminArchiveDetail", {"adminDocumentArchiveDetail", "adminDocumentArchiveReadState"},
          {"adminDocumentArchiveDocuments"}) EXCEPT
        !.starts = {"adminDocumentArchiveDetail", "adminDocumentArchiveReadState"},
        !.clears = {"adminDocumentArchiveDocuments"}]

hydrateAdminAudit == Reader("adminAudit", {"adminAudit"})
hydrateAdminCustomerDirectory ==
    [Loading("adminCustomerDirectoryList", {"adminCustomerDirectory"}) EXCEPT !.fence = "route"]
hydrateAdminCustomer ==
    [Loading("adminCustomerDirectoryDetail", {"adminCustomerDirectory"}) EXCEPT !.fence = "route"]
hydrateCanonicalAdminData ==
    [Reader("canonicalAdminData", {"adminData"}) EXCEPT !.fence = "given", !.throws = TRUE]

\* Another list of requests puts the selected one away.
hydrateAdminManualTopups ==
    [Loading("adminManualTopup", {"adminManualTopups"}) EXCEPT
        !.clears = {"adminManualTopupSelected"},
        !.fails = {"adminManualTopups", "adminManualTopupSelected"}]
hydrateAdminManualTopupDetail ==
    [Reader("adminManualTopupDetail", {"adminManualTopupSelected"}) EXCEPT !.auth = FALSE]

operations ==
    On("/admin/work-queue", One("hydrateOperationsDesk"), {One("hydrateOperationsDesk")})
    @@ On("/admin/finance/planning", One("hydrateFinancePlanning"), {One("hydrateFinancePlanning")})
    @@ On("/admin/automation", One("hydrateAdminAutomationMonitor"),
          {One("hydrateAdminAutomationMonitor")})
    @@ On("/admin/security", One("hydrateAdminSecurityAccessPosture"), {})
    @@ On("/operations", One("hydrateOperations"), {One("hydrateOperations")})
    @@ On("/admin/operations", One("hydrateOperationsAdmin"), {One("hydrateOperationsAdmin")})
    @@ On("/admin/reliability", One("hydrateReliabilityAdmin"), {One("hydrateReliabilityAdmin")})
governance ==
    On("/admin/governance", One("hydrateGovernanceDocuments"), {One("hydrateGovernanceDocuments")})
    @@ On("/admin/governance/id", One("hydrateGovernanceDocumentDetail"),
          {One("hydrateGovernanceDocumentDetail")})
    @@ On("/admin/internal-documents", One("hydrateAdminArchiveDocuments"),
          {One("hydrateAdminArchiveDocuments")})
    @@ On("/admin/internal-documents/id", One("hydrateAdminArchiveDocumentDetail"),
          {One("hydrateAdminArchiveDocumentDetail")})
admin ==
    On("/admin/audit", One("hydrateAdminAudit"), {One("hydrateAdminAudit")})
    @@ On("/admin/customers", One("hydrateAdminCustomerDirectory"),
          {One("hydrateAdminCustomerDirectory")})
    @@ On("/admin/customers/id", One("hydrateAdminCustomer"), {One("hydrateAdminCustomer")})
    @@ On("/admin/pricing", One("hydrateCanonicalAdminData"), {One("hydrateCanonicalAdminData")})
    @@ On("/admin/topups", One("hydrateAdminManualTopups"),
          {One("hydrateAdminManualTopups"), One("hydrateAdminManualTopupDetail")})

-----------------------------------------------------------------------------
(* Notifications and the Asset Vault.                                      *)

hydrateInbox ==
    Reader("notificationInbox", {"notificationItems", "notificationReadState"})
hydrateNotificationAutomation ==
    List("notificationAutomation", {"notificationReadState"}, {"notificationItems"})

hydrateAssetVault == Reader("assetVaultList", {"vaultItems"})
hydrateAssetVaultLifecycle == Loading("assetVaultLifecycle", {"assetVaultLifecycle"})
hydrateDocumentAssetReferences == Reader("documentAssetReference", {"documentAssetReferences"})
hydrateImageOperationAssetReferences ==
    Reader("imageOperationAssetReference", {"imageOperationAssetReferences"})

notifications ==
    On("/inbox", One("hydrateInbox"), {One("hydrateInbox")})
    @@ On("/automation", One("hydrateNotificationAutomation"), {})
assetMoved ==
    <<{"hydrateAssetVaultLifecycle"}, {"hydrateAssetVault", "hydrateAssetVaultLifecycle"}>>
vault ==
    On("/asset-vault", One("hydrateAssetVault"),
       {One("hydrateAssetVault"), One("hydrateAssetVaultLifecycle"), assetMoved})

-----------------------------------------------------------------------------
(* Operations on assets.  The histories of documents and images are fenced *)
(* by epoch and session alone.                                             *)

History(channel, shows) == [Reader(channel, shows) EXCEPT !.fence = "none"]
hydrateDocumentOperations == History("documentOperationHistory", {"documentOperations"})
hydrateImageOperations == History("imageOperationHistory", {"imageOperations"})
hydrateImageEnhanceOperations ==
    History("imageEnhanceOperationHistory", {"imageEnhanceOperations"})
hydrateImageBrandOverlayOperations ==
    History("imageBrandOverlayOperationHistory", {"imageBrandOverlayOperations"})
hydrateImageHistoryOperations == History("imageHistoryOperation", {"imageHistoryOperations"})
hydrateImageBackgroundCleanupOperations ==
    [Reader("imageBackgroundCleanupOperationHistory", {"imageBackgroundCleanupOperations"})
        EXCEPT !.fence = "given"]
hydrateStoryboardGridOperations ==
    [Reader("storyboardGrid", {"storyboardGridOperations"}) EXCEPT
        !.fence = "given", !.auth = FALSE]

hydrateSubtitleAssetOperations == Loading("subtitleAssetOperations", {"subtitleAssetOperations"})
hydrateAudioAssetOperations == Loading("audioAssetOperations", {"audioAssetOperations"})

\* A list of video operations: the open operation goes when it is asked for.
Operations(channel, shows, open) ==
    [Loading(channel, shows) EXCEPT !.clears = open, !.fails = shows \cup open]
hydrateVideoTransformOperations ==
    Operations("videoTransformOperations", {"videoTransformOperations"}, {"videoTransformDetail"})
hydrateVideoTransformOperationDetail ==
    Loading("videoTransformOperationDetail", {"videoTransformDetail"})
hydrateFrameVideoOperations ==
    Operations("frameVideoOperations", {"frameVideoOperations"}, {"frameVideoDetail"})
hydrateFrameVideoOperationDetail == Loading("frameVideoOperationDetail", {"frameVideoDetail"})
hydrateVideoPosterOperations ==
    Operations("videoPosterOperations", {"videoPosterOperations"}, {"videoPosterDetail"})
hydrateVideoPosterOperationDetail == Loading("videoPosterOperationDetail", {"videoPosterDetail"})
hydrateVideoPreview == Loading("videoPreview", {"videoPreviewReferences"})

documentOperations ==
    On("/documents", One("hydrateDocumentOperations"), {One("hydrateDocumentOperations")})
    @@ On("/documents/split",
          <<{"hydrateAssetVault"}, {"hydrateDocumentOperations", "hydrateDocumentAssetReferences"}>>,
          {One("hydrateDocumentOperations"), One("hydrateDocumentAssetReferences")})
ImagePage(path, history) ==
    On(path, <<{"hydrateAssetVault"}, {history, "hydrateImageOperationAssetReferences"}>>,
       {One(history), One("hydrateImageOperationAssetReferences")})
imageOperations ==
    ImagePage("/image/resize", "hydrateImageOperations")
    @@ ImagePage("/image/edit", "hydrateImageEnhanceOperations")
    @@ ImagePage("/image/brand-overlay", "hydrateImageBrandOverlayOperations")
    @@ ImagePage("/image/storyboard-grid", "hydrateStoryboardGridOperations")
    @@ On("/image/background-cleanup",
          Then("hydrateAssetVault", "hydrateImageBackgroundCleanupOperations"),
          {One("hydrateImageBackgroundCleanupOperations")})
    @@ On("/image/history", One("hydrateImageHistoryOperations"),
          {One("hydrateImageHistoryOperations")})
assetOperations ==
    On("/subtitle/assets", One("hydrateSubtitleAssetOperations"),
       {One("hydrateSubtitleAssetOperations")})
    @@ On("/audio/assets", One("hydrateAudioAssetOperations"), {One("hydrateAudioAssetOperations")})
    @@ On("/video/finishing", One("hydrateVideoTransformOperations"),
          {One("hydrateVideoTransformOperations"), One("hydrateVideoTransformOperationDetail")})
    @@ On("/video/frame-sequence", One("hydrateFrameVideoOperations"),
          {One("hydrateFrameVideoOperations"), One("hydrateFrameVideoOperationDetail")})
    @@ On("/video/poster", One("hydrateVideoPosterOperations"),
          {One("hydrateVideoPosterOperations"), One("hydrateVideoPosterOperationDetail")})
    @@ On("/video/preview", One("hydrateVideoPreview"), {One("hydrateVideoPreview")})

-----------------------------------------------------------------------------
(* The account and the Web workspace.                                      *)

hydrateAccountActivity == [Reader("accountActivity", {"accountActivity"}) EXCEPT !.fence = "any"]
hydrateAccountSecurity == [Reader("accountSecurity", {"accountSecurity"}) EXCEPT !.fence = "any"]
hydrateDataControls == Loading("dataControls", {"dataControlsRequests"})
hydratePartnerReadiness == Loading("partnerReadiness", {"partnerReadiness"})
hydrateStarterKits == Reader("starterKits", {"starterKits"})
hydrateWorkspaceSetup == Reader("workspaceSetup", {"workspaceSetup"})
hydrateWorkspaceDrafts == [Loading("workspaceDraft", {"workspaceDrafts"}) EXCEPT !.fence = "any"]
\* A status that cannot be read is not said.
hydrateLinkStatus ==
    [Reader("telegramLinkStatus", {"linkStatus"}) EXCEPT !.fence = "any", !.fails = {}]
hydratePaymentOptions == [Loading("paymentOptions", {"paymentOptions"}) EXCEPT !.fence = "any"]
hydrateManualTopupHistory ==
    [Loading("manualTopupHistory", {"manualTopupHistory"}) EXCEPT !.auth = FALSE]

accounts ==
    On("/account/activity", One("hydrateAccountActivity"), {One("hydrateAccountActivity")})
    @@ On("/account/security", One("hydrateAccountSecurity"), {One("hydrateAccountSecurity")})
    @@ On("/account/data-controls", One("hydrateDataControls"), {One("hydrateDataControls")})
    @@ On("/account", One("hydrateLinkStatus"), {One("hydrateLinkStatus")})
\* Before the move to the project (see workspaceDraftAttach).
workspaceDraftAttached == Then("hydrateWorkspaceDrafts", "hydrateProjects")
workspace ==
    On("/workspace", <<{"hydrateProjects"}, {"hydrateWorkspaceDrafts"}>>,
       {One("hydrateWorkspaceDrafts"), workspaceDraftAttached})
    @@ On("/workspace/setup", One("hydrateWorkspaceSetup"), {One("hydrateWorkspaceSetup")})
    @@ On("/partner-readiness", One("hydratePartnerReadiness"), {One("hydratePartnerReadiness")})
    @@ On("/starter-kits", One("hydrateStarterKits"), {One("hydrateStarterKits")})

-----------------------------------------------------------------------------
(* Reads of the Bot's own records through the bridge.  They share one      *)
(* epoch, whatever the page.                                               *)

Canonical(shows) == [Reader("canonical", shows) EXCEPT !.fence = "route"]
hydrateCanonicalDashboard ==
    [Canonical({"wallet", "dashboard"}) EXCEPT !.starts = {"wallet", "dashboard"}]
\* Prices that cannot be read are left as they are.
hydrateCanonicalPricing == [Canonical({"pricingCatalog", "wallet"}) EXCEPT !.fails = {}]
hydrateCanonicalPackages == [Canonical({"pricingCatalog"}) EXCEPT !.starts = {"pricingCatalog"}]
hydrateCanonicalMembership ==
    [Canonical({"pricingCatalog", "wallet", "readiness"}) EXCEPT
        !.starts = {"pricingCatalog"}, !.fails = {"pricingCatalog"}]
hydrateCanonicalWallet ==
    [Canonical({"wallet", "walletHistory"}) EXCEPT !.starts = {"wallet", "walletHistory"}]
hydrateJobsList == [Canonical({"jobs"}) EXCEPT !.starts = {"jobs"}]
hydrateAssetsList == [Canonical({"assets"}) EXCEPT !.starts = {"assets"}]
hydrateCanonicalJob == [Canonical({"jobDetail"}) EXCEPT !.fails = {}]

dashboard ==
    On("/dashboard",
       <<{"hydrateProjects"}, {"hydrateAssetVault"}, {"hydrateWorkspaceSetup"},
         {"hydrateWorkspaceDrafts"}, {"hydrateLinkStatus"}, {"hydrateCanonicalDashboard"}>>,
       {One("hydrateWorkspaceDrafts"), One("hydrateCanonicalDashboard")})
wallet ==
    On("/wallet", Then("hydrateLinkStatus", "hydrateCanonicalWallet"),
       {One("hydrateCanonicalWallet")})
    @@ On("/wallet/topup",
          <<{"hydratePaymentOptions"}, {"hydrateManualTopupHistory"}, {"hydrateCanonicalWallet"}>>,
          {One("hydrateManualTopupHistory")})
catalog ==
    On("/pricing", One("hydrateCanonicalPricing"), {})
    @@ On("/packages", One("hydrateCanonicalPackages"), {})
    @@ On("/membership", One("hydrateCanonicalMembership"), {})
deliveries ==
    On("/jobs", One("hydrateJobsList"), {})
    @@ On("/jobs/id", One("hydrateCanonicalJob"), {})
    @@ On("/assets", One("hydrateAssetsList"), {})

-----------------------------------------------------------------------------
(* The portal.                                                             *)

PortalView ==
    [hydrateCampaignPlans |-> hydrateCampaignPlans,
     hydrateCampaignCalendar |-> hydrateCampaignCalendar,
     hydrateCampaignPlanDetail |-> hydrateCampaignPlanDetail,
     hydrateProjects |-> hydrateProjects,
     hydrateProjectDetail |-> hydrateProjectDetail,
     hydrateStudioDocument |-> hydrateStudioDocument,
     hydrateProjectPackages |-> hydrateProjectPackages,
     hydrateOwnPackages |-> hydrateOwnPackages,
     hydrateMemoryCenter |-> hydrateMemoryCenter,
     hydrateMemoryPage |-> hydrateMemoryPage,
     hydrateMemoryNote |-> hydrateMemoryNote,
     hydratePromptLibrary |-> hydratePromptLibrary,
     hydratePromptPage |-> hydratePromptPage,
     hydratePromptTemplate |-> hydratePromptTemplate,
     hydrateFreePromptGallery |-> hydrateFreePromptGallery,
     hydrateFreePromptGalleryDetail |-> hydrateFreePromptGalleryDetail,
     hydrateGuideCenter |-> hydrateGuideCenter,
     hydrateCommunityTrustCenter |-> hydrateCommunityTrustCenter,
     hydrateMusicLibrary |-> hydrateMusicLibrary,
     hydrateMediaWorkspace |-> hydrateMediaWorkspace,
     hydrateMediaAudioAssets |-> hydrateMediaAudioAssets,
     hydrateMediaCollection |-> hydrateMediaCollection,
     hydrateAudioChangeRequests |-> hydrateAudioChangeRequests,
     hydrateContentStudioAuthoring |-> hydrateContentStudioAuthoring,
     hydrateContentStudio |-> hydrateContentStudio,
     hydrateContentBrief |-> hydrateContentBrief,
     hydrateContentVariantHistory |-> hydrateContentVariantHistory,
     hydrateChannelStrategy |-> hydrateChannelStrategy,
     hydrateChannelStrategyProfile |-> hydrateChannelStrategyProfile,
     hydrateContentHandoffs |-> hydrateContentHandoffs,
     hydrateContentHandoffRecord |-> hydrateContentHandoffRecord,
     hydrateContentHandoffStaffQueue |-> hydrateContentHandoffStaffQueue,
     hydratePartnerCrm |-> hydratePartnerCrm,
     hydratePartnerCrmLead |-> hydratePartnerCrmLead,
     hydratePartnerCrmManagerDirectory |-> hydratePartnerCrmManagerDirectory,
     hydrateConsultationCrmIntake |-> hydrateConsultationCrmIntake,
     hydrateVoiceStudio |-> hydrateVoiceStudio,
     hydrateVoiceVault |-> hydrateVoiceVault,
     hydrateVoiceCueSheet |-> hydrateVoiceCueSheet,
     hydrateImageMotionPlannerReferences |-> hydrateImageMotionPlannerReferences,
     hydrateReferenceFormatPlannerReferences |-> hydrateReferenceFormatPlannerReferences,
     hydrateVideoStudio |-> hydrateVideoStudio,
     hydrateVideoPlan |-> hydrateVideoPlan,
     hydrateImageStudio |-> hydrateImageStudio,
     hydrateImageStudioReferences |-> hydrateImageStudioReferences,
     hydrateImageArtboard |-> hydrateImageArtboard,
     hydrateChatWorkspace |-> hydrateChatWorkspace,
     hydrateChatThread |-> hydrateChatThread,
     hydrateChatExecution |-> hydrateChatExecution,
     hydrateAnalyticsWorkspace |-> hydrateAnalyticsWorkspace,
     hydrateAnalyticsReport |-> hydrateAnalyticsReport,
     hydrateWorkboard |-> hydrateWorkboard,
     hydrateWorkboardItem |-> hydrateWorkboardItem,
     hydrateDocumentWorkspace |-> hydrateDocumentWorkspace,
     hydrateDocumentWorkspaceDetail |-> hydrateDocumentWorkspaceDetail,
     hydrateSubtitleStudio |-> hydrateSubtitleStudio,
     hydrateSubtitleLanguageSources |-> hydrateSubtitleLanguageSources,
     hydrateSubtitleProject |-> hydrateSubtitleProject,
     hydrateSupportAdvisor |-> hydrateSupportAdvisor,
     hydrateSupportConsultationCatalog |-> hydrateSupportConsultationCatalog,
     hydrateSupportDesk |-> hydrateSupportDesk,
     hydrateSupportCase |-> hydrateSupportCase,
     hydrateSupportAdmin |-> hydrateSupportAdmin,
     hydrateSupportAdminCase |-> hydrateSupportAdminCase,
     hydrateOperationsDesk |-> hydrateOperationsDesk,
     hydrateFinancePlanning |-> hydrateFinancePlanning,
     hydrateAdminAutomationMonitor |-> hydrateAdminAutomationMonitor,
     hydrateAdminSecurityAccessPosture |-> hydrateAdminSecurityAccessPosture,
     hydrateOperations |-> hydrateOperations,
     hydrateOperationsAdmin |-> hydrateOperationsAdmin,
     hydrateReliabilityAdmin |-> hydrateReliabilityAdmin,
     hydrateGovernanceDocuments |-> hydrateGovernanceDocuments,
     hydrateGovernanceDocumentDetail |-> hydrateGovernanceDocumentDetail,
     hydrateAdminArchiveDocuments |-> hydrateAdminArchiveDocuments,
     hydrateAdminArchiveDocumentDetail |-> hydrateAdminArchiveDocumentDetail,
     hydrateAdminAudit |-> hydrateAdminAudit,
     hydrateAdminCustomerDirectory |-> hydrateAdminCustomerDirectory,
     hydrateAdminCustomer |-> hydrateAdminCustomer,
     hydrateCanonicalAdminData |-> hydrateCanonicalAdminData,
     hydrateAdminManualTopups |-> hydrateAdminManualTopups,
     hydrateAdminManualTopupDetail |-> hydrateAdminManualTopupDetail,
     hydrateInbox |-> hydrateInbox,
     hydrateNotificationAutomation |-> hydrateNotificationAutomation,
     hydrateAssetVault |-> hydrateAssetVault,
     hydrateAssetVaultLifecycle |-> hydrateAssetVaultLifecycle,
     hydrateDocumentAssetReferences |-> hydrateDocumentAssetReferences,
     hydrateImageOperationAssetReferences |-> hydrateImageOperationAssetReferences,
     hydrateDocumentOperations |-> hydrateDocumentOperations,
     hydrateImageOperations |-> hydrateImageOperations,
     hydrateImageEnhanceOperations |-> hydrateImageEnhanceOperations,
     hydrateImageBrandOverlayOperations |-> hydrateImageBrandOverlayOperations,
     hydrateImageHistoryOperations |-> hydrateImageHistoryOperations,
     hydrateImageBackgroundCleanupOperations |-> hydrateImageBackgroundCleanupOperations,
     hydrateStoryboardGridOperations |-> hydrateStoryboardGridOperations,
     hydrateSubtitleAssetOperations |-> hydrateSubtitleAssetOperations,
     hydrateAudioAssetOperations |-> hydrateAudioAssetOperations,
     hydrateVideoTransformOperations |-> hydrateVideoTransformOperations,
     hydrateVideoTransformOperationDetail |-> hydrateVideoTransformOperationDetail,
     hydrateFrameVideoOperations |-> hydrateFrameVideoOperations,
     hydrateFrameVideoOperationDetail |-> hydrateFrameVideoOperationDetail,
     hydrateVideoPosterOperations |-> hydrateVideoPosterOperations,
     hydrateVideoPosterOperationDetail |-> hydrateVideoPosterOperationDetail,
     hydrateVideoPreview |-> hydrateVideoPreview,
     hydrateAccountActivity |-> hydrateAccountActivity,
     hydrateAccountSecurity |-> hydrateAccountSecurity,
     hydrateDataControls |-> hydrateDataControls,
     hydratePartnerReadiness |-> hydratePartnerReadiness,
     hydrateStarterKits |-> hydrateStarterKits,
     hydrateWorkspaceSetup |-> hydrateWorkspaceSetup,
     hydrateWorkspaceDrafts |-> hydrateWorkspaceDrafts,
     hydrateLinkStatus |-> hydrateLinkStatus,
     hydratePaymentOptions |-> hydratePaymentOptions,
     hydrateManualTopupHistory |-> hydrateManualTopupHistory,
     hydrateCanonicalDashboard |-> hydrateCanonicalDashboard,
     hydrateCanonicalPricing |-> hydrateCanonicalPricing,
     hydrateCanonicalPackages |-> hydrateCanonicalPackages,
     hydrateCanonicalMembership |-> hydrateCanonicalMembership,
     hydrateCanonicalWallet |-> hydrateCanonicalWallet,
     hydrateJobsList |-> hydrateJobsList,
     hydrateAssetsList |-> hydrateAssetsList,
     hydrateCanonicalJob |-> hydrateCanonicalJob]

PortalPage ==
    campaigns @@ projects @@ memory @@ prompts @@ gallery @@ guides @@ community @@ music
    @@ media @@ content @@ strategy @@ handoffs @@ crm @@ voice @@ planners @@ video
    @@ images @@ chat @@ analytics @@ workboard @@ documents @@ subtitles @@ support
    @@ operations @@ governance @@ admin @@ notifications @@ vault @@ documentOperations
    @@ imageOperations @@ assetOperations @@ accounts @@ workspace @@ dashboard @@ wallet
    @@ catalog @@ deliveries

\* Any page may be the one the document is opened on.
PortalHome == DOMAIN PortalPage

\* Moves in the document that hydrate, and Back and Forward over these and
\* over the moves below: the pages of the image workspace, an asset taken on to
\* another of them, a draft put back into its form or attached to a project, a
\* recording opened as an asset, a follow-up handed on to the support desk.
imagePages == {"/image/resize", "/image/edit", "/image/brand-overlay",
               "/image/background-cleanup", "/image/history"}
draftPages == {"/workspace", "/content-studio/new", "/documents/split", "/projects/id"}
PortalLinks ==
    {{p, q} : p, q \in imagePages}
    \cup {{"/workspace", p} : p \in draftPages \ {"/workspace"}}
    \cup {{"/audio-hub/id", "/audio/assets"}, {"/admin/reliability", "/admin/support/id"}}

\* Moves that do not hydrate: a draft attached to a project, from the workspace
\* or from where the customer has moved on to while it was being attached; and
\* a recording opened as an asset.
workspaceDraftAttach(p) ==
    [from |-> p, to |-> "/projects/id",
     script |-> Then("hydrateProjectDetail", "hydrateStudioDocument")]
audioOperationHandoff ==
    [from |-> "/audio-hub/id", to |-> "/audio/assets", script |-> One("hydrateAudioAssetOperations")]
PortalHandoffs == {workspaceDraftAttach(p) : p \in draftPages} \cup {audioOperationHandoff}

\* What hydrate() takes down before it knows the session.
PortalHidden == {"adminManualTopups", "adminManualTopupSelected", "adminCustomerDirectory"}

\* What Back and Forward to a project take down at once.
PortalOpened ==
    [p \in DOMAIN PortalPage |->
        IF p = "/projects/id" THEN {"projectDetail", "studioDocumentDetail"} ELSE {}]
=============================================================================
