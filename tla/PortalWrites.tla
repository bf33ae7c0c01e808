---------------------------- MODULE PortalWrites ----------------------------
(***************************************************************************)
(* The rows of KeyedWrites: what the portal's forms and buttons do with    *)
(* their idempotency keys, and what their routes keep under them.  A       *)
(* block's own checks before it asks are among the guards of Decline, and  *)
(* what its refresh shows is in PortalReads.                               *)
(***************************************************************************)
EXTENDS KeyedWrites

\* A route that writes in one transaction; `keeps`: see Row.
Native(keeps, forgets) ==
    [route |-> "native", keeps |-> keeps, forgets |-> forgets, throws |-> {},
     revision |-> "none", leaves |-> FALSE, coarse |-> FALSE]

\* Whether the block counts as acknowledged an ok answer whose refresh succeeds
\* and an error with a status (Heard); an ok answer at once (Settled); or
\* nothing (Held: the key is never discarded).
Heard(keeps) == Native(keeps, {"done", "status"})
Settled(keeps) == Native(keeps, {"done", "status", "bare"})
Held(keeps) == Native(keeps, {})

Moves(r) == [r EXCEPT !.revision = "moved"]
Checks(r) == [r EXCEPT !.revision = "checked"]
Opens(r) == [r EXCEPT !.leaves = TRUE]
Throws(r, ends) == [r EXCEPT !.throws = ends]
Coarse(r) == [r EXCEPT !.coarse = TRUE]
Bridged(r) == [r EXCEPT !.route = "bridged"]

-----------------------------------------------------------------------------
(* Content Studio.                                                         *)

contentStudio_idempotent == {"done"}
contentStudioMutation == Heard(contentStudio_idempotent)
contentBriefCreate == Opens(contentStudioMutation)
contentBriefUpdate == Moves(contentStudioMutation)
contentBriefState == Moves(contentStudioMutation)
contentBriefDuplicate == Opens(Checks(contentStudioMutation))
contentBriefCompose == Checks(contentStudioMutation)
contentVariantCreate == Checks(contentStudioMutation)
contentVariantUpdate == Moves(contentStudioMutation)
contentVariantState == Moves(contentStudioMutation)
contentVariantDuplicate == Checks(contentStudioMutation)
contentVariantSelect == Moves(contentStudioMutation)
contentPromptPackSave == Settled(contentStudio_idempotent)

contentRows ==
    {contentBriefCreate, contentBriefUpdate, contentBriefState,
     contentBriefDuplicate, contentBriefCompose, contentVariantCreate,
     contentVariantUpdate, contentVariantState, contentVariantDuplicate,
     contentVariantSelect, contentPromptPackSave}

-----------------------------------------------------------------------------
(* Channel strategy.                                                       *)

channelStrategy_idempotent == {"done"}
channelStrategyMutation == Heard(channelStrategy_idempotent)
channelStrategyCreate == Opens(channelStrategyMutation)
channelStrategyUpdate == Moves(channelStrategyMutation)
channelStrategyState == Moves(channelStrategyMutation)

strategyRows ==
    {channelStrategyCreate, channelStrategyUpdate, channelStrategyState}

-----------------------------------------------------------------------------
(* Content handoffs and partner CRM, which share a helper.                 *)

contentHandoff_idempotent == {"done"}
partnerCrm_idempotent == {"done"}
webNativeCoordinationMutation(keeps) == Heard(keeps)
contentHandoffCreate == Opens(webNativeCoordinationMutation(contentHandoff_idempotent))
contentHandoffUpdate == Moves(webNativeCoordinationMutation(contentHandoff_idempotent))
contentHandoffState == Moves(webNativeCoordinationMutation(contentHandoff_idempotent))
contentHandoffStaffReview == Moves(webNativeCoordinationMutation(contentHandoff_idempotent))
partnerCrmCreate == Opens(webNativeCoordinationMutation(partnerCrm_idempotent))
partnerCrmUpdate == Moves(webNativeCoordinationMutation(partnerCrm_idempotent))
partnerCrmStage == Moves(webNativeCoordinationMutation(partnerCrm_idempotent))
partnerCrmConsent == Moves(webNativeCoordinationMutation(partnerCrm_idempotent))
partnerCrmNote == Moves(webNativeCoordinationMutation(partnerCrm_idempotent))

coordinationRows ==
    {contentHandoffCreate, contentHandoffUpdate, contentHandoffState,
     contentHandoffStaffReview, partnerCrmCreate, partnerCrmUpdate,
     partnerCrmStage, partnerCrmConsent, partnerCrmNote}

-----------------------------------------------------------------------------
(* Voice Studio.                                                           *)

voiceStudio_idempotent == {"done"}
voiceStudioMutation == Heard(voiceStudio_idempotent)
voiceVaultCreate == Opens(voiceStudioMutation)
voiceVaultUpdate == Moves(voiceStudioMutation)
voiceVaultState == Moves(voiceStudioMutation)
voiceVaultDuplicate == Opens(Checks(voiceStudioMutation))
voiceVaultCompose == Checks(voiceStudioMutation)
voiceScriptCreate == Checks(voiceStudioMutation)
voiceScriptUpdate == Moves(voiceStudioMutation)
voiceScriptState == Moves(voiceStudioMutation)
voiceScriptDuplicate == Checks(voiceStudioMutation)

voiceRows ==
    {voiceVaultCreate, voiceVaultUpdate, voiceVaultState, voiceVaultDuplicate,
     voiceVaultCompose, voiceScriptCreate, voiceScriptUpdate, voiceScriptState,
     voiceScriptDuplicate}

-----------------------------------------------------------------------------
(* Video Studio: plans, scenes and the planners that save a plan.          *)

videoStudio_idempotent == {"done"}
videoStudioMutation == Heard(videoStudio_idempotent)
videoPlanCreate == Opens(videoStudioMutation)
videoPlanUpdate == Moves(videoStudioMutation)
videoPlanState == Moves(videoStudioMutation)
videoPlanRestoreVersion == Moves(videoStudioMutation)
videoSceneCreate == Moves(videoStudioMutation)
videoSceneUpdate == Moves(videoStudioMutation)
videoSceneState == Moves(videoStudioMutation)
videoSceneRestoreVersion == Moves(videoStudioMutation)
videoSceneReorder == Moves(videoStudioMutation)
videoPromptPlanSave == Settled(videoStudio_idempotent)
videoIdeaPlannerSave == Settled(videoStudio_idempotent)
longFormRoadmapSave == Settled(videoStudio_idempotent)
selfShotScenePlannerSave == Settled(videoStudio_idempotent)
referenceFormatPlannerSave == Settled(videoStudio_idempotent)

videoRows ==
    {videoPlanCreate, videoPlanUpdate, videoPlanState, videoPlanRestoreVersion,
     videoSceneCreate, videoSceneUpdate, videoSceneState,
     videoSceneRestoreVersion, videoSceneReorder, videoPromptPlanSave,
     videoIdeaPlannerSave, longFormRoadmapSave, selfShotScenePlannerSave,
     referenceFormatPlannerSave}

-----------------------------------------------------------------------------
(* Document workspaces and their plans.                                    *)

documentWorkspace_idempotent == {"done"}
documentWorkspaceMutation == Heard(documentWorkspace_idempotent)
documentWorkspaceCreate == Opens(documentWorkspaceMutation)
documentWorkspaceUpdate == Moves(documentWorkspaceMutation)
documentWorkspaceState == Moves(documentWorkspaceMutation)
documentWorkspaceRestoreVersion == Moves(documentWorkspaceMutation)
documentPlanCreate == Moves(documentWorkspaceMutation)
documentPlanUpdate == Moves(documentWorkspaceMutation)
documentPlanState == Moves(documentWorkspaceMutation)
documentPlanRestoreVersion == Moves(documentWorkspaceMutation)
documentPlanReorder == Moves(documentWorkspaceMutation)

documentsRows ==
    {documentWorkspaceCreate, documentWorkspaceUpdate, documentWorkspaceState,
     documentWorkspaceRestoreVersion, documentPlanCreate, documentPlanUpdate,
     documentPlanState, documentPlanRestoreVersion, documentPlanReorder}

-----------------------------------------------------------------------------
(* Chat workspace.  Whatever it writes moves the revision of the thread.   *)

chatWorkspace_idempotent == {"done"}
chatWorkspaceMutation == Heard(chatWorkspace_idempotent)
chatRunSubmit == Moves(chatWorkspaceMutation)
chatThreadCreate == Opens(chatWorkspaceMutation)
chatThreadUpdate == Moves(chatWorkspaceMutation)
chatThreadLifecycle == Moves(chatWorkspaceMutation)
chatThreadRestoreVersion == Moves(chatWorkspaceMutation)
chatContextCreate == Moves(chatWorkspaceMutation)
chatContextUpdate == Moves(chatWorkspaceMutation)
chatContextState == Moves(chatWorkspaceMutation)
chatTurnCreate == Moves(chatWorkspaceMutation)
chatTurnState == Moves(chatWorkspaceMutation)

chatRows ==
    {chatRunSubmit, chatThreadCreate, chatThreadUpdate, chatThreadLifecycle,
     chatThreadRestoreVersion, chatContextCreate, chatContextUpdate,
     chatContextState, chatTurnCreate, chatTurnState}

-----------------------------------------------------------------------------
(* Analytics.  A new metric or finding does not move the revision of its   *)
(* report.                                                                 *)

analyticsWorkspace_idempotent == {"done"}
analyticsWorkspaceMutation == Heard(analyticsWorkspace_idempotent)
analyticsReportCreate == Opens(analyticsWorkspaceMutation)
analyticsReportUpdate == Moves(analyticsWorkspaceMutation)
analyticsReportLifecycle == Moves(analyticsWorkspaceMutation)
analyticsReportRestoreVersion == Moves(analyticsWorkspaceMutation)
analyticsMetricCreate == Checks(analyticsWorkspaceMutation)
analyticsMetricUpdate == Moves(analyticsWorkspaceMutation)
analyticsMetricState == Moves(analyticsWorkspaceMutation)
analyticsSnapshotUpdate == Moves(analyticsWorkspaceMutation)
analyticsSnapshotState == Moves(analyticsWorkspaceMutation)
analyticsFindingCreate == Checks(analyticsWorkspaceMutation)
analyticsFindingUpdate == Moves(analyticsWorkspaceMutation)
analyticsFindingState == Moves(analyticsWorkspaceMutation)

analyticsRows ==
    {analyticsReportCreate, analyticsReportUpdate, analyticsReportLifecycle,
     analyticsReportRestoreVersion, analyticsMetricCreate,
     analyticsMetricUpdate, analyticsMetricState, analyticsSnapshotUpdate,
     analyticsSnapshotState, analyticsFindingCreate, analyticsFindingUpdate,
     analyticsFindingState}

-----------------------------------------------------------------------------
(* Image Studio.                                                           *)

imageStudio_idempotent == {"done"}
imageStudioMutation == Heard(imageStudio_idempotent)
imageArtboardCreate == Opens(imageStudioMutation)
imageArtboardUpdate == Moves(imageStudioMutation)
imageArtboardState == Moves(imageStudioMutation)
imageArtboardRestoreVersion == Moves(imageStudioMutation)
imageDirectionCreate == Moves(imageStudioMutation)
imageDirectionUpdate == Moves(imageStudioMutation)
imageDirectionState == Moves(imageStudioMutation)
imageDirectionRestoreVersion == Moves(imageStudioMutation)
imagePromptComposerSave == Settled(imageStudio_idempotent)

imagesRows ==
    {imageArtboardCreate, imageArtboardUpdate, imageArtboardState,
     imageArtboardRestoreVersion, imageDirectionCreate, imageDirectionUpdate,
     imageDirectionState, imageDirectionRestoreVersion, imagePromptComposerSave}

-----------------------------------------------------------------------------
(* Subtitle Studio.                                                        *)

subtitleWorkspace_idempotent == {"done"}
subtitleStudioMutation == Heard(subtitleWorkspace_idempotent)
subtitleProjectCreate == Opens(subtitleStudioMutation)
subtitleProjectUpdate == Moves(subtitleStudioMutation)
subtitleProjectState == Moves(subtitleStudioMutation)
subtitleProjectRestoreVersion == Moves(subtitleStudioMutation)
subtitleCueCreate == Moves(subtitleStudioMutation)
subtitleCueImport == Moves(subtitleStudioMutation)
subtitleCueUpdate == Moves(subtitleStudioMutation)
subtitleCueState == Moves(subtitleStudioMutation)
subtitleCueRestoreVersion == Moves(subtitleStudioMutation)
subtitleCueReorder == Moves(subtitleStudioMutation)

subtitlesRows ==
    {subtitleProjectCreate, subtitleProjectUpdate, subtitleProjectState,
     subtitleProjectRestoreVersion, subtitleCueCreate, subtitleCueImport,
     subtitleCueUpdate, subtitleCueState, subtitleCueRestoreVersion,
     subtitleCueReorder}

-----------------------------------------------------------------------------
(* Workboard.                                                              *)

workboard_idempotent == {"done"}
workboardMutation == Heard(workboard_idempotent)
workboardCreate == Opens(workboardMutation)
workboardScheduleState == Moves(workboardMutation)
workboardUpdate == Moves(workboardMutation)
workboardState == Moves(workboardMutation)
workboardChecklistCreate == Moves(workboardMutation)
workboardChecklistUpdate == Moves(workboardMutation)
workboardRestoreVersion == Moves(workboardMutation)

workboardRows ==
    {workboardCreate, workboardScheduleState, workboardUpdate, workboardState,
     workboardChecklistCreate, workboardChecklistUpdate, workboardRestoreVersion}

-----------------------------------------------------------------------------
(* Campaign schedule intents.                                              *)

_campaign_schedule_idempotent == {"done"}
campaignScheduleMutation == Heard(_campaign_schedule_idempotent)
campaignScheduleState == Moves(campaignScheduleMutation)

schedulesRows ==
    {campaignScheduleState}

-----------------------------------------------------------------------------
(* Audio collections.                                                      *)

musicMedia_idempotent == {"done"}
mediaCollectionCreate == Opens(Heard(musicMedia_idempotent))
mediaCollectionUpdate == Moves(Heard(musicMedia_idempotent))
mediaCollectionState == Moves(Heard(musicMedia_idempotent))
mediaCollectionDuplicate == Opens(Checks(Heard(musicMedia_idempotent)))
mediaItem == Moves(Heard(musicMedia_idempotent))
musicPromptComposerSave == Settled(musicMedia_idempotent)

mediaRows ==
    {mediaCollectionCreate, mediaCollectionUpdate, mediaCollectionState,
     mediaCollectionDuplicate, mediaItem, musicPromptComposerSave}

-----------------------------------------------------------------------------
(* Prompt Library.  A purged template is gone, as if its revision had      *)
(* moved.                                                                  *)

promptLibrary_idempotent == {"done"}
promptTemplateCreate == Heard(promptLibrary_idempotent)
promptTemplateUpdate == Moves(Heard(promptLibrary_idempotent))
promptTemplateState == Moves(Heard(promptLibrary_idempotent))
promptTemplateDuplicate == Checks(Heard(promptLibrary_idempotent))
promptTemplatePurge == Opens(Moves(Heard(promptLibrary_idempotent)))
promptLibraryImport == Heard(promptLibrary_idempotent)

promptsRows ==
    {promptTemplateCreate, promptTemplateUpdate, promptTemplateState,
     promptTemplateDuplicate, promptTemplatePurge, promptLibraryImport}

-----------------------------------------------------------------------------
(* Support Desk.  A reply is forgotten only once the case shows it.        *)

support_idempotent == Outcomes
supportCaseCreate == Opens(Heard(support_idempotent))
supportCaseReply == Throws(Moves(Native(support_idempotent, {"done"})), {"bare"})
supportCaseState == Moves(Heard(support_idempotent))
supportAdminCaseReply == Throws(Moves(Native(support_idempotent, {"done"})), {"bare"})
supportAdminCaseUpdate == Moves(Heard(support_idempotent))
supportAdminCareTriage == Moves(Heard(support_idempotent))
supportAdminCareEscalation == Moves(Heard(support_idempotent))

supportRows ==
    {supportCaseCreate, supportCaseReply, supportCaseState,
     supportAdminCaseReply, supportAdminCaseUpdate, supportAdminCareTriage,
     supportAdminCareEscalation}

-----------------------------------------------------------------------------
(* Reliability follow-ups, approvals of Operations, the inbox.             *)

reliability_idempotent == Outcomes
autopilot_idempotent == Outcomes
notificationCenter_idempotent == Outcomes
reliabilityFollowup == Moves(Heard(reliability_idempotent))
operationsApproval == Moves(Heard(autopilot_idempotent))
inboxItem == Moves(Heard(notificationCenter_idempotent))

desksRows ==
    {reliabilityFollowup, operationsApproval, inboxItem}

-----------------------------------------------------------------------------
(* Memory Center.  Its keys are never discarded; only a changed form makes *)
(* a new one.                                                              *)

memory_idempotent == Outcomes
_gallery_memory_idempotent == Outcomes
memoryNoteCreate == Throws(Held(memory_idempotent), {"status", "bare"})
memoryNoteUpdate == Throws(Moves(Held(memory_idempotent)), {"status", "bare"})
memoryNoteState == Throws(Moves(Held(memory_idempotent)), {"status", "bare"})
memoryReminderCreate == Held(memory_idempotent)
memoryReminderUpdate == Moves(Held(memory_idempotent))
memoryReminderState == Moves(Held(memory_idempotent))
freePromptGallerySave == Settled(_gallery_memory_idempotent)

memoryRows ==
    {memoryNoteCreate, memoryNoteUpdate, memoryNoteState, memoryReminderCreate,
     memoryReminderUpdate, memoryReminderState, freePromptGallerySave}

-----------------------------------------------------------------------------
(* Projects and their documents, whose keys are never discarded either.    *)
(* The routes do not compare what a key was used for.                      *)

projects_idempotent == Outcomes
projectCreate == Opens(Held(projects_idempotent))
projectUpdate == Held(projects_idempotent)
studioDocumentCreate == Throws(Held(projects_idempotent), {"status", "bare"})
studioDocumentUpdate == Throws(Moves(Held(projects_idempotent)), {"status", "bare"})
studioDocumentRestore == Throws(Moves(Held(projects_idempotent)), {"status", "bare"})

projectsRows ==
    {projectCreate, projectUpdate, studioDocumentCreate, studioDocumentUpdate,
     studioDocumentRestore}

-----------------------------------------------------------------------------
(* Governance documents.                                                   *)

governance_idempotent == {"done"}
governanceMutation == Heard(governance_idempotent)
governanceDocumentCreate == Opens(governanceMutation)
governanceDocumentUpdate == Throws(Moves(governanceMutation), {"bare"})
governanceDocumentLifecycle == Throws(Moves(governanceMutation), {"bare"})

governanceRows ==
    {governanceDocumentCreate, governanceDocumentUpdate,
     governanceDocumentLifecycle}

-----------------------------------------------------------------------------
(* The document archive.  An upload's fingerprint is the names of its      *)
(* fields.                                                                 *)

adminDocumentArchive_idempotent == {"done"}
adminArchiveMultipartMutation == Coarse(Heard(adminDocumentArchive_idempotent))
adminArchiveJsonMutation == Heard(adminDocumentArchive_idempotent)
archiveDocumentCreateUpload == Opens(adminArchiveMultipartMutation)
archiveDocumentUpdate == Throws(Moves(adminArchiveJsonMutation), {"bare"})
archiveDocumentVersionUpload == Throws(Moves(adminArchiveMultipartMutation), {"bare"})
archiveDocumentState == Throws(Moves(adminArchiveJsonMutation), {"bare"})

archiveRows ==
    {archiveDocumentCreateUpload, archiveDocumentUpdate,
     archiveDocumentVersionUpload, archiveDocumentState}

-----------------------------------------------------------------------------
(* Partner readiness and the workspace setup, which count an ok answer as  *)
(* heard whatever the refresh does.                                        *)

partnerReadiness_idempotent == {"done"}
workspaceSetup_idempotent == {"done"}
submitPartnerReadinessWrite == Throws(Moves(Settled(partnerReadiness_idempotent)), {"bare"})
saveWorkspaceSetup == Throws(Opens(Moves(Settled(workspaceSetup_idempotent))), {"bare"})

setupRows ==
    {submitPartnerReadinessWrite, saveWorkspaceSetup}

-----------------------------------------------------------------------------
(* What Core is asked for.                                                 *)

_run_idempotent == Outcomes
_run_transient_idempotent == {}
adminJobDecision == Bridged(Heard(_run_idempotent))
adminFreeze == Bridged(Heard(_run_idempotent))
paymentCreate == Bridged(Held(_run_transient_idempotent))

coreRows ==
    {adminJobDecision, adminFreeze, paymentCreate}

-----------------------------------------------------------------------------
PortalRows ==
    contentRows \cup strategyRows \cup coordinationRows \cup voiceRows \cup
    videoRows \cup documentsRows \cup chatRows \cup analyticsRows \cup
    imagesRows \cup subtitlesRows \cup workboardRows \cup schedulesRows \cup
    mediaRows \cup promptsRows \cup supportRows \cup desksRows \cup
    memoryRows \cup projectsRows \cup governanceRows \cup archiveRows \cup
    setupRows \cup coreRows
=============================================================================
