------------------------------ MODULE Screens ------------------------------
(* The hooks of the web client and the screens that use them, as tables.    *)
(* A query has a key, the data it shows and whether it polls; a change is   *)
(* one request that writes data on the server and then tells the cache      *)
(* which keys are out of date (invalidateQueries matches by prefix, so      *)
(* ["tickets"] covers ["tickets", id, "audit"]). A screen lists the queries *)
(* it shows and the controls it offers. Client.tla gives them behaviour.    *)
EXTENDS Naturals, Sequences

Query(key, reads) == [key |-> key, reads |-> reads, polls |-> FALSE]
Polled(key, reads) == [key |-> key, reads |-> reads, polls |-> TRUE]
Change(name, writes, tells) ==
    [name |-> name, writes |-> writes, tells |-> tells, whole |-> FALSE, puts |-> FALSE]
Puts(name, writes, key) ==                          \* setQueryData with the answer
    [Change(name, writes, {key}) EXCEPT !.puts = TRUE]

(* A control of a screen sends one change after another ("does"). "field":  *)
(* it sends what was typed there; "free": it may be pressed while its last  *)
(* request is under way; "clears": success empties the field; "leaves":     *)
(* success opens another screen; "always": so does failure; "spent":        *)
(* success disables it; "waits": it is dead for a while after success;       *)
(* "awaits": it leaves after success even if its screen is closed by then.  *)
Control(does, field) ==
    [does |-> <<does>>, field |-> field, free |-> field = "none", clears |-> FALSE,
     leaves |-> FALSE, spent |-> FALSE, always |-> FALSE, waits |-> FALSE, awaits |-> FALSE]
Switch(does) == Control(does, "none")                       \* pressed at will
Button(does) == [Switch(does) EXCEPT !.free = FALSE]        \* disabled while pending
Form(does) == [Control(does, "text") EXCEPT !.clears = TRUE]
Leaves(c) == [c EXCEPT !.leaves = TRUE]
Awaits(c) == [Leaves(c) EXCEPT !.awaits = TRUE]             \* even when its screen is gone
Screen(shows, offers, refills) == [shows |-> shows, offers |-> offers, refills |-> refills]

----------------------------------------------------------------------------
(* Tickets *)
useTickets == Query(<<"tickets", "list">>, {"ticket"})
useTicket == Query(<<"tickets", "id">>, {"ticket", "message"})
useRelatedTickets == Query(<<"tickets", "id", "related">>, {"ticket"})
useTicketNotifications == Query(<<"tickets", "id", "notifications">>, {"mail"})
useTicketAuditHistory == Query(<<"tickets", "id", "audit">>, {"ticket"})
useCreateTicket == Change("createTicket", {"ticket"}, {<<"tickets">>})
useUpdateTicket == Change("updateTicket", {"ticket"}, {<<"tickets">>, <<"tickets", "id">>})
useBulkUpdateTickets == Change("bulkUpdateTickets", {"ticket"}, {<<"tickets">>})
useAddTicketMessage == Change("addTicketMessage", {"message"}, {<<"tickets", "id">>})
useRegenerateTrackingLink == Change("regenerateTrackingLink", {"link"}, {})
useDownloadAttachment == Change("downloadAttachment", {}, {})
useAiSuggestion == Change("aiSuggestion", {"trace"}, {})
useApplyMacro == Change("applyMacro", {"ticket", "message"}, {<<"tickets">>, <<"tickets", "id">>})
useTraceFeedback == Change("traceFeedback", {"trace"}, {<<"ai-insights">>})
SetsTags == [useUpdateTicket EXCEPT !.whole = TRUE]    \* the body carries all the tags

(* Customers, escalations, call-backs, ratings *)
useCustomers == Query(<<"customers", "">>, {"customer"})
useCustomer == Query(<<"customers", "detail", "id">>, {"customer"})
useCreateCustomer == Change("createCustomer", {"customer"}, {<<"customers">>})
useUpdateCustomer == Change("updateCustomer", {"customer"}, {<<"customers">>, <<"customers", "detail", "id">>})
useMergeCustomer == Change("mergeCustomer", {"customer"}, {<<"customers">>})
useExportCustomer == Change("exportCustomer", {}, {})
useDeleteCustomer == Change("deleteCustomer", {"customer"}, {<<"customers">>})
useEscalations == Polled(<<"escalations", "open">>, {"escalation"})
useEscalationSummary == Polled(<<"escalations", "summary">>, {"escalation"})
useLogContact == Change("logContact", {"escalation", "message"}, {<<"escalations">>})
useCallRequests == Polled(<<"call-requests">>, {"callback"})
useUpdateCallRequest == Change("updateCallRequest", {"callback"}, {<<"call-requests">>})
useCsatSummary == Query(<<"csat", "summary">>, {"rating"})
useTicketTracking == Query(<<"ticket-tracking">>, {"message", "rating"})
useSubmitTrackingReply == Puts("submitTrackingReply", {"message"}, <<"ticket-tracking">>)
useSubmitRating == Puts("submitRating", {"rating"}, <<"ticket-tracking">>)

(* People *)
useOrgUsers == Query(<<"users">>, {"user"})
useWorkloads == Query(<<"users", "workloads">>, {"user"})
useUpdateUserRole == Change("updateUserRole", {"user"}, {<<"users">>})
useDeactivateUser == Change("deactivateUser", {"user"}, {<<"users">>})
useReactivateUser == Change("reactivateUser", {"user"}, {<<"users">>})
useUpdateUserCapacity == Change("updateUserCapacity", {"user"}, {<<"users">>})
useTeams == Query(<<"teams">>, {"team"})
useSetTeamManager == Change("setTeamManager", {"team"}, {<<"teams">>})
useCreateTeam == Change("createTeam", {"team"}, {<<"teams">>})
useDeleteTeam == Change("deleteTeam", {"team"}, {<<"teams">>})
useAddTeamMember == Change("addTeamMember", {"team"}, {<<"teams">>})
useRemoveTeamMember == Change("removeTeamMember", {"team"}, {<<"teams">>})
useInvitations == Query(<<"invitations">>, {"invitation"})
useCreateInvitation == Change("createInvitation", {"invitation"}, {<<"invitations">>})
useRevokeInvitation == Change("revokeInvitation", {"invitation"}, {<<"invitations">>})
useAcceptInvitation == Change("acceptInvitation", {"user", "me"}, {})

(* Writing aids, knowledge base, automations, forms *)
useMacros == Query(<<"macros">>, {"macro"})
useCreateMacro == Change("createMacro", {"macro"}, {<<"macros">>})
useDeleteMacro == Change("deleteMacro", {"macro"}, {<<"macros">>})
useCannedResponses == Query(<<"canned-responses">>, {"canned"})
useCreateCannedResponse == Change("createCannedResponse", {"canned"}, {<<"canned-responses">>})
useUpdateCannedResponse == Change("updateCannedResponse", {"canned"}, {<<"canned-responses">>})
useDeleteCannedResponse == Change("deleteCannedResponse", {"canned"}, {<<"canned-responses">>})
useArticles == Query(<<"knowledge">>, {"article"})
useCreateArticle == Change("createArticle", {"article"}, {<<"knowledge">>})
useUpdateArticle == Change("updateArticle", {"article"}, {<<"knowledge">>})
useDeleteArticle == Change("deleteArticle", {"article"}, {<<"knowledge">>})
useAutomationRules == Query(<<"automation-rules">>, {"rule"})
useAutomationRunLogs == Query(<<"automation-rules", "id", "run-logs">>, {"run"})
useCreateAutomationRule == Change("createAutomationRule", {"rule"}, {<<"automation-rules">>})
useUpdateAutomationRule == Change("updateAutomationRule", {"rule"}, {<<"automation-rules">>})
useDeleteAutomationRule == Change("deleteAutomationRule", {"rule"}, {<<"automation-rules">>})
useSimulateRule == Change("simulateRule", {}, {})
useForms == Query(<<"forms">>, {"form"})
useFormSubmissions == Polled(<<"forms", "submissions">>, {"submission"})
useCreateForm == Change("createForm", {"form"}, {<<"forms">>})
useUpdateForm == Change("updateForm", {"form"}, {<<"forms">>})
useDeleteForm == Change("deleteForm", {"form"}, {<<"forms">>})
SetsOrigins == [useUpdateForm EXCEPT !.whole = TRUE]   \* the body carries all the sites

(* Organisation, billing, integrations, developers, insights *)
useCurrentOrg == Query(<<"orgs", "current">>, {"org"})
useUpdateOrg == Change("updateOrg", {"org"}, {<<"orgs", "current">>})
useBilling == Polled(<<"billing">>, {"plan"})
useInvoices == Query(<<"billing", "invoices">>, {"plan"})
useCheckout == Change("checkout", {}, {})
usePortal == Change("portal", {}, {})
useSetOverage == Change("setOverage", {"plan"}, {<<"billing">>})
useEmailConnections == Query(<<"email-connections">>, {"mailbox"})
useConnectGmail == Change("connectGmail", {}, {})
useSyncGmail == Change("syncGmail", {"mailbox"}, {<<"email-connections">>})
useDisconnectGmail == Change("disconnectGmail", {"mailbox"}, {<<"email-connections">>})
useUpdateEmailSettings == Change("updateEmailSettings", {"mailbox"}, {<<"email-connections">>})
useApiKeys == Query(<<"api-keys">>, {"key"})
useCreateApiKey == Change("createApiKey", {"key"}, {<<"api-keys">>})
useRevokeApiKey == Change("revokeApiKey", {"key"}, {<<"api-keys">>})
useWebhooks == Query(<<"webhooks">>, {"hook"})
useWebhookDeliveries == Query(<<"webhook-deliveries", "id">>, {"delivery"})
useCreateWebhook == Change("createWebhook", {"hook"}, {<<"webhooks">>})
useUpdateWebhook == Change("updateWebhook", {"hook"}, {<<"webhooks">>})
useDeleteWebhook == Change("deleteWebhook", {"hook"}, {<<"webhooks">>})
useRotateWebhookSecret == Change("rotateWebhookSecret", {"secret"}, {})
useSendTestWebhook == Change("sendTestWebhook", {"delivery"}, {<<"webhook-deliveries", "id">>})
useRetryDelivery == Change("retryDelivery", {"delivery"}, {<<"webhook-deliveries", "id">>})
useShopifyStatus == Query(<<"shopify", "status">>, {"shop"})
useShopifyOrders == Query(<<"shopify", "orders">>, {"order"})
useConnectShopify == Change("connectShopify", {"shop"}, {<<"shopify">>})
useDisconnectShopify == Change("disconnectShopify", {"shop"}, {<<"shopify">>})
useImportTickets == Change("importTickets", {"ticket", "customer"}, {<<"tickets">>, <<"customers">>})
useAiStats == Query(<<"ai-insights", "stats">>, {"trace"})
useAiTraces == Query(<<"ai-insights", "traces">>, {"trace"})
useEvalCases == Query(<<"ai-insights", "eval-cases">>, {"case"})
useEvalRuns == Query(<<"ai-insights", "eval-runs">>, {"eval"})
useCreateEvalCase == Change("createEvalCase", {"case"}, {<<"ai-insights", "eval-cases">>})
useDeleteEvalCase == Change("deleteEvalCase", {"case"}, {<<"ai-insights", "eval-cases">>})
useRunEval == Change("runEval", {"eval"}, {<<"ai-insights", "eval-runs">>})
useTicketsVolume == Query(<<"analytics", "tickets-volume">>, {"ticket"})
useAnalyticsSummary == Polled(<<"analytics", "summary">>, {"ticket"})
useDemoDataStatus == Query(<<"demo-data">>, {"ticket"})
useRefreshAll == {<<"demo-data">>, <<"tickets">>, <<"customers">>, <<"analytics">>}
useLoadDemoData == Change("loadDemoData", {"ticket", "customer"}, useRefreshAll)
useClearDemoData == Change("clearDemoData", {"ticket", "customer"}, useRefreshAll)

(* Signing in and out *)
useCurrentUser == Query(<<"auth", "me">>, {"me"})
useLogin == Change("login", {"challenge"}, {})
useVerifyLoginOtp == Change("verifyLoginOtp", {"session", "me"}, {<<"auth", "me">>})
useResendLoginOtp == Change("resendLoginOtp", {"challenge"}, {})
useRegister == Change("register", {"user", "me"}, {})
useLogout == Change("logout", {"session"}, {})
useSendVerificationEmail == Change("sendVerificationEmail", {"link"}, {})
useVerifyEmail == Change("verifyEmail", {"me"}, {<<"auth", "me">>})
forgotPassword == Change("forgotPassword", {"link"}, {})
resetPassword == Change("resetPassword", {"session"}, {})

----------------------------------------------------------------------------
(* Screens: what each shows, what it offers, and the query (if any) from    *)
(* which its fields are filled anew whenever the data changes.              *)
Plain(shows, offers) == Screen(shows, offers, <<>>)

TicketsPageClient == Plain({useTickets}, {})
BulkActionsBar == Plain({useTickets, useOrgUsers}, {Button(useBulkUpdateTickets)})
TicketsToolbar == Plain({useTickets, useOrgUsers, useTeams}, {})
NewTicketDialog ==
    Plain({useTickets, useCustomers},
          {Awaits(Form(useCreateTicket)),
           [Awaits(Form(useCreateTicket)) EXCEPT !.does = <<useCreateCustomer, useCreateTicket>>]})
TicketDetailPage ==
    Plain({useTicket}, {Button(useAiSuggestion)})
TicketContextPanel ==
    Plain({useTicket, useOrgUsers, useTeams}, {Switch(useUpdateTicket)})
TicketTagsEditor == Plain({useTicket}, {Switch(SetsTags)})
MessageComposer ==
    Plain({useTicket, useCannedResponses, useMacros},
          {[Form(useAddTicketMessage) EXCEPT !.free = TRUE],      \* Ctrl+Enter
           Form(useAddTicketMessage), Button(useApplyMacro)})
AiSuggestionCard == Plain({useTicket}, {Button(useTraceFeedback)})
TicketEmailPanel ==
    Plain({useTicket, useTicketNotifications},
          {Switch(useRegenerateTrackingLink), Button(useDownloadAttachment)})
TicketHistoryPanel == Plain({useRelatedTickets, useTicketAuditHistory}, {Switch(useUpdateTicket)})
ShopifyOrdersPanel == Plain({useShopifyStatus, useShopifyOrders}, {})
TicketTrackPage ==
    Plain({useTicketTracking}, {Form(useSubmitTrackingReply), Button(useSubmitRating)})
RatingCard == Plain({useTicketTracking}, {Button(useSubmitRating)})

CustomersPage == Plain({useCustomers}, {})
CustomerDetailPage ==
    Plain({useCustomer, useCustomers},
          {Switch(useUpdateCustomer), Switch(useExportCustomer),
           Leaves(Button(useMergeCustomer)), Leaves(Switch(useDeleteCustomer))})
EscalationsPage ==
    Plain({useCurrentUser, useEscalations, useEscalationSummary}, {Form(useLogContact)})
CallRequestsCard == Plain({useCallRequests}, {Button(useUpdateCallRequest)})
DashboardPage == Plain({useTicketsVolume, useAnalyticsSummary, useAiStats, useCsatSummary}, {})
GettingStartedCard ==
    Plain({useTickets, useArticles, useOrgUsers, useEmailConnections, useAutomationRules,
           useDemoDataStatus, useTicketsVolume},
          {Button(useLoadDemoData), Button(useClearDemoData)})

TeamCard ==
    Plain({useTeams, useOrgUsers},
          {Switch(useDeleteTeam), Switch(useSetTeamManager), Switch(useRemoveTeamMember),
           Switch(useAddTeamMember)})
TeamFormDialog == Plain({useTeams}, {Form(useCreateTeam)})
WorkloadsPanel == Plain({useWorkloads}, {Switch(useUpdateUserCapacity)})
MembersTable ==
    Plain({useOrgUsers},
          {Switch(useUpdateUserRole), Switch(useDeactivateUser), Switch(useReactivateUser)})
InviteMemberDialog == Plain({useInvitations}, {Form(useCreateInvitation)})
InvitationsTable == Plain({useInvitations}, {Switch(useRevokeInvitation)})

MacrosPage == Plain({useMacros}, {Form(useCreateMacro), Switch(useDeleteMacro)})
CannedResponsesPage ==
    Plain({useCannedResponses},
          {Form(useCreateCannedResponse), Switch(useUpdateCannedResponse),
           Switch(useDeleteCannedResponse)})
KnowledgePage == Plain({useArticles}, {Switch(useDeleteArticle)})
ArticleFormDialog(save) == Plain({useArticles}, {Form(save)})
AutomationRuleForm ==
    Plain({useAutomationRules, useTeams, useCannedResponses, useOrgUsers},
          {Form(useCreateAutomationRule)})
AutomationRecipes == Plain({useAutomationRules}, {Button(useCreateAutomationRule)})
AutomationRuleCard ==
    Plain({useAutomationRules, useAutomationRunLogs},
          {Switch(useUpdateAutomationRule), Switch(useDeleteAutomationRule)})
AutomationTestPanel == Plain({useTickets}, {Button(useSimulateRule)})
FormMessagesPage == Plain({useForms, useFormSubmissions}, {})
FormManager == Plain({useForms}, {Form(useCreateForm)})
FormCard ==
    Plain({useForms, useFormSubmissions},
          {Switch(useUpdateForm), [Form(SetsOrigins) EXCEPT !.clears = FALSE],
           Switch(useDeleteForm)})

SettingsPage ==
    Screen({useCurrentOrg, useCurrentUser},
           {[Form(useUpdateOrg) EXCEPT !.clears = FALSE]}, useCurrentOrg.key)
SlaSettingsCard ==
    Screen({useCurrentOrg, useOrgUsers},
           {[Form(useUpdateOrg) EXCEPT !.clears = FALSE]}, useCurrentOrg.key)
AiRepliesCard == Plain({useCurrentOrg}, {Button(useUpdateOrg)})
BillingPage ==
    Plain({useBilling, useInvoices, useCurrentUser},
          {Leaves(Button(useCheckout)), Leaves(Button(usePortal)), Button(useSetOverage)})
IntegrationsClient ==
    Plain({useEmailConnections, useCurrentUser},
          {Leaves(Button(useConnectGmail)), Button(useSyncGmail), Button(useDisconnectGmail),
           Switch(useUpdateEmailSettings)})
ApiKeysCard == Plain({useApiKeys}, {Form(useCreateApiKey), Button(useRevokeApiKey)})
WebhooksCard == Plain({useWebhooks}, {Form(useCreateWebhook)})
WebhookItem ==
    Plain({useWebhooks, useWebhookDeliveries},
          {Switch(useUpdateWebhook), Button(useSendTestWebhook), Button(useRotateWebhookSecret),
           Button(useDeleteWebhook)})
Deliveries == Plain({useWebhookDeliveries}, {Button(useRetryDelivery)})
ShopifyCard == Plain({useShopifyStatus}, {Form(useConnectShopify), Button(useDisconnectShopify)})
ImportCard == Plain({useTickets, useCustomers}, {Form(useImportTickets)})
EvalPanel ==
    Plain({useEvalCases, useEvalRuns},
          {Form(useCreateEvalCase), Button(useRunEval), Switch(useDeleteEvalCase)})
TracesPanel == Plain({useAiStats, useAiTraces}, {})

LoginForm == Plain({}, {Leaves(Form(useLogin))})
VerifyOtpForm ==
    Plain({},
          {Leaves(Form(useVerifyLoginOtp)), [Button(useResendLoginOtp) EXCEPT !.waits = TRUE]})
RegisterForm == Plain({}, {Leaves(Form(useRegister))})
ForgotPasswordForm == Plain({}, {Form(forgotPassword)})
ResetPasswordForm == Plain({}, {[Awaits(Form(resetPassword)) EXCEPT !.spent = TRUE]})
AcceptInvitationClient == Plain({}, {Leaves(Form(useAcceptInvitation))})
VerifyEmailClient ==
    Plain({},
          {[Button(useVerifyEmail) EXCEPT !.spent = TRUE, !.always = TRUE],
           [Button(useSendVerificationEmail) EXCEPT !.spent = TRUE]})
EmailVerificationBanner ==
    Plain({useCurrentUser}, {[Button(useSendVerificationEmail) EXCEPT !.spent = TRUE]})
UserMenu == Plain({useCurrentUser}, {[Leaves(Switch(useLogout)) EXCEPT !.always = TRUE]})
----------------------------------------------------------------------------
AllScreens ==
    {TicketsPageClient, BulkActionsBar, TicketsToolbar, NewTicketDialog, TicketDetailPage,
     TicketContextPanel, TicketTagsEditor, MessageComposer, AiSuggestionCard, TicketEmailPanel,
     TicketHistoryPanel, ShopifyOrdersPanel, TicketTrackPage, RatingCard, CustomersPage,
     CustomerDetailPage, EscalationsPage, CallRequestsCard, DashboardPage, GettingStartedCard,
     TeamCard, TeamFormDialog, WorkloadsPanel, MembersTable, InviteMemberDialog,
     InvitationsTable, MacrosPage, CannedResponsesPage, KnowledgePage, ArticleFormDialog(useCreateArticle), ArticleFormDialog(useUpdateArticle),
     AutomationRuleForm, AutomationRecipes, AutomationRuleCard, AutomationTestPanel,
     FormMessagesPage, FormManager, FormCard, SettingsPage, SlaSettingsCard, AiRepliesCard,
     BillingPage, IntegrationsClient, ApiKeysCard, WebhooksCard, WebhookItem, Deliveries,
     ShopifyCard, ImportCard, EvalPanel, TracesPanel, LoginForm, VerifyOtpForm, RegisterForm,
     ForgotPasswordForm, ResetPasswordForm, AcceptInvitationClient, VerifyEmailClient,
     EmailVerificationBanner, UserMenu}
=============================================================================
