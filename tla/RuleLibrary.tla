---------------------------- MODULE RuleLibrary ----------------------------
(* The default rules of a tenant (rule-library.ts). Tags are left out;      *)
(* scores in [0, 1] are percentages and dates are ages in days.             *)
EXTENDS Conditions, Countries

Rule(name, scope, priority, conditions, actions) ==
  [name |-> name, scope |-> scope, priority |-> priority,
   isActive |-> TRUE, isShadow |-> FALSE, wellFormed |-> TRUE,
   conditions |-> conditions, actions |-> actions]

Do(type)         == [type |-> type, value |-> {}]
With(type, v)    == [type |-> type, value |-> v]
AddRisk(n)       == With("ADD_RISK", n)
AutoReject(l)    == With("AUTO_REJECT", {l})
RejectLabel(l)   == With("ADD_REJECT_LABEL", {l})
ManualReview     == Do("REQUIRE_MANUAL_REVIEW")
Queue(q)         == With("ASSIGN_QUEUE", q)
OpenCase(t)      == With("CREATE_CASE", t)
Notify(role)     == With("NOTIFY_TEAM", role)
RaiseAlert(s)    == With("CREATE_ALERT", s)
Monitor          == Do("ENABLE_ONGOING_MONITORING")

On(fact)  == If(fact, "eq", TRUE)
Off(fact) == If(fact, "eq", FALSE)

ScreeningRules == <<
  Rule("embargoed-country-block", "APPLICANT_RISK", 1,
    AnyOf(<<If("applicant.country", "in", EMBARGOED_COUNTRIES),
            If("applicant.nationality", "in", EMBARGOED_COUNTRIES),
            If("document.issuingCountry", "in", EMBARGOED_COUNTRIES)>>),
    <<AutoReject("PROHIBITED_COUNTRY"), AddRisk(100)>>),
  Rule("confirmed-sanctions-match", "SCREENING", 2,
    If("screening.confirmedSanctionsHits", "gte", 1),
    <<AutoReject("SANCTIONS_MATCH"), AddRisk(100),
      OpenCase("AML_HIT_REVIEW"), Notify("MLRO")>>),
  Rule("unresolved-sanctions-hit-requires-review", "SCREENING", 10,
    AllOf(<<If("screening.openHits", "gte", 1),
            If("screening.openHitListTypes", "containsAny",
               {"SANCTIONS", "WANTED", "INTERNAL_BLOCKLIST"})>>),
    <<ManualReview, Queue("aml-hits"), AddRisk(55),
      OpenCase("AML_HIT_REVIEW")>>),
  Rule("pep-requires-enhanced-diligence", "SCREENING", 20,
    AllOf(<<If("screening.pepHits", "gte", 1),
            If("screening.maxPepTier", "lte", 2)>>),
    <<Do("REQUIRE_EDD"), AddRisk(45), Queue("edd-review"), Monitor>>),
  Rule("junior-pep-monitor", "SCREENING", 21,
    AllOf(<<If("screening.pepHits", "gte", 1),
            If("screening.maxPepTier", "gte", 3)>>),
    <<AddRisk(18), Monitor>>),
  Rule("adverse-media-financial-crime", "SCREENING", 30,
    AllOf(<<If("screening.adverseMediaHits", "gte", 1),
            If("screening.adverseMediaCategories", "containsAny",
               {"fraud", "money-laundering", "terrorism-financing",
                "corruption", "sanctions-evasion"})>>),
    <<ManualReview, AddRisk(35), Queue("aml-hits")>>) >>

DocumentRules == <<
  Rule("document-forgery-detected", "DOCUMENT", 100,
    AnyOf(<<If("document.authenticityScore", "lt", 30),
            If("document.tamperFlags", "containsAny",
               {"DIGITAL_EDIT", "FONT_MISMATCH", "PHOTO_SUBSTITUTION",
                "TEMPLATE_MISMATCH"})>>),
    <<AutoReject("FORGED_DOCUMENT"), AddRisk(100),
      OpenCase("FRAUD_INVESTIGATION")>>),
  Rule("presentation-attack-detected", "APPLICANT_RISK", 101,
    AnyOf(<<On("liveness.spoofDetected"),
            If("liveness.attackType", "in",
               {"MASK", "REPLAY", "DEEPFAKE", "PRINTED_PHOTO"})>>),
    <<AutoReject("SPOOF_ATTEMPT"), AddRisk(95),
      OpenCase("FRAUD_INVESTIGATION")>>),
  Rule("duplicate-face-different-identity", "APPLICANT_RISK", 102,
    AllOf(<<If("duplicate.faceMatchCount", "gte", 1),
            Off("duplicate.sameIdentity")>>),
    <<AutoReject("DUPLICATE_FACE"), AddRisk(85),
      OpenCase("DUPLICATE_ACCOUNT")>>),
  Rule("expired-document", "DOCUMENT", 110,
    If("document.expiryDate", "olderThan", 0),
    <<AutoReject("DOCUMENT_EXPIRED")>>),
  Rule("face-match-below-threshold", "APPLICANT_RISK", 111,
    AllOf(<<Known("faceMatch.score"), If("faceMatch.score", "lt", 80)>>),
    <<RejectLabel("SELFIE_MISMATCH"), ManualReview, AddRisk(45)>>),
  Rule("mrz-checksum-failure", "DOCUMENT", 112, Off("document.mrzValid"),
    <<ManualReview, RejectLabel("MRZ_CHECKSUM_FAILED"), AddRisk(40)>>),
  Rule("declared-data-mismatch", "APPLICANT_RISK", 120,
    AnyOf(<<If("match.nameSimilarity", "lt", 85), Off("match.dobMatches")>>),
    <<ManualReview, RejectLabel("DATA_MISMATCH"), AddRisk(25)>>),
  Rule("underage-applicant", "APPLICANT_RISK", 121,
    AllOf(<<Known("applicant.age"), If("applicant.age", "lt", 18)>>),
    <<AutoReject("UNDERAGE")>>) >>

RiskRules == <<
  Rule("fatf-blacklist-country-risk", "APPLICANT_RISK", 200,
    AnyOf(<<If("applicant.country", "in", FATF_BLACKLIST),
            If("applicant.nationality", "in", FATF_BLACKLIST)>>),
    <<AddRisk(50), Do("REQUIRE_EDD")>>),
  Rule("fatf-greylist-country-risk", "APPLICANT_RISK", 201,
    AnyOf(<<If("applicant.country", "in", FATF_GREYLIST),
            If("applicant.nationality", "in", FATF_GREYLIST)>>),
    <<AddRisk(20)>>),
  Rule("anonymising-network-usage", "APPLICANT_RISK", 210,
    AnyOf(<<On("device.isTor"), On("device.isProxy")>>), <<AddRisk(15)>>),
  Rule("emulator-or-rooted-device", "APPLICANT_RISK", 211,
    AnyOf(<<On("device.isEmulator"), On("device.isRooted")>>),
    <<AddRisk(30), ManualReview>>),
  Rule("geo-mismatch", "APPLICANT_RISK", 212,
    AllOf(<<Known("applicant.ipCountry"), Known("applicant.country"),
            Off("match.countryMatches")>>), <<AddRisk(10)>>),
  Rule("disposable-contact-details", "APPLICANT_RISK", 213,
    AnyOf(<<On("contact.emailDisposable"), On("contact.phoneVoip")>>),
    <<AddRisk(12)>>),
  Rule("high-risk-occupation", "APPLICANT_RISK", 214,
    If("applicant.occupation", "matches", {"casino", "arms", "crypto"}),
    <<AddRisk(20)>>),
  Rule("multiple-weak-fraud-signals", "APPLICANT_RISK", 220,
    AtLeast(3, <<On("device.isVpn"), Off("match.countryMatches"),
                 On("contact.emailDisposable"),
                 If("contact.emailAgeDays", "lt", 30),
                 If("device.botScore", "gte", 60),
                 If("applicant.submissionAttempts", "gte", 3),
                 If("duplicate.deviceSharedWithCount", "gte", 3)>>),
    <<ManualReview, AddRisk(35), Queue("fraud-review")>>),
  Rule("shared-device-cluster", "APPLICANT_RISK", 221,
    If("duplicate.deviceSharedWithCount", "gte", 5),
    <<ManualReview, AddRisk(40), OpenCase("FRAUD_INVESTIGATION")>>),
  Rule("duplicate-identity-existing-account", "APPLICANT_RISK", 222,
    If("duplicate.identityMatchCount", "gte", 1),
    <<ManualReview, RejectLabel("DUPLICATE_ACCOUNT"), AddRisk(50),
      Queue("fraud-review")>>) >>

WorkflowRules == <<
  Rule("clean-low-risk-auto-approve", "APPLICANT_RISK", 300,
    AllOf(<<On("checks.allRequiredPassed"),
            If("checks.failedCount", "eq", 0),
            If("checks.warningCount", "eq", 0),
            If("screening.openHits", "eq", 0),
            If("applicant.riskScore", "lt", 30),
            If("applicant.ddLevel", "neq", "EDD")>>),
    <<Do("AUTO_APPROVE")>>),
  Rule("edd-never-auto-approves", "APPLICANT_RISK", 301,
    If("applicant.ddLevel", "eq", "EDD"), <<ManualReview, Queue("edd-review")>>),
  Rule("enable-monitoring-on-approval", "ONGOING_MONITORING", 310,
    If("applicant.reviewStatus", "eq", "APPROVED"), <<Monitor>>),
  Rule("new-list-match-on-existing-customer", "ONGOING_MONITORING", 311,
    AllOf(<<If("screening.trigger", "in", {"ONGOING_MONITORING", "LIST_UPDATE"}),
            If("screening.newHits", "gte", 1),
            If("applicant.reviewStatus", "eq", "APPROVED")>>),
    <<OpenCase("AML_HIT_REVIEW"), Notify("COMPLIANCE_OFFICER"),
      RaiseAlert("CRITICAL")>>) >>

APPLICANT_RULES == ScreeningRules \o DocumentRules \o RiskRules \o WorkflowRules

COMPANY_RULES == <<
  Rule("company-dissolved", "COMPANY", 50,
    If("company.status", "in", {"DISSOLVED", "LIQUIDATION"}),
    <<AutoReject("COMPANY_DISSOLVED"), AddRisk(60)>>),
  Rule("ubo-chain-unresolved", "COMPANY", 120,
    AnyOf(<<On("company.uboUnresolved"),
            If("company.unresolvedOwnershipPercent", "gte", 25)>>),
    <<ManualReview, RejectLabel("UBO_UNRESOLVED"), AddRisk(55),
      Queue("kyb-review")>>),
  Rule("nominee-shareholders-present", "COMPANY", 121,
    On("company.hasNomineeShareholders"),
    <<Do("REQUIRE_EDD"), AddRisk(40), Do("REQUEST_DOCUMENT")>>),
  Rule("offshore-layering", "COMPANY", 122,
    AllOf(<<If("company.offshoreLayerCount", "gte", 2),
            If("company.uboDepth", "gte", 3)>>),
    <<Do("REQUIRE_EDD"), AddRisk(45)>>),
  Rule("sanctioned-ubo", "COMPANY", 3,
    If("company.sanctionedOwnershipPercent", "gte", 50),
    <<AutoReject("SANCTIONS_MATCH"), AddRisk(100), Notify("MLRO")>>),
  Rule("shell-company-indicators", "COMPANY", 130,
    AtLeast(3, <<If("company.employeeCount", "lte", 1),
                 On("company.hasRegisteredOfficeOnly"),
                 If("company.incorporatedDaysAgo", "lt", 90),
                 If("company.filingsCount", "eq", 0),
                 If("company.sharedAddressCompanyCount", "gte", 20)>>),
    <<ManualReview, AddRisk(50), Queue("kyb-review")>>) >>

CounterpartyRules == <<
  Rule("sanctioned-counterparty", "TRANSACTION", 400,
    AnyOf(<<On("tx.counterpartySanctioned"),
            If("tx.counterpartyCountry", "in", EMBARGOED_COUNTRIES)>>),
    <<Do("BLOCK_TRANSACTION"), RaiseAlert("CRITICAL"),
      OpenCase("TRANSACTION_ALERT"), Notify("MLRO")>>),
  Rule("wallet-illicit-exposure", "TRANSACTION", 401,
    AllOf(<<If("tx.walletCategories", "containsAny",
               {"darknet", "mixer", "ransomware", "sanctioned-entity",
                "stolen-funds", "terrorism-financing"}),
            If("tx.walletExposureHops", "lte", 2)>>),
    <<Do("BLOCK_TRANSACTION"), RaiseAlert("CRITICAL"),
      OpenCase("TRANSACTION_ALERT")>>),
  Rule("unverified-customer-transacting", "TRANSACTION", 402,
    AllOf(<<If("applicant.reviewStatus", "nin", {"APPROVED"}),
            If("tx.amountBase", "gt", 0)>>),
    <<Do("BLOCK_TRANSACTION"), RaiseAlert("HIGH")>>) >>

PatternRules == <<
  Rule("structuring-below-threshold", "TRANSACTION", 410,
    AllOf(<<If("agg.count24h", "gte", 3),
            If("tx.amountBase", "between", <<8000, 10000>>),
            If("agg.sum24h", "gte", 24000)>>),
    <<Do("FLAG_TRANSACTION"), RaiseAlert("HIGH"),
      OpenCase("TRANSACTION_ALERT")>>),
  Rule("velocity-spike", "TRANSACTION", 411,
    AllOf(<<If("agg.sum24h", "gt", 0), If("agg.baselineDailyAvg", "gt", 0),
            If("agg.sum24hOverBaseline", "gte", 5)>>),
    <<Do("FLAG_TRANSACTION"), RaiseAlert("MEDIUM")>>),
  Rule("rapid-in-out-passthrough", "TRANSACTION", 412,
    AllOf(<<If("tx.direction", "eq", "OUTBOUND"),
            If("agg.minutesSinceLastInbound", "lte", 60),
            If("agg.outboundToInboundPercent", "gte", 90),
            If("tx.amountBase", "gte", 1000)>>),
    <<Do("FLAG_TRANSACTION"), RaiseAlert("HIGH")>>),
  Rule("first-transaction-large", "TRANSACTION", 420,
    AllOf(<<If("agg.lifetimeCount", "lte", 1),
            If("tx.amountBase", "gte", 10000)>>),
    <<Do("HOLD_TRANSACTION"), RaiseAlert("MEDIUM")>>),
  Rule("high-risk-jurisdiction-transfer", "TRANSACTION", 421,
    AllOf(<<If("tx.counterpartyCountry", "in", FATF_BLACKLIST \cup FATF_GREYLIST),
            If("tx.amountBase", "gte", 1000)>>),
    <<Do("FLAG_TRANSACTION"), RaiseAlert("MEDIUM")>>),
  Rule("travel-rule-threshold", "TRANSACTION", 430,
    AllOf(<<On("tx.isCrypto"), If("tx.amountBase", "gte", 1000)>>),
    <<[type |-> "SET_FACT", value |-> TRUE,
       name |-> "tx.travelRuleRequired"]>>) >>

TRANSACTION_RULES == CounterpartyRules \o PatternRules

SUPPORT_RULES == <<
  Rule("final-rejection-appeals-need-human", "SUPPORT_ROUTING", 10,
    AllOf(<<If("ticket.intent", "eq", "APPEAL_DECISION"),
            If("applicant.reviewStatus", "eq", "REJECTED_FINAL")>>),
    <<Do("REQUIRE_HUMAN_HANDOFF"), OpenCase("APPEAL")>>),
  Rule("screening-disputes-need-human", "SUPPORT_ROUTING", 11,
    If("ticket.intent", "eq", "SCREENING_DISPUTE"),
    <<Do("REQUIRE_HUMAN_HANDOFF"), Queue("aml-hits")>>),
  Rule("data-subject-rights-need-human", "SUPPORT_ROUTING", 12,
    If("ticket.intent", "in", {"DATA_DELETION", "DATA_CORRECTION"}),
    <<Do("REQUIRE_HUMAN_HANDOFF"), OpenCase("DATA_SUBJECT_REQUEST")>>),
  Rule("fraud-reports-need-human", "SUPPORT_ROUTING", 13,
    If("ticket.intent", "eq", "FRAUD_REPORT"),
    <<Do("REQUIRE_HUMAN_HANDOFF"), OpenCase("FRAUD_INVESTIGATION"),
      Notify("COMPLIANCE_OFFICER")>>),
  Rule("repeat-contact-escalates", "SUPPORT_ROUTING", 20,
    If("ticket.priorTicketsSameIntent", "gte", 2), <<Do("ESCALATE")>>),
  Rule("complaints-escalate", "SUPPORT_ROUTING", 21,
    AnyOf(<<If("ticket.intent", "eq", "COMPLAINT"),
            If("ticket.sentimentPercent", "lte", -60),
            On("ticket.mentionsRegulator")>>),
    <<Do("REQUIRE_HUMAN_HANDOFF"), Queue("complaints")>>),
  Rule("routine-status-questions-stay-with-agent", "SUPPORT_ROUTING", 100,
    If("ticket.intent", "in",
       {"VERIFICATION_STATUS", "UPLOAD_HELP", "TIMELINE_QUESTION",
        "DOCUMENT_REJECTED", "LIVENESS_FAILURE", "TECHNICAL_ISSUE"}),
    <<Do("ROUTE_TO_SUPPORT_AGENT")>>) >>
=============================================================================
