-------------------------- MODULE DocumentPayloads --------------------------
(***************************************************************************)
(* The payloads of the document generation API: the schemas that the       *)
(* validator holds a request against (models/document-generation.ts), and  *)
(* what each Word template and the code before it read of a payload.       *)
(*                                                                         *)
(* A payload is the set of its top level fields.  No schema requires a     *)
(* field and none allows a field that it does not name.  A field that is   *)
(* there has a usable value: the nulls that some schemas allow, and with   *)
(* which some generators throw, are not modelled.                          *)
(***************************************************************************)
EXTENDS FiniteSets

DescriptionOfWork ==
  {"awardHistory", "contractInformation", "toTitle", "scope", "surgeRequirementCapacity",
   "surgeRequirementCapabilities", "currentEnvironment", "selectedClassificationLevels",
   "architecturalDesignRequirement", "xaasOfferings", "crossDomainSolutions",
   "cloudSupportPackages", "contractType", "periodOfPerformance", "securityRequirements",
   "contractConsiderations", "sensitiveInformation"}

IndependentGovernmentCostEstimate ==
  {"fundingDocument", "surgeCapabilities", "periodsEstimate", "instructions", "contractingShop"}

IncrementalFundingPlan ==
  {"requirementsTitle", "missionOwner", "primaryContact", "agency", "organization",
   "financialPoc", "estimatedTaskOrderValue", "initialAmount", "remainingAmount",
   "fundingIncrements", "fundingDocument", "scheduleText", "contractNumber", "taskOrderNumber"}

EvalPlan ==
  {"taskOrderTitle", "sourceSelection", "method", "standardSpecifications",
   "customSpecifications", "standardDifferentiators", "customDifferentiators"}

EvalMemo ==
  {"title", "estimatedValueFormatted", "exceptionToFairOpportunity", "proposedVendor"} \cup EvalPlan

RequirementsCheckList ==
  {"gtcNumber", "projectOverview", "organization", "contacts", "currentContract",
   "exceptionToFairOpportunity", "periodOfPerformance", "contractType", "sensitiveInformation"}

JustificationAndApproval ==
  {"cor", "technicalPoc", "requirementsPoc", "periodOfPerformance", "fairOpportunity",
   "procurementHistory", "fundingRequestFiscalYear", "otherContractingShopFullAddress", "title",
   "jwccContractNumber", "estimatedValue", "estimatedValueFormatted", "organizationFullAddress",
   "scope", "contractingShop", "purchaseRequestNumber", "agencyLabel", "taskOrderType",
   "appropriationFundsType"}

MarketResearchReport ==
  {"researchers", "fairOpportunity", "periodOfPerformance", "techniquesUsed", "techniqueOther",
   "title", "estimatedValue", "estimatedValueFormatted", "summaryOfMarketResearch",
   "procurementHistory", "primaryPoc", "corPoc", "agencyLabel",
   "researchPersonalKnowledgePersonOrPosition"}

DocumentTypes ==
  {"DESCRIPTION_OF_WORK_PDF", "DESCRIPTION_OF_WORK_DOCX", "INDEPENDENT_GOVERNMENT_COST_ESTIMATE",
   "INCREMENTAL_FUNDING_PLAN", "EVALUATION_PLAN", "EVALUATION_MEMO", "REQUIREMENTS_CHECKLIST",
   "JUSTIFICATION_AND_APPROVAL", "MARKET_RESEARCH_REPORT"}

\* The schema of the payload of each type, as the interfaces of the models pair them.
SchemaOf(type) ==
  CASE type = "DESCRIPTION_OF_WORK_PDF" -> DescriptionOfWork
    [] type = "DESCRIPTION_OF_WORK_DOCX" -> DescriptionOfWork
    [] type = "INDEPENDENT_GOVERNMENT_COST_ESTIMATE" -> IndependentGovernmentCostEstimate
    [] type = "INCREMENTAL_FUNDING_PLAN" -> IncrementalFundingPlan
    [] type = "EVALUATION_PLAN" -> EvalPlan
    [] type = "EVALUATION_MEMO" -> EvalMemo
    [] type = "REQUIREMENTS_CHECKLIST" -> RequirementsCheckList
    [] type = "JUSTIFICATION_AND_APPROVAL" -> JustificationAndApproval
    [] type = "MARKET_RESEARCH_REPORT" -> MarketResearchReport

-----------------------------------------------------------------------------
\* Mutant: the validator allows additional properties.
AllowsAnyField(request) == request.type \in DocumentTypes \cup {"none"}

\* generateDocumentSchema: the type is one of the enumeration or missing, and the
\* payload fits one of the schemas, whichever it is.
Validates(request) ==
  /\ request.type \in DocumentTypes \cup {"none"}
  /\ \E type \in DocumentTypes : request.fields \subseteq SchemaOf(type)

\* The fields whose absence makes the code before the template, or the template
\* with whatever data, throw.
Needs(type) ==
  CASE type = "DESCRIPTION_OF_WORK_DOCX" ->
         DescriptionOfWork \ {"surgeRequirementCapacity", "securityRequirements"}
    [] type = "INDEPENDENT_GOVERNMENT_COST_ESTIMATE" ->
         {"periodsEstimate", "contractingShop", "instructions"}
    [] type = "INCREMENTAL_FUNDING_PLAN" ->
         IncrementalFundingPlan \ {"missionOwner", "fundingIncrements"}
    [] type = "EVALUATION_PLAN" -> {"taskOrderTitle", "sourceSelection", "method"}
    [] type = "EVALUATION_MEMO" ->
         {"title", "exceptionToFairOpportunity", "estimatedValueFormatted"}
    [] type = "REQUIREMENTS_CHECKLIST" -> RequirementsCheckList
    [] type = "JUSTIFICATION_AND_APPROVAL" ->
         JustificationAndApproval \ {"cor", "otherContractingShopFullAddress"}
    [] type = "MARKET_RESEARCH_REPORT" ->
         MarketResearchReport \ {"estimatedValue", "summaryOfMarketResearch", "corPoc",
                                 "techniqueOther", "researchPersonalKnowledgePersonOrPosition"}

\* The fields a template reads in a section that only some data print.
MayNeed(type) ==
  CASE type = "DESCRIPTION_OF_WORK_DOCX" -> {"surgeRequirementCapacity"}
    [] type = "EVALUATION_PLAN" -> EvalPlan
    [] type = "EVALUATION_MEMO" -> EvalMemo \ {"taskOrderTitle"}
    [] type = "JUSTIFICATION_AND_APPROVAL" -> {"otherContractingShopFullAddress"}
    [] type = "MARKET_RESEARCH_REPORT" ->
         {"techniqueOther", "researchPersonalKnowledgePersonOrPosition"}
    [] OTHER -> {}
=============================================================================
