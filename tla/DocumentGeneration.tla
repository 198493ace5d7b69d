------------------------- MODULE DocumentGeneration -------------------------
(***************************************************************************)
(* The function behind the document generation API                         *)
(* (document-generation/generate-document.ts): a container of it takes one *)
(* request at a time, validates it, makes the document and answers.        *)
(*                                                                         *)
(* A request is [type, fields, package, popComplete, estimate]: the        *)
(* document type or "none", the top level fields of the payload, and of    *)
(* the values of those fields what the documents are made from: the        *)
(* package of a Description of Work, whether the period of performance has *)
(* all its parts, and the estimate of a cost estimate.                     *)
(***************************************************************************)
EXTENDS DowSecurity, DocumentPayloads, IgceWorkbook

CONSTANT Requests

VARIABLES request,   \* the request in the container, or Idle
          response   \* its answer, or NoAnswer

vars == <<request, response>>

IsRequest(r) == IsPackage(r.package) /\ IsEstimate(r.estimate) /\ r.popComplete \in BOOLEAN

ASSUME RequestsAssumption == \A r \in Requests : IsRequest(r)

Idle == [type |-> "idle"]
NoAnswer == [status |-> 0]

IsIdle == request.type = "idle"

Init == request = Idle /\ response = NoAnswer

Receive ==
  /\ IsIdle
  /\ request' \in Requests
  /\ UNCHANGED response

Answer(status, document) ==
  /\ response' = [status |-> status, document |-> document]
  /\ UNCHANGED request

Fail(status) == Answer(status, [kind |-> "error"])

Waiting(type) == ~IsIdle /\ response = NoAnswer /\ request.type = type

\* The validator, and the default of the switch for a request without a type.
Reject ==
  /\ ~IsIdle
  /\ response = NoAnswer
  /\ ~Validates(request) \/ request.type = "none"
  /\ Fail(400)

\* The types that each of the functions getPDFDocumentTemplates, getExcelTemplatePath
\* and getDocxTemplate has a template for; they throw for any other.
PdfTemplates == {"DESCRIPTION_OF_WORK_PDF"}
WorkbookTemplates == {"INDEPENDENT_GOVERNMENT_COST_ESTIMATE"}
WordTemplates ==
  {"DESCRIPTION_OF_WORK_DOCX", "INCREMENTAL_FUNDING_PLAN", "EVALUATION_MEMO", "EVALUATION_PLAN",
   "REQUIREMENTS_CHECKLIST", "JUSTIFICATION_AND_APPROVAL", "MARKET_RESEARCH_REPORT"}

\* generateDocument of chromium.ts: does the browser start and print?  Its errors
\* are logged, and nothing is returned.
Prints == BOOLEAN

\* Mutant: an empty answer of the browser is not noticed.
PdfUnchecked ==
  /\ Waiting("DESCRIPTION_OF_WORK_PDF")
  /\ Validates(request)
  /\ Answer(200, [kind |-> "pdf"]) \/ Fail(200)

\* generatePdf: the browser may fail to start or to print, whatever the payload is.
GeneratePdf ==
  /\ Waiting("DESCRIPTION_OF_WORK_PDF")
  /\ Validates(request)
  /\ \E printed \in Prints :
       IF request.type \in PdfTemplates /\ printed THEN Answer(200, [kind |-> "pdf"]) ELSE Fail(500)

\* The fields that the data of this request make the code and the template read
\* are all there.
Reads(more) == Needs(request.type) \cup more \subseteq request.fields

\* The instances without a classification level make the security requirements
\* throw, after the tasks left them out.
PackageFails(package) ==
  \E i \in DOMAIN package.instances : package.instances[i].level = "absent"

\* doGenerate of dow-document.ts
DowDocument(package) ==
  LET pops == TaskPops(package)
      columns == Columns(package.options)
  IN [kind |-> "dow",
      popPeriods |-> OptionGroups(package.options),
      hasXaas |-> HasXaas(package),
      columns |-> columns,
      table |-> PopTable(pops, columns),
      cdrls |-> Cdrls(AllPopTasks(pops), package.contract),
      sr |-> SecurityRequirements(package)]

\* generateXlsx, generateIGCEDocument
GenerateXlsx ==
  /\ Waiting("INDEPENDENT_GOVERNMENT_COST_ESTIMATE")
  /\ Validates(request)
  /\ IF request.type \in WorkbookTemplates /\ Reads({}) /\ ~WorkbookFails(request.estimate)
       THEN Answer(200, [kind |-> "igce", workbook |-> Workbook(request.estimate)])
       ELSE Fail(500)

\* generateDowDocument
GenerateDow ==
  /\ Waiting("DESCRIPTION_OF_WORK_DOCX")
  /\ Validates(request)
  /\ \E more \in {{}, MayNeed(request.type)} :
       IF /\ request.type \in WordTemplates
          /\ Reads(more) /\ request.popComplete /\ ~PackageFails(request.package)
         THEN Answer(200, DowDocument(request.package))
         ELSE Fail(500)

\* The payloads that a generator refuses before it reads them.
Refuses(type, fields) ==
  \/ type = "INCREMENTAL_FUNDING_PLAN" /\ "fundingDocument" \notin fields
  \/ type = "REQUIREMENTS_CHECKLIST" /\ "periodOfPerformance" \notin fields

\* The documents with a text of their period of performance.
HasPopText == {"REQUIREMENTS_CHECKLIST", "JUSTIFICATION_AND_APPROVAL"}

\* The other branches of generateDocxDocument.
GenerateWord ==
  /\ request.type \in DocumentTypes \ {"DESCRIPTION_OF_WORK_PDF", "DESCRIPTION_OF_WORK_DOCX",
                                       "INDEPENDENT_GOVERNMENT_COST_ESTIMATE"}
  /\ response = NoAnswer
  /\ Validates(request)
  /\ \/ Refuses(request.type, request.fields) /\ Fail(400)
     \/ /\ ~Refuses(request.type, request.fields)
        /\ \E more \in {{}, MayNeed(request.type)} :
             IF /\ request.type \in WordTemplates
                /\ Reads(more)
                /\ request.type \in HasPopText => request.popComplete
               THEN Answer(200, [kind |-> "word"])
               ELSE Fail(500)

\* The answer is sent and the container is free for the next request.
Reply ==
  /\ ~IsIdle
  /\ response # NoAnswer
  /\ request' = Idle
  /\ response' = NoAnswer

Next == Receive \/ Reject \/ GeneratePdf \/ GenerateXlsx \/ GenerateDow \/ GenerateWord \/ Reply

Spec == Init /\ [][Next]_vars
-----------------------------------------------------------------------------
Answers == {"error", "pdf", "igce", "dow", "word"}

\* A container holds a request of the API and at most one answer to it, of one of
\* the three statuses the function gives.
TypeOK ==
  /\ request = Idle \/ IsRequest(request)
  /\ \/ response = NoAnswer
     \/ /\ request # Idle
        /\ response.status \in {200, 400, 500}
        /\ response.document.kind \in Answers
        /\ response.status = 200 <=> response.document.kind # "error"

Made(kind) == response # NoAnswer /\ response.document.kind = kind

\* The instances that have a section in the text of a Description of Work.
Levelled(instances) == Filter(instances, LAMBDA x : x.level \in ToSet(ClassificationLevels))

\* The section of the text under which an instance is described.
Section(x) ==
  LET level == Position(x.level, ClassificationLevels)
  IN CASE x.group = "PORTABILITY_PLAN" -> <<4, 3, level>>
       [] x.group \in ToSet(CloudSupportGroups) -> <<4, 3, level, Position(x.group, CloudSupportGroups)>>
       [] OTHER -> <<4, 2, level, Position(x.group, XaasServiceGroups)>>

\* The columns for what x needs: the k-th option period is OPk.
NeededIn(x, options) ==
  IF x.entire
    THEN 0..Len(options)
    ELSE {IF p.type = "BASE" THEN 0 ELSE Cardinality({o \in ToSet(options) : o.order <= p.order})
            : p \in ToSet(x.periods)}

\* The numbers of all tasks in the PoP table.
TableNumbers(table) == UNION {ToSet(table[r].numbers) : r \in DOMAIN table}

\* The places of a task number in the table.
PlacesOf(number, table) ==
  {place \in (DOMAIN table) \X (1..Len(request.package.instances) + 1) :
     place[2] \in DOMAIN table[place[1]].numbers /\ table[place[1]].numbers[place[2]] = number}

\* Section 7 of a Description of Work agrees with section 4: the k-th instance
\* described in a section is in the PoP table exactly once, as k of that section, with
\* an X in exactly the periods it is needed in, through the sorting by level and
\* group, the numbering and the grouping by equal periods of getTaskPeriods; portability
\* plans, which share the number of their level, and the cross domain solution are
\* there as often as they are needed, and nothing else is.  The text has a section on
\* services, which another function decides, if and only if the table has a task of one.
PopTableIsExact ==
  Made("dow") =>
    LET package == request.package
        table == response.document.table
        levelled == Levelled(package.instances)
        Nth(i) == Cardinality({j \in 1..i : Section(levelled[j]) = Section(levelled[i])})
        Marked(places, columns) == {place \in places : table[place[1]].marks = columns}
        IsPlan(i) == levelled[i].group = "PORTABILITY_PLAN"
    IN /\ \A i \in DOMAIN levelled :
            LET columns == NeededIn(levelled[i], package.options)
                alike == {j \in DOMAIN levelled : /\ Section(levelled[j]) = Section(levelled[i])
                                                  /\ NeededIn(levelled[j], package.options) = columns}
                number == IF IsPlan(i) THEN Section(levelled[i]) ELSE Append(Section(levelled[i]), Nth(i))
                places == PlacesOf(number, table)
            IN /\ Cardinality(Marked(places, columns)) = (IF IsPlan(i) THEN Cardinality(alike) ELSE 1)
               /\ ~IsPlan(i) => Cardinality(places) = 1
       /\ LET places == PlacesOf(CdsNumber, table)
          IN IF package.cds.required
               THEN places # {} /\ Marked(places, NeededIn(package.cds, package.options)) = places
               ELSE places = {}
       /\ response.document.hasXaas <=> \E n \in TableNumbers(table) : n[2] = 2
       /\ SumOf([r \in DOMAIN table |-> Len(table[r].numbers)])
            = Len(levelled) + (IF package.cds.required THEN 1 ELSE 0)

\* The CLINs of the contract for a level, under firm fixed price and under time and
\* materials.
FfpClins == <<1, 1, 1, 3, 5>>
TmClins == <<17, 17, 17, 19, 21>>

\* The data requirements of a Description of Work are those that its package calls
\* for, with the tasks and the CLINs of the levels they are needed at, though
\* getCDRLs reads them off the first seven characters of the task numbers: those of
\* a service with a two digit group never count as another service.
CdrlsMatchPackage ==
  Made("dow") =>
    LET package == request.package
        levelled == ToSet(Levelled(package.instances))
        LevelsOf(groups) == {Position(x.level, ClassificationLevels) : x \in
                               {y \in levelled : y.group \in groups}}
        ClinsAt(levels, more) ==
          (IF package.contract.firmFixedPrice THEN {FfpClins[l] + more : l \in levels} ELSE {})
          \cup (IF package.contract.timeAndMaterials THEN {TmClins[l] + more : l \in levels} ELSE {})
        Required(code, groups, tasks, more) ==
          LET clins == ClinsAt(LevelsOf(groups), more)
          IN IF clins = {} THEN {} ELSE {[code |-> code, tasks |-> tasks, clins |-> clins]}
        Trained == {<<4, 3, l, 3>> : l \in LevelsOf({"TRAINING"})}
    IN response.document.cdrls =
         Required("A004", {"TRAINING"}, Trained, 1)
         \cup Required("A005", {"TRAINING"}, Trained, 1)
         \cup Required("A012", ToSet(XaasServiceGroups), {<<"ANY">>}, 0)
         \cup Required("A006", {"PORTABILITY_PLAN"},
                       {<<4, 3, l>> : l \in LevelsOf({"PORTABILITY_PLAN"})}, 0)
         \cup Required("A017", {"EDGE_COMPUTING"},
                       {<<4, 2, l, 9>> : l \in LevelsOf({"EDGE_COMPUTING"})}, 0)

\* The class of the tasks of a level, by the third part of their number.
TaskClass(number) == IF number[3] = 5 THEN "TS" ELSE IF number[3] = 4 THEN "S" ELSE "U"

\* Tasks of the services with an array of their own in the payload.
IsOwnArrayTask(number) ==
  Len(number) = 5 /\ number[2] = 2 /\ XaasServiceGroups[number[4]] \in ToSet(OwnArrays)

\* The security section follows the tasks, two readings of one payload: if the
\* PoP table has a secret or top secret task of a selected service or a support package, the
\* section is printed with the part for that class, which names every type of
\* information that its services deal with; and no such part is printed
\* without a task.
SecurityCoversTasks ==
  Made("dow") =>
    LET sr == response.document.sr
        classes == {TaskClass(n) : n \in {t \in TableNumbers(response.document.table) :
                                           t # CdsNumber /\ ~IsOwnArrayTask(t)}} \ {"U"}
        Listed(group, class) ==
          IF class = "TS" THEN sr.types[group].ts ELSE sr.types[group].secret
    IN /\ classes # {} => sr.needed
       /\ sr.offering \cup sr.support = classes
       /\ \A x \in ToSet(request.package.instances) :
            x.group \in NamedGroups /\ Class(x) \in Classified => x.info \subseteq Listed(x.group, Class(x))

\* A test of getSecurityRequirements says of containsTopSecretOffering that it is
\* true if there is more than one top secret instance (dow.test.ts:392).
TopSecretOfferingIsFound ==
  /\ Made("dow")
  /\ Cardinality({n \in TableNumbers(response.document.table) : n[2] = 2 /\ n[3] = 5}) > 1
  => "TS" \in response.document.sr.offering

\* The text of the period of performance and the columns of the PoP table, which
\* two functions derive from the option periods in whatever order they are sent,
\* speak of the same periods: the text counts every option period once, in the order
\* of the columns, and joins exactly the neighbours of one length.
PopTextMatchesTable ==
  Made("dow") =>
    LET groups == response.document.popPeriods
        told == FlattenSeq(groups)
        options == request.package.options
        InColumn(k) == CHOOSE o \in ToSet(options) :
                         Cardinality({q \in ToSet(options) : q.order <= o.order}) = k
    IN /\ response.document.columns = [c \in 1..Len(options) + 1 |-> c - 1]
       /\ told = [k \in DOMAIN options |-> InColumn(k)]
       /\ \A g \in DOMAIN groups : \A i \in DOMAIN groups[g] : groups[g][i].length = groups[g][1].length
       /\ \A g \in 1..Len(groups) - 1 : groups[g][1].length # groups[g + 1][1].length

\* The line items of a period that are priced under a CLIN.
PricedUnder(period, clin) ==
  SumOf([i \in DOMAIN period.items |->
           IF period.items[i].clin.code = clin.code
             THEN period.items[i].price * period.items[i].quantity ELSE 0])

\* If no CLIN has spaces around it and no period has more CLINs than its sheet has lines,
\* every row of the summary that still has its CLIN shows what the line items of that
\* CLIN cost in each period.  If moreover all the periods have no more CLINs than the
\* summary has lines, it has each CLIN once, and the grand total is the sum of all line
\* items with its fees, whatever the number and the order of the line items and periods.
SummaryMatchesLineItems ==
  Made("igce") =>
    LET periods == request.estimate.periods
        workbook == response.document.workbook
        summary == workbook.summary
        ItemClins(p) == {periods[p].items[i].clin : i \in DOMAIN periods[p].items}
        clins == UNION {ItemClins(p) : p \in DOMAIN periods}
        all == SumOf([p \in DOMAIN periods |->
                        SumOf([i \in DOMAIN periods[p].items |->
                                 periods[p].items[i].price * periods[p].items[i].quantity])])
        agency == IF request.estimate.ditco THEN 100 ELSE 101
    IN (\A c \in clins : ~c.padded) /\ (\A p \in DOMAIN periods : Cardinality(ItemClins(p)) <= ClinLines)
       => /\ \A r \in DOMAIN summary : summary[r].clin \in clins =>
               \A p \in DOMAIN periods :
                 summary[r].amounts[SheetOf(periods[p])] = PricedUnder(periods[p], summary[r].clin)
          /\ Cardinality(clins) <= SummaryLines =>
               /\ {summary[r].clin : r \in DOMAIN summary} = clins
               /\ Len(summary) = Cardinality(clins)
               /\ workbook.grandTotal =
                    all * (100 + request.estimate.surge) * agency * (100 + request.estimate.fee)

\* The types whose template is filled from the payload by its fields.
IsFilled(type) == type \in DocumentTypes \ {"DESCRIPTION_OF_WORK_PDF"}

\* The validator checks the type and the payload independently of each other, yet a
\* Word document or a workbook is made only from a payload of its own type, except
\* that the payload of an evaluation memo, whose schema includes that of the plan, may
\* make a plan; and a payload of its own type in which every field has a usable value
\* is never refused: no template needs a field that the schema does not allow.
PayloadsMatchTypes ==
  response # NoAnswer /\ IsFilled(request.type) =>
    LET own == SchemaOf(request.type)
    IN /\ response.status = 200 =>
            \/ request.fields \subseteq own
            \/ request.type = "EVALUATION_PLAN" /\ request.fields \subseteq EvalMemo
       /\ (/\ request.fields = own
           /\ request.popComplete
           /\ ~PackageFails(request.package)
           /\ ~WorkbookFails(request.estimate))
          => response.status = 200

-----------------------------------------------------------------------------
(***************************************************************************)
(* The inductive invariant.  A Description of Work is that of the package  *)
(* in the container, and a workbook that of the estimate: what is to be    *)
(* shown of their parts, of anything that a request may have, is then      *)
(* shown of the functions they are made by.                                *)
(***************************************************************************)
IsDowOfPackage == Made("dow") => response.document = DowDocument(request.package)

IsWorkbookOfEstimate ==
  Made("igce") =>
    /\ response.document.workbook = Workbook(request.estimate)
    /\ ~WorkbookFails(request.estimate)

IInv ==
  /\ TypeOK
  /\ IsIdle => response = NoAnswer
  /\ PayloadsMatchTypes
  /\ IsDowOfPackage
  /\ IsWorkbookOfEstimate
=============================================================================
