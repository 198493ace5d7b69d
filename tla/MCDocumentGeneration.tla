------------------------ MODULE MCDocumentGeneration ------------------------
(***************************************************************************)
(* Requests for DocumentGeneration: packages of up to three instances,     *)
(* estimates of up to three periods, and payloads of every schema, whole   *)
(* or with one field removed, for every document type.                     *)
(***************************************************************************)
EXTENDS DocumentGeneration

Base == [type |-> "BASE", order |-> 1, length |-> 12]
Option(k, length) == [type |-> "OPTION", order |-> k + 1, length |-> length]
Op1 == Option(1, 12)
Op2 == Option(2, 6)

\* What the periods of an instance may be: the entire duration, no period, one,
\* and two of them in both orders.
PeriodNeeds == {<<TRUE, <<>>>>, <<FALSE, <<>>>>, <<FALSE, <<Base>>>>, <<FALSE, <<Op2>>>>,
           <<FALSE, <<Base, Op1>>>>, <<FALSE, <<Op1, Base>>>>}

Instance(group, level, need, info, clearance) ==
  [group |-> group, level |-> level, entire |-> need[1], periods |-> need[2],
   info |-> info, clearance |-> clearance]

Instances(groups, levels, needs) ==
  {Instance(g, l, n, IF l \in {"IL6", "TS"} THEN {"SAP"} ELSE {}, "TS_SCI") :
     g \in groups, l \in levels, n \in needs}

NoCds == [required |-> FALSE, entire |-> FALSE, periods |-> <<>>]

Package(instances, cds, options, contract, current, design) ==
  [instances |-> instances, cds |-> cds, options |-> options,
   contract |-> [firmFixedPrice |-> contract[1], timeAndMaterials |-> contract[2]],
   current |-> current, replicated |-> current # {}, design |-> design,
   access |-> [S |-> {"SAP"}, TS |-> {"SCI"}]]

Simple(instances, options) == Package(instances, NoCds, options, <<TRUE, TRUE>>, {}, {})

\* Pairs of instances: every two of the groups whose numbers look alike.
Groups == {"COMPUTE", "EDGE_COMPUTING", "IOT", "GENERAL_XAAS", "TRAINING", "PORTABILITY_PLAN"}
PairInstances ==
  Instances(Groups, {"IL2", "IL6", "TS"}, {<<TRUE, <<>>>>, <<FALSE, <<Base, Op1>>>>, <<FALSE, <<Op1, Base>>>>})
PairPackages == {Simple(<<a, b>>, <<Op2, Op1>>) : a, b \in PairInstances}

\* Three instances of one group and level, or of two.
TripleInstances == Instances({"SECURITY", "TRAINING"}, {"IL4"}, PeriodNeeds)
TriplePackages == {Simple(<<a, b, c>>, <<Op1, Op2>>) : a, b, c \in TripleInstances}

\* One instance of every group and level, without a level too, with every contract
\* and cross domain solution.
AllGroups == ToSet(XaasServiceGroups) \cup SupportTypes
AllLevels == ToSet(ClassificationLevels) \cup {"unset", "absent"}
Contracts == BOOLEAN \X BOOLEAN
Solutions == {NoCds} \cup {[required |-> TRUE, entire |-> n[1], periods |-> n[2]] : n \in PeriodNeeds}
SinglePackages ==
  {Package(<<x>>, NoCds, <<Op1, Op2>>, contract, {}, {}) :
     x \in Instances(AllGroups, AllLevels, {<<TRUE, <<>>>>, <<FALSE, <<Op2>>>>}), contract \in Contracts}
  \cup {Package(<<x>>, cds, <<Op1, Op2>>, <<TRUE, FALSE>>, {}, {}) :
          x \in Instances({"IOT"}, {"IL5"}, PeriodNeeds), cds \in Solutions}

\* The current environment and the architectural design next to a top secret service.
ContextPackages ==
  {Package(<<x>>, NoCds, <<Op1, Op2>>, <<TRUE, FALSE>>, {[class |-> c, info |-> {"SAP"}] : c \in current}, design) :
     x \in Instances({"COMPUTE", "EDGE_COMPUTING"}, {"IL2", "TS"}, {<<TRUE, <<>>>>}),
     current \in SUBSET Classified, design \in SUBSET Classified}

\* Up to three option periods of two lengths, in every order.
OptionPackages ==
  {Simple(<<Instance("IOT", "IL2", <<FALSE, <<Base>>>>, {}, "TS")>>, options) :
     options \in {<<>>} \cup {<<Option(1, l)>> : l \in {6, 12}}
       \cup UNION {UNION {{[i \in 1..n |-> Option(order[i], length[order[i]])] :
                              length \in [1..n -> {6, 12}]} :
                            order \in {f \in [1..n -> 1..n] : \A i, j \in 1..n : f[i] = f[j] => i = j}} :
                   n \in 2..3}}

AnyPackage == Simple(<<>>, <<>>)

Packages == PairPackages \cup TriplePackages \cup SinglePackages \cup ContextPackages \cup OptionPackages

-----------------------------------------------------------------------------
Clin(code) == [code |-> code, padded |-> FALSE]
Item(clin, price) == [clin |-> clin, contract |-> "FFP", price |-> price, quantity |-> 2]

\* The line items of a period: none, or up to four of five CLINs, in an order that
\* is not theirs, with one padded.
ItemLists ==
  {<<>>,
   <<Item(Clin(1), 1)>>,
   <<Item(Clin(2), 1), Item(Clin(1), 3)>>,
   <<Item(Clin(3), 1), Item(Clin(1), 3), Item(Clin(3), 5)>>,
   <<Item(Clin(2), 7), Item(Clin(1), 3), Item(Clin(2), 5), Item(Clin(1), 1)>>,
   <<Item(Clin(2), 7), Item(Clin(1), 3), Item(Clin(3), 5)>>,
   <<Item(Clin(5), 2), Item(Clin(4), 7)>>,
   <<Item([code |-> 1, padded |-> TRUE], 1), Item(Clin(1), 3)>>}

Periods(base, first, second) ==
  {<<[type |-> "BASE", order |-> 1, items |-> base]>>,
   <<[type |-> "OPTION", order |-> 2, items |-> first]>>,
   <<[type |-> "OPTION", order |-> 2, items |-> first], [type |-> "BASE", order |-> 1, items |-> base]>>,
   <<[type |-> "OPTION", order |-> 3, items |-> second], [type |-> "BASE", order |-> 1, items |-> base],
     [type |-> "OPTION", order |-> 2, items |-> first]>>,
   <<[type |-> "BASE", order |-> 1, items |-> base], [type |-> "OPTION", order |-> 4, items |-> second]>>}

Estimates ==
  {[periods |-> periods, surge |-> 20, ditco |-> ditco, fee |-> 2] :
     periods \in UNION {Periods(b, f, s) : b, f, s \in ItemLists}, ditco \in BOOLEAN}

AnyEstimate == [periods |-> <<>>, surge |-> 0, ditco |-> TRUE, fee |-> 0]

-----------------------------------------------------------------------------
\* Whole payloads, payloads with a field removed and payloads of two schemas.
Fields ==
  LET schemas == {SchemaOf(type) : type \in DocumentTypes}
  IN schemas \cup UNION {{s \ {f} : f \in s} : s \in schemas} \cup {s \cup t : s, t \in schemas}

MCRequests ==
  {[type |-> "DESCRIPTION_OF_WORK_DOCX", fields |-> DescriptionOfWork, package |-> package,
    popComplete |-> TRUE, estimate |-> AnyEstimate] : package \in Packages}
  \cup {[type |-> "INDEPENDENT_GOVERNMENT_COST_ESTIMATE", fields |-> IndependentGovernmentCostEstimate,
         package |-> AnyPackage, popComplete |-> TRUE, estimate |-> estimate] : estimate \in Estimates}
  \cup {[type |-> type, fields |-> fields, package |-> AnyPackage, popComplete |-> complete,
         estimate |-> AnyEstimate] :
          type \in DocumentTypes \cup {"none", "other"}, fields \in Fields, complete \in BOOLEAN}
=============================================================================
