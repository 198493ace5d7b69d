------------------------------ MODULE DowTasks ------------------------------
(***************************************************************************)
(* The tasks of a Description of Work (document-generation/utils/dow.ts):  *)
(* their numbers, the periods each is needed in, the groups of tasks with  *)
(* equal periods that make the rows of the PoP table, and the data         *)
(* requirements (CDRLs) that the task numbers call for.                    *)
(*                                                                         *)
(* The payload is abstracted to what these functions test.  An instance of *)
(* a service or a cloud support package is [group, level, entire, periods, *)
(* info]: its service group, its classification level, whether it is       *)
(* needed for the entire duration, the periods selected for it, and the    *)
(* types of classified information it deals with.  The arrays of the       *)
(* payload are one sequence, from which each function takes what its array *)
(* holds; a selected service with several classification instances is      *)
(* several elements.  A task number such as 4.2.1.9.2 is a sequence.       *)
(***************************************************************************)
EXTENDS PopPeriods

\* The positions in the two lists are parts of the task numbers.
XaasServiceGroups == <<"COMPUTE", "DEVELOPER_TOOLS", "APPLICATIONS", "MACHINE_LEARNING",
  "NETWORKING", "SECURITY", "DATABASE", "STORAGE", "EDGE_COMPUTING", "IOT", "GENERAL_XAAS">>

CloudSupportGroups == <<"ADVISORY_ASSISTANCE", "HELP_DESK_SERVICES", "TRAINING",
  "DOCUMENTATION_SUPPORT", "GENERAL_CLOUD_SUPPORT">>

ClassificationLevels == <<"IL2", "IL4", "IL5", "IL6", "TS">>

SupportTypes == ToSet(CloudSupportGroups) \cup {"PORTABILITY_PLAN"}

\* The services with an array of their own in the payload, in the order in which
\* getTaskPeriods goes through them; all others are selected services.
OwnArrays == <<"COMPUTE", "DATABASE", "STORAGE", "GENERAL_XAAS">>

\* The value of a classification level without an impact level that is not top
\* secret; the functions that sort by level leave its instances out.
Unset == "unset"

Position(e, seq) == CHOOSE i \in DOMAIN seq : seq[i] = e

IsSupport(instance) == instance.group \in SupportTypes

IsSelected(instance) == ~IsSupport(instance) /\ instance.group \notin ToSet(OwnArrays)

\* An instance of the payload.  Its level is that of its classification level, or
\* "absent" if it has none.
IsInstance(x) ==
  /\ x.group \in ToSet(XaasServiceGroups) \cup SupportTypes
  /\ x.level \in ToSet(ClassificationLevels) \cup {Unset, "absent"}
  /\ x.entire \in BOOLEAN
  /\ AreSelected(x.periods)

\* The cross domain solution of the payload.
IsCds(cds) == cds.required \in BOOLEAN /\ cds.entire \in BOOLEAN /\ AreSelected(cds.periods)

OfArray(instances, group) == Filter(instances, LAMBDA x : x.group = group)

-----------------------------------------------------------------------------
\* The groups of instances in the order of their first one, as the keys of an
\* object come (sortSelectedServicesByGroups, sortSupportPackagesByGroups).
GroupsInOrder(instances) == Distinct([i \in DOMAIN instances |-> instances[i].group])

\* getSelectedInstances and its siblings: what one level of one group holds.
AtLevel(instances, group, level) ==
  Filter(instances, LAMBDA x : x.group = group /\ x.level = level)

\* dowTaskNumber of getInstancePop.  A portability plan ends at its level.
TaskNumber(instance, index) ==
  LET level == Position(instance.level, ClassificationLevels)
  IN CASE instance.group = "PORTABILITY_PLAN" -> <<4, 3, level>>
       [] instance.group \in ToSet(CloudSupportGroups) ->
            <<4, 3, level, Position(instance.group, CloudSupportGroups), index>>
       [] OTHER -> <<4, 2, level, Position(instance.group, XaasServiceGroups), index>>

\* getInstancePop: a task with its number and its periods.
InstancePop(instance, index) ==
  [number |-> TaskNumber(instance, index),
   entire |-> instance.entire,
   periods |-> Labels(Ordered(instance.periods))]

\* The tasks of instances: level by level, in each level group by group, and
\* numbered within both.
InstancePops(instances) ==
  LET groups == GroupsInOrder(instances)
      PopsAt(level, group) ==
        LET there == AtLevel(instances, group, level)
        IN [i \in DOMAIN there |-> InstancePop(there[i], i)]
  IN FlattenSeq([l \in DOMAIN ClassificationLevels |->
       FlattenSeq([g \in DOMAIN groups |-> PopsAt(ClassificationLevels[l], groups[g])])])

CdsNumber == <<4, 2, 6>>

\* The cross domain solution.  "B" is among its periods only if one selected
\* period is the base period.
CdsPops(cds) ==
  LET bases == Filter(cds.periods, LAMBDA p : p.type = "BASE")
      options == Filter(Ordered(cds.periods), LAMBDA p : p.type = "OPTION")
  IN CASE ~cds.required -> <<>>
       [] cds.required /\ cds.entire ->
            <<[number |-> CdsNumber, entire |-> TRUE, periods |-> <<>>]>>
       [] OTHER ->
            <<[number |-> CdsNumber, entire |-> FALSE,
               periods |-> (IF Len(bases) = 1 THEN <<0>> ELSE <<>>) \o Labels(options)]>>

\* allPackageTasks of getTaskPeriods.
TaskPops(package) ==
  FlattenSeq([a \in DOMAIN OwnArrays |-> InstancePops(OfArray(package.instances, OwnArrays[a]))])
  \o InstancePops(Filter(package.instances, IsSelected))
  \o CdsPops(package.cds)
  \o InstancePops(Filter(package.instances, IsSupport))

\* xaasServiceExists: is there an instance of a level that the arrays are sorted into?
HasXaas(package) ==
  \/ package.cds.required
  \/ \E x \in ToSet(package.instances) : ~IsSupport(x) /\ x.level \in ToSet(ClassificationLevels)

-----------------------------------------------------------------------------
\* Mutant: the lengths are not compared.
CoversPeriods(group, periods) == ToSet(periods) \subseteq ToSet(group.periods)

\* hasSameSelectedPeriods
SamePeriods(group, periods) ==
  /\ Len(group.periods) = Len(periods)
  /\ ToSet(periods) \subseteq ToSet(group.periods)

\* One turn of groupSelectedTaskPeriods: a task that is not needed for the entire
\* duration joins the first group of its periods, or starts one.
JoinTasks(groups, pop) ==
  LET first == SelectInSeq(groups, LAMBDA g : SamePeriods(g, pop.periods))
  IN CASE pop.entire -> groups
       [] ~pop.entire /\ first # 0 ->
            [groups EXCEPT ![first].numbers = Append(@, pop.number)]
       [] OTHER -> Append(groups, [numbers |-> <<pop.number>>, periods |-> pop.periods])

TaskNumberGroups(pops) == FoldLeft(JoinTasks, <<>>, pops)

NumbersOf(pops) == [i \in DOMAIN pops |-> pops[i].number]

EntireDurationTasks(pops) == NumbersOf(Filter(pops, LAMBDA p : p.entire))

\* popTableBody: a row has its task numbers and the columns marked with an X.
PopTable(pops, columns) ==
  LET groups == TaskNumberGroups(pops)
  IN <<[numbers |-> EntireDurationTasks(pops), marks |-> ToSet(columns)]>>
     \o [g \in DOMAIN groups |->
           [numbers |-> groups[g].numbers,
            marks |-> ToSet(columns) \cap ToSet(groups[g].periods)]]

\* allPopTasks
AllPopTasks(pops) ==
  LET groups == TaskNumberGroups(pops)
  IN EntireDurationTasks(pops) \o FlattenSeq([g \in DOMAIN groups |-> groups[g].numbers])

-----------------------------------------------------------------------------
\* Mutant: the instance number is not removed.
WholeNumber(number) == number

\* The first seven characters of a task number: of a group with two digits they
\* hold the first one.
Cut(number) ==
  IF Len(number) < 4
    THEN number
    ELSE SubSeq(number, 1, 3) \o
           <<IF number[4] >= 10 THEN number[4] \div 10 ELSE number[4]>>

\* x001, x003 and x005: levels up to IL5, IL6 and top secret.
LevelClin(level) == IF level <= 3 THEN 1 ELSE 2 * level - 5

\* The CLINs of level under each type of contract, those of training being one
\* higher.
Clins(level, contract) ==
  (IF contract.firmFixedPrice THEN {LevelClin(level)} ELSE {})
  \cup (IF contract.timeAndMaterials THEN {LevelClin(level) + 16} ELSE {})

TrainingClins(level, contract) == {clin + 1 : clin \in Clins(level, contract)}

\* A CDRL for the tasks found, if a type of contract asks for any.
Cdrl(code, tasks, clins) ==
  IF tasks = {} \/ clins = {} THEN {} ELSE {[code |-> code, tasks |-> tasks, clins |-> clins]}

\* getCDRLs: training materials, progress report, portability plan and device
\* specifications of the technical edge.
Cdrls(numbers, contract) ==
  LET cuts == {Cut(numbers[i]) : i \in DOMAIN numbers}
      levels == 1..Len(ClassificationLevels)
      At(part) == {t \in cuts : \E l \in levels : t = <<4, part[1], l>> \o Tail(part)}
      portability == At(<<3>>)
      training == At(<<3, 3>>)
      edge == At(<<2, 9>>)
      ClinsOf(tasks) == UNION {Clins(t[3], contract) : t \in tasks}
      trainingClins == UNION {TrainingClins(t[3], contract) : t \in training}
  IN Cdrl("A004", training, trainingClins)
     \cup Cdrl("A005", training, trainingClins)
     \cup Cdrl("A012", {<<"ANY">>}, ClinsOf({t \in cuts : t[2] = 2 /\ t[3] \in levels}))
     \cup Cdrl("A006", portability, ClinsOf(portability))
     \cup Cdrl("A017", edge, ClinsOf(edge))
=============================================================================
