---------------------------- MODULE DowSecurity -----------------------------
(***************************************************************************)
(* The security requirements of a Description of Work                      *)
(* (getSecurityRequirements of document-generation/utils/dow.ts): which of *)
(* the classified parts of the text are printed, and the types of          *)
(* classified information each names.                                      *)
(*                                                                         *)
(* Of a package the function reads, next to its instances: current, the    *)
(* instances of the current environment as [class, info]; replicated,      *)
(* whether that environment is to be replicated or optimized; design, the  *)
(* classes of the architectural design requirement; and access, the types  *)
(* of information of the selected levels of each class.  Lists of types of *)
(* information are sets.                                                   *)
(***************************************************************************)
EXTENDS DowTasks, FiniteSets

Classified == {"S", "TS"}

\* A package: what the documents are made from of an IDescriptionOfWork.
IsPackage(package) ==
  /\ IsArray(package.instances)
  /\ \A x \in ToSet(package.instances) : IsInstance(x) /\ x.clearance \in {"TS", "TS_SCI"}
  /\ IsCds(package.cds)
  /\ AreOptions(package.options)
  /\ \A x \in ToSet(package.instances) \cup {package.cds} : AreOf(x.periods, package.options)
  /\ package.contract.firmFixedPrice \in BOOLEAN /\ package.contract.timeAndMaterials \in BOOLEAN
  /\ \A e \in package.current : e.class \in Classified
  /\ package.replicated \in BOOLEAN /\ package.design \subseteq Classified

\* The classification that goes with an impact level: of the levels the pages of
\* the application offer, only IL6 is secret.
Class(instance) ==
  CASE instance.level = "TS" -> "TS"
    [] instance.level = "IL6" -> "S"
    [] OTHER -> "U"

\* Mutant: a service counts if its first instance is classified.
OfferedFirst(instances, class) == instances # <<>> /\ Class(instances[1]) = class

\* foundMatchInSelectedServices
OfferedAtAll(instances, class) == \E i \in DOMAIN instances : Class(instances[i]) = class

\* foundMatchInXaas: the instances are mapped to booleans, and the class is looked
\* for among them.
FoundInXaas(instances, class) ==
  LET matches == [i \in DOMAIN instances |-> IF Class(instances[i]) = class THEN "true" ELSE "false"]
  IN class \in ToSet(matches)

\* containsClassifiedOffering
ContainsClassifiedOffering(package, class) ==
  \/ OfferedAtAll(Filter(package.instances, IsSelected), class)
  \/ \E array \in ToSet(OwnArrays) : FoundInXaas(OfArray(package.instances, array), class)

\* hasClassifiedCloudSupport
HasClassifiedSupport(package, class) ==
  \E i \in DOMAIN package.instances :
    IsSupport(package.instances[i]) /\ Class(package.instances[i]) = class

CurrentIncludes(package, class) == \E e \in package.current : e.class = class

CurrentInfoTypes(package, class) == UNION {e.info : e \in {c \in package.current : c.class = class}}

\* getIncludeClassifiedArchDesign
IncludesArchDesign(package, class) ==
  \/ CurrentIncludes(package, class) /\ package.replicated
  \/ class \in package.design

-----------------------------------------------------------------------------
\* The text that justifies access to top secret information, by the acronyms in it.
Justification(package) == package.access["TS"] \cap {"SCI", "SAP"}

\* The classified instances of one service or support package, in the order of
\* the payload.
ClassifiedInstances(package, group, class) ==
  Filter(package.instances, LAMBDA x : x.group = group /\ Class(x) = class)

\* getServiceOfferingClassificationTypes, getCloudSupportClassificationTypes
InfoTypes(package, group, class) ==
  UNION {x.info : x \in ToSet(ClassifiedInstances(package, group, class))}

\* The clearance of a contractor is that of the first top secret instance.
ClearanceLevel(package, group) ==
  LET found == ClassifiedInstances(package, group, "TS")
  IN IF found = <<>> THEN "none" ELSE found[1].clearance

\* The services and support packages with a part of their own in the text.
NamedGroups == {"EDGE_COMPUTING"} \cup ToSet(CloudSupportGroups)

ClassificationTypes(package) ==
  [group \in NamedGroups |->
     [secret |-> InfoTypes(package, group, "S"),
      ts |-> InfoTypes(package, group, "TS"),
      tsClearanceLevel |-> ClearanceLevel(package, group)]]

-----------------------------------------------------------------------------
\* The number of the level in the task number of an access; the top secret
\* general services are looked up by an impact level that they do not have.
AccessLevel(instance) ==
  IF instance.group = "GENERAL_XAAS" /\ Class(instance) = "TS"
    THEN 0
    ELSE Position(instance.level, ClassificationLevels)

AccessNumber(instance) ==
  <<4, 2, AccessLevel(instance), Position(instance.group, XaasServiceGroups)>>

\* xaasSecret and xaasTopSecret for an array of its own: a row for each instance
\* with types of information.
ArrayAccess(package, array, class) ==
  LET rows == Filter(ClassifiedInstances(package, array, class), LAMBDA x : x.info # {})
  IN [i \in DOMAIN rows |-> [taskNumber |-> AccessNumber(rows[i]), access |-> rows[i].info]]

\* For the selected services: one row for each task number.
ServiceAccess(package, class) ==
  LET found == Filter(package.instances, LAMBDA x : IsSelected(x) /\ Class(x) = class)
      numbers == {AccessNumber(x) : x \in ToSet(found)}
  IN {[taskNumber |-> n,
       access |-> UNION {x.info : x \in {y \in ToSet(found) : AccessNumber(y) = n}}] : n \in numbers}

XaasAccess(package, class) ==
  [arrays |-> [array \in ToSet(OwnArrays) |-> ArrayAccess(package, array, class)],
   selectedService |-> ServiceAccess(package, class)]

\* isSecurityNeeded
IsSecurityNeeded(package) ==
  \E class \in Classified :
    \/ CurrentIncludes(package, class)
    \/ IncludesArchDesign(package, class)
    \/ ContainsClassifiedOffering(package, class)
    \/ HasClassifiedSupport(package, class)

\* getSecurityRequirements
SecurityRequirements(package) ==
  [needed |-> IsSecurityNeeded(package),
   offering |-> {c \in Classified : ContainsClassifiedOffering(package, c)},
   support |-> {c \in Classified : HasClassifiedSupport(package, c)},
   archDesign |-> {c \in Classified : IncludesArchDesign(package, c)},
   levelOfAccess |-> package.access,
   justification |-> Justification(package),
   types |-> ClassificationTypes(package),
   currentEnv |-> [c \in Classified |-> CurrentInfoTypes(package, c)],
   xaas |-> [c \in Classified |-> XaasAccess(package, c)],
   cloudSupport |-> [c \in Classified |-> InfoTypes(package, "TRAINING", c)]]
=============================================================================
