-------------------------- MODULE Deployment_proofs --------------------------
(***************************************************************************)
(* Proofs about Deployment, for all contexts and zones and every number of *)
(* VPCs, changes and faults: the custom resources miss nothing, and the    *)
(* pipeline stays what it is when it deploys itself.                       *)
(***************************************************************************)
EXTENDS Deployment, TLAPS

Things == Rules \cup Interfaces

HandlerStates == {"idle", "list", "ingress", "egress", "describe", "return"}

Invocations ==
  [pc: HandlerStates, vpc: 0..MaxVpcs, listed: SUBSET Things, found: SUBSET Things,
   old: SUBSET Things]

Records ==
  [status: {"none", "done", "failed"}, vpc: 0..MaxVpcs, data: SUBSET Things, old: SUBSET Things]

Types ==
  /\ vpc \in 0..MaxVpcs /\ changes \in 0..MaxChanges /\ faults \in 0..MaxFaults
  /\ rules \in [1..MaxVpcs -> SUBSET Rules]
  /\ interfaces \in [1..MaxVpcs -> SUBSET Interfaces]
  /\ handler \in [Resources -> Invocations]
  /\ resource \in [Resources -> Records]
  /\ sent \in [vpc: 0..MaxVpcs, addresses: SUBSET Things]

\* Handlers and recorded resources belong to VPCs that were created.
OnVpcs ==
  \A r \in Resources :
    /\ Running(r) => handler[r].vpc \in 1..vpc
    /\ ~Running(r) => handler[r] = Idle
    /\ resource[r].status = "done" => resource[r].vpc \in 1..vpc

\* What an event found in place was made by a change of the past, so that no later
\* change puts any of it back.
OldIsPast ==
  \A r \in Resources : \A x \in handler[r].old \cup resource[r].old : x.n <= changes

\* So was everything that is there now.
PresentIsPast ==
  \A v \in 1..MaxVpcs : \A x \in rules[v] \cup interfaces[v] : x.n <= changes

\* A rule that was in the group when the event began, and still is, will be revoked in
\* this call or the next.
CleanupOnItsWay ==
  LET h == handler["cleanup"]
  IN \A x \in {y \in h.old : y \in rules[h.vpc]} :
       /\ h.pc = "ingress" => x \in h.listed
       /\ h.pc = "egress" => x \in h.listed /\ x.egress
       /\ h.pc # "return"

\* An interface that was there when the event began, and still is, has been described or
\* will be.
DescribingOnItsWay ==
  \A r \in Endpoints :
    LET h == handler[r]
    IN /\ h.pc = "describe" => h.old \cap interfaces[h.vpc] \subseteq h.listed \cup h.found
       /\ h.pc = "return" => h.found # {} /\ h.old \cap interfaces[h.vpc] \subseteq h.found
       /\ r = "addresses" /\ h.pc = "return" => sent = [vpc |-> h.vpc, addresses |-> h.found]

IInv ==
  /\ Types
  /\ OnVpcs
  /\ OldIsPast
  /\ PresentIsPast
  /\ CleanupOnItsWay
  /\ DescribingOnItsWay
  /\ DefaultGroupIsEmptied
  /\ AddressesAreComplete

LEMMA InitInv == Init => IInv
<1> SUFFICES ASSUME Init PROVE IInv
  OBVIOUS
<1>1. Types
  BY DeploymentAssumption DEF Init, Types, Invocations, Records, Idle, NotCreated, HandlerStates, Resources, Endpoints
<1>2. \A r \in Resources : handler[r] = Idle /\ resource[r] = NotCreated
  BY DEF Init
<1>3. "cleanup" \in Resources /\ Endpoints \subseteq Resources
  BY DEF Resources
<1>4. OnVpcs /\ OldIsPast
  BY <1>2 DEF OnVpcs, OldIsPast, Running, Idle, NotCreated
<1>5. CleanupOnItsWay /\ DescribingOnItsWay /\ PresentIsPast
  BY <1>2, <1>3 DEF PresentIsPast, Init, CleanupOnItsWay, DescribingOnItsWay, Idle
<1>6. DefaultGroupIsEmptied /\ AddressesAreComplete
  BY <1>2, <1>3 DEF DefaultGroupIsEmptied, AddressesAreComplete, NotCreated
<1>7. QED
  BY <1>1, <1>4, <1>5, <1>6 DEF IInv

-----------------------------------------------------------------------------
(* The pipeline, and steps that leave the resources alone.                  *)

LEMMA UnchangedInv ==
  ASSUME IInv, UNCHANGED <<networkVars, handler, resource, sent, faults>>
  PROVE  IInv'
BY DEF IInv, networkVars, Types, OnVpcs, OldIsPast, PresentIsPast, CleanupOnItsWay, DescribingOnItsWay,
       DefaultGroupIsEmptied, AddressesAreComplete, Running

-----------------------------------------------------------------------------
(* What others change.                                                      *)

\* A step of the network that puts nothing of the past into a VPC that has been
\* created.
LEMMA NetworkInv ==
  ASSUME IInv, UNCHANGED <<handler, resource, sent, faults>>,
         Types', PresentIsPast', vpc <= vpc', changes <= changes',
         \A v \in 1..vpc : \A x \in rules'[v] : x \in rules[v] \/ x.n > changes,
         \A v \in 1..vpc : \A x \in interfaces'[v] : x \in interfaces[v] \/ x.n > changes
  PROVE  IInv'
<1> USE DEF IInv
<1>1. \A n \in Things : n.n \in Nat
  BY DeploymentAssumption DEF Things, Rules, Interfaces
<1>2. vpc \in Nat /\ vpc' \in Nat /\ changes \in Nat /\ changes' \in Nat
  BY DeploymentAssumption DEF Types
<1>3. OnVpcs'
  BY <1>2 DEF OnVpcs, Running
<1>4. ASSUME NEW r \in Resources
      PROVE  /\ handler[r].old \subseteq Things /\ resource[r].old \subseteq Things
             /\ Running(r) => handler[r].vpc \in 1..vpc
  BY DEF Types, OnVpcs, Invocations, Records
<1>5. OldIsPast'
  BY <1>1, <1>2, <1>4 DEF OldIsPast
<1>6. "cleanup" \in Resources /\ Endpoints \subseteq Resources
  BY DEF Resources
<1>7. CleanupOnItsWay'
  <2>1. \A x \in handler["cleanup"].old : ~(x.n > changes)
    BY <1>1, <1>2, <1>4, <1>6 DEF OldIsPast
  <2>2. CASE Running("cleanup")
    BY <1>4, <1>6, <2>1, <2>2 DEF CleanupOnItsWay
  <2>3. CASE ~Running("cleanup")
    BY <1>6, <2>3 DEF CleanupOnItsWay, OnVpcs, Idle
  <2>4. QED
    BY <2>2, <2>3
<1>8. ASSUME NEW r \in Endpoints
      PROVE  /\ Running(r) => handler[r].old \cap interfaces'[handler[r].vpc] \subseteq interfaces[handler[r].vpc]
             /\ resource[r].status = "done" =>
                  resource[r].old \cap interfaces'[resource[r].vpc] \subseteq interfaces[resource[r].vpc]
  <2>1. \A x \in handler[r].old \cup resource[r].old : ~(x.n > changes)
    BY <1>1, <1>2, <1>4, <1>6 DEF OldIsPast
  <2>2. QED
    BY <1>6, <2>1 DEF OnVpcs
<1>9. DescribingOnItsWay'
  BY <1>6, <1>8 DEF DescribingOnItsWay, Running
<1>10. DefaultGroupIsEmptied'
  <2>1. \A x \in resource["cleanup"].old : ~(x.n > changes)
    BY <1>1, <1>2, <1>4, <1>6 DEF OldIsPast
  <2>2. QED
    BY <1>6, <2>1 DEF OnVpcs, DefaultGroupIsEmptied
<1>11. AddressesAreComplete'
  BY <1>6, <1>8 DEF AddressesAreComplete, Running
<1>12. QED
  BY <1>3, <1>5, <1>7, <1>9, <1>10, <1>11

\* A change made now has a number of its own.
LEMMA ChangeNext ==
  ASSUME Types, Change
  PROVE  changes' \in 1..MaxChanges /\ changes' > changes /\ changes <= changes'
BY DeploymentAssumption DEF Types, Change

LEMMA CreateVpcInv == ASSUME IInv, CreateVpc PROVE IInv'
<1> USE DEF IInv
<1>1. vpc' \in 1..MaxVpcs /\ vpc <= vpc' /\ vpc' \notin 1..vpc /\ changes' = changes
  BY DeploymentAssumption DEF CreateVpc, Types
<1>2. changes <= changes'
  BY <1>1, DeploymentAssumption DEF Types
<1>3. [n: {0}, egress: BOOLEAN] \subseteq Rules /\ [n: {0}, zone: Zones] \subseteq Interfaces
  BY DeploymentAssumption DEF Rules, Interfaces
<1>4. Types'
  BY <1>1, <1>3 DEF CreateVpc, Types
<1>5. \A v \in 1..vpc : rules'[v] = rules[v] /\ interfaces'[v] = interfaces[v]
  BY <1>1 DEF CreateVpc, Types
<1>6. PresentIsPast'
  BY <1>1, DeploymentAssumption DEF CreateVpc, Types, PresentIsPast
<1>7. QED
  BY <1>1, <1>2, <1>4, <1>5, <1>6, NetworkInv DEF CreateVpc

LEMMA DeleteVpcInv == ASSUME IInv, NEW v \in 1..MaxVpcs, DeleteVpc(v) PROVE IInv'
<1> USE DEF IInv
<1>1. changes' \in 1..MaxChanges /\ changes <= changes'
  BY ChangeNext DEF DeleteVpc
<1>2. Types'
  BY <1>1 DEF DeleteVpc, Types
<1>3. \A w \in 1..vpc : rules'[w] \subseteq rules[w] /\ interfaces'[w] \subseteq interfaces[w]
  BY DEF DeleteVpc, Types
<1>4. vpc <= vpc' /\ UNCHANGED <<handler, resource, sent, faults>>
  BY DeploymentAssumption DEF DeleteVpc, Types
<1>5. PresentIsPast'
  <2>1. \A w \in 1..MaxVpcs : rules'[w] \cup interfaces'[w] \subseteq rules[w] \cup interfaces[w]
    BY DEF DeleteVpc, Types
  <2>2. \A x \in Things : x.n \in Nat
    BY DeploymentAssumption DEF Things, Rules, Interfaces
  <2>3. \A w \in 1..MaxVpcs : \A x \in rules[w] \cup interfaces[w] : x \in Things
    BY DEF Types, Things
  <2>4. QED
    BY <1>1, <2>1, <2>2, <2>3 DEF PresentIsPast, Types
<1>6. QED
  BY <1>1, <1>2, <1>3, <1>4, <1>5, NetworkInv

LEMMA AddRuleInv == ASSUME IInv, NEW egress \in BOOLEAN, AddRule(egress) PROVE IInv'
<1> USE DEF IInv
<1> DEFINE new == [n |-> changes', egress |-> egress]
<1>1. changes' \in 1..MaxChanges /\ changes' > changes /\ changes <= changes'
  BY ChangeNext DEF AddRule
<1>2. new \in Rules
  BY <1>1, DeploymentAssumption DEF Rules
<1>3. Types'
  BY <1>1, <1>2 DEF AddRule, Types
<1>4. \A v \in 1..vpc : rules'[v] \subseteq rules[v] \cup {new} /\ interfaces'[v] = interfaces[v]
  BY DEF AddRule, Types
<1>5. new.n = changes'
  OBVIOUS
<1>6. vpc <= vpc' /\ UNCHANGED <<handler, resource, sent, faults>>
  BY DeploymentAssumption DEF AddRule, Types
<1> HIDE DEF new
<1>7. PresentIsPast'
  <2>1. \A w \in 1..MaxVpcs : rules'[w] \cup interfaces'[w] \subseteq rules[w] \cup interfaces[w] \cup {new}
    BY DEF AddRule, new, Types
  <2>2. \A x \in Things : x.n \in Nat
    BY DeploymentAssumption DEF Things, Rules, Interfaces
  <2>3. \A w \in 1..MaxVpcs : \A x \in rules[w] \cup interfaces[w] : x \in Things
    BY DEF Types, Things
  <2>4. QED
    BY <1>1, <2>1, <2>2, <2>3, <1>5 DEF PresentIsPast, Types
<1>8. QED
  BY <1>1, <1>3, <1>4, <1>5, <1>6, <1>7, NetworkInv

LEMMA RemoveRuleInv == ASSUME IInv, NEW rule \in Rules, RemoveRule(rule) PROVE IInv'
<1> USE DEF IInv
<1>1. changes' \in 1..MaxChanges /\ changes <= changes'
  BY ChangeNext DEF RemoveRule
<1>2. Types'
  <2>1. rules[vpc] \ {rule} \in SUBSET Rules
    BY DeploymentAssumption DEF RemoveRule, Types
  <2>2. rules' \in [1..MaxVpcs -> SUBSET Rules]
    BY <2>1 DEF RemoveRule, Types
  <2>3. QED
    BY <1>1, <2>2 DEF RemoveRule, Types
<1>3. \A v \in 1..vpc : rules'[v] \subseteq rules[v] /\ interfaces'[v] \subseteq interfaces[v]
  BY DEF RemoveRule, Types
<1>4. vpc <= vpc' /\ UNCHANGED <<handler, resource, sent, faults>>
  BY DeploymentAssumption DEF RemoveRule, Types
<1>5. PresentIsPast'
  <2>1. \A w \in 1..MaxVpcs : rules'[w] \cup interfaces'[w] \subseteq rules[w] \cup interfaces[w]
    BY DEF RemoveRule, Types
  <2>2. \A x \in Things : x.n \in Nat
    BY DeploymentAssumption DEF Things, Rules, Interfaces
  <2>3. \A w \in 1..MaxVpcs : \A x \in rules[w] \cup interfaces[w] : x \in Things
    BY DEF Types, Things
  <2>4. QED
    BY <1>1, <2>1, <2>2, <2>3 DEF PresentIsPast, Types
<1>6. QED
  BY <1>1, <1>2, <1>3, <1>4, <1>5, NetworkInv

LEMMA ReplaceInterfaceInv ==
  ASSUME IInv, NEW interface \in Interfaces, ReplaceInterface(interface) PROVE IInv'
<1> USE DEF IInv
<1> DEFINE new == [n |-> changes', zone |-> interface.zone]
<1>1. changes' \in 1..MaxChanges /\ changes' > changes /\ changes <= changes'
  BY ChangeNext DEF ReplaceInterface
<1>2. new \in Interfaces
  BY <1>1, DeploymentAssumption DEF Interfaces
<1>3. Types'
  BY <1>1, <1>2 DEF ReplaceInterface, Types
<1>4. \A v \in 1..vpc : rules'[v] = rules[v] /\ interfaces'[v] \subseteq interfaces[v] \cup {new}
  BY DEF ReplaceInterface, Types
<1>5. new.n = changes'
  OBVIOUS
<1>6. vpc <= vpc' /\ UNCHANGED <<handler, resource, sent, faults>>
  BY DeploymentAssumption DEF ReplaceInterface, Types
<1> HIDE DEF new
<1>7. PresentIsPast'
  <2>1. \A w \in 1..MaxVpcs : rules'[w] \cup interfaces'[w] \subseteq rules[w] \cup interfaces[w] \cup {new}
    BY DEF ReplaceInterface, new, Types
  <2>2. \A x \in Things : x.n \in Nat
    BY DeploymentAssumption DEF Things, Rules, Interfaces
  <2>3. \A w \in 1..MaxVpcs : \A x \in rules[w] \cup interfaces[w] : x \in Things
    BY DEF Types, Things
  <2>4. QED
    BY <1>1, <2>1, <2>2, <2>3, <1>5 DEF PresentIsPast, Types
<1>8. QED
  BY <1>1, <1>3, <1>4, <1>5, <1>6, <1>7, NetworkInv

-----------------------------------------------------------------------------
(* CloudFormation's events.                                                 *)

\* The three resources.
LEMMA ResourceNames ==
  /\ "cleanup" \in Resources /\ "cleanup" \notin Endpoints
  /\ "targets" \in Endpoints /\ "addresses" \in Endpoints
  /\ \A r \in Endpoints : r \in Resources
BY DEF Resources, Endpoints

\* A handler that goes on, while some rules may disappear.
LEMMA HandlerInv ==
  ASSUME IInv, NEW r \in Resources, NEW h \in Invocations,
         handler' = [handler EXCEPT ![r] = h],
         UNCHANGED <<vpc, interfaces, changes, resource>>,
         faults' \in 0..MaxFaults,
         rules' \in [1..MaxVpcs -> SUBSET Rules], \A v \in 1..MaxVpcs : rules'[v] \subseteq rules[v],
         sent' \in [vpc: 0..MaxVpcs, addresses: SUBSET Things], r = "addresses" \/ sent' = sent,
         h.pc # "idle", h.vpc \in 1..vpc,
         \A x \in h.old : x.n <= changes,
         r = "cleanup" =>
           \A x \in h.old \cap rules'[h.vpc] :
             /\ h.pc = "ingress" => x \in h.listed
             /\ h.pc = "egress" => x \in h.listed /\ x.egress
             /\ h.pc # "return",
         r \in Endpoints =>
           /\ h.pc = "describe" => h.old \cap interfaces[h.vpc] \subseteq h.listed \cup h.found
           /\ h.pc = "return" => h.found # {} /\ h.old \cap interfaces[h.vpc] \subseteq h.found
           /\ r = "addresses" /\ h.pc = "return" => sent' = [vpc |-> h.vpc, addresses |-> h.found]
  PROVE  IInv'
<1> USE ResourceNames DEF IInv
<1>1. handler'[r] = h /\ \A q \in Resources \ {r} : handler'[q] = handler[q]
  BY DEF Types
<1>2. Types'
  BY DEF Types
<1>3. OnVpcs'
  BY <1>1 DEF OnVpcs, Running
<1>4. OldIsPast'
  BY <1>1 DEF OldIsPast
<1>5. \A v \in 1..vpc : v \in 1..MaxVpcs
  BY DeploymentAssumption DEF Types
<1>6. CleanupOnItsWay'
  <2>1. CASE r = "cleanup"
    BY <1>1, <2>1 DEF CleanupOnItsWay
  <2>2. CASE r # "cleanup" /\ Running("cleanup")
    BY <1>1, <1>5, <2>2 DEF CleanupOnItsWay, OnVpcs
  <2>3. CASE r # "cleanup" /\ ~Running("cleanup")
    BY <1>1, <2>3 DEF CleanupOnItsWay, OnVpcs, Idle
  <2>4. QED
    BY <2>1, <2>2, <2>3
<1>7. DescribingOnItsWay'
  BY <1>1 DEF DescribingOnItsWay
<1>8. DefaultGroupIsEmptied'
  BY <1>5 DEF DefaultGroupIsEmptied, OnVpcs
<1>9. AddressesAreComplete'
  BY <1>1 DEF AddressesAreComplete, Running
<1>10. PresentIsPast'
  BY DEF PresentIsPast
<1>11. QED
  BY <1>2, <1>3, <1>4, <1>6, <1>7, <1>8, <1>9, <1>10

\* A resource about which CloudFormation records something, its handler being over.
LEMMA ReportInv ==
  ASSUME IInv, NEW r \in Resources, NEW record \in Records,
         handler' = [handler EXCEPT ![r] = Idle],
         resource' = [resource EXCEPT ![r] = record],
         UNCHANGED <<networkVars, sent>>, faults' \in 0..MaxFaults,
         \A x \in record.old : x.n <= changes,
         record.status = "done" =>
           /\ record.vpc \in 1..vpc
           /\ r = "cleanup" => record.old \cap rules[record.vpc] = {}
           /\ r \in Endpoints =>
                record.data # {} /\ record.old \cap interfaces[record.vpc] \subseteq record.data
           /\ r = "addresses" => sent = [vpc |-> record.vpc, addresses |-> record.data]
  PROVE  IInv'
<1> USE ResourceNames DEF IInv, networkVars
<1>1. /\ handler'[r] = Idle /\ \A q \in Resources \ {r} : handler'[q] = handler[q]
      /\ resource'[r] = record /\ \A q \in Resources \ {r} : resource'[q] = resource[q]
  BY DEF Types
<1>2. Idle \in Invocations
  BY DeploymentAssumption DEF Idle, Invocations, HandlerStates
<1>3. Types'
  BY <1>2 DEF Types
<1>4. OnVpcs'
  BY <1>1 DEF OnVpcs, Running, Idle
<1>5. OldIsPast'
  BY <1>1 DEF OldIsPast, Idle
<1>6. CleanupOnItsWay' /\ DescribingOnItsWay'
  BY <1>1 DEF CleanupOnItsWay, DescribingOnItsWay, Idle
<1>7. DefaultGroupIsEmptied'
  BY <1>1 DEF DefaultGroupIsEmptied
<1>8. AddressesAreComplete'
  BY <1>1 DEF AddressesAreComplete, Running
<1>9. PresentIsPast'
  BY DEF PresentIsPast
<1>10. QED
  BY <1>3, <1>4, <1>5, <1>6, <1>7, <1>8, <1>9

LEMMA DeliverInv ==
  ASSUME IInv, NEW r \in Resources, NEW v \in 1..MaxVpcs, Deliver(r, v) PROVE IInv'
<1> USE ResourceNames DEF IInv
<1> DEFINE h == [pc |-> "list", vpc |-> v, listed |-> {}, found |-> {}, old |-> Contents(r, v)]
<1>1. handler' = [handler EXCEPT ![r] = h]
  BY DEF Deliver
<1>2. UNCHANGED <<app, networkVars, resource, sent, faults>>
  BY DEF Deliver
<1>3. v \in 1..vpc
  BY DeploymentAssumption DEF Deliver, StackReady, OnVpcs, Types
<1>4. Contents(r, v) \in SUBSET Things /\ \A x \in Contents(r, v) : x.n <= changes
  BY DEF Contents, Types, Things, PresentIsPast
<1>5. h \in Invocations
  BY <1>4, DeploymentAssumption DEF Invocations, HandlerStates
<1>6. h.pc = "list" /\ h.vpc = v /\ \A x \in h.old : x.n <= changes
  BY <1>4
<1> HIDE DEF h
<1>7. QED
  BY <1>1, <1>2, <1>3, <1>5, <1>6, HandlerInv DEF networkVars, Types

LEMMA CreateInv ==
  ASSUME IInv, NEW r \in Resources, NEW v \in 1..MaxVpcs, Create(r, v) \/ Update(r, v)
  PROVE  IInv'
BY DeliverInv DEF Create, Update

\* CloudFormation forgets a resource whose handler is idle.
LEMMA DeleteInv == ASSUME IInv, NEW r \in Resources, Delete(r) PROVE IInv'
<1>1. NotCreated \in Records /\ NotCreated.status = "none" /\ NotCreated.old = {}
  BY DeploymentAssumption DEF NotCreated, Records
<1>2. handler' = [handler EXCEPT ![r] = Idle]
  BY DEF Delete, IInv, OnVpcs, Types
<1>3. /\ resource' = [resource EXCEPT ![r] = NotCreated]
      /\ UNCHANGED <<networkVars, sent>> /\ faults' \in 0..MaxFaults
  BY DEF Delete, IInv, Types
<1>4. QED
  BY <1>1, <1>2, <1>3, ReportInv

\* A handler that throws.
LEMMA ThrowInv ==
  ASSUME IInv, NEW r \in Resources, Throw(r), UNCHANGED <<networkVars, sent>>,
         faults' \in 0..MaxFaults
  PROVE  IInv'
<1> DEFINE failed == [NotCreated EXCEPT !.status = "failed"]
<1>1. failed = [status |-> "failed", vpc |-> 0, data |-> {}, old |-> {}]
  BY DEF NotCreated
<1>2. failed \in Records /\ failed.status = "failed" /\ failed.old = {}
  BY <1>1, DeploymentAssumption DEF Records
<1>3. handler' = [handler EXCEPT ![r] = Idle] /\ resource' = [resource EXCEPT ![r] = failed]
  BY DEF Throw
<1> HIDE DEF failed
<1>4. QED
  BY <1>2, <1>3, ReportInv

LEMMA CallFailsInv == ASSUME IInv, NEW r \in Resources, CallFails(r) PROVE IInv'
<1>1. faults' \in 0..MaxFaults
  BY DeploymentAssumption DEF CallFails, IInv, Types
<1>2. QED
  BY <1>1, ThrowInv DEF CallFails

LEMMA NoneFoundInv == ASSUME IInv, NEW r \in Endpoints, NoneFound(r) PROVE IInv'
<1>1. faults' \in 0..MaxFaults /\ r \in Resources
  BY ResourceNames DEF NoneFound, IInv, Types
<1>2. QED
  BY <1>1, ThrowInv DEF NoneFound

\* What a handler returns is complete, and CloudFormation records it.
LEMMA FinishInv ==
  ASSUME IInv, NEW r \in Resources, Finish(r), UNCHANGED <<networkVars, sent, faults>>,
         Running(r),
         r = "cleanup" => handler[r].old \cap rules[handler[r].vpc] = {},
         r \in Endpoints =>
           handler[r].found # {} /\ handler[r].old \cap interfaces[handler[r].vpc] \subseteq handler[r].found,
         r = "addresses" => sent = [vpc |-> handler[r].vpc, addresses |-> handler[r].found]
  PROVE  IInv'
<1> DEFINE record == [status |-> "done", vpc |-> handler[r].vpc, data |-> handler[r].found,
                      old |-> handler[r].old]
<1>1. handler[r] \in Invocations /\ handler[r].vpc \in 1..vpc
  BY DEF IInv, Types, OnVpcs
<1>2. record \in Records
  BY <1>1 DEF Invocations, Records
<1>3. \A x \in handler[r].old : x.n <= changes
  BY DEF IInv, OldIsPast
<1>4. handler' = [handler EXCEPT ![r] = Idle] /\ resource' = [resource EXCEPT ![r] = record]
  BY DEF Finish
<1>5. /\ record.status = "done" /\ record.vpc = handler[r].vpc /\ record.data = handler[r].found
      /\ record.old = handler[r].old
  OBVIOUS
<1>6. faults' \in 0..MaxFaults
  BY DEF IInv, Types
<1> HIDE DEF record
<1>7. QED
  BY <1>1, <1>2, <1>3, <1>4, <1>5, <1>6, ReportInv

LEMMA ReturnInv == ASSUME IInv, NEW r \in Resources, Return(r) PROVE IInv'
<1>1. Running(r) /\ Finish(r) /\ UNCHANGED <<networkVars, sent, faults>>
  BY DEF Return, Running
<1>2. r = "cleanup" => handler[r].old \cap rules[handler[r].vpc] = {}
  BY DEF Return, IInv, CleanupOnItsWay
<1>3. r \in Endpoints =>
        handler[r].found # {} /\ handler[r].old \cap interfaces[handler[r].vpc] \subseteq handler[r].found
  BY DEF Return, IInv, DescribingOnItsWay
<1>4. r = "addresses" => sent = [vpc |-> handler[r].vpc, addresses |-> handler[r].found]
  BY ResourceNames DEF Return, IInv, DescribingOnItsWay
<1>5. QED
  BY <1>1, <1>2, <1>3, <1>4, FinishInv

LEMMA ReturnTargetsInv == ASSUME IInv, ReturnTargets PROVE IInv'
<1>1. /\ "targets" \in Resources /\ "targets" \in Endpoints
      /\ "targets" # "cleanup" /\ "targets" # "addresses"
  BY ResourceNames
<1>2. Running("targets") /\ Finish("targets") /\ UNCHANGED <<networkVars, sent, faults>>
  BY DEF ReturnTargets, Running
<1>3. /\ handler["targets"].found # {}
      /\ handler["targets"].old \cap interfaces[handler["targets"].vpc] \subseteq handler["targets"].found
  BY <1>1 DEF ReturnTargets, AllDescribed, IInv, DescribingOnItsWay
<1>4. QED
  BY <1>1, <1>2, <1>3, FinishInv

\* A lost invocation starts over, with what the event found in place.
LEMMA RedeliverInv == ASSUME IInv, NEW r \in Resources, Redeliver(r) PROVE IInv'
<1> DEFINE h == [handler[r] EXCEPT !.pc = "list", !.listed = {}, !.found = {}]
<1>1. handler[r] \in Invocations /\ handler[r].vpc \in 1..vpc
  BY DEF Redeliver, IInv, Types, OnVpcs
<1>2. h \in Invocations
  BY <1>1 DEF Invocations, HandlerStates
<1>3. h.pc = "list" /\ h.vpc = handler[r].vpc /\ h.old = handler[r].old
  BY <1>1 DEF Invocations
<1>4. handler' = [handler EXCEPT ![r] = h] /\ faults' \in 0..MaxFaults
  BY DeploymentAssumption DEF Redeliver, IInv, Types
<1>5. \A x \in h.old : x.n <= changes
  BY <1>3 DEF IInv, OldIsPast
<1> HIDE DEF h
<1>6. QED
  BY <1>1, <1>2, <1>3, <1>4, <1>5, HandlerInv DEF Redeliver, networkVars, IInv, Types

-----------------------------------------------------------------------------
(* The remover of the rules.                                                *)

LEMMA ListRulesInv == ASSUME IInv, ListRules PROVE IInv'
<1> USE ResourceNames
<1> DEFINE old == handler["cleanup"]
           h == [old EXCEPT !.pc = "ingress", !.listed = rules[old.vpc]]
<1>1. Running("cleanup") /\ old \in Invocations /\ old.vpc \in 1..vpc
  BY DEF ListRules, Running, IInv, Types, OnVpcs
<1>2. rules[old.vpc] \in SUBSET Things
  BY <1>1, DeploymentAssumption DEF IInv, Types, Things
<1>3. h \in Invocations
  BY <1>1, <1>2 DEF Invocations, HandlerStates
<1>4. h.pc = "ingress" /\ h.vpc = old.vpc /\ h.old = old.old /\ h.listed = rules[old.vpc]
  BY <1>1 DEF Invocations
<1>5. handler' = [handler EXCEPT !["cleanup"] = h]
  BY DEF ListRules
<1>6. \A x \in h.old : x.n <= changes
  BY <1>4 DEF IInv, OldIsPast
<1> HIDE DEF h
<1>7. QED
  BY <1>1, <1>3, <1>4, <1>5, <1>6, HandlerInv DEF ListRules, networkVars, IInv, Types

\* Whatever of the old rules is left when the egress rules have been revoked would be a
\* rule that was neither among the ingress rules nor among the egress rules of the list.
LEMMA RevokeInv == ASSUME IInv, Revoke PROVE IInv'
<1> USE ResourceNames
<1> DEFINE old == handler["cleanup"]
           ids == {rule \in old.listed : rule.egress = (old.pc = "egress")}
           h == [old EXCEPT !.pc = AfterRevoke(old.pc)]
<1>1. /\ Running("cleanup") /\ old \in Invocations /\ old.vpc \in 1..vpc
      /\ old.pc \in {"ingress", "egress"}
  BY DEF Revoke, Running, IInv, Types, OnVpcs
<1>2. old.vpc \in 1..MaxVpcs
  BY <1>1, DeploymentAssumption DEF IInv, Types
<1>3. UNCHANGED <<vpc, interfaces, changes, sent, faults>> /\ faults' \in 0..MaxFaults
  BY DEF Revoke, IInv, Types
<1>4. CASE /\ rules' = [rules EXCEPT ![old.vpc] = @ \ ids]
           /\ Step("cleanup", AfterRevoke(old.pc))
           /\ UNCHANGED resource
  <2>1. h \in Invocations
    BY <1>1 DEF Invocations, HandlerStates, AfterRevoke
  <2>2. h.pc = AfterRevoke(old.pc) /\ h.vpc = old.vpc /\ h.old = old.old /\ h.listed = old.listed
    BY <1>1 DEF Invocations
  <2>3. handler' = [handler EXCEPT !["cleanup"] = h]
    BY <1>4 DEF Step
  <2>4. \A x \in h.old : x.n <= changes
    BY <2>2 DEF IInv, OldIsPast
  <2>5. rules[old.vpc] \subseteq Rules /\ rules'[old.vpc] = rules[old.vpc] \ ids
    BY <1>2, <1>4 DEF IInv, Types
  <2>6. rules' \in [1..MaxVpcs -> SUBSET Rules] /\ \A v \in 1..MaxVpcs : rules'[v] \subseteq rules[v]
    BY <1>2, <1>4 DEF IInv, Types
  <2>7. ASSUME NEW x \in h.old \cap rules'[h.vpc]
        PROVE  /\ h.pc = "egress" /\ x \in h.listed /\ x.egress
    <3>1. x \in old.old /\ x \in rules[old.vpc] /\ x \notin ids /\ x.egress \in BOOLEAN
      BY <2>2, <2>5 DEF Rules
    <3>2. x \in old.listed /\ (old.pc = "egress" => x.egress)
      BY <1>1, <3>1 DEF IInv, CleanupOnItsWay
    <3>3. x.egress # (old.pc = "egress")
      BY <3>1, <3>2
    <3>4. old.pc = "ingress"
      <4>1. CASE old.pc = "egress"
        <5>1. x.egress = TRUE /\ (old.pc = "egress") = TRUE
          BY <3>1, <3>2, <4>1
        <5>2. QED
          BY <3>3, <5>1
      <4>2. QED
        BY <1>1, <4>1
    <3>5. x.egress
      <4>1. (old.pc = "egress") = FALSE
        BY <3>4
      <4>2. QED
        BY <3>1, <3>3, <4>1
    <3>6. QED
      BY <2>2, <3>2, <3>4, <3>5 DEF AfterRevoke
  <2>8. h.pc \in {"egress", "return"}
    BY <1>1, <2>2 DEF AfterRevoke
  <2> HIDE DEF h, ids
  <2>9. QED
    BY <1>1, <1>3, <1>4, <2>1, <2>2, <2>3, <2>4, <2>6, <2>7, <2>8, HandlerInv DEF IInv, Types
<1>5. CASE Throw("cleanup") /\ UNCHANGED rules
  BY <1>3, <1>5, ThrowInv DEF networkVars
<1>6. QED
  BY <1>4, <1>5 DEF Revoke

-----------------------------------------------------------------------------
(* The addresses of the endpoint.                                           *)

LEMMA ListInterfacesInv == ASSUME IInv, NEW r \in Endpoints, ListInterfaces(r) PROVE IInv'
<1> USE ResourceNames
<1> DEFINE old == handler[r]
           h == [old EXCEPT !.pc = "describe", !.listed = interfaces[old.vpc]]
<1>1. Running(r) /\ old \in Invocations /\ old.vpc \in 1..vpc
  BY DEF ListInterfaces, Running, IInv, Types, OnVpcs
<1>2. interfaces[old.vpc] \in SUBSET Things
  BY <1>1, DeploymentAssumption DEF IInv, Types, Things
<1>3. h \in Invocations
  BY <1>1, <1>2 DEF Invocations, HandlerStates
<1>4. h.pc = "describe" /\ h.vpc = old.vpc /\ h.old = old.old /\ h.listed = interfaces[old.vpc]
  BY <1>1 DEF Invocations
<1>5. handler' = [handler EXCEPT ![r] = h]
  BY DEF ListInterfaces
<1>6. \A x \in h.old : x.n <= changes
  BY <1>4 DEF IInv, OldIsPast
<1> HIDE DEF h
<1>7. QED
  BY <1>1, <1>3, <1>4, <1>5, <1>6, HandlerInv DEF ListInterfaces, networkVars, IInv, Types

LEMMA DescribeOneInv == ASSUME IInv, NEW r \in Endpoints, DescribeOne(r) PROVE IInv'
<1> USE ResourceNames
<1> DEFINE old == handler[r]
<1>1. Running(r) /\ old \in Invocations /\ old.vpc \in 1..vpc /\ old.pc = "describe"
  BY DEF DescribeOne, Running, IInv, Types, OnVpcs
<1>2. PICK i \in old.listed :
        handler' = [handler EXCEPT ![r] =
                      [old EXCEPT !.listed = old.listed \ {i},
                                  !.found = old.found \cup ({i} \cap interfaces[old.vpc])]]
  BY DEF DescribeOne
<1> DEFINE h == [old EXCEPT !.listed = old.listed \ {i},
                            !.found = old.found \cup ({i} \cap interfaces[old.vpc])]
<1>3. h \in Invocations
  BY <1>1 DEF Invocations
<1>4. /\ h.pc = "describe" /\ h.vpc = old.vpc /\ h.old = old.old
      /\ h.listed = old.listed \ {i} /\ h.found = old.found \cup ({i} \cap interfaces[old.vpc])
  BY <1>1 DEF Invocations
<1>5. \A x \in h.old : x.n <= changes
  BY <1>4 DEF IInv, OldIsPast
<1>6. h.old \cap interfaces[h.vpc] \subseteq h.listed \cup h.found
  BY <1>1, <1>4 DEF IInv, DescribingOnItsWay
<1>7. handler' = [handler EXCEPT ![r] = h]
  BY <1>2
<1> HIDE DEF h
<1>8. QED
  BY <1>1, <1>3, <1>4, <1>5, <1>6, <1>7, HandlerInv DEF DescribeOne, networkVars, IInv, Types

LEMMA SendAddressesInv == ASSUME IInv, SendAddresses PROVE IInv'
<1> USE ResourceNames
<1> DEFINE old == handler["addresses"]
           h == [old EXCEPT !.pc = "return"]
<1>1. /\ Running("addresses") /\ old \in Invocations /\ old.vpc \in 1..vpc
      /\ old.pc = "describe" /\ old.listed = {} /\ old.found # {}
  BY DEF SendAddresses, AllDescribed, Running, IInv, Types, OnVpcs
<1>2. h \in Invocations
  BY <1>1 DEF Invocations, HandlerStates
<1>3. h.pc = "return" /\ h.vpc = old.vpc /\ h.old = old.old /\ h.found = old.found
  BY <1>1 DEF Invocations
<1>4. handler' = [handler EXCEPT !["addresses"] = h]
  BY DEF SendAddresses, Step
<1>5. \A x \in h.old : x.n <= changes
  BY <1>3 DEF IInv, OldIsPast
<1>6. h.old \cap interfaces[h.vpc] \subseteq h.found
  BY <1>1, <1>3 DEF IInv, DescribingOnItsWay
<1>7. /\ sent' = [vpc |-> h.vpc, addresses |-> h.found]
      /\ sent' \in [vpc: 0..MaxVpcs, addresses: SUBSET Things]
  BY <1>1, <1>3 DEF SendAddresses, Invocations
<1> HIDE DEF h
<1>8. QED
  BY <1>1, <1>2, <1>3, <1>4, <1>5, <1>6, <1>7, HandlerInv DEF SendAddresses, networkVars, IInv, Types

-----------------------------------------------------------------------------
(* The theorems.                                                            *)

LEMMA StepInv == IInv /\ [Next]_vars => IInv'
<1> SUFFICES ASSUME IInv, [Next]_vars PROVE IInv'
  OBVIOUS
<1>1. CASE \E context \in Contexts : Deploy(context)
  BY <1>1, UnchangedInv DEF Deploy
<1>2. CASE SelfMutate
  BY <1>2, UnchangedInv DEF SelfMutate
<1>3. CASE CreateVpc
  BY <1>3, CreateVpcInv
<1>4. CASE \E v \in 1..MaxVpcs : DeleteVpc(v)
  BY <1>4, DeleteVpcInv
<1>5. CASE \E egress \in BOOLEAN : AddRule(egress)
  BY <1>5, AddRuleInv
<1>6. CASE \E rule \in Rules : RemoveRule(rule)
  BY <1>6, RemoveRuleInv
<1>7. CASE \E interface \in Interfaces : ReplaceInterface(interface)
  BY <1>7, ReplaceInterfaceInv
<1>8. CASE \E r \in Resources, v \in 1..MaxVpcs : Create(r, v) \/ Update(r, v)
  BY <1>8, CreateInv
<1>9. CASE \E r \in Resources : Delete(r)
  BY <1>9, DeleteInv
<1>10. CASE \E r \in Resources : Return(r)
  BY <1>10, ReturnInv
<1>11. CASE \E r \in Resources : CallFails(r)
  BY <1>11, CallFailsInv
<1>12. CASE \E r \in Resources : Redeliver(r)
  BY <1>12, RedeliverInv
<1>13. CASE ListRules \/ Revoke
  BY <1>13, ListRulesInv, RevokeInv
<1>14. CASE \E r \in Endpoints : ListInterfaces(r)
  BY <1>14, ListInterfacesInv
<1>15. CASE \E r \in Endpoints : DescribeOne(r)
  BY <1>15, DescribeOneInv
<1>16. CASE \E r \in Endpoints : NoneFound(r)
  BY <1>16, NoneFoundInv
<1>17. CASE ReturnTargets \/ SendAddresses
  BY <1>17, ReturnTargetsInv, SendAddressesInv
<1>18. CASE UNCHANGED vars
  BY <1>18, UnchangedInv DEF vars
<1>19. QED
  BY <1>1, <1>2, <1>3, <1>4, <1>5, <1>6, <1>7, <1>8, <1>9, <1>10, <1>11, <1>12, <1>13, <1>14,
     <1>15, <1>16, <1>17, <1>18 DEF Next

\* The strengthened invariant: what each handler still has to do covers what was there
\* when its event began and has not gone since, whatever others change in the VPC.
THEOREM Invariance == Spec => []IInv
BY InitInv, StepInv, PTL DEF Spec

\* A default security group whose rules were removed successfully has none of those that
\* it had when the event began (delete-default-sg-rules.ts).
THEOREM GroupIsEmptied == Spec => []DefaultGroupIsEmptied
<1>1. IInv => DefaultGroupIsEmptied
  BY DEF IInv
<1>2. QED
  BY <1>1, Invariance, PTL

\* No address is missing from those recorded of an endpoint, and the transit account was
\* sent the same ones (endpoint-ips.ts, endpoint-ips-apigw.ts).
THEOREM AddressesComplete == Spec => []AddressesAreComplete
<1>1. IInv => AddressesAreComplete
  BY DEF IInv
<1>2. QED
  BY <1>1, Invariance, PTL

-----------------------------------------------------------------------------
(* The pipeline.                                                            *)

Ids == [word: STRING, spelling: {"normal", "other"}]

\* The deployed pipeline is what the app makes of some context, given by hand or by the
\* pipeline itself.
FromContext ==
  \/ app = SynthesisFails
  \/ /\ app.kind = "pipeline"
     /\ \E context : context.environment \in Ids /\ app = CreateApp(context)

\* What the app makes of the arguments of a pipeline it made.
LEMMA SynthesizedAgain ==
  ASSUME NEW context, context.environment \in Ids,
         NEW p, p = CreateApp(context), p.kind = "pipeline"
  PROVE  /\ SynthParams(p).environment \in Ids
         /\ CreateApp(SynthParams(p)).kind = "pipeline"
         /\ CreateApp(SynthParams(p)) = [p EXCEPT !.region = DefaultRegion,
                                                  !.configuration = DefaultConfiguration]
<1> DEFINE name == Normalize(context.environment)
<1>1. IsString(context.domain) = IsString(context.certificate) /\ p = Pipeline(context)
  BY DEF CreateApp, Sandbox, SynthesisFails
<1>2. /\ ValidCidr(context.cidr) /\ IsString(context.flowLogs) /\ IsString(context.branch)
      /\ IsId(name)
      /\ p = [kind |-> "pipeline",
              name |-> name,
              cidr |-> context.cidr,
              flowLogs |-> context.flowLogs,
              branch |-> context.branch,
              email |-> IF name.word = "sandbox" THEN Unset ELSE context.email,
              domain |-> Domain(context),
              tgwBus |-> context.tgwBus,
              albBus |-> context.albBus,
              region |-> Resolve(context.region, DefaultRegion),
              configuration |-> Resolve(context.configuration, DefaultConfiguration)]
  BY <1>1 DEF Pipeline, SynthesisFails
<1>3. name \in Ids /\ Normalize(name) = name
  BY DEF Ids, Normalize
<1> DEFINE again == SynthParams(p)
<1> HIDE DEF name
<1>4. /\ again.environment = name /\ again.sandbox = Unset /\ again.cidr = context.cidr
      /\ again.flowLogs = context.flowLogs /\ again.branch = context.branch
      /\ again.email = p.email /\ again.tgwBus = context.tgwBus /\ again.albBus = context.albBus
      /\ again.domain = p.domain.name /\ again.certificate = p.domain.certificate
      /\ again.region = Unset /\ again.configuration = Unset
  BY <1>2 DEF SynthParams
<1>5. /\ IsString(again.domain) = IsString(again.certificate)
      /\ Domain(again) = p.domain
  <2>1. CASE IsString(context.domain)
    <3>1. p.domain = [name |-> context.domain, certificate |-> context.certificate]
      BY <1>2, <2>1 DEF Domain
    <3>2. again.domain = context.domain /\ again.certificate = context.certificate
      BY <1>4, <3>1
    <3>3. IsString(again.domain) /\ IsString(again.certificate)
      BY <1>1, <2>1, <3>2
    <3>4. Domain(again) = [name |-> again.domain, certificate |-> again.certificate]
      BY <3>3 DEF Domain
    <3>5. QED
      BY <3>1, <3>2, <3>3, <3>4
  <2>2. CASE ~IsString(context.domain)
    <3>1. p.domain = NoDomain
      BY <1>2, <2>2 DEF Domain
    <3>2. again.domain = Unset /\ again.certificate = Unset
      BY <1>4, <3>1 DEF NoDomain
    <3>3. ~IsString(again.domain) /\ ~IsString(again.certificate)
      BY <3>2 DEF IsString
    <3>4. Domain(again) = NoDomain
      BY <3>3 DEF Domain
    <3>5. IsString(again.domain) = IsString(again.certificate)
      BY <3>3 DEF IsString
    <3>6. QED
      BY <3>1, <3>4, <3>5
  <2>3. QED
    BY <2>1, <2>2
<1>6. ~IsSandbox(again)
  BY <1>4 DEF IsSandbox, Unset
<1> HIDE DEF again
<1>7. CreateApp(again) = Pipeline(again)
  BY <1>2, <1>4, <1>5, <1>6 DEF CreateApp
<1>8. Pipeline(again) = [kind |-> "pipeline",
                         name |-> name,
                         cidr |-> p.cidr,
                         flowLogs |-> p.flowLogs,
                         branch |-> p.branch,
                         email |-> p.email,
                         domain |-> p.domain,
                         tgwBus |-> p.tgwBus,
                         albBus |-> p.albBus,
                         region |-> DefaultRegion,
                         configuration |-> DefaultConfiguration]
  BY <1>2, <1>3, <1>4, <1>5 DEF Pipeline, Resolve
<1>9. [p EXCEPT !.region = DefaultRegion, !.configuration = DefaultConfiguration] = Pipeline(again)
  <2> DEFINE q == [p EXCEPT !.region = DefaultRegion]
  <2>1. q = [kind |-> "pipeline", name |-> name, cidr |-> p.cidr, flowLogs |-> p.flowLogs,
          branch |-> p.branch, email |-> p.email, domain |-> p.domain, tgwBus |-> p.tgwBus,
          albBus |-> p.albBus, region |-> DefaultRegion, configuration |-> p.configuration]
    BY <1>2
  <2> HIDE DEF q
  <2>2. [q EXCEPT !.configuration = DefaultConfiguration] = Pipeline(again)
    BY <1>8, <2>1
  <2>3. QED
    BY <2>2 DEF q
<1>10. again.environment \in Ids
  BY <1>3, <1>4
<1>11. Pipeline(again).kind = "pipeline"
  BY <1>8
<1>12. QED
  BY <1>7, <1>9, <1>10, <1>11 DEF again

LEMMA FromContextStep == FromContext /\ [Next]_vars => FromContext'
<1> SUFFICES ASSUME FromContext, [Next]_vars PROVE FromContext'
  OBVIOUS
<1>1. CASE \E context \in Contexts : Deploy(context)
  BY <1>1, ContextsAssumption DEF Deploy, FromContext, Ids
<1>2. CASE SelfMutate
  <2>1. PICK context : context.environment \in Ids /\ app = CreateApp(context)
    BY <1>2 DEF FromContext, SelfMutate, SynthesisFails
  <2>2. SynthParams(app).environment \in Ids /\ CreateApp(SynthParams(app)).kind = "pipeline"
    BY <1>2, <2>1, SynthesizedAgain DEF SelfMutate
  <2>3. app' = app \/ app' = CreateApp(SynthParams(app))
    BY <1>2 DEF SelfMutate
  <2>4. QED
    BY <1>2, <2>1, <2>2, <2>3 DEF FromContext, SelfMutate
<1>3. CASE UNCHANGED app
  BY <1>3 DEF FromContext
<1>4. QED
  BY <1>1, <1>2, <1>3
     DEF Next, vars, CreateVpc, DeleteVpc, AddRule, RemoveRule, ReplaceInterface, Create, Update,
         Deliver, Delete, Return, CallFails, Redeliver, ListRules, Revoke, ListInterfaces,
         DescribeOne, NoneFound, ReturnTargets, SendAddresses

LEMMA FromContextAlways == Spec => []FromContext
<1>1. Init => FromContext
  BY DEF Init, FromContext
<1>2. QED
  BY <1>1, FromContextStep, PTL DEF Spec

\* Type correctness: every running handler and every recorded resource belongs to a VPC
\* that was created, and what is deployed is a pipeline or nothing.
THEOREM TypeCorrect == Spec => []TypeOK
<1>1. IInv /\ FromContext => TypeOK
  <2> SUFFICES ASSUME IInv, FromContext PROVE TypeOK
    OBVIOUS
  <2>1. app.kind \in {"error", "pipeline"}
    BY DEF FromContext, SynthesisFails
  <2>2. \A r \in Resources :
          /\ resource[r].status \in {"none", "done", "failed"}
          /\ handler[r].listed \cup handler[r].found \subseteq Rules \cup Interfaces
    BY DEF IInv, Types, Invocations, Records, Things
  <2>3. QED
    BY <2>1, <2>2 DEF IInv, Types, OnVpcs, TypeOK
<1>2. QED
  BY <1>1, Invariance, FromContextAlways, PTL

\* A pipeline that synthesizes itself comes out as the same pipeline but for its region
\* and its configuration, whatever context it was first deployed with
\* (lib/atat-pipeline-stack.ts).
THEOREM PipelineKept == Spec => []MutationKeepsPipeline
<1>1. FromContext => MutationKeepsPipeline
  <2> SUFFICES ASSUME FromContext, app.kind = "pipeline" PROVE MutationKeepsPipeline
    BY DEF MutationKeepsPipeline
  <2>1. PICK context : context.environment \in Ids /\ app = CreateApp(context)
    BY DEF FromContext, SynthesisFails
  <2>2. QED
    BY <2>1, SynthesizedAgain DEF MutationKeepsPipeline
<1>2. QED
  BY <1>1, FromContextAlways, PTL
=============================================================================
