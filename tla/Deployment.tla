----------------------------- MODULE Deployment -----------------------------
(***************************************************************************)
(* The deployment of the app: the pipeline that synthesizes itself again   *)
(* (AppSynthesis), and the custom resources of its stacks while they work  *)
(* on a VPC that others change too:                                        *)
(*                                                                         *)
(*   cleanup    removes the rules of the VPC's default security group      *)
(*              (custom-resources/delete-default-sg-rules.ts)              *)
(*   targets    finds the addresses of the API Gateway endpoint for the    *)
(*              load balancer (endpoint-ips.ts)                            *)
(*   addresses  sends them to the transit account (endpoint-ips-apigw.ts)  *)
(*                                                                         *)
(* A handler makes several calls to EC2, none of them atomic with another. *)
(* CloudFormation and the provider framework may lose an invocation and    *)
(* deliver its event again.                                                *)
(***************************************************************************)
EXTENDS AppSynthesis

CONSTANTS
  Contexts,   \* the contexts of manual deployments
  Zones,      \* the availability zones of a VPC's subnets (maxAzs is 2)
  MaxVpcs,    \* bound on the VPCs the network stack creates
  MaxChanges, \* bound on the changes others make in the VPCs
  MaxFaults   \* bound on lost invocations and AWS errors

\* An environment ID is a word in one spelling or another.
ASSUME ContextsAssumption ==
  \A context \in Contexts : context.environment \in [word: STRING, spelling: {"normal", "other"}]

ASSUME DeploymentAssumption ==
  MaxVpcs \in Nat /\ MaxChanges \in Nat /\ MaxFaults \in Nat

Endpoints == {"targets", "addresses"}
Resources == {"cleanup"} \cup Endpoints

\* The rules and the interfaces of a VPC have the number zero when they come with
\* it, and otherwise that of the change that made them: no ID is used again.
Rules == [n: 0..MaxChanges, egress: BOOLEAN]
Interfaces == [n: 0..MaxChanges, zone: Zones]

VARIABLES
  app,        \* the deployed pipeline, SynthesisFails before the first
  vpc,        \* the VPC of the network stack, zero before the first
  rules,      \* of each VPC: the rules of its default security group
  interfaces, \* of each VPC: the interfaces of its API Gateway endpoint
  changes,    \* history: changes by others so far
  handler,    \* of each resource: its running invocation
  resource,   \* of each resource: what CloudFormation has recorded
  sent,       \* what the transit account was sent last
  faults      \* history: faults so far

networkVars == <<vpc, rules, interfaces, changes>>
vars == <<app, networkVars, handler, resource, sent, faults>>

\* "old" is what was in the group or at the endpoint when CloudFormation issued
\* the event; it stays when the event is delivered again.
Idle == [pc |-> "idle", vpc |-> 0, listed |-> {}, found |-> {}, old |-> {}]
NotCreated == [status |-> "none", vpc |-> 0, data |-> {}, old |-> {}]

Init ==
  /\ app = SynthesisFails
  /\ vpc = 0
  /\ rules = [v \in 1..MaxVpcs |-> {}]
  /\ interfaces = [v \in 1..MaxVpcs |-> {}]
  /\ changes = 0
  /\ handler = [r \in Resources |-> Idle]
  /\ resource = [r \in Resources |-> NotCreated]
  /\ sent = [vpc |-> 0, addresses |-> {}]
  /\ faults = 0

Running(r) == handler[r].pc # "idle"

-----------------------------------------------------------------------------
(* The pipeline.                                                           *)

\* Somebody deploys a pipeline from a workstation.  When the synthesis fails, or
\* makes a sandbox, which is a stack of its own, the pipeline stays what it was.
Deploy(context) ==
  /\ CreateApp(context).kind = "pipeline"
  /\ app' = CreateApp(context)
  /\ UNCHANGED <<networkVars, handler, resource, sent, faults>>

\* The pipeline synthesizes the app and deploys itself; when that fails, the
\* pipeline stays what it was.
SelfMutate ==
  /\ app.kind = "pipeline"
  /\ LET synthesized == CreateApp(SynthParams(app))
     IN app' = IF synthesized = SynthesisFails THEN app ELSE synthesized
  /\ UNCHANGED <<networkVars, handler, resource, sent, faults>>

-----------------------------------------------------------------------------
(* The VPC, and what others change in it.                                  *)

\* The network stack creates its VPC, or another one in its place: with the two
\* rules EC2 gives every default group, and an interface in each zone.
CreateVpc ==
  /\ app.kind = "pipeline"
  /\ \A r \in Resources : ~Running(r)
  /\ vpc < MaxVpcs
  /\ vpc' = vpc + 1
  /\ rules' = [rules EXCEPT ![vpc'] = [n: {0}, egress: BOOLEAN]]
  /\ interfaces' = [interfaces EXCEPT ![vpc'] = [n: {0}, zone: Zones]]
  /\ UNCHANGED <<app, changes, handler, resource, sent, faults>>

Change == changes < MaxChanges /\ changes' = changes + 1

\* CloudFormation deletes a VPC that was replaced.
DeleteVpc(v) ==
  /\ v < vpc /\ Change
  /\ rules[v] \cup interfaces[v] # {}
  /\ rules' = [rules EXCEPT ![v] = {}]
  /\ interfaces' = [interfaces EXCEPT ![v] = {}]
  /\ UNCHANGED <<app, vpc, handler, resource, sent, faults>>

AddRule(egress) ==
  /\ vpc > 0 /\ Change
  /\ rules' = [rules EXCEPT ![vpc] = @ \cup {[n |-> changes', egress |-> egress]}]
  /\ UNCHANGED <<app, vpc, interfaces, handler, resource, sent, faults>>

RemoveRule(rule) ==
  /\ vpc > 0 /\ rule \in rules[vpc] /\ Change
  /\ rules' = [rules EXCEPT ![vpc] = @ \ {rule}]
  /\ UNCHANGED <<app, vpc, interfaces, handler, resource, sent, faults>>

\* The endpoint replaces one of its interfaces.
ReplaceInterface(interface) ==
  /\ vpc > 0 /\ interface \in interfaces[vpc] /\ Change
  /\ interfaces' = [interfaces EXCEPT ![vpc] =
                      (@ \ {interface}) \cup {[n |-> changes', zone |-> interface.zone]}]
  /\ UNCHANGED <<app, vpc, rules, handler, resource, sent, faults>>

-----------------------------------------------------------------------------
(* CloudFormation's events.                                                *)

Contents(r, v) == IF r = "cleanup" THEN rules[v] ELSE interfaces[v]

\* The network stack is deployed first, then the one with the endpoint resources,
\* which gets its endpoint from the network stack.
StackReady(r, v) ==
  IF r = "cleanup"
    THEN v <= vpc /\ \A e \in Endpoints : ~Running(e)
    ELSE ~Running("cleanup") /\ resource["cleanup"].status = "done" /\ v = resource["cleanup"].vpc

Deliver(r, v) ==
  /\ r \in StageResources(app) /\ ~Running(r) /\ StackReady(r, v)
  /\ handler' = [handler EXCEPT ![r] = [pc |-> "list", vpc |-> v, listed |-> {}, found |-> {},
                                       old |-> Contents(r, v)]]
  /\ UNCHANGED <<app, networkVars, resource, sent, faults>>

\* RequestType "Create"
Create(r, v) ==
  /\ resource[r].status = "none"
  /\ r = "cleanup" => v = vpc
  /\ Deliver(r, v)

\* RequestType "Update": for a VPC or an endpoint in the place of another, back to
\* the old one when the deployment is rolled back, or for another port.
Update(r, v) == resource[r].status # "none" /\ Deliver(r, v)

\* RequestType "Delete": when the resource has left its stack, or could not be
\* created.  The handlers do nothing.
Delete(r) ==
  /\ ~Running(r)
  /\ \/ resource[r].status = "failed"
     \/ resource[r].status = "done" /\ r \notin StageResources(app)
  /\ resource' = [resource EXCEPT ![r] = NotCreated]
  /\ UNCHANGED <<app, networkVars, handler, sent, faults>>

Step(r, pc) == handler' = [handler EXCEPT ![r].pc = pc]

\* Mutant: the invocation that threw stays around.
ThrowOnly(r) ==
  /\ handler' = [handler EXCEPT ![r].pc = "idle"]
  /\ resource' = [resource EXCEPT ![r] = [NotCreated EXCEPT !.status = "failed"]]

\* The handler threw: the framework reports FAILED.
Throw(r) ==
  /\ handler' = [handler EXCEPT ![r] = Idle]
  /\ resource' = [resource EXCEPT ![r] = [NotCreated EXCEPT !.status = "failed"]]

\* The handler returned: CloudFormation records the data.
Finish(r) ==
  /\ handler' = [handler EXCEPT ![r] = Idle]
  /\ resource' = [resource EXCEPT ![r] =
                    [status |-> "done", vpc |-> handler[r].vpc, data |-> handler[r].found,
                     old |-> handler[r].old]]

Return(r) ==
  /\ handler[r].pc = "return"
  /\ Finish(r)
  /\ UNCHANGED <<app, networkVars, sent, faults>>

\* An AWS call fails, and the handler throws.
CallFails(r) ==
  /\ Running(r) /\ faults < MaxFaults
  /\ faults' = faults + 1
  /\ Throw(r)
  /\ UNCHANGED <<app, networkVars, sent>>

\* An invocation is lost after any of its calls, and the event delivered again.
Redeliver(r) ==
  /\ Running(r) /\ faults < MaxFaults
  /\ faults' = faults + 1
  /\ handler' = [handler EXCEPT ![r] = [@ EXCEPT !.pc = "list", !.listed = {}, !.found = {}]]
  /\ UNCHANGED <<app, networkVars, resource, sent>>

-----------------------------------------------------------------------------
(* delete-default-sg-rules.ts.  Nobody reads its DeletedRules.             *)

\* getExistingSecurityGroupRules
ListRules ==
  /\ handler["cleanup"].pc = "list"
  /\ handler' = [handler EXCEPT !["cleanup"] =
                    [@ EXCEPT !.pc = "ingress", !.listed = rules[handler["cleanup"].vpc]]]
  /\ UNCHANGED <<app, networkVars, resource, sent, faults>>

\* Mutant: only the ingress rules are revoked.
IngressOnly(pc) == "return"

AfterRevoke(pc) == IF pc = "ingress" THEN "egress" ELSE "return"

\* deleteSgRuleHelper.  EC2 revokes all of the rules, or none when one of them no
\* longer exists; without any rules there is no call.
Revoke ==
  LET pc == handler["cleanup"].pc
      v == handler["cleanup"].vpc
      ids == {rule \in handler["cleanup"].listed : rule.egress = (pc = "egress")}
  IN /\ pc \in {"ingress", "egress"}
     /\ \/ /\ ids \subseteq rules[v]
           /\ rules' = [rules EXCEPT ![v] = @ \ ids]
           /\ Step("cleanup", AfterRevoke(pc))
           /\ UNCHANGED resource
        \/ /\ ~(ids \subseteq rules[v])
           /\ Throw("cleanup")
           /\ UNCHANGED rules
     /\ UNCHANGED <<app, vpc, interfaces, changes, sent, faults>>

-----------------------------------------------------------------------------
(* endpoint-ips-service.ts, endpoint-ips.ts and endpoint-ips-apigw.ts.     *)

\* describeVpcEndpoints
ListInterfaces(r) ==
  /\ handler[r].pc = "list"
  /\ handler' = [handler EXCEPT ![r] = [@ EXCEPT !.pc = "describe",
                                                 !.listed = interfaces[handler[r].vpc]]]
  /\ UNCHANGED <<app, networkVars, resource, sent, faults>>

\* describeNetworkInterfaces, in a call of its own for each; an interface that is
\* gone gives nothing.
DescribeOne(r) ==
  LET h == handler[r]
  IN /\ h.pc = "describe"
     /\ \E interface \in h.listed :
          handler' = [handler EXCEPT ![r] =
                        [h EXCEPT !.listed = h.listed \ {interface},
                                  !.found = h.found \cup ({interface} \cap interfaces[h.vpc])]]
     /\ UNCHANGED <<app, networkVars, resource, sent, faults>>

\* Mutant: the first answer is enough.
AnyDescribed(h) == h.listed = {} \/ h.found # {}

\* Promise.all
AllDescribed(h) == h.listed = {}

NoneFound(r) ==
  /\ handler[r].pc = "describe" /\ AllDescribed(handler[r]) /\ handler[r].found = {}
  /\ Throw(r)
  /\ UNCHANGED <<app, networkVars, sent, faults>>

ReturnTargets ==
  LET h == handler["targets"]
  IN /\ h.pc = "describe" /\ AllDescribed(h) /\ h.found # {}
     /\ Finish("targets")
     /\ UNCHANGED <<app, networkVars, sent, faults>>

\* sendEventToEventBridge.  PutEvents may refuse the entry and succeed; the handler
\* does not look, so that it makes no difference here.
SendAddresses ==
  LET h == handler["addresses"]
  IN /\ h.pc = "describe" /\ AllDescribed(h) /\ h.found # {}
     /\ sent' = [vpc |-> h.vpc, addresses |-> h.found]
     /\ Step("addresses", "return")
     /\ UNCHANGED <<app, networkVars, resource, faults>>

-----------------------------------------------------------------------------
Next ==
  \/ \E context \in Contexts : Deploy(context)
  \/ SelfMutate
  \/ CreateVpc
  \/ \E v \in 1..MaxVpcs : DeleteVpc(v)
  \/ \E egress \in BOOLEAN : AddRule(egress)
  \/ \E rule \in Rules : RemoveRule(rule)
  \/ \E interface \in Interfaces : ReplaceInterface(interface)
  \/ \E r \in Resources, v \in 1..MaxVpcs : Create(r, v)
  \/ \E r \in Resources, v \in 1..MaxVpcs : Update(r, v)
  \/ \E r \in Resources : Delete(r)
  \/ \E r \in Resources : Return(r)
  \/ \E r \in Resources : CallFails(r)
  \/ \E r \in Resources : Redeliver(r)
  \/ ListRules
  \/ Revoke
  \/ \E r \in Endpoints : ListInterfaces(r)
  \/ \E r \in Endpoints : DescribeOne(r)
  \/ \E r \in Endpoints : NoneFound(r)
  \/ ReturnTargets
  \/ SendAddresses

Spec == Init /\ [][Next]_vars

-----------------------------------------------------------------------------
(* Properties.                                                             *)

\* The types; a handler works on a VPC that has been created, and an idle one
\* keeps nothing.
TypeOK ==
  /\ app.kind \in {"error", "pipeline"}
  /\ vpc \in 0..MaxVpcs /\ changes \in 0..MaxChanges /\ faults \in 0..MaxFaults
  /\ \A v \in 1..MaxVpcs : rules[v] \subseteq Rules /\ interfaces[v] \subseteq Interfaces
  /\ \A r \in Resources :
       /\ Running(r) => handler[r].vpc \in 1..vpc
       /\ ~Running(r) => handler[r] = Idle
       /\ resource[r].status \in {"none", "done", "failed"}
       /\ resource[r].status = "done" => resource[r].vpc \in 1..vpc
       /\ handler[r].listed \cup handler[r].found \subseteq Rules \cup Interfaces

\* When the remover of the rules has succeeded, no rule is left that was in the
\* default security group when its event began, whatever attempts were lost half
\* way and whoever changed the group meanwhile (vpc-default-sg-rule-remove.ts:22,
\* "All the rules on the VPC's default Security Group will be deleted").
DefaultGroupIsEmptied ==
  resource["cleanup"].status = "done" =>
    resource["cleanup"].old \cap rules[resource["cleanup"].vpc] = {}

\* When the addresses of an endpoint have been recorded, for the load balancer or
\* for the transit account, there is at least one, and none is missing that the
\* endpoint had when the event began and still has; what the transit account
\* was sent last is what is recorded, once no event is being worked on.
AddressesAreComplete ==
  \A r \in Endpoints :
    resource[r].status = "done" =>
      /\ resource[r].data # {}
      /\ resource[r].old \cap interfaces[resource[r].vpc] \subseteq resource[r].data
      /\ r = "addresses" /\ ~Running(r) => sent.vpc = resource[r].vpc /\ sent.addresses = resource[r].data

\* A pipeline that synthesizes itself comes out as the same pipeline, but for the
\* region and the name of the CSP configuration: they are not among its arguments
\* (lib/atat-pipeline-stack.ts:67), so both fall back to their defaults.
MutationKeepsPipeline ==
  app.kind = "pipeline" =>
    CreateApp(SynthParams(app)) = [app EXCEPT !.region = DefaultRegion,
                                              !.configuration = DefaultConfiguration]
=============================================================================
