---------------------------- MODULE AppSynthesis ----------------------------
(***************************************************************************)
(* What the CDK app makes of its context values (bin/app.ts,               *)
(* lib/context-values.ts): an error, a sandbox, or a pipeline; the         *)
(* arguments with which the pipeline synthesizes the app again             *)
(* (lib/atat-pipeline-stack.ts); and the custom resources of the stacks    *)
(* that the pipeline deploys.                                              *)
(*                                                                         *)
(* A context is a record of values.  A value is a string, Unset when it is *)
(* not given.  The environment ID is [word, spelling]: its letters and     *)
(* digits without regard to case, and whether it is spelled the way        *)
(* normalizeEnvironmentName spells it.  A CIDR block is [octets, prefix],  *)
(* as parseInt reads them, -1 standing for NaN.                            *)
(***************************************************************************)
EXTENDS Integers, Sequences, FiniteSets

Unset == "unset"
NoId == [word |-> "", spelling |-> "normal"]
NoCidr == [octets |-> <<>>, prefix |-> -1]
NoDomain == [name |-> Unset, certificate |-> Unset]

IsString(value) == value \notin {Unset, ""}

\* "---" is the word "" in another spelling: a string, which normalizes to none.
IsId(id) == id # NoId
Normalize(id) == [id EXCEPT !.spelling = "normal"]

DefaultRegion == "us-gov-west-1"
DefaultConfiguration == "config/csp/integration"

\* AtatContextValue.resolve of the two values that have a default.
Resolve(value, default) == IF value = Unset THEN default ELSE value

\* validateCidr: octets out of range are left out before they are counted.
ValidCidr(cidr) ==
  /\ cidr.prefix \in 16..28
  /\ Cardinality({i \in DOMAIN cidr.octets : cidr.octets[i] \in 0..255}) = 4

IsSandbox(context) == context.sandbox \in {"true", "1", "yes"}

SynthesisFails == [kind |-> "error"]

Domain(context) ==
  IF IsString(context.domain)
    THEN [name |-> context.domain, certificate |-> context.certificate]
    ELSE NoDomain

\* constructSandbox
Sandbox(context) ==
  IF context.cidr # NoCidr
    THEN SynthesisFails
    ELSE [kind |-> "sandbox",
          name |-> Normalize(context.environment),
          domain |-> Domain(context),
          albBus |-> context.albBus,
          region |-> Resolve(context.region, DefaultRegion),
          configuration |-> Resolve(context.configuration, DefaultConfiguration)]

\* constructNonSandbox.  A stage cannot have an empty name.
Pipeline(context) ==
  LET name == Normalize(context.environment)
  IN IF ~ValidCidr(context.cidr) \/ ~IsString(context.flowLogs) \/ ~IsString(context.branch)
          \/ ~IsId(name)
       THEN SynthesisFails
       ELSE [kind |-> "pipeline",
             name |-> name,
             cidr |-> context.cidr,
             flowLogs |-> context.flowLogs,
             branch |-> context.branch,
             email |-> IF name.word = "sandbox" THEN Unset ELSE context.email,
             domain |-> Domain(context),
             tgwBus |-> context.tgwBus,
             albBus |-> context.albBus,
             region |-> Resolve(context.region, DefaultRegion),
             configuration |-> Resolve(context.configuration, DefaultConfiguration)]

\* createApp
CreateApp(context) ==
  CASE ~IsId(context.environment) -> SynthesisFails
    [] IsId(context.environment) /\ IsString(context.domain) # IsString(context.certificate) ->
         SynthesisFails
    [] OTHER -> IF IsSandbox(context) THEN Sandbox(context) ELSE Pipeline(context)

-----------------------------------------------------------------------------
\* Mutant: the certificate is forgotten among the arguments.
WithoutCertificate(pipeline) ==
  [environment |-> pipeline.name, sandbox |-> Unset, cidr |-> pipeline.cidr,
   flowLogs |-> pipeline.flowLogs, branch |-> pipeline.branch, email |-> pipeline.email,
   tgwBus |-> pipeline.tgwBus, albBus |-> pipeline.albBus, domain |-> pipeline.domain.name,
   certificate |-> Unset, region |-> Unset, configuration |-> Unset]

\* synthParams: the context that the synth step of a pipeline gives the app.
SynthParams(pipeline) ==
  [environment |-> pipeline.name,
   cidr |-> pipeline.cidr,
   flowLogs |-> pipeline.flowLogs,
   branch |-> pipeline.branch,
   email |-> pipeline.email,
   tgwBus |-> pipeline.tgwBus,
   albBus |-> pipeline.albBus,
   domain |-> pipeline.domain.name,
   certificate |-> pipeline.domain.certificate,
   sandbox |-> Unset, region |-> Unset, configuration |-> Unset]

\* The custom resources in the stacks of AtatApplication: the one that empties the
\* default security group in AtatNetStack; in AtatWebApiStack the targets of the load
\* balancer and the addresses that are sent to the transit account.
StageResources(app) ==
  IF app.kind # "pipeline"
    THEN {}
    ELSE {"cleanup"}
         \cup {r \in {"targets"} : app.domain # NoDomain}
         \cup {r \in {"addresses"} : /\ app.domain # NoDomain
                                     /\ IsString(app.albBus)
                                     /\ app.name.word # "sandbox"}
=============================================================================
