---------------------------- MODULE MCDeployment ----------------------------
(* A small instance of Deployment: contexts of a full pipeline, of smaller and *)
(* stranger ones, of a sandbox, and of what the synthesis refuses.             *)
EXTENDS Deployment, TLC

CONSTANTS z1, z2

TwoZones == {z1, z2}
ZoneSymmetry == Permutations(TwoZones)

Block == [octets |-> <<10, 0, 0, 0>>, prefix |-> 16]

\* Five parts, one of them no octet: validateCidr lets it pass.
FiveParts == [octets |-> <<10, 0, 256, 0, 0>>, prefix |-> 16]

\* Every value given, and none of those with a default.
Full ==
  [environment |-> [word |-> "dev", spelling |-> "other"], sandbox |-> Unset, cidr |-> Block,
   flowLogs |-> "bucket", branch |-> "main", email |-> "team", tgwBus |-> "tgw",
   albBus |-> "alb", domain |-> "api", certificate |-> "cert", region |-> Unset,
   configuration |-> Unset]

Elsewhere == [Full EXCEPT !.region = "us-gov-east-1", !.configuration = "config/csp/other"]
SandboxAccount == [Full EXCEPT !.environment = [word |-> "sandbox", spelling |-> "other"],
                               !.domain = Unset, !.certificate = Unset, !.cidr = FiveParts]
Developer == [Full EXCEPT !.sandbox = "yes", !.cidr = NoCidr, !.flowLogs = Unset]

Refused ==
  {[Full EXCEPT !.certificate = Unset],
   [Full EXCEPT !.cidr.prefix = 29],
   [Full EXCEPT !.sandbox = "true"],
   [Full EXCEPT !.environment = [word |-> "", spelling |-> "other"]]}

SmallContexts == {Full, Elsewhere, SandboxAccount, Developer} \cup Refused
=============================================================================
