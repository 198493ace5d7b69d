\* One VPC and its replacement, one change of a rule or an interface after each,
\* one fault.
CONSTANTS
  z1 = z1
  z2 = z2
  Zones <- TwoZones
  Contexts <- SmallContexts
  MaxVpcs = 2
  MaxChanges = 1
  MaxFaults = 1
SPECIFICATION Spec
SYMMETRY ZoneSymmetry
INVARIANTS
  TypeOK
  DefaultGroupIsEmptied
  AddressesAreComplete
  MutationKeepsPipeline
