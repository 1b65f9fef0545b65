SPECIFICATION Spec
CONSTANTS
  Sources = {1, 2}
  style = style
  fact = fact
  Claims = {style, fact}
  TypeOf <- MCTypeOf
  Hashes = {1, 2}
  Spans = {1}
  Rules <- MCRules
  StabilityCycles = 1
  ForgetMaxCycles = 1
  Policies <- MCPolicies
  MaxEvents = 2
  MaxGenerations = 1
  Nobody = Nobody
INVARIANT UnverifiedIsDigested
