CONSTANTS
  slippage = slippage  recipient = recipient  batchSize = batchSize  quote = quote  price = price
  Decodes <- Shipped
  Policies <- ThreePolicies
  ScopeOf <- Scopes
  SeverityOf <- Severities
  Calls <- TwoCalls
  CallsOf <- Needs
  Optional = {price}
SPECIFICATION Spec
INVARIANT ComputedDenyStands
CHECK_DEADLOCK FALSE
