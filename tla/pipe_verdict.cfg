CONSTANTS
  slippage = slippage  recipient = recipient  batchSize = batchSize  quote = quote  price = price
  Decodes <- Several
  Policies <- ThreePolicies
  ScopeOf <- Scopes
  SeverityOf <- Severities
  Calls <- TwoCalls
  CallsOf <- Needs
  Optional = {price}
SPECIFICATION Spec
INVARIANTS PassIsEarned ActionDenyStands VenueWarnIsPolicy
CHECK_DEADLOCK FALSE
