SPECIFICATION FairSpec
CONSTANTS
  a = a  b = b  c = c  d = d  e = e  tokens = tokens  cents = cents  secs = secs
  Nodes = {a, b}
  Units = {tokens}
  Tier <- AllExact
  UnitsOf <- OfTokens
  Limit <- Budget4
  MaxOutput = 1
  Tokens = {1}
  Usages = {2}
  MaxInt = 5
  Retry <- RetryA
  MaxDefers = 1
  Cancels = FALSE
  Outcomes = {"ok", "failed", "halted", "rate-limit"}
  MaxExecs = 2
  MaxSaturated = 1
INVARIANTS
  BudgetHeld FreshAttempts
PROPERTIES
  StepsSettle
