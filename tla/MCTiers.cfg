SPECIFICATION Spec
CONSTANTS
  a = a  b = b  c = c  d = d  e = e  tokens = tokens  cents = cents  secs = secs
  Nodes = {a, b, c, d, e}
  Units = {tokens, cents, secs}
  Tier <- Mixed
  UnitsOf <- MixedUnits
  Limit <- Budgets
  MaxOutput = 1
  Tokens = {1}
  Usages = {3}
  MaxInt = 4
  Retry <- NoRetry
  MaxDefers = 1
  Cancels = TRUE
  Outcomes = {"ok"}
  MaxExecs = 1
  MaxSaturated = 1
INVARIANT
  LedgerIsBoxes
