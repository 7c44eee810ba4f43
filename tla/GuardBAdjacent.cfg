SPECIFICATION SyncedSpec
CONSTANTS
  f = f
  g = g
  commit = commit
  listed = listed
  unlisted = unlisted
  other = other
  Files = {f, g}
  Commits = {commit}
  Stdin = Stdin
  NRules = 2
  Words = {listed, unlisted, other}
  RuleOf <- MCRuleOf
  Consuming = {1}
  Lines <- MCTextLines
  Sep = Sep
  Nothing = Nothing
  Unresolved = Unresolved
  Allow <- MCAllow
CHECK_DEADLOCK FALSE
INVARIANTS
  SecondIdentifierReported
