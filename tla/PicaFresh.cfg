\* poc, with the quotes of calls before.
SPECIFICATION Spec
CONSTANTS
    Hash <- MCHash
    Null = Null
    Unset = Unset
    Clients = {r1, r2}
    Variants = {"poc"}
    Chains <- MCChains
    Policies <- MCPolicies
    Aks <- MCAks
    Keys = {"ours", "other", "notpem", "missing"}
    RegQuotes = {"same", "other"}
    Replies = {"fresh", "stale", "empty", "large", "none"}
    Buckets = {1, 2}
    MaxChanges = 1
INVARIANTS SuccessIsFresh
\* Runs end.
CHECK_DEADLOCK FALSE
