\* Two runs of each program, every policy, key file, reply and exchange.
SPECIFICATION Spec
CONSTANTS
    Hash <- MCHash
    Null = Null
    Unset = Unset
    Clients = {r1, r2}
    Variants = {"poc", "sgx"}
    Chains <- MCChains
    Policies <- MCPolicies
    Aks <- MCAks
    Keys = {"ours", "other", "notpem", "missing"}
    RegQuotes = {"same", "other"}
    Replies = {"fresh", "stale", "empty", "large", "none"}
    Buckets = {1, 2}
    MaxChanges = 1
SYMMETRY Alike
INVARIANTS TypeOK TableIsMap SuccessIsRegistered SuccessIsListed SuccessHasUsers
    QuoteIsVerified FreshIsFresh RefusedWithReason
\* Runs end.
CHECK_DEADLOCK FALSE
