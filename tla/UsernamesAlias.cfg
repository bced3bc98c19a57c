CONSTANTS
    a = a
    b = b
    p1 = p1
    p2 = p2
    NoUser = NoUser
    User = {a, b}
    Username = {1, 2, 3}
    Shard = {0, 1}
    ShardOf <- TwoShards
    Reachable = {0, 1}
    SessionName <- Names
    Founder = a
    Process = {p1, p2}
    Attempts = 2
    Lifetime = 1
    MaxTime = 1
    MaxWrites = 2
    Counted = FALSE
SYMMETRY Symmetric
SPECIFICATION Spec
INVARIANT AliasKept
