CONSTANTS
    k1 = k1
    k2 = k2
    k3 = k3
    t1 = t1
    r1 = r1
    r2 = r2
    o1 = o1
    Key = {k1, k2, k3}
    Token = {t1}
    Request = {r1, r2}
    Operation = {o1}
    NoCredential = NoCredential
    MaxKeys = 2
    Attempts = 2
    TokenLifetime = 1
    SessionLifetime = 1
    GrantLifetime = 1
    TransferTime = 1
    MaxTime = 3
    Faults = TRUE
SPECIFICATION MCSpec
INVARIANTS CredentialsSafe RevocationNoticed
PROPERTY TombstoneWins
