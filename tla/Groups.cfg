CONSTANTS
    a = a
    b = b
    r1 = r1
    r2 = r2
    o1 = o1
    None = None
    NoRecord = NoRecord
    UserRecord = UserRecord
    User = {a, b}
    Name = {1, 2}
    Role = {"owner", "reader"}
    Legacy <- TwoOwners
    Request = {r1, r2}
    Operator = {o1}
    Reader = {b}
    MaxEntries = 2
    Attempts = 2
    PageSize = 1
    Indexed = TRUE
    Faults = TRUE
SPECIFICATION MCSpec
INVARIANTS GroupSafe ListingComplete
PROPERTY ImplementsRoster
