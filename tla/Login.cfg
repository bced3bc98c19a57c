CONSTANTS
    alice = alice  bob = bob  b1 = b1  b2 = b2  l1 = l1  l2 = l2  c1 = c1  c2 = c2
    Username = {1}
    Identity = {alice, bob}
    Browser = {b1, b2}
    LoginID = {l1, l2}
    Call = {c1, c2}
    NoRecord = NoRecord  GroupRecord = GroupRecord  None = None  Keep = Keep
    LoginLifetime = 1
    SessionLifetime = 1
    CallTime = 1
    MaxTime = 2
    Faults = TRUE
SPECIFICATION Spec
SYMMETRY PeopleSymmetry
INVARIANTS LoginSafe SingleUse
PROPERTY NeverReassigned
