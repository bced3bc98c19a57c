CONSTANTS
    c1 = c1
    c2 = c2
    c3 = c3
    a = a
    b = b
    p1 = p1
    p2 = p2
    NoUser = NoUser
    Creator = {c1, c2, c3}
    Name <- MCName
    KeyRank <- MCKeyRank
    PageSize = 2
SYMMETRY Symmetric
SPECIFICATION MCSpec
INVARIANTS CreationSafe ListComplete CacheTrue AliasKept
