CONSTANTS
    c1 = c1
    c2 = c2
    Chain = {c1, c2}
    Shard <- MCShard
    Name = {"alice", "tools"}
    Hash <- MCHash
    Slots = 1
    MaxRestarts = 1
    Files = {2, 3}
    Protocols = {"http", "ssh"}
SPECIFICATION MCSpec
INVARIANTS RoutedOnce OneAuthority NobodyWaits
