CONSTANTS
    readme = readme
    commit = commit
    main = main
    op1 = op1
    op2 = op2
    op3 = op3
    NoObject = NoObject
    NoOp = NoOp
    NoState = NoState
    DefaultBranch = main
    Readme = readme
    Object = {readme, commit}
    Commit = {readme, commit}
    Links <- CommitLinks
    RefName = {main}
    Branch = {main}
    Directory = {}
    MaxGeneration = 3
    Op = {op1, op2, op3}
    Faults = TRUE
SYMMETRY OpSymmetry
SPECIFICATION MCSpec
CHECK_DEADLOCK FALSE
INVARIANTS HistoryInv RetainedIntact
PROPERTIES CollectsOrphansOnly PublicationIsAtomic ImplementsHistory
