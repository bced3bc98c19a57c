CONSTANTS
    git1 = git1
    git2 = git2
    ssh1 = ssh1
    lfs1 = lfs1
    browser1 = browser1
    browser2 = browser2
    control1 = control1
    Request = {git1, git2, ssh1, lfs1, browser1, browser2, control1}
    Kind <- KindOf
    Active <- One
    Queued <- One
    Slots = 1
SPECIFICATION MCSpec
CHECK_DEADLOCK FALSE
INVARIANTS ServingSafe
PROPERTIES NothingStartsLate Stops GitQueueEnds
