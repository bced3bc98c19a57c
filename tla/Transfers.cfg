CONSTANTS
    root = root
    main = main
    top = top
    private = private
    a = a
    b = b
    c = c
    forth = forth
    back = back
    NoObject = NoObject
    empty = empty
    byte = byte
    BadOid = BadOid
    Object = {root, main, top, private}
    Links <- MCLinks
    Histories = {{main}, {main, top}}
    Clones = {{}, {root, private}}
    Transport = {"ssh", "http"}
    MaxPackets = 5
    Window = 2
SPECIFICATION MCSpec
CHECK_DEADLOCK FALSE
INVARIANTS PackExact TalkSound PackSound BatchSound DownloadExact
PROPERTY FetchDelivers
