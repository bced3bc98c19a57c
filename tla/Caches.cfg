CONSTANTS
    c1 = c1
    c2 = c2
    c3 = c3
    k1 = k1
    k2 = k2
    graph = graph
    object = object
    other = other
    huge = huge
    None = None
SYMMETRY CallerSymmetry
SPECIFICATION Spec
INVARIANTS FilesSound ValuesSound
