SPECIFICATION ImagesSpec
CONSTANTS
    pa = pa  pb = pb  pc = pc
    NoImage = NoImage  NoPath = NoPath
    Images = {i1, i2, i3}
    Paths = {pa, pb, pc}
    Textual = {pa, pc}
    FileName <- NameOfPath
    Admins = {a1}
    Mirrors = {m1, m2}
SYMMETRY Symmetry
CHECK_DEADLOCK FALSE
INVARIANT ObjectsMatchRows
INVARIANT MirrorIsExact
