SPECIFICATION MediaSpec
CONSTANTS
    NoImage = NoImage  NoPath = NoPath
    Images = {i1, i2}
    Paths = {pa}
    Textual = {pa}
    FileName <- NameOfPath
    Admins = {a1}
    Mirrors = {m1}
    Generations = {g1}
SYMMETRY Symmetry
CHECK_DEADLOCK FALSE
INVARIANT PdfMatchesRow
INVARIANT PdfShowsSelection
INVARIANT PendingIsWorkedOn
