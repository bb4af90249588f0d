SPECIFICATION Spec
CONSTANTS
    Claims = {c1, c2}
    NoClaim = NoClaim
    Authorities = {a1}
    Kinds = {"worker", "local"}
    Lossy = TRUE
    Consulted = {"claim", "result", "replica"}
    MaxChanges = 4
    MaxObserved = 3
INVARIANTS
    AuthorityIsSound
    ToolsAreSound
    PublishedIsSound
SYMMETRY Symmetry
CHECK_DEADLOCK FALSE
