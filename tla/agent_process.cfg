SPECIFICATION FairSpec
CONSTANTS
    Names = {"a", "b"}
    Paths = {"p", "q"}
    Documents <- MCDocuments
    Selections <- MCSelections
    MaxChildren = 2
INVARIANTS NothingShared ExitStatus
PROPERTIES Independent Terminates
