SPECIFICATION Spec
CONSTANTS
    a = a
    b = b
    own = own
    dotted = dotted
    name1 = name1
    name2 = name2
    Absent = Absent
    Panel = Panel
    None = None
    Paths <- MCPaths
    Own = {own}
    Texts <- MCTexts
    Abs <- MCAbs
    LinkTo <- MCLinkTo
    First <- MCFirst
    Processes <- MCProcesses
    Units <- MCUnits
    Known <- MCKnown
    Tree <- MCTree
    Plenty = 2
    Names <- MCNames
    MaxScans = 2
    MaxCalls = 3
    MaxChanges = 1
INVARIANTS ScanExact GoneStaysGone EveryPathAnswered
CHECK_DEADLOCK FALSE
