SPECIFICATION Spec
CONSTANTS
    tab1 = tab1
    tab2 = tab2
    peer1 = peer1
    peer2 = peer2
    key1 = key1
    None = None
    Default = 1
    Tabs <- MCTabs
    Settings <- MCSettings
    Peers <- MCPeers
    Unknown <- MCUnknown
    First <- MCFirst
    MaxPeers = 2
    MaxEdits = 3
SYMMETRY Symmetry
INVARIANTS TypeOK UnknownSurvive StateStaysOut
PROPERTY FreshSaveIsLocal
