SPECIFICATION FairSpec
CONSTANTS
    tab1 = tab1
    Tabs <- MCTabs
    Capacity = 1
    Recents = 2
    Shown = 4
    Window = 2
    MaxChanges = 1
    MaxEvents = 3
    MaxTrouble = 1
INVARIANTS NoGap AtMostTwice
PROPERTY Converges
