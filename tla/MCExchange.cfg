SPECIFICATION MCSpec
CONSTANTS
    NumRows = 2
    NumCols = 2
    Flits = {0, 1, 3}
    Bubbles = {0, 1}
    Slots <- MCSlots
    BubbleSlots <- MCBubbleSlots
    NoSlot <- MCNoSlot
    Entry <- MCEntry
    Advance <- MCAdvance
    Exit <- MCExit
    Site <- MCSite
    Walk <- MCWalk
    Home <- MCHome
INVARIANTS
    OneSlotEach
    DeadlockUndone
    CbsBubblesInLine
PROPERTIES
    CbsPacketsKept
