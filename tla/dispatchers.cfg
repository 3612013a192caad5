SPECIFICATION Spec
CONSTANTS
    Anchors = {"a"}
    MaxHeight = 1
    NoCursor = NoCursor
    Writers = {w1}
    Dispatchers = {d1, d2}
    Deliverable <- RefreshEvents
    MaxJournal = 6
SYMMETRY Symm
INVARIANT EffectsFollowTheJournal
PROPERTIES CompletedStaysCompleted
CHECK_DEADLOCK FALSE
