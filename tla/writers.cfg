SPECIFICATION Spec
CONSTANTS
    Anchors = {"a"}
    MaxHeight = 0
    NoCursor = NoCursor
    Writers = {w1, w2}
    Dispatchers = {}
    Deliverable <- ClaimEvents
    MaxJournal = 6
SYMMETRY Symm
INVARIANTS RecoverySucceeds AppliedWasCommitted NoKeyConflict
CHECK_DEADLOCK FALSE
