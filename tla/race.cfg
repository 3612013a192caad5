SPECIFICATION Spec
CONSTANTS
    Anchors = {"a"}
    MaxHeight = 0
    NoCursor = NoCursor
    Writers = {w1, w2}
    Dispatchers = {}
    Deliverable <- RaceEvents
    MaxJournal = 5
SYMMETRY Symm
PROPERTIES KeepsThePromise TerminalIsFinal
CHECK_DEADLOCK FALSE
