CONSTANTS
    Rows <- MCRows
    KindOf <- MCKindOf
    Matching <- MCMatching
    Scenes <- PlainScenes
SPECIFICATION Spec
INVARIANTS
    ScreenIsCurrent
PROPERTY DeletesWhatWasAsked
CHECK_DEADLOCK FALSE
