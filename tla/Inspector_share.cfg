CONSTANTS
    Rows <- MCRows
    KindOf <- MCKindOf
    Matching <- MCMatching
    Scenes <- ShareScenes
SPECIFICATION Spec
PROPERTY SharesWhatWasAsked
CHECK_DEADLOCK FALSE
