SPECIFICATION Spec
CONSTANTS
    Scenes <- MCScenes
INVARIANTS
    StoredTurnsStay
CHECK_DEADLOCK FALSE
