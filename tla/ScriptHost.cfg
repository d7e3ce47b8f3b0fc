\* One panel whose script is loaded up to three times, calls nested four deep.  Once
\* its window is gone nothing more happens.
SPECIFICATION Spec
CONSTANTS
    MaxEngines = 3
    MaxDepth = 4
INVARIANTS TypeOK NoEngineLost NothingLeftBehind
PROPERTIES CallbacksReachCurrent
CHECK_DEADLOCK FALSE
