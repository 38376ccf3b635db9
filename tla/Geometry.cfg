SPECIFICATION Spec
INVARIANTS GeometryIsExact PiecesKeepApart ModulesAreWhatBuilds
CHECK_DEADLOCK FALSE
