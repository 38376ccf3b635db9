SPECIFICATION Spec
CONSTANT MaxBindingBatches = 2
INVARIANTS BuildsConvince MetricsAreTheTape ScenariosStart RunsCompare EncodingTellsStatesApart FilesReadBack
PROPERTY OutputAppearsWhole
CHECK_DEADLOCK FALSE
