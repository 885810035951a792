\* Two runs: the first one's start request outlives its cancellation.
CONSTANT MaxRuns = 2
SPECIFICATION Spec
INVARIANT NewRunUndisturbed
CHECK_DEADLOCK FALSE
