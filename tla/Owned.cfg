SPECIFICATION Spec
CONSTANTS
    w1 = w1  w2 = w2
    Writers = {w1, w2}
    Jobs = {"discovery", "scalar"}
    MaxErrors = 1
INVARIANTS SinkDrainedAtCutoff SuccessIsKept ScalarAppliedIsNotLost NoOwnRunIsLeft
PROPERTIES OneOutcome RunIsSealed BeatEnds
CHECK_DEADLOCK FALSE
