CONSTANTS
    Thread = {a, b, c}
    Observed = {1, 2, 3}
    MaxTime = 5
SPECIFICATION Spec
INVARIANT ClockInv
PROPERTIES
    WitnessMovesOn
    WitnessReturns
    ImplementsAtomicClock
