\* reset_counter called once the session is exhausted, as its test does.
SPECIFICATION Spec
CONSTANTS
    Threshold = 5
    CounterMod = 8
    Salts = {s1, s2}
    Callers = {"resetting"}
SYMMETRY MCSymmetry
\* A keyboard that is off, with no salt left, stays off.
CHECK_DEADLOCK FALSE
INVARIANTS
    ExhaustionPreventsReuse
