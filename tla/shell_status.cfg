\* Four children, in any mixture of foreground, background and jobs.
CONSTANTS
    Child = {c1, c2, c3, c4}
    Code = {0, 1, 127}
    NULL = NULL
SPECIFICATION Spec
INVARIANTS ChildrenCollected
PROPERTIES StatusReported
CHECK_DEADLOCK FALSE
