\* Two threads, one created after the other.
CONSTANT Threads = {"engine", "gateway"}
SPECIFICATION Spec
INVARIANT EachThreadRunsItsFunction
\* The threads go on elsewhere.
CHECK_DEADLOCK FALSE
