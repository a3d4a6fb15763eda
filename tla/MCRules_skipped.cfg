\* The segments a playlist leaves out.
SPECIFICATION Spec

INVARIANT SkippedAreEmpty

CHECK_DEADLOCK FALSE
