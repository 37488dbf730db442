\* Two callers, each with a plan of a release of its own, decided at one revision.
SPECIFICATION RaceSpec
CONSTANT None = None
INVARIANT AdmissionsWithinHard
CHECK_DEADLOCK FALSE
