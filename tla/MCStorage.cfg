\* The storage components, each alone.  They stop where their bounds end.
SPECIFICATION Spec
CONSTANT None = None
INVARIANTS RowsFaithful StorageTyped WithinCapacity
PROPERTIES StagesFaithful NothingNeededIsCollected PlansReproduce
CHECK_DEADLOCK FALSE
