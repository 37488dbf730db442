\* The control components, each alone.  They stop where their bounds end.
SPECIFICATION Spec
CONSTANT None = None
INVARIANT ControlTyped
PROPERTIES JobsInterleave PublicationWhole RevisionsSound RequestsTakeEffectOnce DeliveriesFenced
CHECK_DEADLOCK FALSE
