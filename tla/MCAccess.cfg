\* The access components, each alone.  They stop where their bounds end.
SPECIFICATION Spec
CONSTANTS None = None o1 = o1 o2 = o2
INVARIANTS AccessTyped DelegationBounded PolicyFaithful
PROPERTY AnswersAuthorized
CHECK_DEADLOCK FALSE
