-------------------------- MODULE MCRuntimeServing --------------------------
(* Small instances of RuntimeServing for TLC.                              *)
EXTENDS RuntimeServing, TLC

CONSTANTS c1, c2, r3

\* r3, where it is a release, is the only one on the second channel.
ChannelOfRelease == [r \in Releases |-> IF r = r3 THEN c2 ELSE c1]

\* Every release's plan covers every group.
AllGroups == [r \in Releases |-> Groups]

\* Idempotency keys are interchangeable.
PreparationSymmetry == Permutations(Preparations)

\* A search for one behaviour need not look at overlapping or aborted cutovers.
OneCutoverAtATime ==
  /\ inventory.complete
  /\ Cardinality({p \in Preparations : preps[p].phase \notin {"none", "committed"}}) <= 1

=============================================================================
