------------------------ MODULE MCMaterializationJob ------------------------
(* Small instances of MaterializationJob for TLC.                          *)
EXTENDS MaterializationJob, TLC

CONSTANT p1

\* Jobs of one project; MCControl has the instance with two.
ProjectOfJob == [j \in Jobs |-> p1]

\* Workers are interchangeable: Init, Next and the invariants treat them alike.
WorkerSymmetry == Permutations(Workers)

=============================================================================
