-------------------------- MODULE CutoverRequests --------------------------
(***************************************************************************)
(* Callers that activate a group version: each prepares under an           *)
(* idempotency key and then commits, in two statements, and sends the same *)
(* request again when it has no answer.  Two callers may therefore commit  *)
(* one preparation at once: both read it as prepared before either holds   *)
(* the project's row.                                                      *)
(*                                                                         *)
(* Source: packages/materialization-application/src/cutover.ts,            *)
(* packages/materialization-postgres/src/cutover.ts and, for the order in  *)
(* which commit reads, locks and compares, migration 0016.                 *)
(*                                                                         *)
(* Abstractions: preparing is one step and what a cutover rewrites is the  *)
(* one active version of each group (both in detail in RuntimeServing);    *)
(* control advances only when a published release moves; the overlay is    *)
(* empty, as it always is in production.                                   *)
(***************************************************************************)
EXTENDS Integers, FiniteSets

CONSTANTS
  Callers,
  Keys,         \* idempotency keys
  Groups,
  NVersions,    \* bound: versions of a group, all ready
  MaxSends,     \* bound: requests sent
  MaxRevision,  \* bound: measurements and publications by others
  None

VARIABLES
  control,   \* meta.projects.publication_sequence
  state,     \* state_revision of the inventory
  inventory, \* [revision, complete]
  active,    \* per group: the active version, 0 for none
  published, \* a release of these groups has been published
  preps,     \* per key: None or the preparation
  lock,      \* the caller whose transaction holds the project's row
  caller,    \* per caller: None or the request in progress
  sends,     \* requests sent
  answers,   \* history: per key, the results callers were given
  effects    \* history: transactions that committed each key

vars == <<control, state, inventory, active, published, preps, lock, caller, sends, answers, effects>>

Init == /\ control = 0 /\ state = 0 /\ inventory = [revision |-> 0, complete |-> TRUE]
        /\ active = [g \in Groups |-> 0] /\ published = FALSE
        /\ preps = [k \in Keys |-> None]
        /\ lock = None
        /\ caller = [c \in Callers |-> None]
        /\ sends = 0
        /\ answers = [k \in Keys |-> {}]
        /\ effects = [k \in Keys |-> 0]

-----------------------------------------------------------------------------
(* SnapshotGroupCutoverCoordinator.activate. *)

\* the caller expects the revision it has read, now or earlier
Activate(c, k, g, v, expected) ==
  /\ caller[c] = None /\ sends < MaxSends
  /\ sends' = sends + 1
  /\ caller' = [caller EXCEPT ![c] = [key |-> k, group |-> g, version |-> v, expected |-> expected,
                                      phase |-> "prepare"]]
  /\ UNCHANGED <<control, state, inventory, active, published, preps, lock, answers, effects>>

\* the request fails or its answer is lost: the caller may send it again
Fail(c) == caller' = [caller EXCEPT ![c] = None]

SameCommand(p, r) ==
  p.group = r.group /\ p.version = r.version /\ p.control = r.expected

\* prepare_snapshot_group_cutover: a known key answers its preparation for
\* the same command and refuses any other
PrepareSnapshotGroupCutover(c) ==
  LET r == caller[c]
  IN /\ r # None /\ r.phase = "prepare"
     /\ \/ /\ preps[r.key] # None
           /\ preps' = preps
           /\ IF SameCommand(preps[r.key], r) THEN caller' = [caller EXCEPT ![c].phase = "commit"]
                                              ELSE Fail(c)
        \/ /\ preps[r.key] = None
           /\ IF inventory.complete /\ control = r.expected
                THEN /\ preps' = [preps EXCEPT ![r.key] =
                          [group |-> r.group, version |-> r.version, control |-> control, state |-> state,
                           inventory |-> inventory.revision, head |-> active,
                           status |-> "prepared", result |-> None]]
                     /\ caller' = [caller EXCEPT ![c].phase = "commit"]
                ELSE Fail(c) /\ preps' = preps
     /\ UNCHANGED <<control, state, inventory, active, published, lock, sends, answers, effects>>

\* the answer reaches the caller, or is lost
Reply(c, k, result) ==
  /\ Fail(c)
  /\ \/ answers' = [answers EXCEPT ![k] = @ \cup {result}]
     \/ answers' = answers

\* commit, its first read: a committed preparation answers its stored result
CommitReads(c) ==
  LET r == caller[c]
  IN /\ r # None /\ r.phase = "commit"
     /\ IF preps[r.key].status = "committed"
          THEN Reply(c, r.key, preps[r.key].result)
          ELSE caller' = [caller EXCEPT ![c].phase = "lock"] /\ answers' = answers
     /\ UNCHANGED <<control, state, inventory, active, published, preps, lock, sends, effects>>

\* PROJECT_CONTROL: the row lock, and the revision as it is then
CommitLocks(c) ==
  LET r == caller[c]
  IN /\ r # None /\ r.phase = "lock" /\ lock = None
     /\ IF control = preps[r.key].control
          THEN lock' = c /\ caller' = [caller EXCEPT ![c].phase = "apply"]
          ELSE lock' = lock /\ Fail(c)
     /\ UNCHANGED <<control, state, inventory, active, published, preps, sends, answers, effects>>

Current(p) == /\ inventory.complete /\ inventory.revision = p.inventory
              /\ state = p.state

\* the last statement: prepared becomes committed, or the transaction aborts
MarkCommitted(p, result) ==
  [ok |-> p.status = "prepared",
   prep |-> [p EXCEPT !.status = "committed", !.result = result]]

\* everything after the locks, and the commit of the transaction
CommitApplies(c) ==
  LET r == caller[c]
      p == preps[r.key]
      changed == active[p.group] # p.version
      result == [control |-> IF changed /\ published THEN control + 1 ELSE control,
                 state |-> IF changed THEN state + 1 ELSE state, changed |-> changed]
      mark == MarkCommitted(p, result)
  IN /\ r # None /\ r.phase = "apply"
     /\ lock' = None
     /\ IF Current(p) /\ mark.ok
          THEN /\ active' = [active EXCEPT ![p.group] = p.version]
               /\ control' = result.control /\ state' = result.state
               /\ preps' = [preps EXCEPT ![r.key] = mark.prep]
               /\ effects' = [effects EXCEPT ![r.key] = @ + 1]
               /\ Reply(c, r.key, result)
          ELSE /\ Fail(c)
               /\ UNCHANGED <<active, control, state, preps, effects, answers>>
     /\ UNCHANGED <<inventory, published, sends>>

\* Mutant of Abort: the transaction is left open
AbortHoldingLock(c) ==
  /\ caller[c] # None
  /\ Fail(c)
  /\ UNCHANGED <<control, state, inventory, active, published, preps, lock, sends, answers, effects>>

\* a step fails: the transaction, if any, rolls back
Abort(c) ==
  /\ caller[c] # None
  /\ Fail(c)
  /\ lock' = IF lock = c THEN None ELSE lock
  /\ UNCHANGED <<control, state, inventory, active, published, preps, sends, answers, effects>>

-----------------------------------------------------------------------------
(* The others: the publication of a release, and the builds and scans that *)
(* leave the inventory unmeasured and measure it again.                    *)

Publish ==
  /\ lock = None /\ control < MaxRevision
  /\ control' = control + 1 /\ published' = TRUE
  /\ UNCHANGED <<state, inventory, active, preps, lock, caller, sends, answers, effects>>

Measure ==
  /\ inventory.revision < MaxRevision
  /\ \E m \in BOOLEAN : inventory' = [revision |-> inventory.revision + 1, complete |-> m]
  /\ UNCHANGED <<control, state, active, published, preps, lock, caller, sends, answers, effects>>

\* a build becomes ready: the state revision advances
BuildElsewhere ==
  /\ state < MaxRevision
  /\ state' = state + 1
  /\ UNCHANGED <<control, inventory, active, published, preps, lock, caller, sends, answers, effects>>

Next ==
  \/ \E c \in Callers, k \in Keys, g \in Groups, v \in 1..NVersions, e \in 0..control :
       Activate(c, k, g, v, e)
  \/ \E c \in Callers : PrepareSnapshotGroupCutover(c)
  \/ \E c \in Callers : CommitReads(c)
  \/ \E c \in Callers : CommitLocks(c)
  \/ \E c \in Callers : CommitApplies(c)
  \/ \E c \in Callers : Abort(c)
  \/ Publish \/ Measure \/ BuildElsewhere

Spec == Init /\ [][Next]_vars

-----------------------------------------------------------------------------
\* The type invariant.
TypeOK == /\ control \in Nat /\ state \in Nat
          /\ active \in [Groups -> 0..NVersions]
          /\ \A k \in Keys : preps[k] # None =>
               preps[k].status = "committed" <=> preps[k].result # None
          /\ lock # None => caller[lock] # None /\ caller[lock].phase = "apply"

\* However many callers commit one preparation and however they overlap, its
\* effects happen once (commit_snapshot_group_cutover).
AppliedOnce == \A k \in Keys : effects[k] <= 1

\* Every caller that is answered for one key is given the same result, the
\* one that is stored, whether it committed or came later
\* (commitSnapshotGroupCutover, resultFromRow).
OneResult == \A k \in Keys : answers[k] \subseteq
               (IF preps[k] = None THEN {} ELSE {preps[k].result})

\* A cutover is applied to what was active when it was prepared: nothing that
\* another caller activated in between is overwritten unseen.
NoLostCutover ==
  \A k \in Keys : effects'[k] > effects[k] => active = preps[k].head

\* A caller's answer is about the version it asked for: a key that was used
\* for another command never answers (prepare_snapshot_group_cutover).
AskedFor ==
  \A c \in Callers : (caller[c] # None /\ answers' # answers /\ caller'[c] = None) =>
    SameCommand(preps[caller[c].key], caller[c])

-----------------------------------------------------------------------------
(* What the proofs assume (ControlProofs). *)

Request == [key : Keys, group : Groups, version : 1..NVersions, expected : Nat,
            phase : {"prepare", "commit", "lock", "apply"}]
Result == [control : Nat, state : Nat, changed : BOOLEAN]
Preparation == [group : Groups, version : 1..NVersions, control : Nat, state : Nat,
                inventory : Nat, head : [Groups -> 0..NVersions],
                status : {"prepared", "committed"}, result : Result \cup {None}]

\* Versions are numbered, and None stands for the absence of the others.
CutoverAssumption ==
  /\ NVersions \in Nat
  /\ None \notin Callers /\ None \notin Request /\ None \notin Result /\ None \notin Preparation
=============================================================================
