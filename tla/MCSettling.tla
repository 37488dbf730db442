----------------------------- MODULE MCSettling -----------------------------
(***************************************************************************)
(* What must come to an end, side by side: the job queue and the five      *)
(* other components that lease, lock or wait.  Each behaviour runs one of  *)
(* them, the others rest in their initial states, where no fair action is  *)
(* enabled; so the components share one run and none of their steps.       *)
(***************************************************************************)
EXTENDS MCMaterializationJob

CONSTANTS ob_Workers, ob_Digests,    \* a worker delivers two events of a stream
          dj_Workers, dj_Inputs,     \* a worker runs a job
          Slots, Size, Requests, Garbage,   \* a pool of one host, two callers
          Transactions               \* one of each kind of control transaction

VARIABLES component,
          ob_events, ob_attempts, ob_transactions, ob_holding, ob_sent, ob_acked, ob_applied,
          dj_jobs, dj_attempts, dj_checkpoints, dj_index, dj_holding, dj_results,
          pool, launching, fatal, queue, hosts, req,
          held, pc, sawOwner, isOwner, runs,
          session, registered, store, puts, up, fin, clean

obVars == <<ob_events, ob_attempts, ob_transactions, ob_holding, ob_sent, ob_acked, ob_applied>>
djVars == <<dj_jobs, dj_attempts, dj_checkpoints, dj_index, dj_holding, dj_results>>
hhVars == <<pool, launching, fatal, queue, hosts, req>>
lkVars == <<held, pc, sawOwner, isOwner, runs>>
usVars == <<session, registered, store, puts, up, fin, clean>>
suiteVars == <<component, vars, obVars, djVars, hhVars, lkVars, usVars>>

-----------------------------------------------------------------------------
\* Two transactions of one event each on one stream, in either order.
ob_Events == {"e1", "e2"}
ob_EventOf == [e \in ob_Events |->
  IF e = "e1" THEN [tx |-> "t1", stream |-> "s", sequence |-> 1, ordinal |-> 0, action |-> "t1"]
              ELSE [tx |-> "t2", stream |-> "s", sequence |-> 2, ordinal |-> 0, action |-> "t2"]]
Ob == INSTANCE Outbox WITH
  Events <- ob_Events, Workers <- ob_Workers, Transactions <- {"t1", "t2"},
  EventOf <- ob_EventOf, Digests <- ob_Digests, MaximumAttempts <- 2, InitialBackoff <- 1,
  MaximumBackoff <- 1, LeaseDuration <- 1, MaxReplays <- 0,
  events <- ob_events, attempts <- ob_attempts, transactions <- ob_transactions,
  holding <- ob_holding, sent <- ob_sent, acked <- ob_acked, applied <- ob_applied

\* One job that fails, loses its lease or is cancelled.
dj_Jobs == {"d1"}
Dj == INSTANCE DurableJob WITH
  Jobs <- dj_Jobs, Workers <- dj_Workers,
  Priority <- [j \in dj_Jobs |-> 1], KeyOf <- [j \in dj_Jobs |-> j],
  Inputs <- dj_Inputs, MaximumAttempts <- 2, Backoff <- 1, LeaseDuration <- 1,
  MaxReplays <- 0, MaxSequence <- 1,
  jobs <- dj_jobs, attempts <- dj_attempts, checkpoints <- dj_checkpoints, index <- dj_index,
  holding <- dj_holding, results <- dj_results

Hh == INSTANCE HandlerHost

Lk == INSTANCE ControlLocks WITH NULL <- None, MaxRuns <- 1

\* One session; its requests do not die.
Us == INSTANCE UploadSession WITH
  Members <- {"a"}, Doubled <- {}, Ages <- {"fresh", "expired", "cleanable"},
  MaxPuts <- 1, Uploaders <- {"u1"}, Finalizers <- {"f1"}, Crashes <- FALSE

\* What the retry policies and the pool demand of their parameters.
ASSUME SettlingAssumption ==
  /\ Ob!RetryPolicyAssumption /\ Dj!JobPolicyAssumption /\ Hh!HostAssumption
  /\ Us!UploadAssumption /\ Lk!LockAssumption

-----------------------------------------------------------------------------
SuiteInit ==
  /\ component \in {"job", "outbox", "durable", "host", "locks", "upload"}
  /\ Init /\ Ob!Init /\ Dj!Init /\ Hh!Init /\ Lk!Init /\ Us!Init

SuiteNext ==
  /\ UNCHANGED component
  /\ \/ component = "job"     /\ Next    /\ UNCHANGED <<obVars, djVars, hhVars, lkVars, usVars>>
     \/ component = "outbox"  /\ Ob!Next /\ UNCHANGED <<vars, djVars, hhVars, lkVars, usVars>>
     \/ component = "durable" /\ Dj!Next /\ UNCHANGED <<vars, obVars, hhVars, lkVars, usVars>>
     \/ component = "host"    /\ Hh!Next /\ UNCHANGED <<vars, obVars, djVars, lkVars, usVars>>
     \/ component = "locks"   /\ Lk!Next /\ UNCHANGED <<vars, obVars, djVars, hhVars, usVars>>
     \/ component = "upload"  /\ Us!Next /\ UNCHANGED <<vars, obVars, djVars, hhVars, lkVars>>

SuiteSpec ==
  /\ SuiteInit /\ [][SuiteNext]_suiteVars
  /\ Fairness /\ Ob!Fairness /\ Dj!Fairness /\ Hh!Fairness /\ Lk!Fairness
  /\ Us!Fairness

-----------------------------------------------------------------------------
(* Properties.                                                             *)

\* Whatever starts ends: a committed event is delivered or waits behind a
\* dead letter, an enqueued job finishes, a call is answered although its
\* handler never returns, every transaction gets its locks, and an object that
\* no group registered is deleted.
WorkSettles ==
  /\ Ob!EventsSettle /\ Dj!JobsSettle /\ Hh!CallsSettle /\ Lk!AllEnd
  /\ Us!AbandonedIsCleaned
=============================================================================
