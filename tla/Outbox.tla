-------------------------------- MODULE Outbox --------------------------------
(***************************************************************************)
(* OutboxStateModel: events committed with a business transaction are      *)
(* leased, delivered and acknowledged in the order of their stream, with   *)
(* fenced leases, bounded retries, dead letters and replays; the workers   *)
(* and the idempotent consumer around it.                                  *)
(*                                                                         *)
(* Source: tools/job-outbox/outbox.ts, tools/job-outbox/shared.ts.         *)
(*                                                                         *)
(* Abstractions: database times are the time left until them, so time has  *)
(* no end; which of the claimable events is claimed is open (availableAt   *)
(* only orders them); an attempt's fencing token is its number, as both    *)
(* counters start and advance together; audit records are left out.        *)
(***************************************************************************)
EXTENDS Naturals, Sequences, FiniteSets

CONSTANTS Events, Workers, Transactions,
          EventOf,            \* event -> [tx, stream, sequence, ordinal, action]
          Digests,            \* contents a transaction may be submitted with
          MaximumAttempts,    \* maximumAttemptsPerCycle
          InitialBackoff, MaximumBackoff, LeaseDuration,
          MaxReplays,         \* bound: replays of an event
          None

\* assertRetryPolicy.
RetryPolicyAssumption ==
  /\ {MaximumAttempts, InitialBackoff, MaximumBackoff, LeaseDuration} \subseteq Nat \ {0}
  /\ MaximumBackoff >= InitialBackoff

VARIABLES events,        \* state, time until available, lease, attempts in cycle, replays
          attempts,      \* outcome of every attempt of an event, in order
          transactions,  \* digest each transaction was committed with
          holding,       \* handle each worker holds: event and token
          sent,          \* deliveries on the way: <<event, token>>
          acked,         \* deliveries the consumer has answered
          applied        \* the consumer: events in the order it applied them

vars == <<events, attempts, transactions, holding, sent, acked, applied>>

Record(e) == EventOf[e]
NoLease == [worker |-> None, token |-> 0, left |-> 0]
OutboxState == {"none", "PENDING", "LEASED", "DELIVERING", "RETRY_WAIT", "DELIVERED", "DEAD_LETTER"}
Outcomes == {"ACTIVE", "SUCCEEDED", "RETRY_SCHEDULED", "DEAD_LETTER", "LEASE_EXPIRED"}
OutboxEvent ==
  [state : OutboxState, avail : 0..MaximumBackoff, cycle : 0..MaximumAttempts,
   replays : 0..MaxReplays,
   lease : [worker : Workers \union {None}, token : 0..(MaximumAttempts * (MaxReplays + 1)),
            left : 0..LeaseDuration]]

TypeOK ==
  /\ events \in [Events -> OutboxEvent]
  /\ \A e \in Events : attempts[e] \in Seq(Outcomes)
  /\ transactions \in [Transactions -> Digests \union {None}]

Init ==
  /\ events = [e \in Events |-> [state |-> "none", avail |-> 0, cycle |-> 0, replays |-> 0,
                                 lease |-> NoLease]]
  /\ attempts = [e \in Events |-> <<>>]
  /\ transactions = [t \in Transactions |-> None]
  /\ holding = [w \in Workers |-> None]
  /\ sent = {} /\ acked = {} /\ applied = <<>>

\* streamKey and compareStreamPosition.
SameStream(e, f) == Record(e).stream = Record(f).stream
Before(e, f) ==
  \/ Record(e).sequence < Record(f).sequence
  \/ Record(e).sequence = Record(f).sequence /\ Record(e).ordinal < Record(f).ordinal

Committed == {e \in Events : events[e].state # "none"}
InFlight(e) == events[e].state \in {"LEASED", "DELIVERING"}

\* commitBusinessTransaction: no position is taken twice, and no event goes
\* in at or before the sequence of one its stream already has.
InsertsBehind(batch) ==
  /\ \A e, f \in batch : e # f /\ SameStream(e, f) =>
       Record(f).sequence # Record(e).sequence \/ Record(f).ordinal # Record(e).ordinal
  /\ \A e \in batch, f \in Committed : SameStream(e, f) => Record(f).sequence < Record(e).sequence

\* The events of a transaction are committed with it; a repeated transaction
\* with the same content returns them, with other content is refused, and
\* neither changes anything.
CommitBusinessTransaction(t, digest) ==
  LET batch == {e \in Events : Record(e).tx = t} IN
  /\ transactions[t] = None
  /\ InsertsBehind(batch)
  /\ transactions' = [transactions EXCEPT ![t] = digest]
  /\ events' = [e \in Events |-> IF e \in batch THEN [events[e] EXCEPT !.state = "PENDING"]
                                 ELSE events[e]]
  /\ UNCHANGED <<attempts, holding, sent, acked, applied>>

\* hasUndeliveredPredecessor.
Blocked(e) ==
  \E f \in Committed : SameStream(e, f) /\ Before(f, e) /\ events[f].state # "DELIVERED"

\* claimNext by a worker that holds no handle.
ClaimNext(w, e) ==
  /\ holding[w] = None
  /\ events[e].state \in {"PENDING", "RETRY_WAIT"} /\ events[e].avail = 0 /\ ~Blocked(e)
  /\ events' = [events EXCEPT ![e] =
                  [@ EXCEPT !.state = "LEASED", !.cycle = events[e].cycle + 1,
                            !.lease = [worker |-> w, token |-> Len(attempts[e]) + 1,
                                       left |-> LeaseDuration]]]
  /\ attempts' = [attempts EXCEPT ![e] = Append(@, "ACTIVE")]
  /\ holding' = [holding EXCEPT ![w] = [event |-> e, token |-> Len(attempts[e]) + 1]]
  /\ UNCHANGED <<transactions, sent, acked, applied>>

\* assertValidLease: the handle is that of the lease, which has time left.
Owns(w) ==
  holding[w] # None /\ LET lease == events[holding[w].event].lease IN
                       lease.worker = w /\ lease.token = holding[w].token /\ lease.left > 0

Heartbeat(w) ==
  /\ Owns(w) /\ InFlight(holding[w].event)
  /\ events' = [events EXCEPT ![holding[w].event].lease.left = LeaseDuration]
  /\ UNCHANGED <<attempts, transactions, holding, sent, acked, applied>>

StartDelivery(w) ==
  LET e == holding[w].event IN
  /\ Owns(w) /\ events[e].state = "LEASED"
  /\ events' = [events EXCEPT ![e].state = "DELIVERING"]
  /\ sent' = sent \union {<<e, holding[w].token>>}
  /\ UNCHANGED <<attempts, transactions, holding, acked, applied>>

\* The consumer applies a delivery that arrives, however late, once per event.
ConsumerApplies(d) ==
  /\ d \in sent
  /\ sent' = sent \ {d} /\ acked' = acked \union {d}
  /\ applied' = IF \E i \in DOMAIN applied : applied[i] = d[1] THEN applied
                ELSE Append(applied, d[1])
  /\ UNCHANGED <<events, attempts, transactions, holding>>

\* acknowledgeDelivery with the answer of the destination to this event.
AcknowledgeDelivery(w) ==
  LET e == holding[w].event IN
  /\ Owns(w) /\ events[e].state = "DELIVERING"
  /\ <<e, holding[w].token>> \in acked
  /\ events' = [events EXCEPT ![e] = [@ EXCEPT !.state = "DELIVERED", !.lease = NoLease]]
  /\ attempts' = [attempts EXCEPT ![e][holding[w].token] = "SUCCEEDED"]
  /\ acked' = acked \ {<<e, holding[w].token>>}
  /\ holding' = [holding EXCEPT ![w] = None]
  /\ UNCHANGED <<transactions, sent, applied>>

\* retryBackoffMs.
Backoff(n) ==
  IF InitialBackoff * 2 ^ (n - 1) > MaximumBackoff THEN MaximumBackoff
  ELSE InitialBackoff * 2 ^ (n - 1)

\* finishFailure: back to wait while attempts are left, else a dead letter.
CanRetry(r, retryable) == retryable /\ r.cycle < MaximumAttempts
Failed(r, retryable) ==
  [r EXCEPT !.state = IF CanRetry(r, retryable) THEN "RETRY_WAIT" ELSE "DEAD_LETTER",
            !.avail = IF CanRetry(r, retryable) THEN Backoff(r.cycle) ELSE 0,
            !.lease = NoLease]

FailDelivery(w, retryable) ==
  LET e == holding[w].event IN
  /\ Owns(w) /\ InFlight(e)
  /\ events' = [events EXCEPT ![e] = Failed(@, retryable)]
  /\ attempts' = [attempts EXCEPT ![e][holding[w].token] =
                    IF CanRetry(events[e], retryable) THEN "RETRY_SCHEDULED" ELSE "DEAD_LETTER"]
  /\ holding' = [holding EXCEPT ![w] = None]
  /\ UNCHANGED <<transactions, sent, acked, applied>>

Expired == {e \in Events : InFlight(e) /\ events[e].lease.left = 0}

\* reclaimExpiredLeases, as a retryable failure of each attempt.
ReclaimExpiredLeases ==
  /\ Expired # {}
  /\ events' = [e \in Events |-> IF e \in Expired THEN Failed(events[e], TRUE) ELSE events[e]]
  /\ attempts' = [e \in Events |->
                    IF e \notin Expired THEN attempts[e]
                    ELSE [attempts[e] EXCEPT ![events[e].lease.token] =
                            IF CanRetry(events[e], TRUE) THEN "LEASE_EXPIRED" ELSE "DEAD_LETTER"]]
  /\ UNCHANGED <<transactions, holding, sent, acked, applied>>

ReplayDeadLetter(e) ==
  /\ events[e].state = "DEAD_LETTER" /\ events[e].replays < MaxReplays
  /\ events' = [events EXCEPT ![e] = [@ EXCEPT !.state = "PENDING", !.avail = 0, !.cycle = 0,
                                               !.replays = events[e].replays + 1]]
  /\ UNCHANGED <<attempts, transactions, holding, sent, acked, applied>>

\* A worker stops, or gives up a handle that is no longer its own; what it
\* sent may be lost or be on its way.
Drop(w) ==
  /\ holding[w] # None
  /\ holding' = [holding EXCEPT ![w] = None]
  /\ \/ UNCHANGED <<sent, acked>>
     \/ /\ sent' = sent \ {<<holding[w].event, holding[w].token>>}
        /\ acked' = acked \ {<<holding[w].event, holding[w].token>>}
  /\ UNCHANGED <<events, attempts, transactions, applied>>

\* Database time passes.
Passed(n) == IF n = 0 THEN 0 ELSE n - 1
Tick ==
  /\ \E e \in Events : events[e].avail > 0 \/ events[e].lease.left > 0
  /\ events' = [e \in Events |-> [events[e] EXCEPT !.avail = Passed(@), !.lease.left = Passed(@)]]
  /\ UNCHANGED <<attempts, transactions, holding, sent, acked, applied>>

\* actionDeliveryStatus.
ActionDeliveryStatus(a) ==
  LET own == {e \in Committed : Record(e).action = a}
      done == {e \in own : events[e].state = "DELIVERED"} IN
  CASE own = {} -> "NOT_APPLICABLE"
    [] own # {} /\ (\E e \in own : events[e].state = "DEAD_LETTER") -> "DEAD_LETTER"
    [] own # {} /\ done = own -> "COMPLETE"
    [] OTHER -> IF done = {} THEN "PENDING" ELSE "PARTIAL"

Claim(w) == \E e \in Events : ClaimNext(w, e)
Finish(w) == AcknowledgeDelivery(w) \/ \E r \in BOOLEAN : FailDelivery(w, r)
Next ==
  \/ \E t \in Transactions, d \in Digests : CommitBusinessTransaction(t, d)
  \/ \E w \in Workers :
       Claim(w) \/ Heartbeat(w) \/ StartDelivery(w) \/ Finish(w) \/ Drop(w)
  \/ \E d \in sent : ConsumerApplies(d)
  \/ ReclaimExpiredLeases \/ Tick
  \/ \E e \in Events : ReplayDeadLetter(e)

Spec == Init /\ [][Next]_vars

\* Workers poll, and finish or lose what they claimed; leases are reclaimed;
\* time passes.  Nobody need commit, replay, send or heartbeat.
Fairness ==
  /\ WF_vars(\E w \in Workers : Claim(w))
  /\ \A w \in Workers : SF_vars(Finish(w)) /\ WF_vars(Drop(w) /\ ~Owns(w))
  /\ WF_vars(ReclaimExpiredLeases) /\ WF_vars(Tick)
-----------------------------------------------------------------------------
(* Properties *)

\* assertInvariants: an event in flight has exactly one open attempt, that of
\* its lease, and any other event has none.
OneOpenAttempt ==
  \A e \in Events :
    LET open == {i \in DOMAIN attempts[e] : attempts[e][i] = "ACTIVE"} IN
    open = IF InFlight(e) THEN {events[e].lease.token} ELSE {}

\* assertInvariants: no event runs ahead of its stream, and two workers never
\* deliver for one stream at once.
StreamInOrder ==
  \A e, f \in Committed :
    SameStream(e, f) /\ Before(e, f) /\ events[f].state \in {"LEASED", "DELIVERING", "DELIVERED"} =>
      events[e].state = "DELIVERED"

\* The consumer first applies the events of a stream in their order, although
\* deliveries are repeated, lost and arrive after their lease is gone.
AppliedInOrder ==
  \A i, j \in DOMAIN applied :
    i < j /\ SameStream(applied[i], applied[j]) => Before(applied[i], applied[j])

\* Delivered means that the consumer applied it, and an action is COMPLETE
\* only when every event of it was.
DeliveredWasApplied ==
  /\ \A e \in Events : events[e].state = "DELIVERED" => \E i \in DOMAIN applied : applied[i] = e
  /\ \A e \in Committed :
       ActionDeliveryStatus(Record(e).action) = "COMPLETE" =>
         \A f \in Committed : Record(f).action = Record(e).action =>
           \E i \in DOMAIN applied : applied[i] = f

\* Only the attempt that holds the lease ends it: a worker that lost its
\* lease can neither acknowledge nor fail the attempt of another.
StaleWorkersAreFenced ==
  \A w \in Workers :
    holding[w] # None /\ holding'[w] = None /\ attempts' # attempts =>
      attempts[holding[w].event][holding[w].token] = "ACTIVE"

\* What was delivered or was committed stays so.
CommittedOnce ==
  \A e \in Events : /\ events[e].state = "DELIVERED" => events'[e].state = "DELIVERED"
                    /\ events[e].state # "none" => events'[e].state # "none"

\* Every committed event is delivered, or it or one before it becomes a dead
\* letter that waits for an operator.
EventsSettle ==
  \A e \in Events :
    (events[e].state # "none") ~>
      \/ events[e].state \in {"DELIVERED", "DEAD_LETTER"}
      \/ \E f \in Events : SameStream(e, f) /\ Before(f, e) /\ events[f].state = "DEAD_LETTER"
=============================================================================
