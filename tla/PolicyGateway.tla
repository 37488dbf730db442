---------------------------- MODULE PolicyGateway ----------------------------
(***************************************************************************)
(* The production policy gateway of one process: concurrent authorize      *)
(* calls over a cache of decisions with a hard TTL, an epoch floor raised  *)
(* by best-effort notifications, and a monotonic clock that may fail.      *)
(*                                                                         *)
(* Source: policy-application/src/gateway.ts (the gateway),                *)
(* policy-postgres/src/gateway.ts (snapshot read, listener),               *)
(* policy-domain/src/gateway.ts and identity-domain (the decision).        *)
(*                                                                         *)
(* Abstractions.  One project.  A key is a request up to its cache base    *)
(* key, named by its actor and delegators; of the authorization facts of a *)
(* principal we keep whether they grant the permission, refuse it, or make *)
(* the snapshot invalid (the principal is disabled).  The database is the  *)
(* log of its authorization commits: epoch e is the e-th entry.  An        *)
(* authorize call has two awaits, so it is three steps: up to the snapshot *)
(* read, the read, and what follows the artifact load.                     *)
(***************************************************************************)
EXTENDS Integers, Sequences, FiniteSets

CONSTANTS
  Principals,
  Keys,              \* requests, each named by the principals it acts for
  Callers,           \* concurrent authorize calls
  Ttl,               \* cacheTtlMs
  MaximumCacheEntries,
  MaxEpoch,          \* bound: authorization commits
  MaxClock,          \* bound: clock readings
  MaxRestarts        \* bound: process restarts

GatewayAssumption ==
  /\ Keys # {} /\ Keys \subseteq (SUBSET Principals) \ {{}}
  /\ Ttl \in Nat \ {0}
  /\ MaximumCacheEntries \in Nat \ {0}
  /\ MaxEpoch \in Nat \ {0}
  /\ MaxClock \in Nat
  /\ MaxRestarts \in Nat

Facts == {"granted", "refused", "disabled"}
Decisions == {"ALLOW", "DENY"}

VARIABLES
  log,         \* authorization commits: facts and commit time of each epoch
  notices,     \* epochs of notifications that may still be delivered
  clock,       \* the monotonic clock
  clockFault,  \* whether the clock source has gone backwards or throws
  cache,       \* #cache, in insertion order
  floor,       \* #epochFloor of the project
  unsafe,      \* #clockUnsafe
  calls,       \* authorize calls in flight
  answer,      \* the last answer given to any caller
  answered,    \* history: the highest epoch any call was answered with
  restarts

db == <<log, notices>>
time == <<clock, clockFault>>
vars == <<log, notices, clock, clockFault, cache, floor, unsafe, calls,
          answer, answered, restarts>>

Epoch == Len(log)

NoCall == [at |-> "idle", key |-> CHOOSE k \in Keys : TRUE, floor |-> 1,
           epoch |-> 0, allowed |-> FALSE, seen |-> 0]
NoAnswer == [source |-> "NONE", key |-> NoCall.key, decision |-> "DENY",
             epoch |-> 0, seen |-> 0, time |-> 0]

Init ==
  /\ log = <<[facts |-> [p \in Principals |-> "granted"], time |-> 0]>>
  /\ notices = {}
  /\ clock = 0 /\ clockFault = FALSE
  /\ cache = <<>> /\ floor = 1 /\ unsafe = FALSE
  /\ calls = [c \in Callers |-> NoCall]
  /\ answer = NoAnswer
  /\ answered = 0 /\ restarts = 0

-----------------------------------------------------------------------------
(* The database: one commit changes a fact and the epoch together, and      *)
(* notifies whoever listens.                                                *)

AuthorizationCommit(p, f) ==
  /\ Epoch < MaxEpoch
  /\ log[Epoch].facts[p] # f
  /\ log' = Append(log, [facts |-> [log[Epoch].facts EXCEPT ![p] = f], time |-> clock])
  /\ notices' = notices \cup {Epoch + 1}
  /\ UNCHANGED <<time, cache, floor, unsafe, calls, answer, answered, restarts>>

\* #isAllowed: every principal of the chain must hold the permission.
IsAllowed(e, k) == \A p \in k : log[e].facts[p] = "granted"
\* validateSnapshot: a disabled principal makes the snapshot unusable.
ValidSnapshot(e, k) == \A p \in k : log[e].facts[p] # "disabled"

-----------------------------------------------------------------------------
(* The gateway's cache, floor and clock.                                    *)

\* #cache.delete, of the one entry a key may have.
Without(entries, k) ==
  IF \E i \in DOMAIN entries : entries[i].key = k
  THEN LET i == CHOOSE i \in DOMAIN entries : entries[i].key = k
       IN  [j \in 1..(Len(entries) - 1) |-> entries[IF j < i THEN j ELSE j + 1]]
  ELSE entries
Held(k) == {i \in DOMAIN cache : cache[i].key = k}

\* #cache.set: a key that is present keeps its place in the insertion order.
Put(entries, e) ==
  IF \E i \in DOMAIN entries : entries[i].key = e.key
  THEN [i \in DOMAIN entries |-> IF entries[i].key = e.key THEN e ELSE entries[i]]
  ELSE Append(entries, e)

\* Mutant of StoreCacheEntry: nothing is evicted.
StoreWithoutEviction(e) == Put(cache, e)

\* #storeCacheEntry: the oldest entries leave until there is room for one.
StoreCacheEntry(e) ==
  LET over == Len(cache) - MaximumCacheEntries + 1
  IN  Put(IF over > 0 THEN SubSeq(cache, over + 1, Len(cache)) ELSE cache, e)

\* #raiseEpochFloor.
Raised(current, epoch) == IF epoch > current THEN epoch ELSE current

\* A cached decision may be served.
Usable(e) == clock < e.expiresAt /\ e.epoch >= floor

Answer(call, source, decision, epoch) ==
  /\ answer' = [source |-> source, key |-> call.key, decision |-> decision,
                epoch |-> epoch, seen |-> call.seen, time |-> clock]
  /\ answered' = IF epoch > answered THEN epoch ELSE answered

\* #failClosed, #failClosedSince: a DENY without an epoch.  Reading the clock
\* for the latency may itself find it unsafe.
FailClosed(call) ==
  /\ Answer(call, "FAIL_CLOSED", "DENY", 0)
  /\ unsafe' = (unsafe \/ clockFault)

-----------------------------------------------------------------------------
(* authorize                                                                *)

\* Up to the first await.  #observeMonotonicClock refuses an unsafe clock and
\* clears the cache when it first finds it so.
AuthorizeStart(c, k) ==
  /\ calls[c].at = "idle"
  /\ UNCHANGED <<db, time, floor, restarts>>
  /\ LET call == [NoCall EXCEPT !.key = k, !.floor = floor, !.seen = answered]
     IN
     \/ /\ unsafe \/ clockFault
        /\ cache' = <<>>
        /\ FailClosed(call)
        /\ UNCHANGED calls
     \/ /\ ~(unsafe \/ clockFault)
        /\ UNCHANGED unsafe
        /\ \/ \E i \in Held(k) :
                /\ Usable(cache[i])
                /\ Answer(call, "CACHE", cache[i].decision, cache[i].epoch)
                /\ UNCHANGED <<cache, calls>>
           \/ /\ \A i \in Held(k) : ~Usable(cache[i])
              /\ cache' = Without(cache, k)
              /\ calls' = [calls EXCEPT ![c] = [call EXCEPT !.at = "reading"]]
              /\ UNCHANGED <<answer, answered>>

\* readPolicyGatewaySnapshot: one repeatable-read transaction sees the epoch
\* and the facts of the latest commit; then the artifact load begins.
ReadSnapshot(c) ==
  /\ calls[c].at = "reading"
  /\ ValidSnapshot(Epoch, calls[c].key)
  /\ Epoch >= calls[c].floor
  /\ calls' = [calls EXCEPT ![c].at = "loading", ![c].epoch = Epoch,
                            ![c].allowed = IsAllowed(Epoch, calls[c].key)]
  /\ UNCHANGED <<db, time, cache, floor, unsafe, answer, answered, restarts>>

Failed(c) ==
  /\ calls' = [calls EXCEPT ![c] = NoCall]
  /\ FailClosed(calls[c])
  /\ cache' = IF clockFault THEN <<>> ELSE cache
  /\ UNCHANGED <<db, time, floor, restarts>>

\* The read fails, or returns rows that are not of the request or an epoch below
\* the floor the call began with.
SnapshotFailure(c) == calls[c].at = "reading" /\ Failed(c)

\* #loadExactArtifact: the artifact is missing, or is not byte for byte the one
\* the snapshot names, of this release, policy revision and compiler.
ArtifactFailure(c) == calls[c].at = "loading" /\ Failed(c)

\* normalizeRequest refuses the input before the clock is read.
InvalidRequest(c, k) ==
  /\ calls[c].at = "idle"
  /\ Answer([NoCall EXCEPT !.key = k, !.seen = answered], "FAIL_CLOSED", "DENY", 0)
  /\ UNCHANGED <<db, time, cache, floor, unsafe, calls, restarts>>

\* After the artifact load: the floor is checked again, and the decision is
\* confirmed and cached from this moment on.
Confirm(c) ==
  /\ calls[c].at = "loading"
  /\ calls' = [calls EXCEPT ![c] = NoCall]
  /\ UNCHANGED <<db, time, restarts>>
  /\ LET decision == IF calls[c].allowed THEN "ALLOW" ELSE "DENY"
         rejected == calls[c].epoch < floor \/ unsafe \/ clockFault
     IN
     \/ /\ rejected
        /\ FailClosed(calls[c])
        /\ cache' = IF clockFault THEN <<>> ELSE cache
        /\ UNCHANGED floor
     \/ /\ ~rejected
        /\ floor' = Raised(floor, calls[c].epoch)
        /\ cache' = StoreCacheEntry([key |-> calls[c].key, epoch |-> calls[c].epoch,
                      decision |-> decision, expiresAt |-> clock + Ttl])
        /\ Answer(calls[c], "FRESH", decision, calls[c].epoch)
        /\ UNCHANGED unsafe

\* observeNotification: only a higher epoch has an effect.  A notification may
\* come late, out of order, more than once, or never.
ObserveNotification(e, again) ==
  /\ e \in notices
  /\ notices' = IF again THEN notices ELSE notices \ {e}
  /\ floor' = Raised(floor, e)
  /\ cache' = IF e > floor THEN <<>> ELSE cache
  /\ UNCHANGED <<log, time, unsafe, calls, answer, answered, restarts>>

LoseNotification(e) ==
  /\ e \in notices
  /\ notices' = notices \ {e}
  /\ UNCHANGED <<log, time, cache, floor, unsafe, calls, answer, answered, restarts>>

\* The process is disposed of and a new one starts with nothing.
Restart ==
  /\ restarts < MaxRestarts
  /\ restarts' = restarts + 1
  /\ cache' = <<>> /\ floor' = 1 /\ unsafe' = FALSE /\ clockFault' = FALSE
  /\ calls' = [c \in Callers |-> NoCall]
  /\ answer' = NoAnswer
  /\ notices' = {}
  /\ UNCHANGED <<log, clock, answered>>

Tick ==
  /\ clock < MaxClock
  /\ clock' = clock + 1
  /\ UNCHANGED <<db, clockFault, cache, floor, unsafe, calls, answer, answered, restarts>>

\* The clock source goes back, throws or returns no number; later readings may
\* be fine again.
ClockFault ==
  /\ clockFault' = ~clockFault
  /\ UNCHANGED <<db, clock, cache, floor, unsafe, calls, answer, answered, restarts>>

Next ==
  \/ \E p \in Principals, f \in Facts : AuthorizationCommit(p, f)
  \/ \E c \in Callers, k \in Keys : AuthorizeStart(c, k) \/ InvalidRequest(c, k)
  \/ \E c \in Callers : ReadSnapshot(c) \/ SnapshotFailure(c)
                    \/ ArtifactFailure(c) \/ Confirm(c)
  \/ \E e \in notices, again \in BOOLEAN : ObserveNotification(e, again)
  \/ \E e \in notices : LoseNotification(e)
  \/ Tick \/ ClockFault \/ Restart

Spec == Init /\ [][Next]_vars

-----------------------------------------------------------------------------
Epochs == 0..MaxEpoch

(* Types of the gateway's state and of the calls in flight.                 *)
TypeOK ==
  /\ log \in Seq([facts : [Principals -> Facts], time : 0..MaxClock])
  /\ Epoch \in 1..MaxEpoch
  /\ notices \subseteq 1..Epoch
  /\ clock \in 0..MaxClock /\ clockFault \in BOOLEAN /\ unsafe \in BOOLEAN
  /\ cache \in Seq([key : Keys, epoch : Epochs, decision : Decisions,
                    expiresAt : 0..(MaxClock + Ttl)])
  /\ floor \in 1..Epoch
  /\ calls \in [Callers -> [at : {"idle", "reading", "loading"}, key : Keys,
                            floor : Epochs, epoch : Epochs, allowed : BOOLEAN, seen : Epochs]]
  /\ answer \in [source : {"NONE", "CACHE", "FRESH", "FAIL_CLOSED"}, key : Keys,
                 decision : Decisions, epoch : Epochs, seen : Epochs, time : 0..MaxClock]
  /\ answered \in Epochs /\ restarts \in 0..MaxRestarts

Decided == answer.source \in {"CACHE", "FRESH"}

(* A decision, fresh or cached, is the one the database's facts gave at the *)
(* epoch it names, whatever was committed, cached or evicted in between.    *)
DecisionIsOfItsEpoch ==
  Decided =>
    /\ answer.epoch \in 1..Epoch
    /\ answer.decision = "ALLOW" <=> \A p \in answer.key :
                                      log[answer.epoch].facts[p] = "granted"

(* A call that begins after some call was answered at an epoch is itself    *)
(* answered at that epoch or a later one, even over a restart: a revocation *)
(* once seen is never unseen.                                               *)
EpochsNeverGoBack == Decided => answer.epoch >= answer.seen

(* No decision is given below the floor: once a notification of an epoch    *)
(* has been handled, calls in flight across it cannot answer from before.   *)
AnswersReachTheFloor ==
  (answer' # answer /\ Decided') => answer'.epoch >= floor /\ answer'.epoch >= floor'

(* Once the clock has been found unsafe, the process gives no decision and  *)
(* keeps none, calls already in flight included.                            *)
UnsafeClockFailsClosed ==
  unsafe /\ restarts' = restarts =>
    /\ unsafe' /\ cache' = <<>>
    /\ answer' # answer => answer'.source = "FAIL_CLOSED"

(* The cache holds one entry per request and never more than its limit,     *)
(* also when several calls for one request were in flight together.         *)
CacheBounded ==
  /\ Len(cache) <= MaximumCacheEntries
  /\ \A i, j \in DOMAIN cache : cache[i].key = cache[j].key => i = j
=============================================================================
