----------------------------- MODULE PolicyEpoch -----------------------------
(***************************************************************************)
(* The policy-epoch harness: an authorization store whose commits change   *)
(* bindings and epoch together, a best-effort notification bus, and        *)
(* decision processes that cache what they decide for a hard TTL.          *)
(*                                                                         *)
(* Source: tools/policy-epoch/model.ts and process.ts.                     *)
(*                                                                         *)
(* Abstractions.  One project, one resource and permission: a binding is   *)
(* its principal.  One actor (its subject and groups, one of which must be *)
(* bound) makes requests that differ in their delegation chain (all of     *)
(* which must be).  decide makes no await, so it is one step.  Time is the *)
(* real one; the store's clock, which stamps commits, may be set back      *)
(* independently.                                                          *)
(***************************************************************************)
EXTENDS Integers, Sequences, FiniteSets

CONSTANTS
  Principals,
  Actor,       \* the principals of the actor: its subject and groups
  Requests,    \* requests of the actor, each named by its delegation chain
  Processes,
  Ttl,         \* cacheTtlMs
  MaxEpoch,    \* bound: authorization commits
  MaxTime      \* bound: readings of the clocks

EpochAssumption ==
  /\ Actor \subseteq Principals /\ Requests \subseteq SUBSET Principals /\ Requests # {}
  /\ Ttl \in Nat \ {0} /\ MaxEpoch \in Nat \ {0} /\ MaxTime \in Nat

VARIABLES
  commits,    \* the project's states: bindings, changedAt and the real time
  dbClock,    \* the store's clock
  now,        \* real time, the processes' monotonic clock
  published,  \* whether the compiled policy artifact exists
  down,       \* dependencies whose reads fail: "store", "artifacts"
  delivery,   \* setDelivery: whether the bus reaches a process
  cache,      \* #cache of each process, a set of entries
  floor,      \* #epochFloor of each process
  heard,      \* history: the last epoch published while delivery was on
  unsafe,     \* processes whose #clockUnsafe is set
  answer      \* the last decision of each process

vars == <<commits, dbClock, now, published, down, delivery, cache, floor, heard, unsafe, answer>>
process == <<cache, floor, heard, unsafe, answer>>
environment == <<dbClock, now, published, down, delivery>>

Epoch == Len(commits)
Bindings(e) == commits[e].bindings
NoAnswer == [decision |-> "DENY", epoch |-> 0, request |-> CHOOSE r \in Requests : TRUE,
             time |-> 0]

Init ==
  /\ commits = <<[bindings |-> {}, changedAt |-> 0, time |-> 0]>>
  /\ dbClock = 0 /\ now = 0 /\ published = FALSE /\ down = {}
  /\ delivery = [p \in Processes |-> TRUE]
  /\ cache = [p \in Processes |-> {}]
  /\ floor = [p \in Processes |-> 1]
  /\ heard = [p \in Processes |-> 1]
  /\ unsafe = {} /\ answer = [p \in Processes |-> NoAnswer]

-----------------------------------------------------------------------------
\* readAuthorizationSnapshot and the decision: some actor principal and every
\* delegator is bound.
Granted(r, bindings) == Actor \cap bindings # {} /\ r \subseteq bindings

\* observeNotification: a higher epoch raises the floor and empties the cache.
Observe(p, e) ==
  IF e > floor[p] THEN [cache |-> {}, floor |-> e]
                  ELSE [cache |-> cache[p], floor |-> floor[p]]

\* transactAuthorizationChange: bindings and epoch change together, unless the
\* draft leaves the bindings as they were or the store's clock has gone back;
\* then the bus calls the listeners it reaches.
TransactAuthorizationChange(bindings) ==
  /\ Epoch < MaxEpoch
  /\ bindings # Bindings(Epoch)
  /\ dbClock >= commits[Epoch].changedAt
  /\ commits' = Append(commits, [bindings |-> bindings, changedAt |-> dbClock, time |-> now])
  /\ LET after == [p \in Processes |->
           IF delivery[p] THEN Observe(p, Epoch + 1)
                          ELSE [cache |-> cache[p], floor |-> floor[p]]]
     IN /\ cache' = [p \in Processes |-> after[p].cache]
        /\ floor' = [p \in Processes |-> after[p].floor]
  /\ heard' = [p \in Processes |-> IF delivery[p] THEN Epoch + 1 ELSE heard[p]]
  /\ UNCHANGED <<environment, unsafe, answer>>

\* A late or repeated copy of a notification reaches a process.
LateNotification(p, e) ==
  /\ e \in 1..Epoch
  /\ cache' = [cache EXCEPT ![p] = Observe(p, e).cache]
  /\ floor' = [floor EXCEPT ![p] = Observe(p, e).floor]
  /\ heard' = [heard EXCEPT ![p] = IF e > heard[p] THEN e ELSE heard[p]]
  /\ UNCHANGED <<commits, environment, unsafe, answer>>

SetDelivery(p) ==
  /\ delivery' = [delivery EXCEPT ![p] = ~delivery[p]]
  /\ UNCHANGED <<commits, dbClock, now, published, down, process>>

\* InMemoryCompiledPolicyStore.publish.
PublishArtifact ==
  /\ ~published
  /\ published' = TRUE
  /\ UNCHANGED <<commits, dbClock, now, down, delivery, process>>

\* setReadFailure of either store.
SetReadFailure(d) ==
  /\ down' = IF d \in down THEN down \ {d} ELSE down \cup {d}
  /\ UNCHANGED <<commits, dbClock, now, published, delivery, process>>

-----------------------------------------------------------------------------
\* A cached decision that may be served.
Live(entry, p) == now < entry.expiresAt /\ entry.epoch >= floor[p]

\* #cache.set.
Cached(p, entry) == {e \in cache[p] : e.request # entry.request} \cup {entry}

\* decide: a live cached decision, else a fresh one from the store's current
\* state, else a refusal without an epoch.
Decide(p, r) ==
  LET held == {e \in cache[p] : e.request = r}
      usable == down = {} /\ published /\ Epoch >= floor[p]
      fresh == [request |-> r, epoch |-> Epoch, expiresAt |-> now + Ttl,
                decision |-> IF Granted(r, Bindings(Epoch)) THEN "ALLOW" ELSE "DENY"]
  IN
  /\ p \notin unsafe
  /\ \/ \E e \in held :
          /\ Live(e, p)
          /\ answer' = [answer EXCEPT ![p] = [decision |-> e.decision, epoch |-> e.epoch,
                                              request |-> r, time |-> now]]
          /\ UNCHANGED <<cache, floor>>
     \/ /\ \A e \in held : ~Live(e, p)
        /\ usable
        /\ cache' = [cache EXCEPT ![p] = Cached(p, fresh)]
        /\ floor' = [floor EXCEPT ![p] = IF Epoch > @ THEN Epoch ELSE @]
        /\ answer' = [answer EXCEPT ![p] = [decision |-> fresh.decision, epoch |-> Epoch,
                                            request |-> r, time |-> now]]
     \/ /\ \A e \in held : ~Live(e, p)
        /\ ~usable
        /\ cache' = [cache EXCEPT ![p] = @ \ held]
        /\ answer' = [answer EXCEPT ![p] = [NoAnswer EXCEPT !.request = r, !.time = now]]
        /\ UNCHANGED floor
  /\ UNCHANGED <<commits, environment, heard, unsafe>>

\* decide on a clock that goes back or throws: the process refuses from then on.
DecideClockUnsafe(p, r) ==
  /\ unsafe' = unsafe \cup {p}
  /\ cache' = [cache EXCEPT ![p] = {}]
  /\ answer' = [answer EXCEPT ![p] = [NoAnswer EXCEPT !.request = r, !.time = now]]
  /\ UNCHANGED <<commits, environment, floor, heard>>

\* ManualClock: real time advances; the store's clock is set to anything.
Advance ==
  /\ now < MaxTime
  /\ now' = now + 1
  /\ UNCHANGED <<commits, dbClock, published, down, delivery, process>>

SetDatabaseClock(t) ==
  /\ dbClock' = t
  /\ UNCHANGED <<commits, now, published, down, delivery, process>>

Next ==
  \/ \E b \in SUBSET Principals : TransactAuthorizationChange(b)
  \/ \E p \in Processes : SetDelivery(p) \/ \E r \in Requests : Decide(p, r) \/ DecideClockUnsafe(p, r)
  \/ \E p \in Processes, e \in 1..Epoch : LateNotification(p, e)
  \/ PublishArtifact \/ Advance
  \/ \E d \in {"store", "artifacts"} : SetReadFailure(d)
  \/ \E t \in 0..MaxTime : SetDatabaseClock(t)

Spec == Init /\ [][Next]_vars

-----------------------------------------------------------------------------
(* Types.                                                                   *)
TypeOK ==
  /\ commits \in Seq([bindings : SUBSET Principals, changedAt : 0..MaxTime, time : 0..MaxTime])
  /\ Epoch \in 1..MaxEpoch
  /\ dbClock \in 0..MaxTime /\ now \in 0..MaxTime
  /\ published \in BOOLEAN /\ down \subseteq {"store", "artifacts"}
  /\ delivery \in [Processes -> BOOLEAN]
  /\ \A p \in Processes :
       /\ cache[p] \subseteq [request : Requests, epoch : 1..Epoch,
                              expiresAt : 0..(MaxTime + Ttl), decision : {"ALLOW", "DENY"}]
       /\ floor[p] \in 1..Epoch /\ heard[p] \in 1..Epoch
       /\ \A d, e \in cache[p] : d.request = e.request => d = e
  /\ unsafe \subseteq Processes
  /\ answer \in [Processes -> [decision : {"ALLOW", "DENY"}, epoch : 0..Epoch,
                               request : Requests, time : 0..MaxTime]]

(* decide allows only what was granted less than a TTL ago: a process that  *)
(* misses every notification still refuses a whole TTL after the commit     *)
(* that revoked, whatever it cached and whichever dependency is down.       *)
RevokedWithinTtl ==
  \A p \in Processes : answer[p].decision = "ALLOW" =>
    \A e \in (answer[p].epoch + 1)..Epoch :
      ~(Actor \cap Bindings(e) # {} /\ answer[p].request \subseteq Bindings(e))
        => answer[p].time < commits[e].time + Ttl

(* What a process allows was granted, to the actor and the whole chain, at  *)
(* the epoch the answer names.                                              *)
AllowedWasGranted ==
  \A p \in Processes : answer[p].decision = "ALLOW" =>
    LET b == Bindings(answer[p].epoch)
    IN  Actor \cap b # {} /\ answer[p].request \subseteq b

(* A process that the bus reached answers its next request at the epoch it  *)
(* was told of, or a later one.                                             *)
NotifiedProcessesAreCurrent ==
  \A p \in Processes : answer'[p] # answer[p] /\ answer'[p].epoch # 0
    => answer'[p].epoch >= heard[p]
=============================================================================
