----------------------------- MODULE RuntimeQuery -----------------------------
(***************************************************************************)
(* Runtime reads: a request resolves the release it reads, asks the policy *)
(* gateway about every resource it would show, commits a query lease that  *)
(* the database grants only for the context as it is now, reads under the  *)
(* lease, and releases it before it answers.                               *)
(*                                                                         *)
(* Source: query-application/src/runtime.ts, query-postgres/src/context.ts *)
(* and executor.ts; the database functions of migrations 0023 and 0028.    *)
(*                                                                         *)
(* Abstractions.  One project and release.  The database's authorization   *)
(* facts are a log: epoch e allows the resources log[e].  The gateway is   *)
(* what PolicyGateway shows of it: an answer is a decision of some epoch   *)
(* not above the database's, possibly an old one, or a refusal.  A link is *)
(* named by the object types it joins.  Of a row we keep whether the read  *)
(* finds it.                                                               *)
(***************************************************************************)
EXTENDS Integers, Sequences, FiniteSets

CONSTANTS
  Objects,         \* object types of the release
  Links,           \* link types, each a set of object types
  Requests,
  LeaseTtl,        \* leaseTtlSeconds
  MaxEpoch,        \* bound: authorization commits
  MaxActivation,   \* bound: cutovers
  MaxTime          \* bound: clock

QueryAssumption ==
  /\ Objects # {} /\ Links \subseteq (SUBSET Objects) \ {{}} /\ Objects \cap Links = {}
  /\ LeaseTtl \in Nat \ {0} /\ MaxEpoch \in Nat \ {0}
  /\ MaxActivation \in Nat \ {0} /\ MaxTime \in Nat

Resources == Objects \cup Links

VARIABLES
  log,         \* allowed resources at each authorization epoch
  activation,  \* the release's serving head
  retired,     \* whether the release has been retired
  now,         \* the database's clock
  requests,    \* requests in flight and their responses
  leases       \* runtime.query_leases, one per request

vars == <<log, activation, retired, now, requests, leases>>
database == <<log, activation, retired, now>>

Epoch == Len(log)

NoLease == [state |-> "none", expires |-> 0, epoch |-> 0, databaseEpoch |-> 0]
Idle == [at |-> "idle", asks |-> {}, activation |-> 0, epochs |-> {}, visible |-> {},
         kind |-> "metadata", response |-> "none"]

Init ==
  /\ log \in {<<allowed>> : allowed \in SUBSET Resources}
  /\ activation = 1 /\ retired = FALSE /\ now = 0
  /\ requests = [r \in Requests |-> Idle]
  /\ leases = [r \in Requests |-> NoLease]

-----------------------------------------------------------------------------
(* What the rest of the system does meanwhile.                              *)

AuthorizationCommit(allowed) ==
  /\ Epoch < MaxEpoch
  /\ log' = Append(log, allowed)
  /\ UNCHANGED <<activation, retired, now, requests, leases>>

Cutover ==
  /\ activation < MaxActivation
  /\ activation' = activation + 1
  /\ UNCHANGED <<log, retired, now, requests, leases>>

Retire ==
  /\ ~retired
  /\ retired' = TRUE
  /\ UNCHANGED <<log, activation, now, requests, leases>>

Tick ==
  /\ now < MaxTime
  /\ now' = now + 1
  /\ UNCHANGED <<log, activation, retired, requests, leases>>

\* runtime.expire_query_leases: database maintenance.
ExpireLease(r) ==
  /\ leases[r].state = "committed" /\ leases[r].expires <= now
  /\ leases' = [leases EXCEPT ![r].state = "expired"]
  /\ UNCHANGED <<database, requests>>

-----------------------------------------------------------------------------
(* A request.                                                               *)

Respond(r, response) ==
  requests' = [requests EXCEPT ![r].at = "done", ![r].response = response]

\* normalizeScope, #resolve and registryFromCandidate.  Metadata asks about all
\* objects of the release first, an object read about its object type.
Resolve(r, kind, asks) ==
  /\ requests[r].at = "idle"
  /\ IF kind = "metadata" THEN asks = Objects ELSE Cardinality(asks) = 1
  /\ requests' = [requests EXCEPT ![r] =
       [Idle EXCEPT !.at = IF retired THEN "done" ELSE "objects",
                    !.response = IF retired THEN "RELEASE_RETIRED" ELSE "none",
                    !.kind = kind, !.asks = asks, !.activation = activation]]
  /\ UNCHANGED <<database, leases>>

ResolveFails(r) ==
  /\ requests[r].at = "idle"
  /\ Respond(r, "QUERY_EXECUTION_FAILED")
  /\ UNCHANGED <<database, leases>>

\* The gateway answers about one resource, at an epoch it may have cached.
Authorized(r, x, e) ==
  /\ requests[r].at \in {"objects", "links"}
  /\ x \in requests[r].asks
  /\ requests' = [requests EXCEPT
       ![r].asks = @ \ {x},
       ![r].epochs = @ \cup {e},
       ![r].visible = IF x \in log[e] THEN @ \cup {x} ELSE @]
  /\ UNCHANGED <<database, leases>>

\* The gateway fails closed, or its context is not of the candidate.
AuthorizationUnavailable(r) ==
  /\ requests[r].at \in {"objects", "links"} /\ requests[r].asks # {}
  /\ Respond(r, "POLICY_EVALUATION_UNAVAILABLE")
  /\ UNCHANGED <<database, leases>>

LinkCandidates(r) == {l \in Links : l \subseteq requests[r].visible}

\* #authorizeMetadata: links whose object types are all visible are asked next.
AskLinks(r) ==
  /\ requests[r].at = "objects" /\ requests[r].kind = "metadata" /\ requests[r].asks = {}
  /\ requests' = [requests EXCEPT ![r].at = "links", ![r].asks = LinkCandidates(r)]
  /\ UNCHANGED <<database, leases>>

\* Mutant of OneEpoch: decisions of several epochs are combined.
OneOfSomeEpochs(r) == requests[r].epochs # {}

\* All decisions are of one epoch.
OneEpoch(r) == Cardinality(requests[r].epochs) = 1

AuthorizationEpoch(r) == CHOOSE e \in requests[r].epochs : \A d \in requests[r].epochs : d <= e

\* runtime.commit_query_execution_context: the serving head is still the one
\* resolved and the decisions' epoch is the database's.
ContextUnchanged(r) ==
  /\ ~retired
  /\ requests[r].activation = activation
  /\ AuthorizationEpoch(r) = Epoch

\* Every resource has been asked about.
Ready(r) ==
  /\ requests[r].at = IF requests[r].kind = "metadata" THEN "links" ELSE "objects"
  /\ requests[r].asks = {}
\* An object read ends when its object type is denied.
Denied(r) == requests[r].kind = "object" /\ requests[r].visible = {}

Refused(r) ==
  /\ Ready(r)
  /\ \/ Denied(r) /\ Respond(r, "OBJECT_NOT_ACCESSIBLE")
     \/ ~OneEpoch(r) /\ Respond(r, "POLICY_EVALUATION_UNAVAILABLE")
  /\ UNCHANGED <<database, leases>>

Expiry == now + LeaseTtl

\* commitLease; the reply may be lost after the database has committed.
CommitLease(r, replyLost) ==
  /\ Ready(r) /\ OneEpoch(r) /\ ~Denied(r)
  /\ ContextUnchanged(r)
  /\ leases' = [leases EXCEPT ![r] =
       [state |-> "committed", expires |-> Expiry, epoch |-> AuthorizationEpoch(r),
        databaseEpoch |-> Epoch]]
  /\ IF replyLost THEN Respond(r, "QUERY_CONTEXT_CHANGED")
                  ELSE requests' = [requests EXCEPT ![r].at = "leased"]
  /\ UNCHANGED database

ContextChanged(r) ==
  /\ Ready(r) /\ OneEpoch(r) /\ ~Denied(r)
  /\ ~ContextUnchanged(r)
  /\ Respond(r, "QUERY_CONTEXT_CHANGED")
  /\ UNCHANGED <<database, leases>>

\* metadataResponse, or executeObjectGet and objectGetResponse: the read context
\* is active only under a committed lease that has not expired.
Execute(r, outcome) ==
  /\ requests[r].at = "leased"
  /\ outcome = "data" => leases[r].state = "committed" /\ leases[r].expires > now
  /\ requests' = [requests EXCEPT ![r].at = "releasing", ![r].response = outcome]
  /\ UNCHANGED <<database, leases>>

\* #release in the finally: its failure replaces the response.
ReleaseAnswer(r, released) ==
  IF released THEN requests[r].response ELSE "QUERY_EXECUTION_FAILED"

\* releaseLease: only a committed lease can be released; the call may fail.
Release(r, released) ==
  /\ requests[r].at = "releasing"
  /\ released => leases[r].state = "committed"
  /\ leases' = [leases EXCEPT ![r].state = IF released THEN "released" ELSE @]
  /\ Respond(r, ReleaseAnswer(r, released))
  /\ UNCHANGED database

Next ==
  \/ \E allowed \in SUBSET Resources : AuthorizationCommit(allowed)
  \/ Cutover \/ Retire \/ Tick
  \/ \E r \in Requests :
       \/ ExpireLease(r) \/ ResolveFails(r) \/ AuthorizationUnavailable(r)
       \/ AskLinks(r) \/ Refused(r) \/ ContextChanged(r)
       \/ \E kind \in {"metadata", "object"}, asks \in SUBSET Objects : Resolve(r, kind, asks)
       \/ \E x \in requests[r].asks, e \in 1..Epoch : Authorized(r, x, e)
       \/ \E lost \in BOOLEAN : CommitLease(r, lost)
       \/ \E o \in {"data", "OBJECT_NOT_ACCESSIBLE", "QUERY_EXECUTION_FAILED"} : Execute(r, o)
       \/ \E released \in BOOLEAN : Release(r, released)

Spec == Init /\ [][Next]_vars

-----------------------------------------------------------------------------
(* Types.                                                                   *)
TypeOK ==
  /\ log \in Seq(SUBSET Resources) /\ Epoch \in 1..MaxEpoch
  /\ activation \in 1..MaxActivation /\ retired \in BOOLEAN /\ now \in 0..MaxTime
  /\ \A r \in Requests :
       /\ requests[r].at \in {"idle", "objects", "links", "leased", "releasing", "done"}
       /\ requests[r].asks \subseteq Resources /\ requests[r].visible \subseteq Resources
       /\ requests[r].epochs \subseteq 1..Epoch
       /\ leases[r].state \in {"none", "committed", "released", "expired"}
       /\ leases[r].expires \in 0..(MaxTime + LeaseTtl)

(* Every resource a response shows was allowed by the authorization facts   *)
(* in force when its lease was committed, whatever old decisions the        *)
(* gateway had cached and however they were interleaved with revocations.   *)
ShownWasAllowed ==
  \A r \in Requests : requests[r].response = "data" =>
    requests[r].visible \subseteq log[leases[r].databaseEpoch]

(* Data is answered only once the lease has been released: a read whose     *)
(* lease could not be released, or had expired and was swept, is an error.  *)
DataMeansReleased ==
  \A r \in Requests :
    requests[r].at = "done" /\ requests[r].response = "data" => leases[r].state = "released"

(* A link is shown only together with every object type it joins.           *)
LinksShownWithTheirEnds ==
  \A r \in Requests, l \in Links :
    l \in requests[r].visible => l \subseteq requests[r].visible
=============================================================================
