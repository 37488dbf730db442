----------------------------- MODULE UploadSession -----------------------------
(***************************************************************************)
(* Managed CSV ingress: upload sessions, object versions in a versioned    *)
(* store outside the database, the claim, scan and registration of a whole *)
(* snapshot group, and the cleanup of objects nobody registered.           *)
(*                                                                         *)
(* Source: materialization-application/src/index.ts,                       *)
(* materialization-postgres/src/index.ts, object-store-s3/src/index.ts and *)
(* the triggers of migration 0010.                                         *)
(*                                                                         *)
(* Abstractions.  One snapshot group at its next version.  A session is    *)
(* for one member.  Time is the age of a session (fresh, expired after 15  *)
(* minutes, cleanable after 24 hours) and whether a finalize lease has     *)
(* lapsed.  Authorization, digests and the CSV grammar are left out: a     *)
(* scan finds the content good or bad.                                     *)
(***************************************************************************)
EXTENDS Integers, FiniteSets, FiniteSetsExt

CONSTANTS
  Members,        \* members of the group in the release's runtime plan
  Doubled,        \* bound: members with a second session
  Ages,           \* bound: how old a session gets
  MaxPuts,        \* bound: object versions per session
  Uploaders,      \* upload requests
  Finalizers,     \* finalize requests, each used once: its name is its claim
  None,
  Crashes         \* TRUE: a request may die between two steps

\* The group is finite, as a runtime plan is, and a request's name no null.
UploadAssumption ==
  /\ IsFiniteSet(Members) /\ Doubled \subseteq Members /\ MaxPuts \in Nat \ {0}
  /\ None \notin Finalizers /\ Crashes \in BOOLEAN

Sessions == Members \X {1} \cup Doubled \X {2}
Versions == 1..MaxPuts
MemberOf(s) == s[1]

VARIABLES
  session,     \* runtime.snapshot_upload_sessions
  registered,  \* the group version exists
  store,       \* versions under a session's key, the latest is the largest
  puts,        \* versions ever put
  up,          \* upload requests
  fin,         \* finalize requests
  clean        \* the cleanup timer's current candidate

vars == <<session, registered, store, puts, up, fin, clean>>

NoSession == [state |-> "none", age |-> "fresh", version |-> 0, claim |-> None, lapsed |-> FALSE,
              kept |-> FALSE]
Idle == [at |-> "idle", s |-> None, v |-> 0]
NoClean == [at |-> "idle", s |-> None, seen |-> "none", doomed |-> {}]

Init ==
  /\ session = [s \in Sessions |-> NoSession]
  /\ registered = FALSE
  /\ store = [s \in Sessions |-> {}]
  /\ puts = [s \in Sessions |-> 0]
  /\ up = [u \in Uploaders |-> Idle]
  /\ fin = [f \in Finalizers |-> [at |-> "idle", rows |-> {}, todo |-> {}, cur |-> None]]
  /\ clean = NoClean

Latest(s) == IF store[s] = {} THEN 0 ELSE Max(store[s])

-----------------------------------------------------------------------------
(* Sessions and time.                                                       *)

\* createUploadSession; the insert trigger wants the next group version.
Create(s) ==
  /\ session[s].state = "none" /\ ~registered
  /\ session' = [session EXCEPT ![s].state = "created"]
  /\ UNCHANGED <<registered, store, puts, up, fin, clean>>

\* Time passes.
GrowOlder(s) ==
  /\ session[s].state # "none" /\ session[s].age # "cleanable"
  /\ session' = [session EXCEPT ![s].age = IF @ = "fresh" THEN "expired" ELSE "cleanable"]
  /\ session'[s].age \in Ages
  /\ UNCHANGED <<registered, store, puts, up, fin, clean>>

\* Five minutes without a renewal.
Lapse(f) ==
  /\ \E s \in Sessions : session[s].claim = f /\ ~session[s].lapsed
  /\ session' = [s \in Sessions |->
       IF session[s].claim = f THEN [session[s] EXCEPT !.lapsed = TRUE] ELSE session[s]]
  /\ UNCHANGED <<registered, store, puts, up, fin, clean>>

-----------------------------------------------------------------------------
(* uploadSessionContent.                                                    *)

\* getUploadSession, without a lock.
StartUpload(u, s) ==
  /\ up[u].at = "idle" /\ session[s].state = "created"
  /\ up' = [up EXCEPT ![u] = [at |-> "sending", s |-> s, v |-> 0]]
  /\ UNCHANGED <<session, registered, store, puts, fin, clean>>

PutVersion(u) ==
  LET s == up[u].s
  IN /\ up[u].at = "sending" /\ puts[s] < MaxPuts
     /\ puts' = [puts EXCEPT ![s] = @ + 1]
     /\ store' = [store EXCEPT ![s] = @ \cup {puts[s] + 1}]
     /\ up' = [up EXCEPT ![u].at = "stored", ![u].v = puts[s] + 1]
     /\ UNCHANGED <<session, registered, fin, clean>>

Recordable(s) == session[s].state = "created" /\ session[s].age = "fresh"

\* recordUploadedVersion.  Its commit may succeed and the answer be lost; the
\* request then goes to its catch block, like one that was refused.  (A lost
\* answer of a claim is a finalize request that dies, one of a registration
\* finds no claim left to give back.)
Record(u) ==
  LET s == up[u].s
  IN /\ up[u].at = "stored"
     /\ IF Recordable(s)
          THEN /\ session' = [session EXCEPT ![s].state = "uploaded", ![s].version = up[u].v]
               /\ up' \in {[up EXCEPT ![u] = Idle], [up EXCEPT ![u].at = "undo"]}
          ELSE up' = [up EXCEPT ![u].at = "undo"] /\ UNCHANGED session
     /\ UNCHANGED <<registered, store, puts, fin, clean>>

\* The catch block: the version is deleted, or that fails silently.
Undo(u) ==
  /\ up[u].at = "undo"
  /\ store' \in {store, [store EXCEPT ![up[u].s] = @ \ {up[u].v}]}
  /\ up' = [up EXCEPT ![u] = Idle]
  /\ UNCHANGED <<session, registered, puts, fin, clean>>

\* The request dies, or its stream breaks after the store has kept the version.
UploadDies(u) ==
  /\ Crashes /\ up[u].at # "idle"
  /\ up' = [up EXCEPT ![u] = Idle]
  /\ UNCHANGED <<session, registered, store, puts, fin, clean>>

-----------------------------------------------------------------------------
(* finalizeSnapshotGroup.                                                   *)

Done(f) == fin' = [fin EXCEPT ![f] = [at |-> "done", rows |-> {}, todo |-> {}, cur |-> None]]

Set(S, state) == [s \in Sessions |->
  IF s \in S THEN [session[s] EXCEPT !.state = state, !.claim = None, !.lapsed = FALSE] ELSE session[s]]

\* The comparison with the release's members.
Covers(S) == {MemberOf(s) : s \in S} = Members /\ Cardinality(S) = Cardinality(Members)

Claimable(s) ==
  /\ session[s].age = "fresh"
  /\ session[s].state = "uploaded" \/ (session[s].state = "finalizing" /\ session[s].lapsed)

\* A retry after the group is registered is answered from the record.
AlreadyFinalized(f, S) ==
  /\ fin[f].at = "idle" /\ S # {} /\ \A s \in S : session[s].state = "finalized"
  /\ Done(f)
  /\ UNCHANGED <<session, registered, store, puts, up, clean>>

\* claimFinalizeGroup: a lapsed claim is taken back and claimed again.
Claim(f, S) ==
  /\ fin[f].at = "idle"
  /\ \A s \in S : Claimable(s)
  /\ Covers(S)
  /\ session' = [s \in Sessions |->
       IF s \in S THEN [session[s] EXCEPT !.state = "finalizing", !.claim = f, !.lapsed = FALSE]
       ELSE session[s]]
  /\ fin' = [fin EXCEPT ![f] = [at |-> "claimed", rows |-> S, todo |-> S, cur |-> None]]
  /\ UNCHANGED <<registered, store, puts, up, clean>>

Held(f) == {s \in Sessions : session[s].claim = f}

\* renewFinalizeClaim: a heartbeat extends what is left of the claim.
Renewable(f) == Held(f) # {} /\ \A s \in Held(f) : ~session[s].lapsed

\* finishFinalizeFailure of a retryable failure.
GiveBack(f) == session' = Set(Held(f), "uploaded") /\ Done(f)

\* #scanAndBuildSnapshot up to the read of the exact version.
ScanStart(f, s) ==
  /\ fin[f].at = "claimed" /\ s \in fin[f].todo
  /\ Renewable(f) /\ Latest(s) = session[s].version
  /\ fin' = [fin EXCEPT ![f].at = "scanning", ![f].todo = @ \ {s}, ![f].cur = s]
  /\ UNCHANGED <<session, registered, store, puts, up, clean>>

\* The rest: the claim is renewed and the latest version compared again.
ScanEnd(f) ==
  /\ fin[f].at = "scanning"
  /\ Renewable(f) /\ Latest(fin[f].cur) = session[fin[f].cur].version
  /\ fin' = [fin EXCEPT ![f].at = IF fin[f].todo = {} THEN "scanned" ELSE "claimed", ![f].cur = None]
  /\ UNCHANGED <<session, registered, store, puts, up, clean>>

\* A renewal finds the claim gone or lapsed, or the store is not available.
RetryableFailure(f) ==
  /\ fin[f].at \in {"claimed", "scanning"}
  /\ GiveBack(f)
  /\ UNCHANGED <<registered, store, puts, up, clean>>

\* The content, its digest or its latest version is not the recorded one: the
\* session fails and the others of the group are given back, unless the claim
\* on the session is gone.
ContentFailure(f, s) ==
  /\ \/ fin[f].at = "claimed" /\ s \in fin[f].todo
     \/ fin[f].at = "scanning" /\ s = fin[f].cur
  /\ session' = IF session[s].claim # f THEN session
                ELSE [r \in Sessions |-> IF r = s THEN Set({s}, "failed")[s]
                                         ELSE Set(Held(f), "uploaded")[r]]
  /\ Done(f)
  /\ UNCHANGED <<registered, store, puts, up, clean>>

Rows(f) == Cardinality(Held(f)) = Cardinality(fin[f].rows)

\* completeFinalizeGroup: the group version's key lets one request register.
Complete(f) ==
  /\ fin[f].at = "scanned"
  /\ IF Rows(f) /\ ~registered
       THEN session' = Set(Held(f), "finalized") /\ registered' = TRUE /\ Done(f)
       ELSE GiveBack(f) /\ UNCHANGED registered
  /\ UNCHANGED <<store, puts, up, clean>>

\* The process dies, or the database is gone and the failure is not recorded.
FinalizeDies(f) ==
  /\ Crashes /\ fin[f].at \in {"claimed", "scanning", "scanned"}
  /\ Done(f)
  /\ UNCHANGED <<session, registered, store, puts, up, clean>>

-----------------------------------------------------------------------------
(* cleanupManagedObjects.                                                   *)

\* listObjectCleanupCandidates.
Candidate(s) ==
  \/ session[s].state = "finalized" /\ ~session[s].kept
  \/ session[s].state \in {"created", "uploaded", "failed"} /\ session[s].age = "cleanable"

\* listVersions without the protected one.
Doomed(s) == IF session[s].state = "finalized" THEN store[s] \ {session[s].version} ELSE store[s]

List(s) ==
  /\ clean.at = "idle" /\ Candidate(s)
  /\ clean' = [at |-> "deleting", s |-> s, seen |-> session[s].state, doomed |-> Doomed(s)]
  /\ UNCHANGED <<session, registered, store, puts, up, fin>>

DeleteVersions ==
  /\ clean.at = "deleting"
  /\ store' = [store EXCEPT ![clean.s] = @ \ clean.doomed]
  /\ clean' = [clean EXCEPT !.at = "deleted", !.doomed = {}]
  /\ UNCHANGED <<session, registered, puts, up, fin>>

\* markObjectCleanupComplete: conflict unless the session is as it was listed.
\* (created and uploaded pass through expired within the transaction.)
MarkClean ==
  LET s == clean.s
  IN /\ clean.at = "deleted"
     /\ IF session[s].state = clean.seen
          THEN session' = [session EXCEPT ![s] =
                 IF clean.seen = "finalized" THEN [@ EXCEPT !.kept = TRUE]
                 ELSE [@ EXCEPT !.state = "cleaned"]]
          ELSE UNCHANGED session
     /\ clean' = NoClean
     /\ UNCHANGED <<registered, store, puts, up, fin>>

-----------------------------------------------------------------------------
UploadStep(u) == PutVersion(u) \/ Record(u) \/ Undo(u)

FinalizeStep(f) ==
  \/ \E s \in Sessions : ScanStart(f, s) \/ ContentFailure(f, s)
  \/ ScanEnd(f) \/ RetryableFailure(f) \/ Complete(f)

CleanStep == DeleteVersions \/ MarkClean

Next ==
  \/ \E s \in Sessions : Create(s) \/ GrowOlder(s) \/ List(s)
  \/ \E u \in Uploaders : UploadStep(u) \/ UploadDies(u) \/ \E s \in Sessions : StartUpload(u, s)
  \/ \E f \in Finalizers :
       Lapse(f) \/ FinalizeStep(f) \/ FinalizeDies(f) \/ \E S \in SUBSET Sessions : Claim(f, S) \/ AlreadyFinalized(f, S)
  \/ CleanStep

Spec == Init /\ [][Next]_vars

\* Time passes, a request that does not die goes on, and the cleanup timer of
\* the API process examines every candidate.
Fairness ==
  /\ \A s \in Sessions : WF_vars(GrowOlder(s)) /\ SF_vars(List(s))
  /\ \A f \in Finalizers : WF_vars(FinalizeStep(f))
  /\ WF_vars(CleanStep)

-----------------------------------------------------------------------------
(* Types, and what the table's constraints say of a claim.                  *)
TypeOK ==
  /\ \A s \in Sessions :
       /\ session[s].state \in {"none", "created", "uploaded", "finalizing", "finalized", "failed",
                                "cleaned"}
       /\ session[s].age \in {"fresh", "expired", "cleanable"}
       /\ session[s].version \in 0..puts[s] /\ puts[s] \in 0..MaxPuts /\ store[s] \subseteq Versions
       /\ (session[s].claim # None) <=> session[s].state = "finalizing"
  /\ registered \in BOOLEAN
  /\ \A u \in Uploaders : up[u].at \in {"idle", "sending", "stored", "undo"}
  /\ \A f \in Finalizers : fin[f].at \in {"idle", "claimed", "scanning", "scanned", "done"}

(* A group version is registered whole, from one session per member, or not *)
(* at all, whatever claims lapse and are taken over on the way.             *)
GroupWhole ==
  LET finalized == {s \in Sessions : session[s].state = "finalized"}
  IN IF registered THEN Covers(finalized) ELSE finalized = {}

(* A session that is registered, or still can be.                           *)
Needed(x) ==
  x.state \in {"finalizing", "finalized"} \/ (x.state = "uploaded" /\ x.age # "cleanable")

(* The request that recorded the version of s and lost the answer deletes   *)
(* it, in the step it takes now.                                            *)
Compensated(u, s) ==
  up[u].at = "undo" /\ up[u].s = s /\ up[u].v = session[s].version /\ up'[u].at = "idle"

(* A session is needed with its exact version in the store from the start,  *)
(* and nothing but the compensation of the upload that recorded it takes    *)
(* the version away: no cleanup, however late, no other upload of the same  *)
(* session, no lapsed claim.                                                *)
NeededObjectKept ==
  \A s \in Sessions : Needed(session'[s]) /\ session'[s].version \notin store'[s] =>
    \/ Needed(session[s]) /\ session[s].version \notin store[s]
    \/ \E u \in Uploaders : Compensated(u, s)

(* The exact version a registered snapshot names is in the store.  Not so   *)
(* in the code: a compensation may be of a version that was registered.     *)
RegisteredObjectKept ==
  \A s \in Sessions : session[s].state = "finalized" => session[s].version \in store[s]

(* An object nobody registers is deleted in the end: a session past its     *)
(* retention is cleaned, or turns out to be registered.                     *)
AbandonedIsCleaned ==
  \A s \in Sessions : session[s].age = "cleanable" ~> session[s].state \in {"cleaned", "finalized"}
=============================================================================
