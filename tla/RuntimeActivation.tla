-------------------------- MODULE RuntimeActivation --------------------------
(***************************************************************************)
(* RuntimeActivationModel: releases, snapshots, generations and the        *)
(* activations that bind them; publication, refresh and retirement under a *)
(* control revision; query and preflight leases; jobs, holds and           *)
(* historical references; and collection of what nothing protects.         *)
(*                                                                         *)
(* Source: tools/runtime-activation/model.ts.                              *)
(*                                                                         *)
(* Abstractions: one project; the content of a record that is fixed when   *)
(* it is registered (pins, members, snapshot group) is a constant of its   *)
(* identifier, so the requests are the identifiers; a compared revision    *)
(* (controlRevision, stateRevision) is whether the observation it was read *)
(* with is still the latest; times are small numbers and a request passes  *)
(* the time at which it is made.                                           *)
(***************************************************************************)
EXTENDS Naturals, FiniteSets, FiniteSetTheorems, TLAPS

CONSTANTS Releases, Snapshots, Generations, Activations, Channels,
          Queries, Tokens, Pinners,   \* pinners: jobs, holds, historical references
          Approvals,
          Pins,          \* release -> (member -> [group, print])
          RollbackOf,    \* release -> release or None
          SnapshotOf,    \* snapshot -> [group, version]
          GenerationOf,  \* generation -> [member, snapshot, build, compatible, certified, order]
          ActivationOf,  \* activation -> [release, members]
          Holdable,      \* the references a job, hold or historical reference may name
          NormalReleases, HardReleases, NormalGenerations, HardGenerations,
          Support,       \* minimumReleaseSupportMs
          Retention,     \* minimumInactiveRetentionMs
          RetainCount,   \* inactiveGenerationRetentionCount
          MaxLease,      \* maximumQueryLeaseMs and maximumPreflightTtlMs
          MaxApproval,   \* maximumCapacityApprovalMs
          MaxTime,       \* bound: the clock
          None

\* assertPolicy.
PolicyAssumption ==
  /\ \A n \in {NormalReleases, HardReleases, NormalGenerations, HardGenerations, Support,
               Retention, RetainCount, MaxLease, MaxApproval} : n \in Nat \ {0}
  /\ NormalReleases < HardReleases /\ NormalGenerations < HardGenerations

\* What is registered names what exists (the id and digest checks of register*).
ActivationAssumption ==
  /\ PolicyAssumption /\ MaxTime \in Nat
  /\ IsFiniteSet(Releases) /\ IsFiniteSet(Generations)
  /\ None \notin Activations \union Approvals
  /\ \A g \in Generations :
       /\ GenerationOf[g].snapshot \in Snapshots
       /\ {GenerationOf[g].build} \union GenerationOf[g].compatible \subseteq Releases
  /\ \A a \in Activations :
       /\ ActivationOf[a].release \in Releases
       /\ \A m \in DOMAIN ActivationOf[a].members :
            /\ ActivationOf[a].members[m].generation \in Generations
            /\ ActivationOf[a].members[m].snapshot \in Snapshots
  /\ Holdable \subseteq [releases : SUBSET Releases, activations : SUBSET Activations,
                         generations : SUBSET Generations, snapshots : SUBSET Snapshots]

VARIABLES now,
          releases,     \* state, publishedAt, supportUntil, retiredAt
          snapshots,    \* state, createdAt, lastServingAt
          generations,  \* state, createdAt, lastServingAt, proofs
          activations,  \* state, createdAt, lastServingAt
          heads,        \* serving head of each release
          channels,     \* activation each channel points at
          queries,      \* state, activation, leaseUntil
          tokens,       \* state, selector, activation, expiresAt
          pinners,      \* state, kind, references
          approvals,
          seen,         \* the heads an operator read, and whether its revision is current
          plan,         \* a collection plan, and whether its state revision is current
          served        \* history: when each generation was last served

content == <<releases, snapshots, generations, activations>>
serving == <<heads, channels>>
leases == <<queries, tokens, pinners>>
vars == <<now, content, serving, leases, approvals, seen, plan, served>>

Ids == [releases : SUBSET Releases, activations : SUBSET Activations,
        generations : SUBSET Generations, snapshots : SUBSET Snapshots]
NoIds == [releases |-> {}, activations |-> {}, generations |-> {}, snapshots |-> {}]
Lapsed == 0..(MaxTime + Support + MaxLease + MaxApproval)
NoPlan == [current |-> FALSE, at |-> 0, ids |-> NoIds]
NoApproval == [at |-> 0, expires |-> 0, releases |-> 0, generations |-> 0]

ReleaseRecord == [state : {"none", "STAGED", "PUBLISHED", "RETIRED", "COLLECTED"},
                  published : Lapsed, support : Lapsed, retired : Lapsed]
ContentStates == {"none", "READY", "COLLECTED"}
SnapshotRecord == [state : ContentStates, created : Lapsed, last : Lapsed]
ActivationRecord == SnapshotRecord
GenerationRecord == [state : ContentStates, created : Lapsed, last : Lapsed,
                     proofs : SUBSET UNION {{Pins[r][m].print : m \in DOMAIN Pins[r]} : r \in Releases}]
QueryRecord == [state : {"none", "ACTIVE", "ENDED"}, activation : Activations \union {None},
                lease : Lapsed]
PreflightToken == [state : {"none", "ACTIVE", "USED", "STALE"},
                   selector : Channels \union Releases \union {None},
                   activation : Activations \union {None}, expires : Lapsed]
JobRecord == [state : {"none", "ACTIVE", "ended"}, kind : {"none", "job", "hold", "historical"},
              refs : Ids]
CapacityApproval == [at : Lapsed, expires : Lapsed, releases : 0..HardReleases,
                     generations : 0..HardGenerations]

TypeOK ==
  /\ now \in 0..MaxTime
  /\ releases \in [Releases -> ReleaseRecord]
  /\ snapshots \in [Snapshots -> SnapshotRecord]
  /\ generations \in [Generations -> GenerationRecord]
  /\ activations \in [Activations -> ActivationRecord]
  /\ heads \in [Releases -> Activations \union {None}]
  /\ channels \in [Channels -> Activations \union {None}]
  /\ queries \in [Queries -> QueryRecord] /\ tokens \in [Tokens -> PreflightToken]
  /\ pinners \in [Pinners -> JobRecord] /\ approvals \in [Approvals -> CapacityApproval]
  /\ plan \in [current : BOOLEAN, at : 0..MaxTime, ids : Ids]

Init ==
  /\ now = 0
  /\ releases = [r \in Releases |-> [state |-> "none", published |-> 0, support |-> 0, retired |-> 0]]
  /\ snapshots = [s \in Snapshots |-> [state |-> "none", created |-> 0, last |-> 0]]
  /\ generations = [g \in Generations |->
                      [state |-> "none", created |-> 0, last |-> 0, proofs |-> {}]]
  /\ activations = [a \in Activations |-> [state |-> "none", created |-> 0, last |-> 0]]
  /\ heads = [r \in Releases |-> None] /\ channels = [c \in Channels |-> None]
  /\ queries = [q \in Queries |-> [state |-> "none", activation |-> None, lease |-> 0]]
  /\ tokens = [t \in Tokens |-> [state |-> "none", selector |-> None, activation |-> None,
                                 expires |-> 0]]
  /\ pinners = [p \in Pinners |-> [state |-> "none", kind |-> "none", refs |-> NoIds]]
  /\ approvals = [a \in Approvals |-> NoApproval]
  /\ seen = [current |-> FALSE, heads |-> heads]
  /\ plan = NoPlan
  /\ served = [g \in Generations |-> 0]

-----------------------------------------------------------------------------
(* What the requests check *)

Later(s, t) == IF s > t THEN s ELSE t
Usable(r) == releases[r].state \in {"STAGED", "PUBLISHED"}
ReadySnapshot(s) == snapshots[s].state = "READY"
ReadyActivation(a) == a # None /\ activations[a].state = "READY"
Members(a) == ActivationOf[a].members

\* bumpState: every plan made before is stale.  bumpControl: so is every
\* observation of the heads.
BumpState == plan' = NoPlan /\ UNCHANGED seen
BumpControl == plan' = NoPlan /\ seen' = [seen EXCEPT !.current = FALSE]

\* validateActivation, one member: its generation is of this member and of
\* the snapshot beside it, both exist and are ready, the snapshot is of the
\* pin's group, and the generation is certified for the pin.
MemberBinds(a, m) ==
  LET g == Members(a)[m].generation
      s == Members(a)[m].snapshot
      pin == Pins[ActivationOf[a].release][m] IN
  /\ generations[g].state = "READY" /\ snapshots[s].state = "READY"
  /\ GenerationOf[g].member = m /\ GenerationOf[g].snapshot = s
  /\ SnapshotOf[s].group = pin.group
  /\ pin.print \in generations[g].proofs

\* validateActivation: the members of one group are of one version of it.
OneVersionPerGroup(a) ==
  \A m, n \in DOMAIN Members(a) :
    LET s == SnapshotOf[Members(a)[m].snapshot]
        t == SnapshotOf[Members(a)[n].snapshot] IN
    s.group = t.group => s.version = t.version

\* validateActivation(activation, true).
Valid(a) ==
  LET r == ActivationOf[a].release IN
  /\ releases[r].state \notin {"none", "COLLECTED"}
  /\ DOMAIN Members(a) = DOMAIN Pins[r]
  /\ \A m \in DOMAIN Members(a) : MemberBinds(a, m)
  /\ OneVersionPerGroup(a)

\* resolveActivation: a channel is its pointer, a release its serving head.
Resolve(selector) ==
  LET a == IF selector \in Channels THEN channels[selector]
           ELSE IF releases[selector].state = "PUBLISHED" THEN heads[selector] ELSE None IN
  IF ReadyActivation(a) THEN a ELSE None

\* servingContentIds.
ServedActivations(h) == {a \in Activations : \E r \in Releases : h[r] = a /\ ReadyActivation(a)}
ServedOf(h, field) ==
  UNION {{Members(a)[m][field] : m \in DOMAIN Members(a)} : a \in ServedActivations(h)}

\* recordServingTransitions: what stopped serving is dated now.
Stopped(records, before, after) ==
  [i \in DOMAIN records |->
     IF i \in before \ after THEN [records[i] EXCEPT !.last = now] ELSE records[i]]

RecordServingTransitions(h) ==
  /\ activations' = Stopped(activations, ServedActivations(heads), ServedActivations(h))
  /\ generations' = Stopped(generations, ServedOf(heads, "generation"), ServedOf(h, "generation"))
  /\ snapshots' = Stopped(snapshots, ServedOf(heads, "snapshot"), ServedOf(h, "snapshot"))

-----------------------------------------------------------------------------
(* Capacity *)

\* capacityForHeads.
ServingReleases(h) == Cardinality({r \in Releases : h[r] # None})
GenerationsPerMember(h, m) ==
  Cardinality({Members(h[r])[m].generation :
                 r \in {x \in Releases : h[x] # None /\ m \in DOMAIN Members(h[x])}})
AllMembers == UNION {DOMAIN Pins[r] : r \in Releases}

\* assertCapacity: the hard limits.
WithinHard(h) ==
  /\ ServingReleases(h) <= HardReleases
  /\ \A m \in AllMembers : GenerationsPerMember(h, m) <= HardGenerations

\* assertCapacity: heads beyond a normal limit that raise it further.
Expands(h) ==
  \/ ServingReleases(h) > NormalReleases /\ ServingReleases(h) > ServingReleases(heads)
  \/ \E m \in AllMembers : /\ GenerationsPerMember(h, m) > NormalGenerations
                           /\ GenerationsPerMember(h, m) > GenerationsPerMember(heads, m)

\* assertCapacity: the approval that covers them.
Covers(ap, h) ==
  /\ ap # None /\ approvals[ap] # NoApproval
  /\ now >= approvals[ap].at /\ now < approvals[ap].expires
  /\ ServingReleases(h) <= approvals[ap].releases
  /\ \A m \in AllMembers : GenerationsPerMember(h, m) <= approvals[ap].generations

\* assertCapacity, of the proposed heads.
Capacity(h, ap) == WithinHard(h) /\ (Expands(h) => Covers(ap, h))

\* registerCapacityApproval: within the allowed window, raises a normal limit
\* and stays at the hard ones, and names published releases whose support ends
\* before it does.
RegisterCapacityApproval(ap, expires, maxR, maxG, retire) ==
  /\ approvals[ap] = NoApproval
  /\ expires > now /\ expires - now <= MaxApproval
  /\ maxR \in NormalReleases..HardReleases /\ maxG \in NormalGenerations..HardGenerations
  /\ maxR > NormalReleases \/ maxG > NormalGenerations
  /\ retire # {}
  /\ \A r \in retire : releases[r].state = "PUBLISHED" /\ releases[r].support <= expires
  /\ approvals' = [approvals EXCEPT ![ap] =
                     [at |-> now, expires |-> expires, releases |-> maxR, generations |-> maxG]]
  /\ BumpState
  /\ UNCHANGED <<now, content, serving, leases, served>>

-----------------------------------------------------------------------------
(* Registration *)

RegisterRelease(r) ==
  /\ releases[r].state = "none"
  /\ RollbackOf[r] # None => releases[RollbackOf[r]].state \notin {"none", "COLLECTED"}
  /\ releases' = [releases EXCEPT ![r].state = "STAGED"]
  /\ BumpState
  /\ UNCHANGED <<now, snapshots, generations, activations, serving, leases, approvals, served>>

RegisterSnapshot(s) ==
  /\ snapshots[s].state = "none"
  /\ snapshots' = [snapshots EXCEPT ![s] = [state |-> "READY", created |-> now, last |-> now]]
  /\ BumpState
  /\ UNCHANGED <<now, releases, generations, activations, serving, leases, approvals, served>>

\* A generation proves itself for the pins of its build release and of the
\* releases it names; a pin that differs from the build pin needs a
\* certificate.
RegisterGeneration(g) ==
  LET in == GenerationOf[g]
      targets == {in.build} \union in.compatible IN
  /\ generations[g].state = "none"
  /\ ReadySnapshot(in.snapshot)
  /\ \A r \in targets :
       /\ Usable(r) /\ in.member \in DOMAIN Pins[r]
       /\ Pins[r][in.member].group = SnapshotOf[in.snapshot].group
       /\ \/ Pins[r][in.member].print = Pins[in.build][in.member].print
          \/ r \in in.certified
  /\ generations' = [generations EXCEPT ![g] =
                       [state |-> "READY", created |-> now, last |-> now,
                        proofs |-> {Pins[r][in.member].print : r \in targets}]]
  /\ BumpState
  /\ UNCHANGED <<now, releases, snapshots, activations, serving, leases, approvals, served>>

CreateActivation(a) ==
  /\ activations[a].state = "none"
  /\ Usable(ActivationOf[a].release)
  /\ Valid(a)
  /\ activations' = [activations EXCEPT ![a] = [state |-> "READY", created |-> now, last |-> now]]
  /\ BumpState
  /\ UNCHANGED <<now, releases, snapshots, generations, serving, leases, approvals, served>>

-----------------------------------------------------------------------------
(* Control: publish, refresh, retire *)

\* An operator reads the heads and the control revision.
Observe ==
  /\ seen' = [current |-> TRUE, heads |-> heads]
  /\ UNCHANGED <<now, content, serving, leases, approvals, plan, served>>

\* assertControlRevision.
Expected == seen.current

Publish(r, a, c, support, ap) ==
  LET h == [heads EXCEPT ![r] = a] IN
  /\ Expected
  /\ releases[r].state = "STAGED"
  /\ ReadyActivation(a) /\ ActivationOf[a].release = r /\ Valid(a)
  /\ support >= now + Support
  /\ Capacity(h, ap)
  /\ releases' = [releases EXCEPT ![r] = [@ EXCEPT !.state = "PUBLISHED", !.published = now,
                                                   !.support = support]]
  /\ heads' = h /\ channels' = [channels EXCEPT ![c] = a]
  /\ RecordServingTransitions(h)
  /\ BumpControl
  /\ UNCHANGED <<now, leases, approvals, served>>

\* refresh: a channel follows the release of the activation it points at.
Moved(c, by) ==
  IF channels[c] = None \/ by[ActivationOf[channels[c]].release] = None THEN channels[c]
  ELSE by[ActivationOf[channels[c]].release]

\* One refresh replaces the heads of several releases (`by`, None for the
\* others), or of none.
Refresh(by, ap) ==
  LET changed == {r \in Releases : by[r] # None}
      h == [r \in Releases |-> IF r \in changed THEN by[r] ELSE heads[r]] IN
  /\ Expected
  /\ changed # {}
  /\ \A r \in changed : /\ releases[r].state = "PUBLISHED" /\ heads[r] # None
                        /\ ReadyActivation(by[r]) /\ ActivationOf[by[r]].release = r
                        /\ Valid(by[r])
  /\ Capacity(h, ap)
  /\ \A c \in Channels : channels[c] # None => ReadyActivation(channels[c])
  /\ heads' = h /\ channels' = [c \in Channels |-> Moved(c, by)]
  /\ RecordServingTransitions(h)
  /\ BumpControl
  /\ UNCHANGED <<now, releases, leases, approvals, served>>

RetireRelease(r) ==
  LET h == [heads EXCEPT ![r] = None] IN
  /\ Expected
  /\ releases[r].state = "PUBLISHED" /\ now >= releases[r].support
  /\ \A c \in Channels : channels[c] # None =>
       ReadyActivation(channels[c]) /\ ActivationOf[channels[c]].release # r
  /\ heads' = h
  /\ releases' = [releases EXCEPT ![r] = [@ EXCEPT !.state = "RETIRED", !.retired = now]]
  /\ RecordServingTransitions(h)
  /\ BumpControl
  /\ UNCHANGED <<now, channels, leases, approvals, served>>

-----------------------------------------------------------------------------
(* Queries, preflight tokens, references *)

BeginQuery(q, selector, lease) ==
  /\ queries[q].state = "none"
  /\ lease > now /\ lease - now <= MaxLease
  /\ Resolve(selector) # None
  /\ queries' = [queries EXCEPT ![q] = [state |-> "ACTIVE", activation |-> Resolve(selector),
                                        lease |-> lease]]
  /\ BumpState
  /\ UNCHANGED <<now, content, serving, tokens, pinners, approvals, served>>

\* An active query whose lease has not lapsed.
Alive(q) == queries[q].state = "ACTIVE" /\ queries[q].lease > now

RenewQueryLease(q, lease) ==
  /\ Alive(q)
  /\ lease > now /\ lease - now <= MaxLease
  /\ queries' = [queries EXCEPT ![q].lease = lease]
  /\ BumpState
  /\ UNCHANGED <<now, content, serving, tokens, pinners, approvals, served>>

\* readQueryMember: what a read by the query finds.
Reads(q, m) == /\ Alive(q) /\ ReadyActivation(queries[q].activation)
               /\ m \in DOMAIN Members(queries[q].activation)

EndQuery(q) ==
  /\ queries[q].state = "ACTIVE"
  /\ queries' = [queries EXCEPT ![q].state = "ENDED"]
  /\ BumpState
  /\ UNCHANGED <<now, content, serving, tokens, pinners, approvals, served>>

IssuePreflight(t, selector, expires) ==
  /\ tokens[t].state = "none"
  /\ expires > now /\ expires - now <= MaxLease
  /\ Resolve(selector) # None
  /\ tokens' = [tokens EXCEPT ![t] = [state |-> "ACTIVE", selector |-> selector,
                                      activation |-> Resolve(selector), expires |-> expires]]
  /\ BumpState
  /\ UNCHANGED <<now, content, serving, queries, pinners, approvals, served>>

\* A token is used while its selector still resolves to its activation.
ApplyPreflight(t) ==
  /\ tokens[t].state = "ACTIVE" /\ tokens[t].expires > now
  /\ tokens' = [tokens EXCEPT ![t].state =
                  IF Resolve(tokens[t].selector) = tokens[t].activation THEN "USED" ELSE "STALE"]
  /\ BumpState
  /\ UNCHANGED <<now, content, serving, queries, pinners, approvals, served>>

\* assertReferencesAvailable.
ReferencesAvailable(refs) ==
  /\ refs # NoIds
  /\ \A r \in refs.releases : releases[r].state \notin {"none", "COLLECTED"}
  /\ \A a \in refs.activations : ReadyActivation(a)
  /\ \A g \in refs.generations : generations[g].state = "READY"
  /\ \A s \in refs.snapshots : ReadySnapshot(s)

Pin(p, kind, refs) ==
  /\ pinners[p].state = "none" /\ ReferencesAvailable(refs)
  /\ pinners' = [pinners EXCEPT ![p] = [state |-> "ACTIVE", kind |-> kind, refs |-> refs]]
  /\ BumpState
  /\ UNCHANGED <<now, content, serving, queries, tokens, approvals, served>>

Unpin(p, kind) ==
  /\ pinners[p].state = "ACTIVE" /\ pinners[p].kind = kind
  /\ pinners' = [pinners EXCEPT ![p] = [state |-> "ended", kind |-> kind, refs |-> NoIds]]
  /\ BumpState
  /\ UNCHANGED <<now, content, serving, queries, tokens, approvals, served>>

StartJob(p, refs) == Pin(p, "job", refs)
CompleteJob(p) == Unpin(p, "job")
PlaceHold(p, refs) == Pin(p, "hold", refs)
ReleaseHold(p) == Unpin(p, "hold")
AddHistoricalReference(p, refs) == Pin(p, "historical", refs)

-----------------------------------------------------------------------------
(* Collection *)

\* protectedIds: channels, heads, unexpired leases and tokens, references.
Roots(at) ==
  LET refs == {pinners[p].refs : p \in {x \in Pinners : pinners[x].state = "ACTIVE"}} IN
  [releases |-> {r \in Releases : heads[r] # None} \union UNION {x.releases : x \in refs},
   activations |-> {a \in Activations :
                      \/ \E c \in Channels : channels[c] = a
                      \/ \E r \in Releases : heads[r] = a
                      \/ \E q \in Queries : /\ queries[q].state = "ACTIVE"
                                            /\ queries[q].lease > at /\ queries[q].activation = a
                      \/ \E t \in Tokens : /\ tokens[t].state = "ACTIVE"
                                           /\ tokens[t].expires > at /\ tokens[t].activation = a}
                   \union UNION {x.activations : x \in refs},
   generations |-> UNION {x.generations : x \in refs},
   snapshots |-> UNION {x.snapshots : x \in refs}]

\* expandProtectedGraph: an activation protects its release, generations and
\* snapshots, a generation its snapshot.
Expand(ids) ==
  LET gens == ids.generations \union
                UNION {{Members(a)[m].generation : m \in DOMAIN Members(a)} : a \in ids.activations}
      snaps == ids.snapshots
                 \union (UNION {{Members(a)[m].snapshot : m \in DOMAIN Members(a)} :
                                  a \in ids.activations})
                 \union {GenerationOf[g].snapshot : g \in gens} IN
  [releases |-> ids.releases \union {ActivationOf[a].release : a \in ids.activations},
   activations |-> ids.activations, generations |-> gens, snapshots |-> snaps]

\* The generations that keep their place by number: the newest of each member
\* that nothing else protects.
Newest(inactive) ==
  {g \in inactive :
     Cardinality({h \in inactive :
       /\ GenerationOf[h].member = GenerationOf[g].member
       /\ \/ generations[h].created > generations[g].created
          \/ /\ generations[h].created = generations[g].created
             /\ GenerationOf[h].order > GenerationOf[g].order}) < RetainCount}

\* Recent: newer than the cutoff at - Retention.
Recent(time, at) == time + Retention > at
Kept(records, at) ==
  {i \in DOMAIN records : /\ records[i].state = "READY"
                          /\ Recent(Later(records[i].created, records[i].last), at)}

\* protectedIds(at, true): the roots and what retention adds, expanded again.
Protected(at) ==
  LET base == Expand(Roots(at))
      inactive == {g \in Generations : generations[g].state = "READY" /\ g \notin base.generations}
  IN Expand([releases |-> base.releases \union
               {r \in Releases : \/ releases[r].state = "STAGED"
                                 \/ /\ releases[r].state \in {"RETIRED", "COLLECTED"}
                                    /\ Recent(releases[r].retired, at)},
             activations |-> base.activations \union Kept(activations, at),
             generations |-> base.generations \union Newest(inactive) \union Kept(generations, at),
             snapshots |-> base.snapshots \union Kept(snapshots, at)])

Unprotected(at) ==
  [releases |-> {r \in Releases : releases[r].state = "RETIRED"} \ Protected(at).releases,
   activations |-> {a \in Activations : ReadyActivation(a)} \ Protected(at).activations,
   generations |-> {g \in Generations : generations[g].state = "READY"} \ Protected(at).generations,
   snapshots |-> {s \in Snapshots : ReadySnapshot(s)} \ Protected(at).snapshots]

\* A plan of nothing collects nothing.
PlanGarbageCollection ==
  /\ Unprotected(now) # NoIds
  /\ plan' = [current |-> TRUE, at |-> now, ids |-> Unprotected(now)]
  /\ UNCHANGED <<now, content, serving, leases, approvals, seen, served>>

Collect(records, ids) ==
  [i \in DOMAIN records |->
     IF i \in ids THEN [records[i] EXCEPT !.state = "COLLECTED"] ELSE records[i]]

\* The plan is applied if nothing changed since; time may have passed.
CommitGarbageCollection ==
  /\ plan.current
  /\ \A kind \in DOMAIN plan.ids : plan.ids[kind] \intersect Protected(plan.at)[kind] = {}
  /\ releases' = Collect(releases, plan.ids.releases)
  /\ activations' = Collect(activations, plan.ids.activations)
  /\ generations' = Collect(generations, plan.ids.generations)
  /\ snapshots' = Collect(snapshots, plan.ids.snapshots)
  /\ BumpState
  /\ UNCHANGED <<now, serving, leases, approvals, served>>

\* Time passes; the history of service is kept.
Tick ==
  /\ now < MaxTime
  /\ now' = now + 1
  /\ served' = [g \in Generations |->
                  IF g \in ServedOf(heads, "generation") THEN now' ELSE served[g]]
  /\ UNCHANGED <<content, serving, leases, approvals, seen, plan>>

Times == 0..(MaxTime + MaxLease)
Next ==
  \/ Observe \/ PlanGarbageCollection \/ CommitGarbageCollection \/ Tick
  \/ \E r \in Releases : RegisterRelease(r) \/ RetireRelease(r)
  \/ \E s \in Snapshots : RegisterSnapshot(s)
  \/ \E g \in Generations : RegisterGeneration(g)
  \/ \E a \in Activations : CreateActivation(a)
  \/ \E a \in Activations, c \in Channels, s \in {now, now + Support}, ap \in Approvals \union {None} :
       Publish(ActivationOf[a].release, a, c, s, ap)
  \/ \E by \in [Releases -> Activations \union {None}], ap \in Approvals \union {None} : Refresh(by, ap)
  \/ \E q \in Queries, x \in Channels \union Releases, lease \in Times : BeginQuery(q, x, lease)
  \/ \E q \in Queries, lease \in Times : RenewQueryLease(q, lease)
  \/ \E q \in Queries : EndQuery(q)
  \/ \E t \in Tokens, x \in Channels \union Releases, e \in Times : IssuePreflight(t, x, e)
  \/ \E t \in Tokens : ApplyPreflight(t)
  \/ \E p \in Pinners, refs \in Holdable :
       StartJob(p, refs) \/ PlaceHold(p, refs) \/ AddHistoricalReference(p, refs)
  \/ \E p \in Pinners : CompleteJob(p) \/ ReleaseHold(p)
  \/ \E ap \in Approvals, e \in Times, maxR \in 1..HardReleases, maxG \in 1..HardGenerations,
        retire \in SUBSET Releases : RegisterCapacityApproval(ap, e, maxR, maxG, retire)

Spec == Init /\ [][Next]_vars

-----------------------------------------------------------------------------
(* Properties *)

\* assertInvariants: an activation that is still READY is whole: its release,
\* its generations and its snapshots were not collected, one version of each
\* group, every generation certified for its pin.
ReadyActivationsAreWhole == \A a \in Activations : ReadyActivation(a) => Valid(a)

\* assertInvariants: whatever activations were refreshed into its head, a
\* release is served by generations certified for its pins, and never mixes
\* two versions of one snapshot group.
ServedIsCertified ==
  \A r \in Releases : heads[r] # None =>
    \A m \in DOMAIN Pins[r] :
      LET g == Members(heads[r])[m].generation IN
      /\ Pins[r][m].print \in generations[g].proofs
      /\ \A n \in DOMAIN Pins[r] :
           LET s == SnapshotOf[GenerationOf[g].snapshot]
               t == SnapshotOf[GenerationOf[Members(heads[r])[n].generation].snapshot] IN
           s.group = t.group => s.version = t.version

\* A published release has a serving head of its own, no other release has
\* one, and a channel is always at the head of the release it serves.
HeadsAndChannelsAgree ==
  /\ \A r \in Releases :
       /\ (releases[r].state = "PUBLISHED") <=> (heads[r] # None)
       /\ heads[r] # None => ReadyActivation(heads[r]) /\ ActivationOf[heads[r]].release = r
  /\ \A c \in Channels : channels[c] # None => heads[ActivationOf[channels[c]].release] = channels[c]

\* An unexpired query reads every member of the activation it resolved, from
\* generations and snapshots that exist, whatever was refreshed, retired or
\* collected meanwhile.
LeasedContentIsReadable ==
  \A q \in Queries : Alive(q) =>
    \A m \in DOMAIN Members(queries[q].activation) :
      /\ Reads(q, m)
      /\ generations[Members(queries[q].activation)[m].generation].state = "READY"
      /\ snapshots[Members(queries[q].activation)[m].snapshot].state = "READY"

\* What a job, a hold or a historical reference names is there.
ReferencedContentIsReady ==
  \A p \in Pinners : pinners[p].state = "ACTIVE" =>
    LET ids == Expand(pinners[p].refs) IN
    /\ \A r \in ids.releases : releases[r].state # "COLLECTED"
    /\ \A a \in ids.activations : ReadyActivation(a)
    /\ \A g \in ids.generations : generations[g].state = "READY"
    /\ \A s \in ids.snapshots : ReadySnapshot(s)

\* A published release is served for its minimum window, by a sequence of
\* heads: it is not retired before.
SupportIsKept ==
  \A r \in Releases : heads[r] # None /\ heads'[r] = None =>
    now >= releases[r].published + Support

\* The hard limits hold after any sequence of publications and refreshes.
HardLimitsHold ==
  /\ ServingReleases(heads) <= HardReleases
  /\ \A m \in AllMembers : GenerationsPerMember(heads, m) <= HardGenerations

\* Serving grows past a normal limit only within the window of an approval.
OverageIsApproved ==
  heads' # heads /\ Expands(heads') => \E ap \in Approvals : now < approvals[ap].expires

\* The heads change only as the operator who changes them last saw them.
NoLostControlUpdate == heads' # heads => seen.heads = heads

\* A token is used only for the activation its selector resolves to then.
TokenUsedForCurrent ==
  \A t \in Tokens : tokens'[t].state = "USED" /\ tokens[t].state # "USED" =>
    \/ \E c \in Channels : tokens[t].selector = c /\ channels[c] = tokens[t].activation
    \/ \E r \in Releases : tokens[t].selector = r /\ heads[r] = tokens[t].activation

\* A generation is collected only when it has not been served for the length
\* of the retention.
RecentlyServedIsKept ==
  \A g \in Generations :
    generations'[g].state = "COLLECTED" /\ generations[g].state = "READY" =>
      served[g] + Retention <= now

-----------------------------------------------------------------------------
(***************************************************************************)
(* Proofs.  The invariants and action properties above, for every project: *)
(* any releases, snapshots, generations and activations, any policy.       *)
(*                                                                         *)
(* A step either only adds (Grows: registrations), or only grants leases   *)
(* and references, or moves heads by a reading that is current             *)
(* (ControlStep), or collects.  A collection is safe although its plan may *)
(* be older than the commit: a plan is current only while nothing it was   *)
(* made from changed, so it is what would be planned for its time from     *)
(* today's records (PlanCurrent, SameUnprotected); what is protected then  *)
(* is closed under what an activation and a generation need and holds      *)
(* every head, reference and unexpired lease (ProtectedHolds), because     *)
(* leases that are alive now were alive at the time of the plan.           *)
(* Retention rests on the dates of service (ServedDated): what stops       *)
(* serving is dated by the step that stops it.                             *)
(***************************************************************************)

Reading == [current : BOOLEAN, heads : [Releases -> Activations \union {None}]]
HistoryTypes == seen \in Reading /\ served \in [Generations -> 0..MaxTime]

\* A head is of its release and there to be served.
HeadsReady(h) ==
  \A r \in Releases : h[r] # None => ReadyActivation(h[r]) /\ ActivationOf[h[r]].release = r

\* A generation that is bound by a head.
OnDuty(h, g) ==
  \E r \in Releases : h[r] # None /\ \E m \in DOMAIN Members(h[r]) : Members(h[r])[m].generation = g

\* registerGeneration and the closure of the collection: a generation that is
\* there has its snapshot.
SnapshotsKept ==
  \A g \in Generations : generations[g].state = "READY" => ReadySnapshot(GenerationOf[g].snapshot)

\* publish: what is published is supported for the minimum window.
Supported ==
  \A r \in Releases : releases[r].state = "PUBLISHED" =>
    releases[r].support >= releases[r].published + Support

\* assertControlRevision: a reading that is still current shows the heads.
SeenCurrent == seen.current => seen.heads = heads

\* planGarbageCollection, stateRevision: a plan that is still current is what
\* would be planned now for the time it was made at.
PlanCurrent == plan.current => plan.at <= now /\ plan.ids = Unprotected(plan.at)

\* An unexpired lease keeps its activation.
LeasesKept == \A q \in Queries : Alive(q) => ReadyActivation(queries[q].activation)

TokensSound ==
  \A t \in Tokens : tokens[t].state = "ACTIVE" =>
    tokens[t].selector \in Channels \union Releases /\ tokens[t].activation # None

\* recordServingTransitions: a generation that stopped serving is dated no
\* earlier than it was last served.
ServedDated ==
  \A g \in Generations :
    /\ served[g] <= now
    /\ generations[g].state = "READY" /\ ~OnDuty(heads, g) => served[g] <= generations[g].last

\* The inductive invariant.
IInv ==
  /\ TypeOK /\ HistoryTypes
  /\ ReadyActivationsAreWhole /\ SnapshotsKept /\ HeadsAndChannelsAgree /\ ReferencedContentIsReady
  /\ LeasesKept /\ TokensSound
  /\ Supported /\ HardLimitsHold /\ ServedDated
  /\ SeenCurrent /\ PlanCurrent

-----------------------------------------------------------------------------
\* The policy is of numbers.
LEMMA Numbers ==
  ASSUME ActivationAssumption
  PROVE  /\ NormalReleases \in Nat /\ HardReleases \in Nat /\ NormalGenerations \in Nat /\ HardGenerations \in Nat
         /\ Support \in Nat /\ Retention \in Nat /\ RetainCount \in Nat /\ MaxLease \in Nat
         /\ MaxApproval \in Nat /\ MaxTime \in Nat
BY DEF ActivationAssumption, PolicyAssumption

\* Without heads nothing is counted.
LEMMA EmptyHeads ==
  ASSUME NEW h, \A r \in Releases : h[r] = None
  PROVE  ServingReleases(h) = 0 /\ \A m : GenerationsPerMember(h, m) = 0
<1>1. {r \in Releases : h[r] # None} = {}
  OBVIOUS
<1>2. ASSUME NEW m
      PROVE  {Members(h[r])[m].generation :
                 r \in {x \in Releases : h[x] # None /\ m \in DOMAIN Members(h[x])}} = {}
  OBVIOUS
<1> QED BY <1>1, <1>2, FS_EmptySet DEF ServingReleases, GenerationsPerMember

\* The empty project satisfies the invariant.
LEMMA Started == ASSUME ActivationAssumption, Init PROVE IInv
<1> USE Numbers
<1>1. TypeOK /\ HistoryTypes
  BY DEF Init, TypeOK, HistoryTypes, Reading, ReleaseRecord, SnapshotRecord, ActivationRecord,
         GenerationRecord,
    QueryRecord, PreflightToken, JobRecord, CapacityApproval, NoApproval, NoPlan, NoIds, Ids, Lapsed, ContentStates
<1>2. HardLimitsHold
  BY EmptyHeads DEF Init, HardLimitsHold
<1>3. ReadyActivationsAreWhole /\ SnapshotsKept /\ HeadsAndChannelsAgree /\ ReferencedContentIsReady
  BY DEF Init, ReadyActivationsAreWhole, SnapshotsKept, HeadsAndChannelsAgree,
         ReferencedContentIsReady, ReadyActivation
<1>4. LeasesKept /\ TokensSound /\ Supported /\ SeenCurrent /\ PlanCurrent
  BY DEF Init, LeasesKept, TokensSound, Supported, SeenCurrent, PlanCurrent, Alive, NoPlan
<1>5. ServedDated
  BY DEF Init, ServedDated
<1> QED BY <1>1, <1>2, <1>3, <1>4, <1>5 DEF IInv

-----------------------------------------------------------------------------
(* What grows keeps what rests on it. *)
Grows ==
  /\ \A r \in Releases :
       releases[r].state \notin {"none", "COLLECTED"} => releases'[r].state \notin {"none", "COLLECTED"}
  /\ \A r \in Releases : releases[r].state # "COLLECTED" => releases'[r].state # "COLLECTED"
  /\ \A s \in Snapshots : ReadySnapshot(s) => ReadySnapshot(s)'
  /\ \A g \in Generations : generations[g].state = "READY" =>
       generations'[g].state = "READY" /\ generations'[g].proofs = generations[g].proofs
  /\ \A a \in Activations : ReadyActivation(a) => ReadyActivation(a)'

\* validateActivation holds on while the release, the generations and the
\* snapshots an activation binds do.
LEMMA ValidKept ==
  ASSUME ActivationAssumption, NEW a \in Activations, Valid(a),
         releases'[ActivationOf[a].release].state \notin {"none", "COLLECTED"},
         \A m \in DOMAIN Members(a) :
           /\ ReadySnapshot(Members(a)[m].snapshot)'
           /\ generations'[Members(a)[m].generation].state = "READY"
           /\ generations'[Members(a)[m].generation].proofs = generations[Members(a)[m].generation].proofs
  PROVE  Valid(a)'
<1>1. ASSUME NEW m \in DOMAIN Members(a) PROVE MemberBinds(a, m)'
  BY <1>1 DEF Valid, MemberBinds, ReadySnapshot
<1> QED BY <1>1 DEF Valid, OneVersionPerGroup, Members

\* A step that only adds keeps every validation.
LEMMA ValidGrows ==
  ASSUME ActivationAssumption, Grows, NEW a \in Activations, Valid(a)
  PROVE  Valid(a)'
<1>1. ActivationOf[a].release \in Releases
      /\ \A m \in DOMAIN Members(a) :
           Members(a)[m].generation \in Generations /\ Members(a)[m].snapshot \in Snapshots
  BY DEF ActivationAssumption, Members
<1>2. ASSUME NEW m \in DOMAIN Members(a)
      PROVE  generations[Members(a)[m].generation].state = "READY" /\ ReadySnapshot(Members(a)[m].snapshot)
  BY DEF Valid, MemberBinds, ReadySnapshot
<1>3. releases[ActivationOf[a].release].state \notin {"none", "COLLECTED"}
  BY DEF Valid
<1> QED BY <1>1, <1>2, <1>3, ValidKept DEF Grows

\* A step that only adds what was validated keeps whole what is ready.
LEMMA GrowthKeeps ==
  ASSUME ActivationAssumption, IInv, Grows,
         \A a \in Activations : ReadyActivation(a)' => ReadyActivation(a) \/ Valid(a),
         \A g \in Generations : generations'[g].state = "READY" =>
           generations[g].state = "READY" \/ ReadySnapshot(GenerationOf[g].snapshot)
  PROVE  ReadyActivationsAreWhole' /\ SnapshotsKept'
<1>1. ASSUME NEW a \in Activations, ReadyActivation(a)' PROVE Valid(a)'
  <2>1. Valid(a)
    BY <1>1 DEF IInv, ReadyActivationsAreWhole
  <2> QED BY <2>1, ValidGrows
<1>2. ASSUME NEW g \in Generations, generations'[g].state = "READY"
      PROVE  ReadySnapshot(GenerationOf[g].snapshot)'
  BY <1>2 DEF IInv, SnapshotsKept, Grows, ActivationAssumption
<1> QED BY <1>1, <1>2 DEF ReadyActivationsAreWhole, SnapshotsKept

\* What is referred to is there with all that it needs.
RefsReady(refs) ==
  LET ids == Expand(refs) IN
  /\ \A r \in ids.releases : releases[r].state # "COLLECTED"
  /\ \A a \in ids.activations : ReadyActivation(a)
  /\ \A g \in ids.generations : generations[g].state = "READY"
  /\ \A s \in ids.snapshots : ReadySnapshot(s)

\* The elements of Expand.
LEMMA ExpandElements ==
  ASSUME NEW ids
  PROVE  /\ Expand(ids).activations = ids.activations
         /\ \A r : r \in Expand(ids).releases <=>
              r \in ids.releases \/ \E a \in ids.activations : r = ActivationOf[a].release
         /\ \A g : g \in Expand(ids).generations <=>
              \/ g \in ids.generations
              \/ \E a \in ids.activations : \E m \in DOMAIN Members(a) : g = Members(a)[m].generation
         /\ \A s : s \in Expand(ids).snapshots <=>
              \/ s \in ids.snapshots
              \/ \E a \in ids.activations : \E m \in DOMAIN Members(a) : s = Members(a)[m].snapshot
              \/ \E g \in Expand(ids).generations : s = GenerationOf[g].snapshot
<1>1. PICK gens : gens = Expand(ids).generations
  OBVIOUS
<1>2. gens = ids.generations \union
                UNION {{Members(a)[m].generation : m \in DOMAIN Members(a)} : a \in ids.activations}
  BY <1>1 DEF Expand
<1>3. Expand(ids).snapshots = ids.snapshots
                 \union (UNION {{Members(a)[m].snapshot : m \in DOMAIN Members(a)} :
                                  a \in ids.activations})
                 \union {GenerationOf[g].snapshot : g \in gens}
  BY <1>1 DEF Expand
<1>4. Expand(ids).activations = ids.activations
      /\ \A r : r \in Expand(ids).releases <=>
              r \in ids.releases \/ \E a \in ids.activations : r = ActivationOf[a].release
  BY DEF Expand
<1>5. \A g : g \in gens <=>
              \/ g \in ids.generations
              \/ \E a \in ids.activations : \E m \in DOMAIN Members(a) : g = Members(a)[m].generation
  BY <1>2
<1>6. \A s : s \in Expand(ids).snapshots <=>
              \/ s \in ids.snapshots
              \/ \E a \in ids.activations : \E m \in DOMAIN Members(a) : s = Members(a)[m].snapshot
              \/ \E g \in gens : s = GenerationOf[g].snapshot
  <2> DEFINE bound == UNION {{Members(a)[m].snapshot : m \in DOMAIN Members(a)} : a \in ids.activations}
  <2>2. \A s : s \in bound <=>
                \E a \in ids.activations : \E m \in DOMAIN Members(a) : s = Members(a)[m].snapshot
    OBVIOUS
  <2>3. Expand(ids).snapshots = ids.snapshots \union bound \union {GenerationOf[g].snapshot : g \in gens}
    BY <1>3
  <2> HIDE DEF bound
  <2> QED BY <2>2, <2>3
<1> QED BY <1>1, <1>4, <1>5, <1>6

\* expandProtectedGraph names what exists and only adds.
LEMMA ExpandTyped ==
  ASSUME ActivationAssumption, NEW ids \in Ids
  PROVE  /\ Expand(ids) \in Ids
         /\ \A kind \in DOMAIN ids : ids[kind] \subseteq Expand(ids)[kind]
<1>1. ids.releases \subseteq Releases /\ ids.activations \subseteq Activations
      /\ ids.generations \subseteq Generations /\ ids.snapshots \subseteq Snapshots
      /\ DOMAIN ids = {"releases", "activations", "generations", "snapshots"}
  BY DEF Ids
<1>2. \A a \in ids.activations :
        /\ ActivationOf[a].release \in Releases
        /\ \A m \in DOMAIN Members(a) :
             Members(a)[m].generation \in Generations /\ Members(a)[m].snapshot \in Snapshots
  BY <1>1 DEF ActivationAssumption, Members
<1>3. Expand(ids).generations \subseteq Generations /\ Expand(ids).releases \subseteq Releases
  BY <1>1, <1>2, ExpandElements
<1>4. Expand(ids).snapshots \subseteq Snapshots
  BY <1>1, <1>2, <1>3, ExpandElements DEF ActivationAssumption
<1>5. Expand(ids) \in Ids
  BY <1>1, <1>3, <1>4, ExpandElements DEF Expand, Ids
<1>6. ids.releases \subseteq Expand(ids).releases /\ ids.activations \subseteq Expand(ids).activations
      /\ ids.generations \subseteq Expand(ids).generations /\ ids.snapshots \subseteq Expand(ids).snapshots
  BY ExpandElements
<1>7. ASSUME NEW kind \in DOMAIN ids PROVE ids[kind] \subseteq Expand(ids)[kind]
  BY <1>1, <1>6, <1>7
<1> QED BY <1>5, <1>7

\* A step that only adds takes away nothing that is referred to.
LEMMA RefsKept ==
  ASSUME ActivationAssumption, NEW refs \in Ids, RefsReady(refs), Grows
  PROVE  RefsReady(refs)'
<1>1. PICK ids \in Ids : ids = Expand(refs)
  BY ExpandTyped
<1> HIDE DEF Expand
<1>2. /\ \A r \in ids.releases : releases[r].state # "COLLECTED"
      /\ \A a \in ids.activations : ReadyActivation(a)
      /\ \A g \in ids.generations : generations[g].state = "READY"
      /\ \A s \in ids.snapshots : ReadySnapshot(s)
  BY <1>1 DEF RefsReady
<1>3. ids.releases \subseteq Releases /\ ids.activations \subseteq Activations
      /\ ids.generations \subseteq Generations /\ ids.snapshots \subseteq Snapshots
  BY DEF Ids
<1>4. /\ \A r \in ids.releases : releases'[r].state # "COLLECTED"
      /\ \A a \in ids.activations : ReadyActivation(a)'
      /\ \A g \in ids.generations : generations'[g].state = "READY"
      /\ \A s \in ids.snapshots : ReadySnapshot(s)'
  BY <1>2, <1>3 DEF Grows
<1>5. Expand(refs)' = ids
  BY <1>1 DEF Expand, Members
<1> QED BY <1>4, <1>5 DEF RefsReady

\* assertReferencesAvailable: what a job, a hold or a historical reference may
\* name is there with all that it needs.
LEMMA AvailableReady ==
  ASSUME ActivationAssumption, IInv, NEW refs \in Ids, ReferencesAvailable(refs)
  PROVE  RefsReady(refs)
<1>1. \A a \in refs.activations : ReadyActivation(a) /\ a \in Activations /\ Valid(a)
  BY DEF IInv, ReadyActivationsAreWhole, ReferencesAvailable, Ids
<1>2. \A a \in refs.activations : \A m \in DOMAIN Members(a) :
        generations[Members(a)[m].generation].state = "READY" /\ ReadySnapshot(Members(a)[m].snapshot)
  BY <1>1 DEF Valid, MemberBinds, ReadySnapshot
<1>3. \A g \in Expand(refs).generations : generations[g].state = "READY"
  BY <1>2, ExpandElements DEF ReferencesAvailable
<1>4. \A r \in Expand(refs).releases : releases[r].state # "COLLECTED"
  BY <1>1, ExpandElements DEF ReferencesAvailable, Valid
<1>5. \A g \in Expand(refs).generations : ReadySnapshot(GenerationOf[g].snapshot)
  BY <1>3, ExpandTyped DEF IInv, SnapshotsKept, Ids
<1>6. \A s \in Expand(refs).snapshots : ReadySnapshot(s)
  BY <1>2, <1>5, ExpandElements DEF ReferencesAvailable
<1> QED BY <1>1, <1>3, <1>4, <1>6, ExpandElements DEF RefsReady

\* Steps that only add keep every reference: those there were, and those they
\* grant to what is available.
LEMMA ReferencesKept ==
  ASSUME ActivationAssumption, IInv, Grows,
         \A p \in Pinners : pinners'[p].state = "ACTIVE" =>
           \/ pinners'[p] = pinners[p]
           \/ pinners'[p].refs \in Ids /\ ReferencesAvailable(pinners'[p].refs)
  PROVE  ReferencedContentIsReady'
<1> SUFFICES ASSUME NEW p \in Pinners, pinners'[p].state = "ACTIVE"
             PROVE  RefsReady(pinners[p].refs)'
  BY DEF ReferencedContentIsReady, RefsReady
<1>0. pinners'[p].state = "ACTIVE"
  OBVIOUS
<1>1. PICK refs : refs = pinners'[p].refs
  OBVIOUS
<1>2. refs \in Ids /\ RefsReady(refs)
  <2>1. CASE pinners'[p] = pinners[p]
    BY <1>0, <1>1, <2>1 DEF IInv, ReferencedContentIsReady, RefsReady, TypeOK, JobRecord
  <2>2. CASE refs \in Ids /\ ReferencesAvailable(refs)
    BY <2>2, AvailableReady
  <2> QED BY <1>0, <1>1, <2>1, <2>2
<1>3. RefsReady(refs)'
  BY <1>2, RefsKept
<1> QED BY <1>1, <1>3 DEF RefsReady

-----------------------------------------------------------------------------
\* A step that moves no head and publishes nothing keeps what is said of heads
\* and releases.
LEMMA QuietKeeps ==
  ASSUME ActivationAssumption, IInv, Grows, UNCHANGED serving,
         \A r \in Releases : /\ releases'[r].state = "PUBLISHED" <=> releases[r].state = "PUBLISHED"
                             /\ releases[r].state = "PUBLISHED" => releases'[r] = releases[r]
  PROVE  HeadsAndChannelsAgree' /\ HardLimitsHold' /\ Supported'
<1>1. HeadsAndChannelsAgree'
  BY DEF IInv, HeadsAndChannelsAgree, Grows, serving, TypeOK, ReadyActivation
<1>2. HardLimitsHold'
  BY DEF IInv, HardLimitsHold, serving, ServingReleases, GenerationsPerMember, AllMembers, Members
<1>3. Supported'
  BY DEF IInv, Supported
<1> QED BY <1>1, <1>2, <1>3

\* A step that moves no head: what it registers is valid, what it grants is ready.
LEMMA QuietStep ==
  ASSUME ActivationAssumption, IInv, TypeOK', Grows, UNCHANGED <<now, serving, served>>, BumpState,
         \A r \in Releases : /\ releases'[r].state = "PUBLISHED" <=> releases[r].state = "PUBLISHED"
                             /\ releases[r].state = "PUBLISHED" => releases'[r] = releases[r],
         \A a \in Activations : ReadyActivation(a)' => ReadyActivation(a) \/ Valid(a),
         \A g \in Generations :
           \/ generations'[g] = generations[g]
           \/ generations'[g].last = now /\ ReadySnapshot(GenerationOf[g].snapshot),
         \A q \in Queries : queries'[q].state = "ACTIVE" =>
           queries'[q] = queries[q] \/ ReadyActivation(queries'[q].activation),
         \A p \in Pinners : pinners'[p].state = "ACTIVE" =>
           \/ pinners'[p] = pinners[p]
           \/ pinners'[p].refs \in Ids /\ ReferencesAvailable(pinners'[p].refs),
         TokensSound'
  PROVE  IInv'
<1>1. ReadyActivationsAreWhole' /\ SnapshotsKept'
  BY GrowthKeeps
<1>2. HeadsAndChannelsAgree' /\ HardLimitsHold' /\ Supported'
  BY QuietKeeps
<1>3. ReferencedContentIsReady'
  BY ReferencesKept
<1>4. LeasesKept'
  <2> SUFFICES ASSUME NEW q \in Queries, Alive(q)'
               PROVE  ReadyActivation(queries'[q].activation) /\ queries'[q].activation \in Activations
    BY DEF LeasesKept, Grows, ReadyActivation
  <2>1. ReadyActivation(queries'[q].activation)
    BY DEF Alive, IInv, LeasesKept
  <2> QED BY <2>1 DEF TypeOK, QueryRecord, ReadyActivation
<1>5. ServedDated'
  <2> SUFFICES ASSUME NEW g \in Generations
               PROVE  /\ served'[g] <= now'
                      /\ generations'[g].state = "READY" /\ ~OnDuty(heads, g)' => served'[g] <= generations'[g].last
    BY DEF ServedDated
  <2>1. served'[g] <= now' /\ (OnDuty(heads, g)' <=> OnDuty(heads, g))
    BY DEF IInv, ServedDated, serving, OnDuty, Members
  <2> QED BY <2>1 DEF IInv, ServedDated
<1>6. SeenCurrent' /\ PlanCurrent' /\ HistoryTypes'
  BY DEF IInv, HistoryTypes, BumpState, SeenCurrent, PlanCurrent, NoPlan, serving
<1> QED BY <1>1, <1>2, <1>3, <1>4, <1>5, <1>6 DEF IInv

\* One that registers nothing.
LEMMA ContentStays ==
  ASSUME UNCHANGED content
  PROVE  /\ Grows
         /\ \A r \in Releases : /\ releases'[r].state = "PUBLISHED" <=> releases[r].state = "PUBLISHED"
                                /\ releases[r].state = "PUBLISHED" => releases'[r] = releases[r]
         /\ \A a \in Activations : ReadyActivation(a)' => ReadyActivation(a) \/ Valid(a)
         /\ \A g \in Generations : generations'[g] = generations[g]
BY DEF content, Grows, ReadySnapshot, ReadyActivation

\* bumpState leaves no plan.
LEMMA Bumps ==
  ASSUME ActivationAssumption, BumpState
  PROVE  plan' \in [current : BOOLEAN, at : 0..MaxTime, ids : Ids]
BY Numbers DEF BumpState, NoPlan, NoIds, Ids

-----------------------------------------------------------------------------
\* registerRelease, registerSnapshot, registerGeneration, createActivation: what
\* is registered was validated against what is there, and takes nothing away.
LEMMA RegisterReleaseKeeps ==
  ASSUME ActivationAssumption, IInv, NEW r \in Releases, RegisterRelease(r)
  PROVE  IInv'
<1>1. TypeOK'
  BY Bumps DEF RegisterRelease, IInv, TypeOK, serving, leases, ReleaseRecord
<1>2. Grows
  BY DEF RegisterRelease, Grows, IInv, TypeOK, ReleaseRecord, ReadySnapshot, ReadyActivation
<1>3. \A x \in Releases : /\ releases'[x].state = "PUBLISHED" <=> releases[x].state = "PUBLISHED"
                          /\ releases[x].state = "PUBLISHED" => releases'[x] = releases[x]
  BY DEF RegisterRelease, IInv, TypeOK, ReleaseRecord
<1>4. UNCHANGED <<now, serving, served, activations, generations, queries, tokens, pinners>> /\ BumpState
  BY DEF RegisterRelease, leases
<1>5. TokensSound'
  BY <1>4 DEF TokensSound, IInv
<1>6. \A a \in Activations : ReadyActivation(a)' => ReadyActivation(a)
  BY <1>4 DEF ReadyActivation
<1> QED BY <1>1, <1>2, <1>3, <1>4, <1>5, <1>6, QuietStep

LEMMA RegisterSnapshotKeeps ==
  ASSUME ActivationAssumption, IInv, NEW s \in Snapshots, RegisterSnapshot(s)
  PROVE  IInv'
<1>0. now \in Lapsed /\ "READY" \in ContentStates
  BY Numbers DEF IInv, TypeOK, Lapsed, ContentStates
<1>1. TypeOK'
  BY <1>0, Bumps DEF RegisterSnapshot, IInv, TypeOK, serving, leases, SnapshotRecord
<1>2. Grows
  BY DEF RegisterSnapshot, Grows, IInv, TypeOK, SnapshotRecord, ReadySnapshot, ReadyActivation
<1>3. UNCHANGED <<now, serving, served, releases, activations, generations, queries, tokens, pinners>> /\ BumpState
  BY DEF RegisterSnapshot, leases
<1>4. TokensSound'
  BY <1>3 DEF TokensSound, IInv
<1>5. \A a \in Activations : ReadyActivation(a)' => ReadyActivation(a)
  BY <1>3 DEF ReadyActivation
<1> QED BY <1>1, <1>2, <1>3, <1>4, <1>5, QuietStep

LEMMA RegisterGenerationKeeps ==
  ASSUME ActivationAssumption, IInv, NEW g \in Generations, RegisterGeneration(g)
  PROVE  IInv'
<1>0. now \in Lapsed /\ "READY" \in ContentStates
  BY Numbers DEF IInv, TypeOK, Lapsed, ContentStates
<1>1. PICK proofs : /\ proofs = {Pins[r][GenerationOf[g].member].print :
                                   r \in {GenerationOf[g].build} \union GenerationOf[g].compatible}
                    /\ generations' = [generations EXCEPT ![g] =
                                         [state |-> "READY", created |-> now, last |-> now, proofs |-> proofs]]
  BY DEF RegisterGeneration
<1>2. proofs \subseteq UNION {{Pins[r][m].print : m \in DOMAIN Pins[r]} : r \in Releases}
  <2> SUFFICES ASSUME NEW r \in {GenerationOf[g].build} \union GenerationOf[g].compatible
               PROVE  r \in Releases /\ GenerationOf[g].member \in DOMAIN Pins[r]
    BY <1>1
  <2> QED BY DEF RegisterGeneration, ActivationAssumption
<1>3. generations' \in [Generations -> GenerationRecord]
  BY <1>0, <1>1, <1>2 DEF IInv, TypeOK, GenerationRecord
<1>4. TypeOK'
  BY <1>3, Bumps DEF RegisterGeneration, IInv, TypeOK, serving, leases
<1>5. /\ ReadySnapshot(GenerationOf[g].snapshot) /\ generations[g].state = "none"
      /\ \A h \in Generations \ {g} : generations'[h] = generations[h]
      /\ generations'[g].last = now
  BY <1>1 DEF RegisterGeneration, IInv, TypeOK
<1>6. UNCHANGED <<now, serving, served, releases, activations, snapshots, queries, tokens, pinners>> /\ BumpState
  BY DEF RegisterGeneration, leases
<1>7. Grows
  BY <1>5, <1>6 DEF Grows, ReadySnapshot, ReadyActivation
<1>8. TokensSound'
  BY <1>6 DEF TokensSound, IInv
<1>9. \A a \in Activations : ReadyActivation(a)' => ReadyActivation(a)
  BY <1>6 DEF ReadyActivation
<1>10. ASSUME NEW h \in Generations
       PROVE  \/ generations'[h] = generations[h]
              \/ generations'[h].last = now /\ ReadySnapshot(GenerationOf[h].snapshot)
  <2>1. CASE h = g
    BY <1>5, <2>1
  <2>2. CASE h # g
    BY <1>5, <2>2
  <2> QED BY <2>1, <2>2
<1>11. \A r \in Releases : /\ releases'[r].state = "PUBLISHED" <=> releases[r].state = "PUBLISHED"
                          /\ releases[r].state = "PUBLISHED" => releases'[r] = releases[r]
  BY <1>6
<1> QED BY <1>4, <1>6, <1>7, <1>8, <1>9, <1>10, <1>11, QuietStep

LEMMA CreateActivationKeeps ==
  ASSUME ActivationAssumption, IInv, NEW a \in Activations, CreateActivation(a)
  PROVE  IInv'
<1>0. now \in Lapsed /\ "READY" \in ContentStates
  BY Numbers DEF IInv, TypeOK, Lapsed, ContentStates
<1>1. TypeOK'
  BY <1>0, Bumps
     DEF CreateActivation, IInv, TypeOK, serving, leases, SnapshotRecord, ActivationRecord
<1>2. Grows
  BY DEF CreateActivation, Grows, IInv, TypeOK, ActivationRecord, SnapshotRecord, ReadySnapshot,
         ReadyActivation
<1>3. UNCHANGED <<now, serving, served, releases, snapshots, generations, queries, tokens, pinners>> /\ BumpState
  BY DEF CreateActivation, leases
<1>4. TokensSound'
  BY <1>3 DEF TokensSound, IInv
<1>5. \A x \in Activations : ReadyActivation(x)' => ReadyActivation(x) \/ Valid(x)
  BY DEF CreateActivation, ReadyActivation, IInv, TypeOK
<1> QED BY <1>1, <1>2, <1>3, <1>4, <1>5, QuietStep

-----------------------------------------------------------------------------
\* Times that requests may name are times a record may hold.
LEMMA LapsedTimes ==
  ASSUME ActivationAssumption PROVE Times \subseteq Lapsed /\ 0..MaxTime \subseteq Lapsed
BY Numbers DEF Times, Lapsed

\* resolveActivation returns an activation that is ready.
LEMMA Resolved ==
  ASSUME IInv, NEW x \in Channels \union Releases, Resolve(x) # None
  PROVE  Resolve(x) \in Activations /\ ReadyActivation(Resolve(x))
<1>1. PICK a : a = IF x \in Channels THEN channels[x]
                   ELSE IF releases[x].state = "PUBLISHED" THEN heads[x] ELSE None
  OBVIOUS
<1>2. Resolve(x) = IF ReadyActivation(a) THEN a ELSE None
  BY <1>1 DEF Resolve
<1>3. ReadyActivation(a) /\ a # None
  BY <1>2 DEF ReadyActivation
<1> QED BY <1>1, <1>2, <1>3 DEF IInv, TypeOK

\* beginQuery, renewQueryLease, endQuery, issuePreflight, applyPreflight, the
\* references: leases are granted on what is ready, and change no content.
LEMMA BeginQueryKeeps ==
  ASSUME ActivationAssumption, IInv, NEW q \in Queries, NEW x \in Channels \union Releases,
         NEW lease \in Times,
         BeginQuery(q, x, lease)
  PROVE  IInv'
<1>0. Resolve(x) \in Activations /\ ReadyActivation(Resolve(x)) /\ lease \in Lapsed
  BY Resolved, LapsedTimes DEF BeginQuery
<1>1. TypeOK'
  BY <1>0, Bumps DEF BeginQuery, IInv, TypeOK, serving, content, QueryRecord
<1>2. UNCHANGED <<now, serving, served, content, tokens, pinners>> /\ BumpState
  BY DEF BeginQuery
<1>3. TokensSound'
  BY <1>2 DEF TokensSound, IInv
<1>4. \A y \in Queries : queries'[y] = queries[y] \/ ReadyActivation(queries'[y].activation)
  BY <1>0 DEF BeginQuery, IInv, TypeOK
<1> QED BY <1>1, <1>2, <1>3, <1>4, ContentStays, QuietStep

LEMMA RenewQueryLeaseKeeps ==
  ASSUME ActivationAssumption, IInv, NEW q \in Queries, NEW lease \in Times, RenewQueryLease(q,
         lease)
  PROVE  IInv'
<1>0. ReadyActivation(queries[q].activation) /\ lease \in Lapsed
  BY LapsedTimes DEF RenewQueryLease, IInv, LeasesKept
<1>1. TypeOK'
  BY <1>0, Bumps DEF RenewQueryLease, IInv, TypeOK, serving, content, QueryRecord
<1>2. UNCHANGED <<now, serving, served, content, tokens, pinners>> /\ BumpState
  BY DEF RenewQueryLease
<1>3. TokensSound'
  BY <1>2 DEF TokensSound, IInv
<1>4. \A y \in Queries : queries'[y] = queries[y] \/ ReadyActivation(queries'[y].activation)
  BY <1>0 DEF RenewQueryLease, IInv, TypeOK, QueryRecord
<1> QED BY <1>1, <1>2, <1>3, <1>4, ContentStays, QuietStep

LEMMA EndQueryKeeps ==
  ASSUME ActivationAssumption, IInv, NEW q \in Queries, EndQuery(q) PROVE IInv'
<1>1. TypeOK'
  BY Bumps DEF EndQuery, IInv, TypeOK, serving, content, QueryRecord
<1>2. UNCHANGED <<now, serving, served, content, tokens, pinners>> /\ BumpState
  BY DEF EndQuery
<1>3. TokensSound'
  BY <1>2 DEF TokensSound, IInv
<1>4. \A y \in Queries : queries'[y].state = "ACTIVE" => queries'[y] = queries[y]
  BY DEF EndQuery, IInv, TypeOK, QueryRecord
<1> QED BY <1>1, <1>2, <1>3, <1>4, ContentStays, QuietStep

LEMMA IssuePreflightKeeps ==
  ASSUME ActivationAssumption, IInv, NEW t \in Tokens, NEW x \in Channels \union Releases,
         NEW e \in Times,
         IssuePreflight(t, x, e)
  PROVE  IInv'
<1>0. Resolve(x) \in Activations /\ Resolve(x) # None /\ e \in Lapsed
  BY Resolved, LapsedTimes DEF IssuePreflight
<1>1. TypeOK'
  BY <1>0, Bumps DEF IssuePreflight, IInv, TypeOK, serving, content, PreflightToken
<1>2. UNCHANGED <<now, serving, served, content, queries, pinners>> /\ BumpState
  BY DEF IssuePreflight
<1>3. TokensSound'
  BY <1>0 DEF IssuePreflight, TokensSound, IInv, TypeOK
<1> QED BY <1>1, <1>2, <1>3, ContentStays, QuietStep

LEMMA ApplyPreflightKeeps ==
  ASSUME ActivationAssumption, IInv, NEW t \in Tokens, ApplyPreflight(t) PROVE IInv'
<1>0. PICK u \in {"USED", "STALE"} : tokens' = [tokens EXCEPT ![t].state = u]
  BY DEF ApplyPreflight
<1>1. TypeOK'
  BY <1>0, Bumps DEF ApplyPreflight, IInv, TypeOK, serving, content, PreflightToken
<1>2. UNCHANGED <<now, serving, served, content, queries, pinners>> /\ BumpState
  BY DEF ApplyPreflight
<1>3. TokensSound'
  BY <1>0 DEF TokensSound, IInv, TypeOK, PreflightToken
<1> QED BY <1>1, <1>2, <1>3, ContentStays, QuietStep

LEMMA PinKeeps ==
  ASSUME ActivationAssumption, IInv, NEW p \in Pinners, NEW kind \in {"job", "hold", "historical"},
         NEW refs \in Ids,
         Pin(p, kind, refs)
  PROVE  IInv'
<1>1. TypeOK'
  BY Bumps DEF Pin, IInv, TypeOK, serving, content, JobRecord
<1>2. UNCHANGED <<now, serving, served, content, queries, tokens>> /\ BumpState
  BY DEF Pin
<1>3. TokensSound'
  BY <1>2 DEF TokensSound, IInv
<1>4. ASSUME NEW x \in Pinners
      PROVE  \/ pinners'[x] = pinners[x]
             \/ pinners'[x].refs \in Ids /\ ReferencesAvailable(pinners'[x].refs)
  <2>1. /\ pinners'[p].refs = refs /\ refs \in Ids /\ ReferencesAvailable(refs)
        /\ \A y \in Pinners \ {p} : pinners'[y] = pinners[y]
    BY DEF Pin, IInv, TypeOK
  <2>2. ReferencesAvailable(pinners'[p].refs)
    BY <2>1
  <2> QED BY <2>1, <2>2
<1> QED BY <1>1, <1>2, <1>3, <1>4, ContentStays, QuietStep

LEMMA UnpinKeeps ==
  ASSUME ActivationAssumption, IInv, NEW p \in Pinners, NEW kind \in {"job", "hold"}, Unpin(p, kind)
  PROVE  IInv'
<1>0. NoIds \in Ids
  BY DEF NoIds, Ids
<1>1. TypeOK'
  BY <1>0, Bumps DEF Unpin, IInv, TypeOK, serving, content, JobRecord
<1>2. UNCHANGED <<now, serving, served, content, queries, tokens>> /\ BumpState
  BY DEF Unpin
<1>3. TokensSound'
  BY <1>2 DEF TokensSound, IInv
<1>4. \A x \in Pinners : pinners'[x].state = "ACTIVE" => pinners'[x] = pinners[x]
  BY DEF Unpin, IInv, TypeOK
<1> QED BY <1>1, <1>2, <1>3, <1>4, ContentStays, QuietStep

\* registerCapacityApproval only adds an approval.
LEMMA RegisterCapacityApprovalKeeps ==
  ASSUME ActivationAssumption, IInv, NEW ap \in Approvals, NEW e \in Times,
         NEW maxR \in 1..HardReleases,
         NEW maxG \in 1..HardGenerations, NEW retire \in SUBSET Releases,
         RegisterCapacityApproval(ap, e, maxR, maxG, retire)
  PROVE  IInv'
<1>0. e \in Lapsed /\ now \in Lapsed /\ maxR \in 0..HardReleases /\ maxG \in 0..HardGenerations
  BY LapsedTimes, Numbers DEF IInv, TypeOK
<1>1. TypeOK'
  BY <1>0, Bumps
     DEF RegisterCapacityApproval, IInv, TypeOK, serving, content, leases, CapacityApproval
<1>2. UNCHANGED <<now, serving, served, content, queries, tokens, pinners>> /\ BumpState
  BY DEF RegisterCapacityApproval, leases
<1>3. TokensSound'
  BY <1>2 DEF TokensSound, IInv
<1> QED BY <1>1, <1>2, <1>3, ContentStays, QuietStep

-----------------------------------------------------------------------------
\* What a plan is made of changes with what it is made from only.
Inactive(base) == {g \in Generations : generations[g].state = "READY" /\ g \notin base.generations}

\* What is protected before it is expanded again, from the expanded roots.
Retained(base, at) ==
  [releases |-> base.releases \union
     {r \in Releases : \/ releases[r].state = "STAGED"
                       \/ /\ releases[r].state \in {"RETIRED", "COLLECTED"}
                          /\ Recent(releases[r].retired, at)},
   activations |-> base.activations \union Kept(activations, at),
   generations |-> base.generations \union Newest(Inactive(base)) \union Kept(generations, at),
   snapshots |-> base.snapshots \union Kept(snapshots, at)]

LEMMA ProtectedIs == ASSUME NEW at PROVE Protected(at) = Expand(Retained(Expand(Roots(at)), at))
BY DEF Protected, Retained, Inactive

\* protectedIds reads content, heads, channels and leases and the time it is
\* given, nothing else: while those stay, a plan stays what it would be.
LEMMA SameUnprotected ==
  ASSUME UNCHANGED <<content, serving, leases>>, NEW at
  PROVE  Unprotected(at)' = Unprotected(at)
<1>1. /\ releases' = releases /\ activations' = activations /\ generations' = generations /\ snapshots' = snapshots
      /\ heads' = heads /\ channels' = channels /\ queries' = queries /\ tokens' = tokens /\ pinners' = pinners
  BY DEF content, serving, leases
<1>2. Roots(at)' = Roots(at)
  BY <1>1 DEF Roots
<1>3. Expand(Roots(at))' = Expand(Roots(at))
  BY <1>2 DEF Expand, Members
<1>4. Protected(at)' = Protected(at)
  <2>1. PICK base : base = Expand(Roots(at))
    OBVIOUS
  <2>2. Inactive(Expand(Roots(at)))' = Inactive(base)
    BY <1>1, <1>3, <2>1 DEF Inactive
  <2>3. PICK inactive : inactive = Inactive(base)
    OBVIOUS
  <2>4. Newest(Inactive(Expand(Roots(at))))' = Newest(inactive)
    BY <1>1, <2>2, <2>3 DEF Newest
  <2>5. Kept(activations, at)' = Kept(activations, at) /\ Kept(generations, at)' = Kept(generations, at)
        /\ Kept(snapshots, at)' = Kept(snapshots, at)
    BY <1>1 DEF Kept
  <2>6. Retained(Expand(Roots(at)), at)' = Retained(base, at)
    BY <1>1, <1>3, <2>1, <2>3, <2>4, <2>5 DEF Retained
  <2>7. PICK ids : ids = Retained(base, at)
    OBVIOUS
  <2>8. Expand(Retained(Expand(Roots(at)), at))' = Expand(ids)
    BY <2>6, <2>7 DEF Expand, Members
  <2>9. Protected(at)' = Expand(Retained(Expand(Roots(at)), at))'
    BY DEF Protected, Retained, Inactive
  <2> QED BY <2>1, <2>7, <2>8, <2>9, ProtectedIs
<1> QED BY <1>1, <1>4 DEF Unprotected, ReadyActivation, ReadySnapshot

\* A step that changes no content, head or lease; time may pass.
LEMMA IdleStep ==
  ASSUME ActivationAssumption, IInv, TypeOK', UNCHANGED <<content, serving, leases>>, now' >= now
  PROVE  /\ ReadyActivationsAreWhole' /\ SnapshotsKept' /\ HeadsAndChannelsAgree' /\ ReferencedContentIsReady'
         /\ LeasesKept' /\ TokensSound' /\ Supported' /\ HardLimitsHold'
<1>0. UNCHANGED <<releases, generations, activations, snapshots, serving, queries, tokens, pinners>>
  BY DEF content, leases
<1>1. Grows
  BY ContentStays
<1>2. \A a \in Activations : ReadyActivation(a)' => ReadyActivation(a)
  BY <1>0 DEF ReadyActivation
<1>3. ReadyActivationsAreWhole' /\ SnapshotsKept'
  BY <1>0, <1>1, <1>2, GrowthKeeps
<1>4. HeadsAndChannelsAgree' /\ HardLimitsHold' /\ Supported'
  BY <1>0, <1>1, ContentStays, QuietKeeps
<1>5. ReferencedContentIsReady'
  BY <1>0, <1>1, ReferencesKept
<1>6. LeasesKept'
  <2> SUFFICES ASSUME NEW q \in Queries, Alive(q)' PROVE ReadyActivation(queries[q].activation)
    BY <1>0 DEF LeasesKept, ReadyActivation
  <2>1. now \in Nat /\ now' \in Nat /\ queries[q].lease \in Nat
    BY Numbers DEF IInv, TypeOK, QueryRecord, Lapsed
  <2>2. Alive(q)
    BY <1>0, <2>1 DEF Alive
  <2> QED BY <2>2 DEF IInv, LeasesKept
<1>7. TokensSound'
  BY <1>0 DEF TokensSound, IInv
<1> QED BY <1>3, <1>4, <1>5, <1>6, <1>7

\* An operator reads the heads.
LEMMA ObserveKeeps == ASSUME ActivationAssumption, IInv, Observe PROVE IInv'
<1>0. UNCHANGED <<content, serving, leases, now, approvals, plan, served>> 
      /\ seen' = [current |-> TRUE, heads |-> heads]
  BY DEF Observe
<1>1. TypeOK' /\ HistoryTypes' /\ SeenCurrent'
  BY <1>0 DEF IInv, TypeOK, HistoryTypes, Reading, SeenCurrent, content, serving, leases
<1>2. ServedDated'
  <2>1. ASSUME NEW g \in Generations PROVE OnDuty(heads, g)' <=> OnDuty(heads, g)
    BY <1>0 DEF OnDuty, serving, Members
  <2> QED BY <1>0, <2>1 DEF ServedDated, content, IInv
<1>3. PlanCurrent'
  BY <1>0, SameUnprotected DEF IInv, PlanCurrent
<1>4. now' >= now
  BY <1>0, Numbers DEF IInv, TypeOK
<1> QED BY <1>0, <1>1, <1>2, <1>3, <1>4, IdleStep DEF IInv

\* planGarbageCollection changes the plan only.
LEMMA PlanGarbageCollectionKeeps ==
  ASSUME ActivationAssumption, IInv, PlanGarbageCollection
  PROVE  IInv'
<1>0. UNCHANGED <<content, serving, leases, now, approvals, seen, served>>
      /\ plan' = [current |-> TRUE, at |-> now, ids |-> Unprotected(now)]
  BY DEF PlanGarbageCollection
<1>1. TypeOK'
  <2>1. Unprotected(now) \in Ids
    BY DEF Unprotected, Ids
  <2> QED BY <1>0, <2>1 DEF IInv, TypeOK, content, serving, leases
<1>2. HistoryTypes' /\ SeenCurrent'
  BY <1>0 DEF IInv, HistoryTypes, SeenCurrent, serving
<1>3. ServedDated'
  <2>1. ASSUME NEW g \in Generations PROVE OnDuty(heads, g)' <=> OnDuty(heads, g)
    BY <1>0 DEF OnDuty, serving, Members
  <2> QED BY <1>0, <2>1 DEF ServedDated, content, IInv
<1>4. now' >= now /\ now' = now
  BY <1>0, Numbers DEF IInv, TypeOK
<1>5. PlanCurrent'
  <2>1. PICK at : at = now
    OBVIOUS
  <2>2. Unprotected(at)' = Unprotected(at)
    BY <1>0, SameUnprotected
  <2> QED BY <1>0, <1>4, <2>1, <2>2 DEF PlanCurrent
<1> QED BY <1>0, <1>1, <1>2, <1>3, <1>4, <1>5, IdleStep DEF IInv

\* What is served is what a head binds.
LEMMA ServedIsOnDuty ==
  ASSUME ActivationAssumption, NEW h \in [Releases -> Activations \union {None}], NEW g,
         g \in ServedOf(h, "generation")
  PROVE  OnDuty(h, g)
<1>1. PICK a \in ServedActivations(h) : \E m \in DOMAIN Members(a) : g = Members(a)[m].generation
  BY DEF ServedOf
<1>2. PICK r \in Releases : h[r] = a /\ a # None
  BY <1>1 DEF ServedActivations, ReadyActivation
<1> QED BY <1>1, <1>2 DEF OnDuty

\* And what a head binds is served, when the heads are ready.
LEMMA OnDutyIsServed ==
  ASSUME ActivationAssumption, NEW h \in [Releases -> Activations \union {None}], HeadsReady(h),
         NEW g, OnDuty(h, g)
  PROVE  g \in ServedOf(h, "generation")
<1>1. PICK r \in Releases : h[r] # None /\ \E m \in DOMAIN Members(h[r]) : Members(h[r])[m].generation = g
  BY DEF OnDuty
<1>2. PICK m \in DOMAIN Members(h[r]) : Members(h[r])[m].generation = g
  BY <1>1
<1>3. h[r] \in ServedActivations(h)
  BY <1>1 DEF ServedActivations, HeadsReady
<1> QED BY <1>2, <1>3 DEF ServedOf

\* Time passes: leases lapse, what serves is served later, a plan ages.
LEMMA TickKeeps == ASSUME ActivationAssumption, IInv, Tick PROVE IInv'
<1>0. UNCHANGED <<content, serving, leases, approvals, seen, plan>> /\ now' = now + 1 /\ now < MaxTime
      /\ served' = [g \in Generations |-> IF g \in ServedOf(heads, "generation") THEN now' ELSE served[g]]
  BY DEF Tick
<1>1. now \in Nat /\ now' \in 0..MaxTime /\ now' >= now
  BY <1>0, Numbers DEF IInv, TypeOK
<1>2. TypeOK' /\ HistoryTypes' /\ SeenCurrent'
  BY <1>0, <1>1 DEF IInv, TypeOK, HistoryTypes, SeenCurrent, content, serving, leases
<1>3. ServedDated'
  <2> SUFFICES ASSUME NEW g \in Generations
               PROVE  /\ served'[g] <= now'
                      /\ generations'[g].state = "READY" /\ ~OnDuty(heads, g)' => served'[g] <= generations'[g].last
    BY DEF ServedDated
  <2>1. OnDuty(heads, g)' <=> OnDuty(heads, g)
    BY <1>0 DEF OnDuty, serving, Members
  <2>2. g \in ServedOf(heads, "generation") => OnDuty(heads, g)
    BY ServedIsOnDuty DEF IInv, TypeOK
  <2>3. served[g] \in Nat /\ served[g] <= now
    BY Numbers DEF IInv, HistoryTypes, ServedDated
  <2>4. served'[g] <= now'
    BY <1>0, <1>1, <2>3
  <2> QED BY <1>0, <2>1, <2>2, <2>4 DEF IInv, ServedDated, content
<1>4. PlanCurrent'
  <2>1. UNCHANGED <<content, serving, leases>> /\ plan' = plan
    BY <1>0
  <2>2. PICK at : at = plan.at
    OBVIOUS
  <2>3. Unprotected(at)' = Unprotected(at)
    BY <2>1, SameUnprotected
  <2>4. plan.at \in Nat
    BY Numbers DEF IInv, TypeOK
  <2> QED BY <1>1, <2>1, <2>2, <2>3, <2>4 DEF PlanCurrent, IInv
<1> QED BY <1>0, <1>1, <1>2, <1>3, <1>4, IdleStep DEF IInv

-----------------------------------------------------------------------------
(* Collection *)

\* A set of identifiers that holds all its members need.
Closed(ids) ==
  /\ \A a \in ids.activations :
       /\ ActivationOf[a].release \in ids.releases
       /\ \A m \in DOMAIN Members(a) :
            Members(a)[m].generation \in ids.generations /\ Members(a)[m].snapshot \in ids.snapshots
  /\ \A g \in ids.generations : GenerationOf[g].snapshot \in ids.snapshots

Within(i, j) ==
  /\ i.releases \subseteq j.releases /\ i.activations \subseteq j.activations
  /\ i.generations \subseteq j.generations /\ i.snapshots \subseteq j.snapshots

\* expandProtectedGraph returns a closed set around what it is given.
LEMMA ExpandClosed == ASSUME NEW ids PROVE Closed(Expand(ids)) /\ Within(ids, Expand(ids))
BY ExpandElements DEF Closed, Within

\* And the least one.
LEMMA ExpandLeast == ASSUME NEW i, NEW j, Within(i, j), Closed(j) PROVE Within(Expand(i), j)
<1>1. Expand(i).activations \subseteq j.activations /\ Expand(i).releases \subseteq j.releases
  BY ExpandElements DEF Within, Closed
<1>2. Expand(i).generations \subseteq j.generations
  BY ExpandElements DEF Within, Closed
<1>3. Expand(i).snapshots \subseteq j.snapshots
  BY <1>2, ExpandElements DEF Within, Closed
<1> QED BY <1>1, <1>2, <1>3 DEF Within

\* What protects: heads, leases that run, references; and what was served lately.
LEMMA ProtectedHolds ==
  ASSUME NEW at
  PROVE  /\ Closed(Protected(at)) /\ Within(Roots(at), Protected(at))
         /\ Kept(generations, at) \subseteq Protected(at).generations
<1>1. PICK base : base = Expand(Roots(at))
  OBVIOUS
<1>2. PICK ids : ids = Retained(base, at)
  OBVIOUS
<1>3. Within(base, ids) /\ Kept(generations, at) \subseteq ids.generations
  BY <1>2 DEF Retained, Within
<1>4. Closed(Expand(ids)) /\ Within(ids, Expand(ids)) /\ Within(Roots(at), base)
  BY <1>1, ExpandClosed
<1>5. Protected(at) = Expand(ids)
  BY <1>1, <1>2, ProtectedIs
<1>6. Within(Roots(at), Expand(ids)) /\ Kept(generations, at) \subseteq Expand(ids).generations
  BY <1>3, <1>4 DEF Within
<1> QED BY <1>4, <1>5, <1>6

\* The roots of the collection: heads, unexpired leases, references.
LEMMA RootsHold ==
  ASSUME IInv, NEW at
  PROVE  /\ \A r \in Releases : heads[r] # None => heads[r] \in Roots(at).activations
         /\ \A q \in Queries : queries[q].state = "ACTIVE" /\ queries[q].lease > at /\ queries[q].activation # None
               => queries[q].activation \in Roots(at).activations
         /\ \A p \in Pinners : pinners[p].state = "ACTIVE" => Within(pinners[p].refs, Roots(at))
<1>1. ASSUME NEW r \in Releases, heads[r] # None PROVE heads[r] \in Roots(at).activations
  BY <1>1 DEF Roots, IInv, TypeOK
<1>2. ASSUME NEW q \in Queries, queries[q].state = "ACTIVE", queries[q].lease > at, queries[q].activation # None
      PROVE  queries[q].activation \in Roots(at).activations
  BY <1>2 DEF Roots, IInv, TypeOK, QueryRecord
<1>3. ASSUME NEW p \in Pinners, pinners[p].state = "ACTIVE" PROVE Within(pinners[p].refs, Roots(at))
  BY <1>3 DEF Roots, Within
<1> QED BY <1>1, <1>2, <1>3

\* A collection takes what is not protected and leaves the rest as it is.
LEMMA Collected ==
  ASSUME ActivationAssumption, IInv, CommitGarbageCollection
  PROVE  \E at \in 0..MaxTime :
           /\ at = plan.at /\ at <= now
           /\ \A a \in Activations :
                /\ ReadyActivation(a)' <=> ReadyActivation(a) /\ a \in Protected(at).activations
                /\ activations'[a].created = activations[a].created /\ activations'[a].last = activations[a].last
           /\ \A g \in Generations :
                /\ generations'[g].state = "READY" <=>
                     generations[g].state = "READY" /\ g \in Protected(at).generations
                /\ generations'[g].last = generations[g].last /\ generations'[g].proofs = generations[g].proofs
           /\ \A s \in Snapshots : ReadySnapshot(s)' <=> ReadySnapshot(s) /\ s \in Protected(at).snapshots
           /\ \A r \in Releases :
                /\ r \in Protected(at).releases \/ releases[r].state # "RETIRED" => releases'[r] = releases[r]
                /\ releases[r].state = "RETIRED" => releases'[r].state \in {"RETIRED", "COLLECTED"}
<1>1. PICK at \in 0..MaxTime : at = plan.at
  BY DEF IInv, TypeOK
<1>2. plan.current /\ at <= now /\ plan.ids = Unprotected(at)
  BY <1>1 DEF CommitGarbageCollection, IInv, PlanCurrent
<1>3. PICK p : p = Protected(at)
  OBVIOUS
<1>4. /\ plan.ids.releases = {r \in Releases : releases[r].state = "RETIRED"} \ p.releases
      /\ plan.ids.activations = {a \in Activations : ReadyActivation(a)} \ p.activations
      /\ plan.ids.generations = {g \in Generations : generations[g].state = "READY"} \ p.generations
      /\ plan.ids.snapshots = {s \in Snapshots : ReadySnapshot(s)} \ p.snapshots
  BY <1>2, <1>3 DEF Unprotected
<1>5. ASSUME NEW a \in Activations
      PROVE  /\ ReadyActivation(a)' <=> ReadyActivation(a) /\ a \in p.activations
             /\ activations'[a].created = activations[a].created /\ activations'[a].last = activations[a].last
  BY <1>4
     DEF CommitGarbageCollection, Collect, ReadyActivation, IInv, TypeOK, ActivationRecord,
         SnapshotRecord
<1>6. ASSUME NEW g \in Generations
      PROVE  /\ generations'[g].state = "READY" <=> generations[g].state = "READY" /\ g \in p.generations
             /\ generations'[g].last = generations[g].last /\ generations'[g].proofs = generations[g].proofs
  BY <1>4 DEF CommitGarbageCollection, Collect, IInv, TypeOK, GenerationRecord
<1>7. ASSUME NEW s \in Snapshots PROVE ReadySnapshot(s)' <=> ReadySnapshot(s) /\ s \in p.snapshots
  BY <1>4 DEF CommitGarbageCollection, Collect, ReadySnapshot, IInv, TypeOK, SnapshotRecord
<1>8. ASSUME NEW r \in Releases
      PROVE  /\ r \in p.releases \/ releases[r].state # "RETIRED" => releases'[r] = releases[r]
             /\ releases[r].state = "RETIRED" => releases'[r].state \in {"RETIRED", "COLLECTED"}
  BY <1>4 DEF CommitGarbageCollection, Collect, IInv, TypeOK, ReleaseRecord
<1> QED BY <1>1, <1>2, <1>3, <1>5, <1>6, <1>7, <1>8

\* What is collected keeps its record.
LEMMA CollectTyped ==
  ASSUME NEW I, NEW T, NEW records \in [I -> T], NEW ids,
         \A x \in T : [x EXCEPT !.state = "COLLECTED"] \in T
  PROVE  Collect(records, ids) \in [I -> T]
BY DEF Collect

\* commitGarbageCollection: the plan is what would be planned now for its time,
\* so what it takes is outside a closed set that holds every head, lease and
\* reference; leases that lapsed since only protected more.
LEMMA CommitKeeps == ASSUME ActivationAssumption, IInv, CommitGarbageCollection PROVE IInv'
<1>1. PICK at \in 0..MaxTime :
           /\ at = plan.at /\ at <= now
           /\ \A a \in Activations :
                /\ ReadyActivation(a)' <=> ReadyActivation(a) /\ a \in Protected(at).activations
                /\ activations'[a].created = activations[a].created /\ activations'[a].last = activations[a].last
           /\ \A g \in Generations :
                /\ generations'[g].state = "READY" <=>
                     generations[g].state = "READY" /\ g \in Protected(at).generations
                /\ generations'[g].last = generations[g].last /\ generations'[g].proofs = generations[g].proofs
           /\ \A s \in Snapshots : ReadySnapshot(s)' <=> ReadySnapshot(s) /\ s \in Protected(at).snapshots
           /\ \A r \in Releases :
                /\ r \in Protected(at).releases \/ releases[r].state # "RETIRED" => releases'[r] = releases[r]
                /\ releases[r].state = "RETIRED" => releases'[r].state \in {"RETIRED", "COLLECTED"}
  BY Collected
<1>2. PICK p : p = Protected(at)
  OBVIOUS
<1>3. Closed(p) /\ Within(Roots(at), p)
  BY <1>2, ProtectedHolds
<1>4. UNCHANGED <<now, serving, leases, approvals, served>> /\ BumpState
  BY DEF CommitGarbageCollection
<1>5. TypeOK'
  <2>0. /\ \A x \in ReleaseRecord : [x EXCEPT !.state = "COLLECTED"] \in ReleaseRecord
        /\ \A x \in SnapshotRecord : [x EXCEPT !.state = "COLLECTED"] \in SnapshotRecord
    BY DEF ReleaseRecord, SnapshotRecord, ContentStates
  <2>1. releases' \in [Releases -> ReleaseRecord]
    BY <2>0, CollectTyped DEF CommitGarbageCollection, IInv, TypeOK
  <2>2. activations' \in [Activations -> ActivationRecord]
    BY <2>0, CollectTyped DEF CommitGarbageCollection, IInv, TypeOK, ActivationRecord
  <2>3. generations' \in [Generations -> GenerationRecord]
    <3>1. PICK P : GenerationRecord = [state : ContentStates, created : Lapsed, last : Lapsed, proofs : P]
      BY DEF GenerationRecord
    <3>2. \A x \in GenerationRecord : [x EXCEPT !.state = "COLLECTED"] \in GenerationRecord
      BY <3>1 DEF ContentStates
    <3> QED BY <3>2, CollectTyped DEF CommitGarbageCollection, IInv, TypeOK
  <2>4. snapshots' \in [Snapshots -> SnapshotRecord]
    BY <2>0, CollectTyped DEF CommitGarbageCollection, IInv, TypeOK
  <2> QED BY <1>4, <2>1, <2>2, <2>3, <2>4, Bumps DEF IInv, TypeOK, serving, leases
<1>6. ReadyActivationsAreWhole'
  <2> SUFFICES ASSUME NEW a \in Activations, ReadyActivation(a)' PROVE Valid(a)'
    BY DEF ReadyActivationsAreWhole
  <2>1. a \in p.activations /\ Valid(a)
    BY <1>1, <1>2 DEF IInv, ReadyActivationsAreWhole
  <2>2. ActivationOf[a].release \in p.releases /\ ActivationOf[a].release \in Releases
        /\ releases[ActivationOf[a].release].state \notin {"none", "COLLECTED"}
    BY <1>3, <2>1 DEF Closed, Valid, ActivationAssumption
  <2>3. releases'[ActivationOf[a].release] = releases[ActivationOf[a].release]
    BY <1>1, <1>2, <2>2
  <2>4. ASSUME NEW m \in DOMAIN Members(a)
        PROVE  /\ ReadySnapshot(Members(a)[m].snapshot)'
               /\ generations'[Members(a)[m].generation].state = "READY"
               /\ generations'[Members(a)[m].generation].proofs = generations[Members(a)[m].generation].proofs
    <3>1. PICK g, s : g = Members(a)[m].generation /\ s = Members(a)[m].snapshot
      OBVIOUS
    <3>2. g \in p.generations /\ g \in Generations /\ s \in p.snapshots /\ s \in Snapshots
      BY <1>3, <2>1, <3>1 DEF Closed, ActivationAssumption, Members
    <3>3. generations[g].state = "READY" /\ ReadySnapshot(s)
      BY <2>1, <3>1 DEF Valid, MemberBinds, ReadySnapshot
    <3>4. ReadySnapshot(s)' /\ generations'[g].state = "READY" /\ generations'[g].proofs = generations[g].proofs
      BY <1>1, <1>2, <3>2, <3>3
    <3> QED BY <3>1, <3>4 DEF Members, ReadySnapshot
  <2> QED BY <2>1, <2>2, <2>3, <2>4, ValidKept
<1>7. SnapshotsKept'
  <2> SUFFICES ASSUME NEW g \in Generations, generations'[g].state = "READY"
               PROVE  ReadySnapshot(GenerationOf[g].snapshot)'
    BY DEF SnapshotsKept
  <2>1. PICK s \in Snapshots : s = GenerationOf[g].snapshot
    BY DEF ActivationAssumption
  <2>2. g \in p.generations /\ ReadySnapshot(s)
    BY <1>1, <1>2, <2>1 DEF IInv, SnapshotsKept
  <2>3. s \in p.snapshots
    BY <1>3, <2>1, <2>2 DEF Closed
  <2>4. ReadySnapshot(s)'
    BY <1>1, <1>2, <2>2, <2>3
  <2> QED BY <2>1, <2>4 DEF ReadySnapshot
<1>8. \A r \in Releases : /\ releases'[r].state = "PUBLISHED" <=> releases[r].state = "PUBLISHED"
                          /\ releases[r].state = "PUBLISHED" => releases'[r] = releases[r]
  BY <1>1
<1>9. ASSUME NEW r \in Releases, heads[r] # None PROVE ReadyActivation(heads[r])'
  <2>1. PICK a \in Activations : a = heads[r]
    BY <1>9 DEF IInv, TypeOK
  <2>2. a \in p.activations /\ ReadyActivation(a)
    BY <1>3, <1>9, <2>1, RootsHold DEF Within, IInv, HeadsAndChannelsAgree
  <2>3. ReadyActivation(a)'
    BY <1>1, <1>2, <2>2
  <2> QED BY <1>4, <2>1, <2>3 DEF ReadyActivation, serving
<1>10. HeadsAndChannelsAgree'
  BY <1>4, <1>8, <1>9 DEF IInv, HeadsAndChannelsAgree, serving, ReadyActivation
<1>11. HardLimitsHold' /\ Supported'
  BY <1>4, <1>8
     DEF IInv, HardLimitsHold, serving, ServingReleases, GenerationsPerMember, AllMembers, Members,
         Supported
<1>12. ReferencedContentIsReady'
  <2> SUFFICES ASSUME NEW x \in Pinners, pinners[x].state = "ACTIVE"
               PROVE  RefsReady(pinners[x].refs)'
    BY <1>4 DEF ReferencedContentIsReady, RefsReady, leases
  <2>1. PICK refs \in Ids : refs = pinners[x].refs
    BY DEF IInv, TypeOK, JobRecord
  <2>2. PICK ids \in Ids : ids = Expand(refs)
    BY ExpandTyped
  <2>3. Within(refs, p)
    BY <1>3, <2>1, RootsHold DEF Within
  <2>4. Within(ids, p)
    BY <1>3, <2>2, <2>3, ExpandLeast
  <2>5. /\ \A r \in ids.releases : releases[r].state # "COLLECTED"
        /\ \A a \in ids.activations : ReadyActivation(a)
        /\ \A g \in ids.generations : generations[g].state = "READY"
        /\ \A s \in ids.snapshots : ReadySnapshot(s)
    BY <2>1, <2>2 DEF IInv, ReferencedContentIsReady
  <2>6. ids.releases \subseteq Releases /\ ids.activations \subseteq Activations
        /\ ids.generations \subseteq Generations /\ ids.snapshots \subseteq Snapshots
    BY DEF Ids
  <2>7. /\ \A r \in ids.releases : releases'[r].state # "COLLECTED"
        /\ \A a \in ids.activations : ReadyActivation(a)'
        /\ \A g \in ids.generations : generations'[g].state = "READY"
        /\ \A s \in ids.snapshots : ReadySnapshot(s)'
    BY <1>1, <1>2, <2>4, <2>5, <2>6 DEF Within
  <2>8. Expand(refs)' = ids
    BY <2>2 DEF Expand, Members
  <2>9. RefsReady(refs)'
    BY <2>7, <2>8 DEF RefsReady
  <2>10. pinners'[x].refs = refs
    BY <1>4, <2>1 DEF leases
  <2> QED BY <2>9, <2>10 DEF RefsReady
<1>13. LeasesKept'
  <2> SUFFICES ASSUME NEW q \in Queries, Alive(q) PROVE ReadyActivation(queries[q].activation)'
    BY <1>4 DEF LeasesKept, Alive, leases
  <2>1. ReadyActivation(queries[q].activation)
    BY DEF IInv, LeasesKept
  <2>2. PICK a \in Activations : a = queries[q].activation
    BY <2>1 DEF IInv, TypeOK, QueryRecord, ReadyActivation
  <2>3. queries[q].lease > at /\ queries[q].state = "ACTIVE" /\ a # None
    <3>1. queries[q].lease \in Nat /\ now \in Nat /\ at \in Nat
      BY Numbers DEF IInv, TypeOK, QueryRecord, Lapsed
    <3> QED BY <1>1, <2>1, <2>2, <3>1 DEF Alive, ReadyActivation
  <2>4. a \in p.activations
    BY <1>3, <2>2, <2>3, RootsHold DEF Within
  <2>5. ReadyActivation(a)'
    BY <1>1, <1>2, <2>1, <2>2, <2>4
  <2> QED BY <1>4, <2>2, <2>5 DEF ReadyActivation, leases
<1>14. ServedDated'
  <2>1. ASSUME NEW g \in Generations PROVE OnDuty(heads, g)' <=> OnDuty(heads, g)
    BY <1>4 DEF OnDuty, serving, Members
  <2> QED BY <1>1, <1>4, <2>1 DEF ServedDated, IInv
<1>15. TokensSound' /\ SeenCurrent' /\ PlanCurrent' /\ HistoryTypes'
  BY <1>4
     DEF IInv, HistoryTypes, BumpState, SeenCurrent, PlanCurrent, NoPlan, serving, TokensSound,
         leases
<1> QED BY <1>5, <1>6, <1>7, <1>10, <1>11, <1>12, <1>13, <1>14, <1>15 DEF IInv

-----------------------------------------------------------------------------
(* Control *)

\* What records the transitions of serving changes dates only.
LEMMA TransitionsKeep ==
  ASSUME ActivationAssumption, IInv, NEW h \in [Releases -> Activations \union {None}],
         HeadsReady(h),
         RecordServingTransitions(h)
  PROVE  /\ \A a \in Activations : activations'[a].state = activations[a].state
         /\ \A g \in Generations : /\ generations'[g].state = generations[g].state
                                   /\ generations'[g].proofs = generations[g].proofs
                                   /\ OnDuty(heads, g) /\ ~OnDuty(h, g) => generations'[g].last = now
                                   /\ ~OnDuty(heads, g) => generations'[g].last = generations[g].last
         /\ \A s \in Snapshots : snapshots'[s].state = snapshots[s].state
         /\ activations' \in [Activations -> ActivationRecord]
         /\ generations' \in [Generations -> GenerationRecord]
         /\ snapshots' \in [Snapshots -> SnapshotRecord]
<1>1. now \in Lapsed /\ heads \in [Releases -> Activations \union {None}] /\ HeadsReady(heads)
  BY LapsedTimes DEF IInv, TypeOK, HeadsReady, HeadsAndChannelsAgree
<1>2. \A a \in Activations : activations'[a].state = activations[a].state
  BY DEF RecordServingTransitions, Stopped, IInv, TypeOK, ActivationRecord, SnapshotRecord
<1>3. \A s \in Snapshots : snapshots'[s].state = snapshots[s].state
  BY DEF RecordServingTransitions, Stopped, IInv, TypeOK, SnapshotRecord
<1>4. activations' \in [Activations -> ActivationRecord]
  BY <1>1 DEF RecordServingTransitions, Stopped, IInv, TypeOK, ActivationRecord, SnapshotRecord
<1>5. generations' \in [Generations -> GenerationRecord]
  <2>1. PICK P : GenerationRecord = [state : ContentStates, created : Lapsed, last : Lapsed, proofs : P]
    BY DEF GenerationRecord
  <2> QED BY <1>1, <2>1 DEF RecordServingTransitions, Stopped, IInv, TypeOK
<1>6. snapshots' \in [Snapshots -> SnapshotRecord]
  BY <1>1 DEF RecordServingTransitions, Stopped, IInv, TypeOK, SnapshotRecord
<1>7. ASSUME NEW g \in Generations
      PROVE  /\ generations'[g].state = generations[g].state
             /\ generations'[g].proofs = generations[g].proofs
             /\ OnDuty(heads, g) /\ ~OnDuty(h, g) => generations'[g].last = now
             /\ ~OnDuty(heads, g) => generations'[g].last = generations[g].last
  <2>1. g \in ServedOf(heads, "generation") <=> OnDuty(heads, g)
    BY <1>1, ServedIsOnDuty, OnDutyIsServed
  <2>2. g \in ServedOf(h, "generation") <=> OnDuty(h, g)
    BY ServedIsOnDuty, OnDutyIsServed
  <2>3. generations'[g] = IF g \in ServedOf(heads, "generation") /\ g \notin ServedOf(h, "generation")
                          THEN [generations[g] EXCEPT !.last = now] ELSE generations[g]
    BY DEF RecordServingTransitions, Stopped, IInv, TypeOK
  <2>4. generations[g] \in GenerationRecord
    BY DEF IInv, TypeOK
  <2> QED BY <2>1, <2>2, <2>3, <2>4 DEF GenerationRecord
<1> QED BY <1>2, <1>3, <1>4, <1>5, <1>6, <1>7

\* A change of the heads by an operator who saw them.
LEMMA ControlStep ==
  ASSUME ActivationAssumption, IInv, NEW h \in [Releases -> Activations \union {None}],
         HeadsReady(h),
         RecordServingTransitions(h), heads' = h, BumpControl, UNCHANGED <<now, leases, approvals, served>>,
         releases' \in [Releases -> ReleaseRecord], channels' \in [Channels -> Activations \union {None}],
         \A r \in Releases :
           /\ releases[r].state \notin {"none", "COLLECTED"} => releases'[r].state \notin {"none", "COLLECTED"}
           /\ releases[r].state # "COLLECTED" => releases'[r].state # "COLLECTED"
           /\ releases'[r].state = "PUBLISHED" <=> h[r] # None
           /\ releases'[r].state = "PUBLISHED" => releases'[r].support >= releases'[r].published + Support,
         \A c \in Channels : channels'[c] # None => h[ActivationOf[channels'[c]].release] = channels'[c],
         HardLimitsHold'
  PROVE  IInv'
<1>1. /\ \A a \in Activations : activations'[a].state = activations[a].state
      /\ \A g \in Generations : /\ generations'[g].state = generations[g].state
                                /\ generations'[g].proofs = generations[g].proofs
                                /\ OnDuty(heads, g) /\ ~OnDuty(h, g) => generations'[g].last = now
                                /\ ~OnDuty(heads, g) => generations'[g].last = generations[g].last
      /\ \A s \in Snapshots : snapshots'[s].state = snapshots[s].state
      /\ activations' \in [Activations -> ActivationRecord]
      /\ generations' \in [Generations -> GenerationRecord]
      /\ snapshots' \in [Snapshots -> SnapshotRecord]
  BY TransitionsKeep
<1>2. plan' = NoPlan /\ plan' \in [current : BOOLEAN, at : 0..MaxTime, ids : Ids]
      /\ seen' = [seen EXCEPT !.current = FALSE]
  BY Numbers DEF BumpControl, NoPlan, NoIds, Ids
<1>3. TypeOK'
  BY <1>1, <1>2 DEF IInv, TypeOK, leases
<1>4. HistoryTypes' /\ SeenCurrent' /\ PlanCurrent'
  BY <1>2 DEF IInv, HistoryTypes, Reading, SeenCurrent, PlanCurrent, NoPlan
<1>5. \A a \in Activations : ReadyActivation(a)' <=> ReadyActivation(a)
  BY <1>1 DEF ReadyActivation
<1>6. Grows
  BY <1>1, <1>5 DEF Grows, ReadySnapshot
<1>7. ReadyActivationsAreWhole' /\ SnapshotsKept'
  BY <1>1, <1>5, <1>6, GrowthKeeps
<1>8. queries' = queries /\ tokens' = tokens /\ pinners' = pinners
  BY DEF leases
<1>9. ReferencedContentIsReady'
  BY <1>6, <1>8, ReferencesKept
<1>10. LeasesKept'
  <2> SUFFICES ASSUME NEW q \in Queries, Alive(q) PROVE ReadyActivation(queries[q].activation)'
    BY <1>8 DEF LeasesKept, Alive
  <2>1. ReadyActivation(queries[q].activation) /\ queries[q].activation \in Activations
    BY DEF IInv, LeasesKept, TypeOK, QueryRecord, ReadyActivation
  <2> QED BY <1>8, <2>1, <1>1 DEF ReadyActivation
<1>11. TokensSound'
  BY <1>8 DEF TokensSound, IInv
<1>12. Supported'
  BY DEF Supported
<1>13. HeadsAndChannelsAgree'
  <2>1. \A r \in Releases : h[r] # None => ReadyActivation(h[r])' /\ ActivationOf[h[r]].release = r
    BY <1>1 DEF HeadsReady, ReadyActivation
  <2> QED BY <2>1 DEF HeadsAndChannelsAgree, ReadyActivation
<1>14. ServedDated'
  <2> SUFFICES ASSUME NEW g \in Generations
               PROVE  /\ served[g] <= now
                      /\ generations'[g].state = "READY" /\ ~OnDuty(h, g) => served[g] <= generations'[g].last
    BY DEF ServedDated, OnDuty, Members
  <2>1. served[g] <= now
    BY DEF IInv, ServedDated
  <2>2. CASE OnDuty(heads, g)
    BY <1>1, <2>1, <2>2
  <2>3. CASE ~OnDuty(heads, g)
    BY <1>1, <2>3 DEF IInv, ServedDated
  <2> QED BY <2>1, <2>2, <2>3
<1> QED BY <1>3, <1>4, <1>7, <1>9, <1>10, <1>11, <1>12, <1>13, <1>14 DEF IInv

\* publish: the release had no head, so no channel was at another head of it.
LEMMA PublishKeeps ==
  ASSUME ActivationAssumption, IInv, NEW a \in Activations, NEW c \in Channels, NEW s \in {now,
         now + Support},
         NEW ap \in Approvals \union {None}, Publish(ActivationOf[a].release, a, c, s, ap)
  PROVE  IInv'
<1>1. PICK r \in Releases : r = ActivationOf[a].release
  BY DEF ActivationAssumption
<1>2. PICK h : h = [heads EXCEPT ![r] = a]
  OBVIOUS
<1>3. /\ releases[r].state = "STAGED" /\ ReadyActivation(a) /\ s >= now + Support
      /\ Capacity(h, ap)
      /\ releases' = [releases EXCEPT ![r] = [@ EXCEPT !.state = "PUBLISHED", !.published = now, !.support = s]]
      /\ heads' = h /\ channels' = [channels EXCEPT ![c] = a]
      /\ RecordServingTransitions(h)
      /\ BumpControl /\ UNCHANGED <<now, leases, approvals, served>>
  BY <1>1, <1>2 DEF Publish
<1>4. now \in Nat /\ now \in Lapsed /\ s \in Lapsed
  BY Numbers DEF IInv, TypeOK, Lapsed
<1>5. h \in [Releases -> Activations \union {None}] /\ a # None
  BY <1>2, <1>3 DEF IInv, TypeOK, ReadyActivation
<1>6. HeadsReady(h)
  BY <1>1, <1>2, <1>3 DEF HeadsReady, IInv, HeadsAndChannelsAgree, TypeOK, ReadyActivation
<1>7. releases' \in [Releases -> ReleaseRecord]
  <2>1. releases \in [Releases -> ReleaseRecord]
    BY DEF IInv, TypeOK
  <2>2. \A x \in ReleaseRecord :
          [x EXCEPT !.state = "PUBLISHED", !.published = now, !.support = s] \in ReleaseRecord
    BY <1>4 DEF ReleaseRecord
  <2> QED BY <1>3, <2>1, <2>2
<1>8. channels' \in [Channels -> Activations \union {None}]
  BY <1>3 DEF IInv, TypeOK
<1>9. /\ releases'[r].state = "PUBLISHED" /\ releases'[r].published = now /\ releases'[r].support = s
      /\ \A x \in Releases \ {r} : releases'[x] = releases[x]
  BY <1>3 DEF IInv, TypeOK, ReleaseRecord
<1>10. h[r] = a /\ \A x \in Releases \ {r} : h[x] = heads[x]
  BY <1>2 DEF IInv, TypeOK
<1>11. ASSUME NEW x \in Releases
       PROVE  /\ releases[x].state \notin {"none", "COLLECTED"} => releases'[x].state \notin {"none", "COLLECTED"}
              /\ releases[x].state # "COLLECTED" => releases'[x].state # "COLLECTED"
              /\ releases'[x].state = "PUBLISHED" <=> h[x] # None
              /\ releases'[x].state = "PUBLISHED" => releases'[x].support >= releases'[x].published + Support
  BY <1>3, <1>5, <1>9, <1>10 DEF IInv, HeadsAndChannelsAgree, Supported
<1>12. ASSUME NEW x \in Channels, channels'[x] # None
       PROVE  h[ActivationOf[channels'[x]].release] = channels'[x]
  <2>1. CASE x = c
    BY <1>1, <1>3, <1>10, <2>1 DEF IInv, TypeOK
  <2>2. CASE x # c
    <3>1. channels'[x] = channels[x] /\ channels[x] \in Activations
      BY <1>3, <1>12, <2>2 DEF IInv, TypeOK
    <3>2. heads[ActivationOf[channels[x]].release] = channels[x] /\ ActivationOf[channels[x]].release \in Releases
      BY <1>12, <3>1 DEF IInv, HeadsAndChannelsAgree, ActivationAssumption
    <3>3. heads[r] = None
      BY <1>3 DEF IInv, HeadsAndChannelsAgree
    <3> QED BY <1>10, <1>12, <3>1, <3>2, <3>3
  <2> QED BY <2>1, <2>2
<1>13. HardLimitsHold'
  BY <1>3
     DEF Capacity, WithinHard, HardLimitsHold, ServingReleases, GenerationsPerMember, AllMembers,
         Members
<1> QED BY <1>3, <1>5, <1>6, <1>7, <1>8, <1>11, <1>12, <1>13, ControlStep

\* refresh: channels follow the heads they were at.
LEMMA RefreshKeeps ==
  ASSUME ActivationAssumption, IInv, NEW by \in [Releases -> Activations \union {None}],
         NEW ap \in Approvals \union {None}, Refresh(by, ap)
  PROVE  IInv'
<1>1. PICK h : h = [r \in Releases |-> IF by[r] # None THEN by[r] ELSE heads[r]]
  OBVIOUS
<1>2. /\ \A r \in Releases : by[r] # None =>
           /\ releases[r].state = "PUBLISHED" /\ heads[r] # None
           /\ ReadyActivation(by[r]) /\ ActivationOf[by[r]].release = r
      /\ Capacity(h, ap)
      /\ heads' = h /\ channels' = [c \in Channels |-> Moved(c, by)]
      /\ RecordServingTransitions(h)
      /\ BumpControl /\ UNCHANGED <<now, releases, leases, approvals, served>>
  <2>1. PICK changed : changed = {r \in Releases : by[r] # None}
    OBVIOUS
  <2>2. h = [r \in Releases |-> IF r \in changed THEN by[r] ELSE heads[r]]
    BY <1>1, <2>1
  <2> QED BY <2>1, <2>2 DEF Refresh
<1>3. h \in [Releases -> Activations \union {None}]
  BY <1>1 DEF IInv, TypeOK
<1>4. HeadsReady(h)
  BY <1>1, <1>2 DEF HeadsReady, IInv, HeadsAndChannelsAgree, ReadyActivation
<1>5. ASSUME NEW c \in Channels
      PROVE  /\ channels'[c] \in Activations \union {None}
             /\ channels'[c] # None => h[ActivationOf[channels'[c]].release] = channels'[c]
  <2>1. CASE channels[c] = None
    BY <1>2, <2>1 DEF Moved
  <2>2. CASE channels[c] # None
    <3>1. PICK r \in Releases : /\ r = ActivationOf[channels[c]].release
                                /\ heads[r] = channels[c] /\ channels[c] \in Activations
      BY <2>2 DEF IInv, TypeOK, HeadsAndChannelsAgree, ActivationAssumption
    <3>2. channels'[c] = h[r]
      BY <1>1, <1>2, <2>2, <3>1 DEF Moved
    <3> QED BY <1>3, <1>4, <3>2 DEF HeadsReady
  <2> QED BY <2>1, <2>2
<1>6. channels' \in [Channels -> Activations \union {None}]
  BY <1>2, <1>5
<1>7. ASSUME NEW r \in Releases
      PROVE  /\ releases'[r] = releases[r]
             /\ releases[r].state = "PUBLISHED" <=> h[r] # None
  BY <1>1, <1>2 DEF IInv, HeadsAndChannelsAgree
<1>8. HardLimitsHold'
  <2>1. heads' = h /\ WithinHard(h)
    BY <1>2 DEF Capacity
  <2> QED BY <2>1
     DEF WithinHard, HardLimitsHold, ServingReleases, GenerationsPerMember, AllMembers, Members
<1>9. releases' \in [Releases -> ReleaseRecord]
  BY <1>2 DEF IInv, TypeOK
<1> QED BY <1>2, <1>3, <1>4, <1>5, <1>6, <1>7, <1>8, <1>9, ControlStep DEF IInv, Supported

\* Fewer heads bind no more.
LEMMA FewerHeads ==
  ASSUME ActivationAssumption, NEW h \in [Releases -> Activations \union {None}],
         NEW k \in [Releases -> Activations \union {None}], \A r \in Releases : k[r] # None => k[r] = h[r]
  PROVE  /\ ServingReleases(k) <= ServingReleases(h) /\ ServingReleases(h) \in Nat /\ ServingReleases(k) \in Nat
         /\ \A m : GenerationsPerMember(k, m) <= GenerationsPerMember(h, m)
                   /\ GenerationsPerMember(h, m) \in Nat /\ GenerationsPerMember(k, m) \in Nat
<1>1. /\ {r \in Releases : k[r] # None} \subseteq {r \in Releases : h[r] # None}
      /\ {r \in Releases : h[r] # None} \subseteq Releases /\ IsFiniteSet(Releases)
  BY DEF ActivationAssumption
<1>2. ServingReleases(k) <= ServingReleases(h) /\ ServingReleases(h) \in Nat /\ ServingReleases(k) \in Nat
  BY <1>1, FS_Subset, FS_CardinalityType DEF ServingReleases
<1>3. ASSUME NEW m
      PROVE  GenerationsPerMember(k, m) <= GenerationsPerMember(h, m)
             /\ GenerationsPerMember(h, m) \in Nat /\ GenerationsPerMember(k, m) \in Nat
  <2>1. PICK K : K = {Members(k[r])[m].generation :
                      r \in {x \in Releases : k[x] # None /\ m \in DOMAIN Members(k[x])}}
    OBVIOUS
  <2>2. PICK H : H = {Members(h[r])[m].generation :
                      r \in {x \in Releases : h[x] # None /\ m \in DOMAIN Members(h[x])}}
    OBVIOUS
  <2>3. K \subseteq H
    BY <2>1, <2>2
  <2>4. H \subseteq Generations
    BY <2>2 DEF ActivationAssumption, Members
  <2>5. IsFiniteSet(H) /\ Cardinality(K) <= Cardinality(H) /\ IsFiniteSet(K)
    BY <2>3, <2>4, FS_Subset DEF ActivationAssumption
  <2> QED BY <2>1, <2>2, <2>5, FS_CardinalityType DEF GenerationsPerMember
<1> QED BY <1>2, <1>3

\* retireRelease: no channel is at the head that goes, and the other heads count
\* no more than before.
LEMMA RetireReleaseKeeps ==
  ASSUME ActivationAssumption, IInv, NEW r \in Releases, RetireRelease(r) PROVE IInv'
<1>1. PICK h : h = [heads EXCEPT ![r] = None]
  OBVIOUS
<1>2. /\ releases[r].state = "PUBLISHED"
      /\ \A c \in Channels : channels[c] # None => ActivationOf[channels[c]].release # r
      /\ heads' = h
      /\ releases' = [releases EXCEPT ![r] = [@ EXCEPT !.state = "RETIRED", !.retired = now]]
      /\ RecordServingTransitions(h)
      /\ BumpControl /\ UNCHANGED <<now, channels, leases, approvals, served>>
  BY <1>1 DEF RetireRelease
<1>3. /\ {h, heads} \subseteq [Releases -> Activations \union {None}] /\ now \in Lapsed
      /\ h[r] = None /\ \A x \in Releases \ {r} : h[x] = heads[x]
  BY <1>1, LapsedTimes DEF IInv, TypeOK
<1>4. HeadsReady(h)
  BY <1>3 DEF HeadsReady, IInv, HeadsAndChannelsAgree
<1>5. releases' \in [Releases -> ReleaseRecord] /\ channels' \in [Channels -> Activations \union {None}]
  <2>1. releases \in [Releases -> ReleaseRecord] /\ channels \in [Channels -> Activations \union {None}]
    BY DEF IInv, TypeOK
  <2>2. \A x \in ReleaseRecord : [x EXCEPT !.state = "RETIRED", !.retired = now] \in ReleaseRecord
    BY <1>3 DEF ReleaseRecord
  <2> QED BY <1>2, <2>1, <2>2
<1>6. /\ releases'[r].state = "RETIRED" /\ \A x \in Releases \ {r} : releases'[x] = releases[x]
  BY <1>2 DEF IInv, TypeOK, ReleaseRecord
<1>7. ASSUME NEW x \in Releases
      PROVE  /\ releases[x].state \notin {"none", "COLLECTED"} => releases'[x].state \notin {"none", "COLLECTED"}
             /\ releases[x].state # "COLLECTED" => releases'[x].state # "COLLECTED"
             /\ releases'[x].state = "PUBLISHED" <=> h[x] # None
             /\ releases'[x].state = "PUBLISHED" => releases'[x].support >= releases'[x].published + Support
  BY <1>3, <1>6 DEF IInv, HeadsAndChannelsAgree, Supported
<1>8. ASSUME NEW x \in Channels, channels'[x] # None
      PROVE  h[ActivationOf[channels'[x]].release] = channels'[x]
  <2>1. channels'[x] = channels[x] /\ channels[x] \in Activations
    BY <1>2, <1>8 DEF IInv, TypeOK
  <2>2. /\ heads[ActivationOf[channels[x]].release] = channels[x] /\ ActivationOf[channels[x]].release \in Releases
        /\ ActivationOf[channels[x]].release # r
    BY <1>2, <1>8, <2>1 DEF IInv, HeadsAndChannelsAgree, ActivationAssumption
  <2> QED BY <1>3, <2>1, <2>2
<1>9. HardLimitsHold'
  <2>1. /\ ServingReleases(h) <= ServingReleases(heads) /\ ServingReleases(heads) \in Nat /\ ServingReleases(h) \in Nat
        /\ \A m : GenerationsPerMember(h, m) <= GenerationsPerMember(heads, m)
                  /\ GenerationsPerMember(heads, m) \in Nat /\ GenerationsPerMember(h, m) \in Nat
    BY <1>3, FewerHeads
  <2>2. ServingReleases(h) <= HardReleases /\ \A m \in AllMembers : GenerationsPerMember(h, m) <= HardGenerations
    BY <2>1, Numbers DEF IInv, HardLimitsHold
  <2> QED BY <1>2, <2>2
     DEF HardLimitsHold, ServingReleases, GenerationsPerMember, AllMembers, Members
<1> QED BY <1>2, <1>3, <1>4, <1>5, <1>7, <1>8, <1>9, ControlStep

-----------------------------------------------------------------------------
\* Every request, and every stuttering step, keeps the invariant.
LEMMA Preserved == ASSUME ActivationAssumption, IInv, [Next]_vars PROVE IInv'
<1>1. CASE Observe
  BY <1>1, ObserveKeeps
<1>2. CASE PlanGarbageCollection
  BY <1>2, PlanGarbageCollectionKeeps
<1>3. CASE CommitGarbageCollection
  BY <1>3, CommitKeeps
<1>4. CASE Tick
  BY <1>4, TickKeeps
<1>5. CASE \E r \in Releases : RegisterRelease(r) \/ RetireRelease(r)
  BY <1>5, RegisterReleaseKeeps, RetireReleaseKeeps
<1>6. CASE \E s \in Snapshots : RegisterSnapshot(s)
  BY <1>6, RegisterSnapshotKeeps
<1>7. CASE \E g \in Generations : RegisterGeneration(g)
  BY <1>7, RegisterGenerationKeeps
<1>8. CASE \E a \in Activations : CreateActivation(a)
  BY <1>8, CreateActivationKeeps
<1>9. CASE \E a \in Activations, c \in Channels, s \in {now, now + Support}, ap \in Approvals \union {None} :
             Publish(ActivationOf[a].release, a, c, s, ap)
  BY <1>9, PublishKeeps
<1>10. CASE \E by \in [Releases -> Activations \union {None}], ap \in Approvals \union {None} : Refresh(by, ap)
  BY <1>10, RefreshKeeps
<1>11. CASE \E q \in Queries, x \in Channels \union Releases, lease \in Times : BeginQuery(q, x, lease)
  BY <1>11, BeginQueryKeeps
<1>12. CASE \E q \in Queries, lease \in Times : RenewQueryLease(q, lease)
  BY <1>12, RenewQueryLeaseKeeps
<1>13. CASE \E q \in Queries : EndQuery(q)
  BY <1>13, EndQueryKeeps
<1>14. CASE \E t \in Tokens, x \in Channels \union Releases, e \in Times : IssuePreflight(t, x, e)
  BY <1>14, IssuePreflightKeeps
<1>15. CASE \E t \in Tokens : ApplyPreflight(t)
  BY <1>15, ApplyPreflightKeeps
<1>16. CASE \E p \in Pinners, refs \in Holdable :
              StartJob(p, refs) \/ PlaceHold(p, refs) \/ AddHistoricalReference(p, refs)
  <2>1. Holdable \subseteq Ids
    BY DEF ActivationAssumption, Ids
  <2> QED BY <1>16, <2>1, PinKeeps DEF StartJob, PlaceHold, AddHistoricalReference
<1>17. CASE \E p \in Pinners : CompleteJob(p) \/ ReleaseHold(p)
  BY <1>17, UnpinKeeps DEF CompleteJob, ReleaseHold
<1>18. CASE \E ap \in Approvals, e \in Times, maxR \in 1..HardReleases, maxG \in 1..HardGenerations,
              retire \in SUBSET Releases : RegisterCapacityApproval(ap, e, maxR, maxG, retire)
  BY <1>18, RegisterCapacityApprovalKeeps
<1>19. CASE UNCHANGED vars
  <2>1. UNCHANGED <<content, serving, leases>> /\ now' = now
        /\ UNCHANGED <<approvals, seen, plan, served>>
    BY <1>19 DEF vars
  <2>2. UNCHANGED <<releases, generations, activations, snapshots, heads, channels, queries, tokens, pinners>>
    BY <2>1 DEF content, serving, leases
  <2>3. TypeOK' /\ HistoryTypes' /\ SeenCurrent' /\ now' >= now
    BY <2>1, <2>2, Numbers DEF IInv, TypeOK, HistoryTypes, SeenCurrent
  <2>4. PlanCurrent'
    BY <2>1, SameUnprotected DEF IInv, PlanCurrent
  <2>5. ServedDated'
    BY <2>1, <2>2 DEF ServedDated, OnDuty, Members, IInv
  <2> QED BY <2>1, <2>3, <2>4, <2>5, IdleStep DEF IInv
<1> QED BY <1>1, <1>2, <1>3, <1>4, <1>5, <1>6, <1>7, <1>8, <1>9, <1>10, <1>11, <1>12, <1>13, <1>14,
   <1>15, <1>16,
           <1>17, <1>18, <1>19 DEF Next

\* The inductive invariant holds of every behaviour of the model.
THEOREM Invariance == ASSUME ActivationAssumption PROVE Spec => []IInv
<1>1. Init => IInv
  BY Started
<1>2. IInv /\ [Next]_vars => IInv'
  BY Preserved
<1> QED BY <1>1, <1>2, PTL DEF Spec

\* The records stay of their types: heads and channels name activations, no
\* time is beyond what the leases allow.
THEOREM Typed == ASSUME ActivationAssumption PROVE Spec => []TypeOK
<1>1. IInv => TypeOK
  BY DEF IInv
<1> QED BY <1>1, Invariance, PTL

\* assertInvariants: whatever publications, refreshes, retirements and
\* collections ran, in whatever order, a ready activation has its release, its
\* generations and its snapshots, one version of each group, certified for its
\* pins; releases, heads and channels agree; what jobs, holds and historical
\* references name is there; and the hard limits hold.
THEOREM ReadyIsWhole ==
  ASSUME ActivationAssumption
  PROVE  Spec => [](/\ ReadyActivationsAreWhole /\ HeadsAndChannelsAgree
                    /\ ReferencedContentIsReady /\ HardLimitsHold)
<1>1. IInv => /\ ReadyActivationsAreWhole /\ HeadsAndChannelsAgree
              /\ ReferencedContentIsReady /\ HardLimitsHold
  BY DEF IInv
<1> QED BY <1>1, Invariance, PTL

\* beginQuery, readQueryMember, commitGarbageCollection: a query whose lease has
\* not lapsed reads every member of its activation, however old the plan is that
\* is collected meanwhile.
THEOREM LeasedIsReadable == ASSUME ActivationAssumption PROVE Spec => []LeasedContentIsReadable
<1>1. IInv => LeasedContentIsReadable
  <2> SUFFICES ASSUME IInv, NEW q \in Queries, Alive(q),
                      NEW m \in DOMAIN Members(queries[q].activation)
               PROVE  /\ Reads(q, m)
                      /\ generations[Members(queries[q].activation)[m].generation].state = "READY"
                      /\ snapshots[Members(queries[q].activation)[m].snapshot].state = "READY"
    BY DEF LeasedContentIsReadable
  <2>1. ReadyActivation(queries[q].activation) /\ queries[q].activation \in Activations
    BY DEF IInv, LeasesKept, TypeOK, QueryRecord, ReadyActivation
  <2>2. Valid(queries[q].activation)
    BY <2>1 DEF IInv, ReadyActivationsAreWhole
  <2> QED BY <2>1, <2>2 DEF Reads, Valid, MemberBinds
<1> QED BY <1>1, Invariance, PTL

\* refresh, validateActivation: what serves a release is certified for its pins
\* and of one version of each snapshot group, after any sequence of heads.
THEOREM ServedCertified == ASSUME ActivationAssumption PROVE Spec => []ServedIsCertified
<1>1. IInv => ServedIsCertified
  <2> SUFFICES ASSUME IInv, NEW r \in Releases, heads[r] # None, NEW m \in DOMAIN Pins[r]
               PROVE  LET g == Members(heads[r])[m].generation IN
                      /\ Pins[r][m].print \in generations[g].proofs
                      /\ \A n \in DOMAIN Pins[r] :
                           LET s == SnapshotOf[GenerationOf[g].snapshot]
                               t == SnapshotOf[GenerationOf[Members(heads[r])[n].generation].snapshot] IN
                           s.group = t.group => s.version = t.version
    BY DEF ServedIsCertified
  <2>1. PICK a \in Activations : a = heads[r] /\ ReadyActivation(a) /\ ActivationOf[a].release = r
    BY DEF IInv, TypeOK, HeadsAndChannelsAgree
  <2>2. Valid(a)
    BY <2>1 DEF IInv, ReadyActivationsAreWhole
  <2>3. DOMAIN Members(a) = DOMAIN Pins[r] /\ OneVersionPerGroup(a)
    BY <2>1, <2>2 DEF Valid
  <2>4. ASSUME NEW n \in DOMAIN Pins[r]
        PROVE  /\ Pins[r][n].print \in generations[Members(a)[n].generation].proofs
               /\ GenerationOf[Members(a)[n].generation].snapshot = Members(a)[n].snapshot
    BY <2>1, <2>2, <2>3 DEF Valid, MemberBinds
  <2> QED BY <2>1, <2>3, <2>4 DEF OneVersionPerGroup
<1> QED BY <1>1, Invariance, PTL

-----------------------------------------------------------------------------
\* Who changes what.
LEMMA HeadsChange ==
  ASSUME [Next]_vars, heads' # heads
  PROVE  \/ \E a \in Activations, c \in Channels, s \in {now, now + Support}, ap \in Approvals \union {None} :
              Publish(ActivationOf[a].release, a, c, s, ap)
         \/ \E by \in [Releases -> Activations \union {None}], ap \in Approvals \union {None} : Refresh(by, ap)
         \/ \E r \in Releases : RetireRelease(r)
<1>1. ~(UNCHANGED serving) /\ Next
  BY DEF serving, vars
<1> QED BY <1>1
   DEF Next, Observe, PlanGarbageCollection, CommitGarbageCollection, Tick, RegisterRelease,
       RegisterSnapshot,
  RegisterGeneration, CreateActivation, BeginQuery, RenewQueryLease, EndQuery, IssuePreflight, ApplyPreflight, StartJob,
  PlaceHold, AddHistoricalReference, CompleteJob, ReleaseHold, Pin, Unpin, RegisterCapacityApproval

\* retireRelease: the head of a release is taken away only after the minimum
\* support window from its publication.
THEOREM Supports == ASSUME ActivationAssumption PROVE Spec => [][SupportIsKept]_vars
<1>1. ASSUME IInv, [Next]_vars PROVE [SupportIsKept]_vars
  <2> SUFFICES ASSUME NEW r \in Releases, heads[r] # None, heads'[r] = None
               PROVE  now >= releases[r].published + Support
    BY DEF SupportIsKept
  <2>0. heads' # heads /\ releases[r].state = "PUBLISHED"
    BY <1>1 DEF IInv, HeadsAndChannelsAgree
  <2>1. ASSUME NEW a \in Activations, NEW c, NEW s, NEW ap, Publish(ActivationOf[a].release, a, c, s, ap) PROVE FALSE
    BY <1>1, <2>1 DEF Publish, ReadyActivation, IInv, TypeOK
  <2>2. ASSUME NEW by \in [Releases -> Activations \union {None}], NEW ap, Refresh(by, ap) PROVE FALSE
    BY <2>2 DEF Refresh
  <2>3. ASSUME NEW x \in Releases, RetireRelease(x) PROVE now >= releases[r].published + Support
    <3>1. x = r
      BY <1>1, <2>3 DEF RetireRelease, IInv, TypeOK
    <3>2. now >= releases[r].support /\ releases[r].support >= releases[r].published + Support
      BY <1>1, <2>0, <2>3, <3>1 DEF RetireRelease, IInv, Supported
    <3>3. now \in Nat /\ releases[r].support \in Nat /\ releases[r].published \in Nat /\ Support \in Nat
      BY <1>1, Numbers DEF IInv, TypeOK, ReleaseRecord, Lapsed
    <3> QED BY <3>2, <3>3
  <2> QED BY <1>1, <2>0, <2>1, <2>2, <2>3, HeadsChange
<1> QED BY <1>1, Invariance, PTL DEF Spec

\* assertControlRevision: the heads change only by an operator whose reading of
\* them is still the latest, so no change of another is overwritten unseen.
THEOREM ControlUpdatesKept == ASSUME ActivationAssumption PROVE Spec => [][NoLostControlUpdate]_vars
<1>1. ASSUME IInv, [Next]_vars PROVE [NoLostControlUpdate]_vars
  <2>1. heads' # heads => seen.current
    BY <1>1, HeadsChange DEF Publish, Refresh, RetireRelease, Expected
  <2> QED BY <1>1, <2>1 DEF NoLostControlUpdate, IInv, SeenCurrent
<1> QED BY <1>1, Invariance, PTL DEF Spec

\* assertCapacity: heads that raise a count beyond its normal limit are taken
\* only within the window of a capacity approval.
THEOREM OveragesApproved == ASSUME ActivationAssumption PROVE Spec => [][OverageIsApproved]_vars
<1>1. ASSUME IInv, [Next]_vars PROVE [OverageIsApproved]_vars
  <2> SUFFICES ASSUME heads' # heads, Expands(heads')
               PROVE  \E ap \in Approvals : now < approvals[ap].expires
    BY DEF OverageIsApproved
  <2>1. ASSUME NEW h, NEW ap \in Approvals \union {None}, heads' = h, Capacity(h, ap)
        PROVE  \E x \in Approvals : now < approvals[x].expires
    <3>1. Expands(h)
      BY <2>1 DEF Expands, ServingReleases, GenerationsPerMember, AllMembers, Members
    <3>2. Covers(ap, h)
      BY <2>1, <3>1 DEF Capacity
    <3> QED BY <2>1, <3>2 DEF Covers
  <2>2. ASSUME NEW r \in Releases, RetireRelease(r) PROVE FALSE
    <3>1. PICK k \in [Releases -> Activations \union {None}] : k = [heads EXCEPT ![r] = None]
      BY <1>1 DEF IInv, TypeOK
    <3>2. /\ ServingReleases(k) <= ServingReleases(heads) /\ ServingReleases(heads) \in Nat /\ ServingReleases(k) \in Nat
          /\ \A m : GenerationsPerMember(k, m) <= GenerationsPerMember(heads, m)
                    /\ GenerationsPerMember(heads, m) \in Nat /\ GenerationsPerMember(k, m) \in Nat
      BY <1>1, <3>1, FewerHeads DEF IInv, TypeOK
    <3>3. heads' = k
      BY <2>2, <3>1 DEF RetireRelease
    <3>4. Expands(k)
      BY <3>3 DEF Expands, ServingReleases, GenerationsPerMember, AllMembers, Members
    <3> QED BY <3>2, <3>4 DEF Expands
  <2>3. ASSUME NEW a, NEW c, NEW s, NEW ap \in Approvals \union {None}, Publish(ActivationOf[a].release, a, c, s, ap)
        PROVE  \E x \in Approvals : now < approvals[x].expires
    BY <2>1, <2>3 DEF Publish
  <2>4. ASSUME NEW by, NEW ap \in Approvals \union {None}, Refresh(by, ap)
        PROVE  \E x \in Approvals : now < approvals[x].expires
    BY <2>1, <2>4 DEF Refresh
  <2> QED BY <1>1, <2>2, <2>3, <2>4, HeadsChange
<1> QED BY <1>1, Invariance, PTL DEF Spec

\* applyPreflight: a token is used only while its selector still resolves to the
\* activation it was issued for.
THEOREM TokensCurrent == ASSUME ActivationAssumption PROVE Spec => [][TokenUsedForCurrent]_vars
<1>1. ASSUME IInv, [Next]_vars PROVE [TokenUsedForCurrent]_vars
  <2> SUFFICES ASSUME NEW t \in Tokens, tokens'[t].state = "USED", tokens[t].state # "USED"
               PROVE  \/ \E c \in Channels : tokens[t].selector = c /\ channels[c] = tokens[t].activation
                      \/ \E r \in Releases : tokens[t].selector = r /\ heads[r] = tokens[t].activation
    BY DEF TokenUsedForCurrent
  <2>1. tokens' # tokens
    OBVIOUS
  <2>2. ~(UNCHANGED leases) /\ Next
    BY <1>1, <2>1 DEF leases, vars
  <2>3. \/ \E x \in Tokens, y \in Channels \union Releases, e \in Times : IssuePreflight(x, y, e)
        \/ \E x \in Tokens : ApplyPreflight(x)
    BY <2>1, <2>2
       DEF Next, Observe, PlanGarbageCollection, CommitGarbageCollection, Tick, RegisterRelease,
           RegisterSnapshot,
      RegisterGeneration, CreateActivation, BeginQuery, RenewQueryLease, EndQuery, StartJob, Publish, Refresh, RetireRelease,
      PlaceHold, AddHistoricalReference, CompleteJob, ReleaseHold, Pin, Unpin, RegisterCapacityApproval
  <2>4. ASSUME NEW x \in Tokens, NEW y, NEW e, IssuePreflight(x, y, e) PROVE FALSE
    BY <1>1, <2>4 DEF IssuePreflight, IInv, TypeOK
  <2>5. PICK x \in Tokens : ApplyPreflight(x)
    BY <2>3, <2>4
  <2>6. x = t /\ tokens[t].state = "ACTIVE" /\ Resolve(tokens[t].selector) = tokens[t].activation
    BY <1>1, <2>5 DEF ApplyPreflight, IInv, TypeOK
  <2>7. tokens[t].selector \in Channels \union Releases /\ tokens[t].activation # None
    BY <1>1, <2>6 DEF IInv, TokensSound
  <2> QED BY <2>6, <2>7 DEF Resolve
<1> QED BY <1>1, Invariance, PTL DEF Spec

\* commitGarbageCollection, recordServingTransitions: a generation is collected
\* only when it has not been served for the length of the retention, though the
\* plan may be older than the commit and the generation may have served since it
\* was registered under several heads.
THEOREM RecentKept == ASSUME ActivationAssumption PROVE Spec => [][RecentlyServedIsKept]_vars
<1>1. ASSUME IInv, [Next]_vars PROVE [RecentlyServedIsKept]_vars
  <2> SUFFICES ASSUME NEW g \in Generations, generations'[g].state = "COLLECTED",
                      generations[g].state = "READY"
               PROVE  served[g] + Retention <= now
    BY DEF RecentlyServedIsKept
  <2>1. generations' # generations /\ ~(UNCHANGED content) /\ Next
    BY <1>1 DEF content, vars
  <2>2. ASSUME NEW h, RecordServingTransitions(h) PROVE FALSE
    BY <1>1, <2>2 DEF RecordServingTransitions, Stopped, IInv, TypeOK, GenerationRecord
  <2>3. ASSUME NEW x \in Generations, RegisterGeneration(x) PROVE FALSE
    BY <1>1, <2>3 DEF RegisterGeneration, IInv, TypeOK, GenerationRecord
  <2>4. CommitGarbageCollection
    BY <2>1, <2>2, <2>3
       DEF Next, Observe, PlanGarbageCollection, Tick, RegisterRelease, RegisterSnapshot,
      CreateActivation, BeginQuery, RenewQueryLease, EndQuery, IssuePreflight, ApplyPreflight, StartJob, Publish, Refresh,
      RetireRelease, PlaceHold, AddHistoricalReference, CompleteJob, ReleaseHold, Pin, Unpin, RegisterCapacityApproval
  <2>5. PICK at \in 0..MaxTime : /\ at <= now
                                 /\ \A x \in Generations :
                                      generations'[x].state = "READY" <=>
                                        generations[x].state = "READY" /\ x \in Protected(at).generations
    BY <1>1, <2>4, Collected
  <2>6. g \notin Protected(at).generations
    BY <2>5
  <2>7. ~OnDuty(heads, g)
    <3> SUFFICES ASSUME NEW r \in Releases, heads[r] # None, NEW m \in DOMAIN Members(heads[r]),
                        Members(heads[r])[m].generation = g
                 PROVE  g \in Protected(at).generations
      BY <2>6 DEF OnDuty
    <3>1. heads[r] \in Protected(at).activations
      BY <1>1, RootsHold, ProtectedHolds DEF Within
    <3> QED BY <3>1, ProtectedHolds DEF Closed
  <2>8. ~Recent(Later(generations[g].created, generations[g].last), at)
    <3>1. g \notin Kept(generations, at)
      BY <2>6, ProtectedHolds
    <3> QED BY <1>1, <3>1 DEF Kept, IInv, TypeOK
  <2>9. served[g] <= generations[g].last
    BY <1>1, <2>7 DEF IInv, ServedDated
  <2>10. /\ served[g] \in Nat /\ generations[g].last \in Nat /\ generations[g].created \in Nat
         /\ now \in Nat /\ at \in Nat /\ Retention \in Nat
    BY <1>1, Numbers DEF IInv, TypeOK, HistoryTypes, GenerationRecord, Lapsed
  <2> QED BY <2>5, <2>8, <2>9, <2>10 DEF Recent, Later
<1> QED BY <1>1, Invariance, PTL DEF Spec
=============================================================================
