--------------------------- MODULE ControlProofs ---------------------------
(***************************************************************************)
(* Proofs about the control plane of a project, for any catalogue,         *)
(* callers and transactions:                                               *)
(*   - MetadataRelease: channels, releases and packages;                   *)
(*   - ControlLocks (Lk): the locks under which they are published;        *)
(*   - CutoverRequests (Cr): what callers are told about a cutover is one  *)
(*     result, its effects happen once, and they happen to what was active *)
(*     when it was prepared;                                               *)
(*   - Outbox (Ob), for any events, streams, workers and policy: one open  *)
(*     attempt per event in flight, streams that are delivered and applied *)
(*     in their order, nothing delivered that was not applied, and workers *)
(*     that are fenced by their lease;                                     *)
(*   - ResourceRevision (Rr): revisions past draft refer to settled ones   *)
(*     and never change, no update is lost, and roles change only by whom  *)
(*     they still permit.                                                  *)
(***************************************************************************)
EXTENDS MetadataRelease, Integers, FiniteSetTheorems, TLAPS

CONSTANTS Transactions, MaxRuns                                     \* ControlLocks
VARIABLES held, pc, sawOwner, isOwner, runs

CONSTANTS Callers, Groups, NVersions, MaxSends, MaxRevision, None   \* CutoverRequests
VARIABLES control, state, inventory, active, published, preps, lock, caller, sends,
          answers, effects

CONSTANTS Events, Workers, Commits, EventOf, Digests,               \* Outbox
  MaximumAttempts, InitialBackoff, MaximumBackoff, LeaseDuration, MaxReplays
VARIABLES events, attempts, transactions, holding, sent, acked, applied

CONSTANTS Principals, Owner, FamilyOf, Tags, BadTags, Ops, Roles,   \* ResourceRevision
  MaxRevisions, MaxEtag, MaxEpoch
VARIABLES project, epoch, role, rev, seen, call

Lk == INSTANCE ControlLocks
Cr == INSTANCE CutoverRequests
Ob == INSTANCE Outbox WITH Transactions <- Commits
Rr == INSTANCE ResourceRevision

-----------------------------------------------------------------------------
(* Releases and packages. *)

RevStates == Reusable \cup {"absent", "archived"}
ResStates == {"active", "deprecated", "archived"}
ChangeStates == {"pending", "active", "superseded"}
Heads == [rel : Nat \cup {NULL}, seq : Nat]
Installations == [rev : PackageRevs \cup {NULL}, rel : Nat \cup {NULL}]
Facts == UNION {[S -> RevStates \X ResStates] : S \in SUBSET Revisions}
Contexts == [pub : Nat, chan : Heads, facts : Facts,
             pkg : SUBSET (Nat \X ChangeStates \X Installations)]
Releases == [state : ReleaseStates, channel : Channels, pins : SUBSET Revisions,
             staged : Contexts \cup {NULL}]
Changes == [pkg : Packages, op : {"install", "upgrade", "rollback"}, target : PackageRevs,
            rel : Nat, key : Keys, prev : PackageRevs \cup {NULL}, prevRel : Nat \cup {NULL},
            state : ChangeStates]

\* What is assumed of the catalogue; NULL is nothing else.
ReleaseAssumption == CatalogueAssumption /\ NULL \notin Contexts

Served(r) == release[r].state \in {"published", "superseded"}

Types ==
  /\ resState \in [Resources -> ResStates]
  /\ revState \in [Revisions -> RevStates]
  /\ latest \in [Resources -> Revisions \cup {NULL}]
  /\ release \in Seq(Releases)
  /\ channel \in [Channels -> Heads]
  /\ pubSeq \in Nat
  /\ inst \in [Packages -> Installations]
  /\ changes \in Seq(Changes)

\* Releases have pins, and once they are staged the context they were staged in.
Sealing ==
  \A r \in 1..Len(release) :
    release[r].pins # {} /\ (release[r].staged = NULL <=> release[r].state = "draft")

\* The head of a channel is a release of that channel.
Headed ==
  \A c \in Channels : channel[c].rel # NULL =>
    channel[c].rel \in 1..Len(release) /\ release[channel[c].rel].channel = c

Serving ==
  \A r \in 1..Len(release) :
    release[r].state = "published" <=> channel[release[r].channel].rel = r

\* What has been published was staged from an earlier head of its channel, and
\* no two of one channel from the same.
FromEarlierHeads ==
  /\ \A r \in 1..Len(release) :
       Served(r) => release[r].staged.chan.seq < channel[release[r].channel].seq
  /\ \A r, s \in 1..Len(release) :
       r # s /\ release[r].channel = release[s].channel /\ Served(r) /\ Served(s)
         => release[r].staged.chan.seq # release[s].staged.chan.seq

ReleaseInv == Sealing /\ Headed /\ Serving /\ FromEarlierHeads

\* The release of a change holds the entries of its target.
ChangesPinned ==
  \A i \in 1..Len(changes) :
    /\ changes[i].rel \in 1..Len(release)
    /\ Entries[changes[i].target] \subseteq release[changes[i].rel].pins

OnePending ==
  \A i, j \in 1..Len(changes) :
    changes[i].pkg = changes[j].pkg /\ changes[i].state = "pending" /\ changes[j].state = "pending"
      => i = j

\* An installation is where its only active change has brought it.
ActiveInstalled ==
  /\ \A p \in Packages :
       /\ inst[p].rev = NULL <=> inst[p].rel = NULL
       /\ inst[p].rev # NULL =>
            \E i \in 1..Len(changes) : changes[i].pkg = p /\ changes[i].state = "active"
  /\ \A i \in 1..Len(changes) : changes[i].state = "active" =>
       /\ inst[changes[i].pkg] = [rev |-> changes[i].target, rel |-> changes[i].rel]
       /\ Served(changes[i].rel)

\* A package holds the entries of its active revision and of its pending one.
Holds(x, v) ==
  \/ inst[x].rev # NULL /\ v \in Entries[inst[x].rev]
  \/ \E i \in 1..Len(changes) :
       changes[i].pkg = x /\ changes[i].state = "pending" /\ v \in Entries[changes[i].target]

HoldApart ==
  \A p, q \in Packages : p # q =>
    \A v, w \in Revisions : Holds(p, v) /\ Holds(q, w) => ResourceOf[v] # ResourceOf[w]

PackageInv == ChangesPinned /\ OnePending /\ ActiveInstalled /\ HoldApart

IInv == Types /\ ReleaseInv /\ PackageInv

-----------------------------------------------------------------------------
(* Sequences. *)

LEMMA FunctionIsSeq ==
  ASSUME NEW S, NEW n \in Nat, NEW f \in [1..n -> S]
  PROVE  f \in Seq(S) /\ Len(f) = n
OBVIOUS

LEMMA AppendFacts ==
  ASSUME NEW S, NEW s \in Seq(S), NEW e \in S, NEW t, t = Append(s, e)
  PROVE  /\ t \in Seq(S) /\ Len(s) \in Nat /\ Len(t) = Len(s) + 1 /\ t[Len(s) + 1] = e
         /\ \A i \in 1..Len(s) : t[i] = s[i] /\ i \in 1..Len(t)
         /\ \A i \in 1..Len(t) : i \in 1..Len(s) \/ i = Len(s) + 1
OBVIOUS

LEMMA TypeFacts ==
  ASSUME Types
  PROVE  /\ \A r \in 1..Len(release) : release[r] \in Releases
         /\ \A i \in 1..Len(changes) : changes[i] \in Changes
         /\ \A c \in Channels : channel[c] \in Heads
         /\ \A p \in Packages : inst[p] \in Installations
         /\ Len(release) \in Nat /\ Len(changes) \in Nat
BY DEF Types

\* What a release's context covers has the shape of a context.
LEMMA ContextTyped ==
  ASSUME ReleaseAssumption, Types, NEW r \in 1..Len(release)
  PROVE  Context(r) \in Contexts
<1>1. release[r] \in Releases /\ release[r].channel \in Channels /\ release[r].pins \subseteq Revisions
  BY TypeFacts DEF Releases
<1>2. channel[release[r].channel] \in Heads /\ pubSeq \in Nat
  BY <1>1, TypeFacts DEF Types
<1>3. [v \in release[r].pins |-> <<revState[v], resState[ResourceOf[v]]>>] \in Facts
  <2>1. \A v \in release[r].pins :
           <<revState[v], resState[ResourceOf[v]]>> \in RevStates \X ResStates
    BY <1>1 DEF Types, ReleaseAssumption, CatalogueAssumption
  <2>2. [v \in release[r].pins |-> <<revState[v], resState[ResourceOf[v]]>>]
          \in [release[r].pins -> RevStates \X ResStates]
    BY <2>1
  <2> QED BY <2>2, <1>1 DEF Facts
<1>4. {<<i, changes[i].state, inst[changes[i].pkg]>> : i \in ChangesOf(r)}
        \in SUBSET (Nat \X ChangeStates \X Installations)
  <2>1. \A i \in ChangesOf(r) : changes[i] \in Changes /\ i \in Nat
    BY TypeFacts DEF ChangesOf
  <2>2. \A i \in ChangesOf(r) : changes[i].state \in ChangeStates /\ inst[changes[i].pkg] \in Installations
    BY <2>1, TypeFacts DEF Changes
  <2> QED BY <2>1, <2>2
<1> QED BY <1>2, <1>3, <1>4 DEF Context, Contexts

-----------------------------------------------------------------------------
(* Drafts and stagings: no head moves. *)

\* Releases are added and go on, their pins stay and none stops being served.
Grows ==
  \A r \in 1..Len(release) :
    /\ r \in 1..Len(release') /\ release'[r].pins = release[r].pins
    /\ Served(r) => release'[r].state \in {"published", "superseded"}

LEMMA DraftKeeps ==
  ASSUME ReleaseAssumption, Types, ReleaseInv, NEW c \in Channels, NEW vs \in SUBSET Revisions,
         vs # {}, release' = Append(release, NewDraft(c, vs)), channel' = channel
  PROVE  /\ release' \in Seq(Releases) /\ ReleaseInv' /\ Grows
         /\ Len(release') = Len(release) + 1 /\ release'[Len(release) + 1] = NewDraft(c, vs)
<1>1. PICK d : d = NewDraft(c, vs)
  OBVIOUS
<1>2. d \in Releases /\ d.state = "draft" /\ d.channel = c /\ d.pins = vs /\ d.staged = NULL
  BY <1>1 DEF NewDraft, Releases, ReleaseStates
<1>3. PICK n : n = Len(release)
  OBVIOUS
<1>4. /\ release' \in Seq(Releases) /\ n \in Nat /\ Len(release') = n + 1 /\ release'[n + 1] = d
      /\ \A i \in 1..n : release'[i] = release[i] /\ i \in 1..(n + 1)
      /\ \A i \in 1..(n + 1) : i \in 1..n \/ i = n + 1
  BY <1>1, <1>2, <1>3, AppendFacts DEF Types
<1>5. Sealing'
  BY <1>2, <1>3, <1>4 DEF ReleaseInv, Sealing
<1>6. Headed'
  BY <1>3, <1>4 DEF ReleaseInv, Headed
<1>7. Serving'
  <2>1. channel[c].rel # n + 1
    BY <1>3, <1>4, TypeFacts DEF ReleaseInv, Headed, ReleaseAssumption, CatalogueAssumption, Heads
  <2> QED BY <1>2, <1>3, <1>4, <2>1 DEF ReleaseInv, Serving
<1>8. FromEarlierHeads'
  <2>1. \A i \in 1..(n + 1) : release'[i].state \in {"published", "superseded"} =>
           i \in 1..n /\ release'[i] = release[i]
    BY <1>2, <1>4
  <2> QED BY <1>3, <1>4, <2>1 DEF ReleaseInv, FromEarlierHeads, Served
<1>9. Grows
  BY <1>3, <1>4 DEF Grows, Served
<1> QED BY <1>1, <1>3, <1>4, <1>5, <1>6, <1>7, <1>8, <1>9 DEF ReleaseInv

LEMMA StageKeeps ==
  ASSUME ReleaseAssumption, Types, ReleaseInv, NEW r \in 1..Len(release), Stage(r)
  PROVE  release' \in Seq(Releases) /\ ReleaseInv' /\ Grows
<1>1. PICK st \in {"ready", "staging"} :
         release' = [release EXCEPT ![r] = [Sealed(r) EXCEPT !.state = st]]
  BY DEF Stage
<1>2. release[r].state \in {"draft", "staging"} /\ channel' = channel
  BY DEF Stage
<1>3. release[r] \in Releases /\ Context(r) \in Contexts /\ Context(r) # NULL
  BY TypeFacts, ContextTyped DEF ReleaseAssumption, CatalogueAssumption
<1>4. PICK e : e = [Sealed(r) EXCEPT !.state = st]
  OBVIOUS
<1>5. /\ e \in Releases /\ e.state = st /\ e.channel = release[r].channel
      /\ e.pins = release[r].pins /\ e.staged # NULL
  BY <1>3, <1>4 DEF Sealed, Releases, ReleaseStates
<1>6. PICK n \in Nat : n = Len(release)
  BY TypeFacts
<1>7. /\ release' \in [1..n -> Releases] /\ release'[r] = e
      /\ \A k \in 1..n : k # r => release'[k] = release[k]
  BY <1>1, <1>4, <1>5, <1>6 DEF Types
<1>8. release' \in Seq(Releases) /\ Len(release') = n
  BY <1>6, <1>7, FunctionIsSeq
<1>9. \A k \in 1..n : /\ release'[k].channel = release[k].channel /\ release'[k].pins = release[k].pins
                      /\ (release'[k].state = "published" <=> release[k].state = "published")
  BY <1>2, <1>5, <1>7
<1>10. \A k \in 1..n : release'[k].state \in {"published", "superseded"} =>
          k # r /\ release'[k] = release[k]
  BY <1>5, <1>7
<1>11. Sealing'
  BY <1>5, <1>6, <1>7, <1>8, <1>9 DEF ReleaseInv, Sealing
<1>12. Headed'
  BY <1>2, <1>6, <1>8, <1>9 DEF ReleaseInv, Headed
<1>13. Serving'
  BY <1>2, <1>6, <1>8, <1>9 DEF ReleaseInv, Serving
<1>14. FromEarlierHeads'
  BY <1>2, <1>6, <1>8, <1>10 DEF ReleaseInv, FromEarlierHeads, Served
<1>15. Grows
  BY <1>2, <1>6, <1>7, <1>8, <1>9 DEF Grows, Served
<1> QED BY <1>8, <1>11, <1>12, <1>13, <1>14, <1>15 DEF ReleaseInv

-----------------------------------------------------------------------------
(* A publication moves one head, from where the release was staged. *)

LEMMA PublishReleases ==
  ASSUME ReleaseAssumption, Types, ReleaseInv, NEW r \in 1..Len(release), Publish(r)
  PROVE  /\ release' \in Seq(Releases) /\ channel' \in [Channels -> Heads]
         /\ ReleaseInv' /\ Grows /\ release'[r].state = "published"
<1>1. PICK c \in Channels : c = release[r].channel
  BY TypeFacts DEF Releases
<1>2. PICK old : old = channel[c].rel
  OBVIOUS
<1>3. PICK n \in Nat : n = Len(release)
  BY TypeFacts
<1>4. /\ release[r].state = "ready" /\ channel[c] = release[r].staged.chan
      /\ channel' = [channel EXCEPT ![c] = [rel |-> r, seq |-> @.seq + 1]]
      /\ release' = Supersede(r)
  BY <1>1 DEF Publish, Current
<1>5. PICK m \in Nat : m = channel[c].seq
  BY TypeFacts DEF Heads
<1>6. /\ channel'[c] = [rel |-> r, seq |-> m + 1]
      /\ \A d \in Channels : d # c => channel'[d] = channel[d]
  BY <1>4, <1>5 DEF Types
<1>7. channel' \in [Channels -> Heads]
  <2>1. [rel |-> r, seq |-> m + 1] \in Heads
    BY DEF Heads
  <2>2. channel' = [channel EXCEPT ![c] = [rel |-> r, seq |-> m + 1]]
    BY <1>4, <1>5 DEF Types
  <2> QED BY <2>1, <2>2 DEF Types
<1>8. release' = [k \in 1..n |->
                    IF k = r THEN [release[k] EXCEPT !.state = "published"]
                    ELSE IF k = old THEN [release[k] EXCEPT !.state = "superseded"]
                    ELSE release[k]]
  BY <1>1, <1>2, <1>3, <1>4 DEF Supersede, Types
<1>9. \A k \in 1..n : /\ release'[k] \in Releases
                      /\ release'[k].channel = release[k].channel
                      /\ release'[k].pins = release[k].pins
                      /\ release'[k].staged = release[k].staged
                      /\ release'[k].state =
                           IF k = r THEN "published"
                           ELSE IF k = old THEN "superseded" ELSE release[k].state
  <2> TAKE k \in 1..n
  <2>1. release[k] \in Releases
    BY <1>3, TypeFacts
  <2> QED BY <1>8, <2>1 DEF Releases, ReleaseStates
<1>10. release' \in Seq(Releases) /\ Len(release') = n
  <2>1. release' \in [1..n -> Releases]
    BY <1>8, <1>9
  <2> QED BY <2>1, FunctionIsSeq
<1>11. old # NULL => old \in 1..n /\ release[old].channel = c /\ release[old].state = "published"
  BY <1>2, <1>3 DEF ReleaseInv, Headed, Serving
<1>12. \A k \in 1..n : k = old => release[k].state = "published" /\ release[k].channel = c
  BY <1>11 DEF ReleaseAssumption, CatalogueAssumption
<1>13. Sealing'
  <2>1. \A k \in 1..n : (release[k].state = "draft") <=> (release'[k].state = "draft")
    BY <1>4, <1>9, <1>12
  <2> QED BY <2>1, <1>3, <1>9, <1>10 DEF ReleaseInv, Sealing
<1>14. Headed'
  <2> SUFFICES ASSUME NEW d \in Channels, channel'[d].rel # NULL
               PROVE  channel'[d].rel \in 1..n /\ release'[channel'[d].rel].channel = d
    BY <1>10 DEF Headed
  <2>1. CASE d = c
    BY <2>1, <1>1, <1>3, <1>6, <1>9
  <2>2. CASE d # c
    BY <2>2, <1>3, <1>6, <1>9 DEF ReleaseInv, Headed
  <2> QED BY <2>1, <2>2
<1>15. Serving'
  <2> SUFFICES ASSUME NEW k \in 1..n
               PROVE  release'[k].state = "published" <=> channel'[release'[k].channel].rel = k
    BY <1>10 DEF Serving
  <2>0. release[k].channel \in Channels
    BY <1>3, TypeFacts DEF Releases
  <2>1. CASE k = r
    BY <2>1, <1>1, <1>6, <1>9
  <2>2. CASE k # r /\ k = old
    BY <2>2, <1>6, <1>9, <1>12
  <2>3. CASE k # r /\ k # old /\ release[k].channel = c
    BY <2>3, <1>2, <1>3, <1>6, <1>9 DEF ReleaseInv, Serving
  <2>4. CASE k # r /\ k # old /\ release[k].channel # c
    BY <2>0, <2>4, <1>3, <1>6, <1>9 DEF ReleaseInv, Serving
  <2> QED BY <2>1, <2>2, <2>3, <2>4
<1>16. \A k \in 1..n : k # r /\ release'[k].state \in {"published", "superseded"} => Served(k)
  BY <1>9, <1>12 DEF Served
<1>17. \A k \in 1..n : k # r /\ release'[k].state \in {"published", "superseded"} =>
          release'[k].staged.chan.seq \in Nat
  <2> TAKE k \in 1..n
  <2> HAVE k # r /\ release'[k].state \in {"published", "superseded"}
  <2>1. release[k].staged # NULL
    BY <1>3, <1>16 DEF Served, ReleaseInv, Sealing
  <2>2. release[k].staged \in Contexts
    BY <1>3, <2>1, TypeFacts DEF Releases
  <2> QED BY <2>2, <1>9 DEF Contexts, Heads
<1>18. release'[r].staged.chan.seq = m
  BY <1>3, <1>4, <1>5, <1>9
<1>19. FromEarlierHeads'
  <2>1. \A k \in 1..n : k # r /\ release'[k].state \in {"published", "superseded"} =>
           /\ release'[k].staged.chan.seq < channel[release[k].channel].seq
           /\ release[k].channel \in Channels
    BY <1>3, <1>9, <1>16, TypeFacts DEF ReleaseInv, FromEarlierHeads, Releases
  <2>2. \A k \in 1..n : release'[k].state \in {"published", "superseded"} =>
           release'[k].staged.chan.seq < channel'[release'[k].channel].seq
    <3> TAKE k \in 1..n
    <3> HAVE release'[k].state \in {"published", "superseded"}
    <3>1. CASE k = r
      BY <3>1, <1>1, <1>6, <1>9, <1>18
    <3>2. CASE k # r /\ release[k].channel = c
      <4>1. release'[k].staged.chan.seq < m /\ release'[k].staged.chan.seq \in Nat
        BY <3>2, <2>1, <1>5, <1>17
      <4>2. channel'[release'[k].channel].seq = m + 1
        BY <3>2, <1>6, <1>9
      <4> QED BY <4>1, <4>2
    <3>3. CASE k # r /\ release[k].channel # c
      BY <3>3, <2>1, <1>6, <1>9
    <3> QED BY <3>1, <3>2, <3>3
  <2>3. ASSUME NEW k \in 1..n, NEW s \in 1..n, k # s, release'[k].channel = release'[s].channel,
               release'[k].state \in {"published", "superseded"},
               release'[s].state \in {"published", "superseded"}
        PROVE  release'[k].staged.chan.seq # release'[s].staged.chan.seq
    <3>1. CASE k = r
      <4>1. release'[s].staged.chan.seq < m
        BY <2>1, <2>3, <3>1, <1>1, <1>5, <1>9
      <4> QED BY <2>3, <3>1, <4>1, <1>17, <1>18
    <3>2. CASE s = r
      <4>1. release'[k].staged.chan.seq < m
        BY <2>1, <2>3, <3>2, <1>1, <1>5, <1>9
      <4> QED BY <2>3, <3>2, <4>1, <1>17, <1>18
    <3>3. CASE k # r /\ s # r
      BY <2>3, <3>3, <1>3, <1>9, <1>16 DEF ReleaseInv, FromEarlierHeads
    <3> QED BY <3>1, <3>2, <3>3
  <2> QED BY <2>2, <2>3, <1>10 DEF FromEarlierHeads, Served
<1>20. Grows
  BY <1>3, <1>9, <1>10 DEF Grows, Served
<1> QED BY <1>7, <1>9, <1>10, <1>13, <1>14, <1>15, <1>19, <1>20, <1>3 DEF ReleaseInv

-----------------------------------------------------------------------------
(* Packages. *)

LEMMA PackagesUntouched ==
  ASSUME PackageInv, Grows, inst' = inst, changes' = changes
  PROVE  PackageInv'
<1>1. ChangesPinned'
  BY DEF PackageInv, ChangesPinned, Grows
<1>2. OnePending'
  BY DEF PackageInv, OnePending
<1>3. ActiveInstalled'
  BY DEF PackageInv, ActiveInstalled, ChangesPinned, Grows, Served
<1>4. HoldApart'
  BY DEF PackageInv, HoldApart, Holds
<1> QED BY <1>1, <1>2, <1>3, <1>4 DEF PackageInv

LEMMA EntriesTyped ==
  ASSUME ReleaseAssumption, Types
  PROVE  /\ \A t \in PackageRevs : Entries[t] \subseteq Revisions /\ PackageOf[t] \in Packages
         /\ \A p \in Packages : inst[p].rev # NULL => inst[p].rev \in PackageRevs
         /\ \A i \in 1..Len(changes) :
              changes[i].target \in PackageRevs /\ changes[i].pkg \in Packages
BY TypeFacts DEF ReleaseAssumption, CatalogueAssumption, Installations, Changes

\* A published release that belongs to a change brings its package to it.
LEMMA PublishPackages ==
  ASSUME ReleaseAssumption, Types, PackageInv, NEW r \in 1..Len(release), Publish(r), Grows,
         release'[r].state = "published"
  PROVE  inst' \in [Packages -> Installations] /\ changes' \in Seq(Changes) /\ PackageInv'
<1>1. CASE ChangesOf(r) = {}
  BY <1>1, PackagesUntouched DEF Publish, Types
<1>2. CASE ChangesOf(r) # {}
  <2>1. PICK i \in ChangesOf(r) : /\ inst' = [inst EXCEPT ![changes[i].pkg] =
                                                [rev |-> changes[i].target, rel |-> r]]
                                  /\ changes' = Activate(i)
    BY <1>2 DEF Publish
  <2>2. PICK n \in Nat : n = Len(changes)
    BY TypeFacts
  <2>3. i \in 1..n /\ changes[i].rel = r /\ changes[i].state = "pending"
        /\ inst[changes[i].pkg] = [rev |-> changes[i].prev, rel |-> changes[i].prevRel]
    BY <2>2 DEF ChangesOf, Publish, PackageReady
  <2>4. PICK p \in Packages : p = changes[i].pkg
    BY <2>2, <2>3, EntriesTyped
  <2>5. PICK t \in PackageRevs : t = changes[i].target
    BY <2>2, <2>3, EntriesTyped
  <2>6. /\ inst' \in [Packages -> Installations] /\ inst'[p] = [rev |-> t, rel |-> r]
        /\ \A q \in Packages : q # p => inst'[q] = inst[q]
    <3>1. [rev |-> t, rel |-> r] \in Installations
      BY TypeFacts DEF Installations
    <3> QED BY <2>1, <2>4, <2>5, <3>1 DEF Types
  <2>7. changes' = [k \in 1..n |->
           IF k = i THEN [changes[k] EXCEPT !.state = "active"]
           ELSE IF /\ changes[k].pkg = p /\ changes[k].state = "active"
                   /\ changes[k].target = changes[i].prev /\ changes[k].rel = changes[i].prevRel
                THEN [changes[k] EXCEPT !.state = "superseded"] ELSE changes[k]]
    BY <2>1, <2>2, <2>4 DEF Activate, Types
  <2>8. \A k \in 1..n : /\ changes'[k] \in Changes
                        /\ changes'[k].pkg = changes[k].pkg
                        /\ changes'[k].target = changes[k].target
                        /\ changes'[k].rel = changes[k].rel
    <3> TAKE k \in 1..n
    <3>1. changes[k] \in Changes
      BY <2>2, TypeFacts
    <3> QED BY <2>7, <3>1 DEF Changes, ChangeStates
  <2>9. changes'[i].state = "active"
    BY <2>2, <2>3, <2>7, TypeFacts DEF Changes
  <2>10. changes' \in Seq(Changes) /\ Len(changes') = n
    <3>1. changes' \in [1..n -> Changes]
      BY <2>7, <2>8
    <3> QED BY <3>1, FunctionIsSeq
  <2>11. \A k \in 1..n : changes'[k].state = "pending" => k # i /\ changes[k].state = "pending"
    <3> TAKE k \in 1..n
    <3>1. changes[k] \in Changes
      BY <2>2, TypeFacts
    <3> QED BY <2>7, <2>9, <3>1 DEF Changes
  <2>12. \A k \in 1..n : changes'[k].state = "active" /\ k # i =>
           changes[k].state = "active" /\ changes[k].pkg # p
    <3> TAKE k \in 1..n
    <3> HAVE changes'[k].state = "active" /\ k # i
    <3>1. changes[k] \in Changes
      BY <2>2, TypeFacts
    <3>2. changes[k].state = "active"
      BY <2>7, <3>1 DEF Changes
    <3>3. ASSUME changes[k].pkg = p PROVE FALSE
      <4>1. inst[p] = [rev |-> changes[k].target, rel |-> changes[k].rel]
        BY <2>2, <3>2, <3>3 DEF PackageInv, ActiveInstalled
      <4>2. changes[k].target = changes[i].prev /\ changes[k].rel = changes[i].prevRel
        BY <2>3, <2>4, <4>1
      <4>3. changes'[k].state = "superseded"
        BY <2>7, <3>1, <3>2, <3>3, <4>2 DEF Changes
      <4> QED BY <4>3
    <3> QED BY <3>2, <3>3
  <2>13. \A k \in 1..n : changes[k].pkg # p => changes'[k] = changes[k]
    <3> SUFFICES ASSUME NEW k \in 1..n, changes[k].pkg # p
                 PROVE  changes'[k] = changes[k]
      OBVIOUS
    <3>1. k # i
      BY <2>4
    <3> QED BY <2>7, <3>1
  <2>14. ChangesPinned'
    <3>1. ASSUME NEW k \in 1..n
          PROVE  /\ changes'[k].rel \in 1..Len(release')
                 /\ Entries[changes'[k].target] \subseteq release'[changes'[k].rel].pins
      <4>1. PICK m, e : m = changes[k].rel /\ e = changes[k].target
        OBVIOUS
      <4>2. changes'[k].rel = m /\ changes'[k].target = e
        BY <2>8, <4>1
      <4>3. m \in 1..Len(release) /\ Entries[e] \subseteq release[m].pins
        BY <2>2, <4>1 DEF PackageInv, ChangesPinned
      <4>4. m \in 1..Len(release') /\ release'[m].pins = release[m].pins
        BY <4>3 DEF Grows
      <4> QED BY <4>2, <4>3, <4>4
    <3> QED BY <2>10, <3>1 DEF ChangesPinned
  <2>15. OnePending'
    BY <2>2, <2>8, <2>10, <2>11 DEF PackageInv, OnePending
  <2>16. ActiveInstalled'
    <3>1. ASSUME NEW q \in Packages
          PROVE  /\ inst'[q].rev = NULL <=> inst'[q].rel = NULL
                 /\ inst'[q].rev # NULL =>
                      \E k \in 1..n : changes'[k].pkg = q /\ changes'[k].state = "active"
      <4>1. CASE q = p
        BY <4>1, <2>3, <2>4, <2>6, <2>8, <2>9 DEF ReleaseAssumption, CatalogueAssumption
      <4>2. CASE q # p
        BY <4>2, <2>2, <2>6, <2>13 DEF PackageInv, ActiveInstalled
      <4> QED BY <4>1, <4>2
    <3>2. ASSUME NEW k \in 1..n, changes'[k].state = "active"
          PROVE  /\ inst'[changes'[k].pkg] = [rev |-> changes'[k].target, rel |-> changes'[k].rel]
                 /\ release'[changes'[k].rel].state \in {"published", "superseded"}
      <4>1. CASE k = i
        BY <4>1, <2>3, <2>4, <2>5, <2>6, <2>8
      <4>2. CASE k # i
        <5>1. changes[k].state = "active" /\ changes[k].pkg # p /\ changes[k].pkg \in Packages
          BY <4>2, <3>2, <2>2, <2>12, EntriesTyped
        <5>2. inst[changes[k].pkg] = [rev |-> changes[k].target, rel |-> changes[k].rel]
              /\ Served(changes[k].rel) /\ changes[k].rel \in 1..Len(release)
          BY <5>1, <2>2 DEF PackageInv, ActiveInstalled, ChangesPinned
        <5> QED BY <5>1, <5>2, <2>6, <2>8 DEF Grows
      <4> QED BY <4>1, <4>2
    <3> QED BY <3>1, <3>2, <2>10 DEF ActiveInstalled, Served
  <2>17. HoldApart'
    <3>1. ASSUME NEW q \in Packages, NEW v \in Revisions,
                 \/ inst'[q].rev # NULL /\ v \in Entries[inst'[q].rev]
                 \/ \E k \in 1..n : /\ changes'[k].pkg = q /\ changes'[k].state = "pending"
                                    /\ v \in Entries[changes'[k].target]
          PROVE  Holds(q, v)
      <4>1. CASE \E k \in 1..n : /\ changes'[k].pkg = q /\ changes'[k].state = "pending"
                                 /\ v \in Entries[changes'[k].target]
        BY <4>1, <2>2, <2>8, <2>11 DEF Holds
      <4>2. CASE q # p /\ inst'[q].rev # NULL /\ v \in Entries[inst'[q].rev]
        BY <4>2, <2>6 DEF Holds
      <4>3. CASE q = p /\ inst'[q].rev # NULL /\ v \in Entries[inst'[q].rev]
        BY <4>3, <2>2, <2>3, <2>4, <2>5, <2>6 DEF Holds
      <4> QED BY <3>1, <4>1, <4>2, <4>3
    <3>2. \A q \in Packages, v \in Revisions : Holds(q, v)' => Holds(q, v)
      BY <3>1, <2>10 DEF Holds
    <3> QED BY <3>2 DEF PackageInv, HoldApart
  <2> QED BY <2>6, <2>10, <2>14, <2>15, <2>16, <2>17 DEF PackageInv
<1> QED BY <1>1, <1>2

\* What a change takes hold of no other package has.
LEMMA PreparePackages ==
  ASSUME ReleaseAssumption, Types, PackageInv, Grows,
         NEW op \in {"install", "upgrade", "rollback"}, NEW t \in PackageRevs, NEW k \in Keys,
         NEW p \in Packages, p = PackageOf[t],
         MayPrepare(p, op, t), ~Collides(p, t),
         Len(release') = Len(release) + 1, Entries[t] \subseteq release'[Len(release) + 1].pins,
         inst' = inst,
         changes' = Append(changes,
           [pkg |-> p, op |-> op, target |-> t, rel |-> Len(release) + 1, key |-> k,
            prev |-> inst[p].rev, prevRel |-> inst[p].rel, state |-> "pending"])
  PROVE  changes' \in Seq(Changes) /\ PackageInv'
<1>1. PICK e : e = [pkg |-> p, op |-> op, target |-> t, rel |-> Len(release) + 1, key |-> k,
                    prev |-> inst[p].rev, prevRel |-> inst[p].rel, state |-> "pending"]
  OBVIOUS
<1>2. /\ e \in Changes /\ e.pkg = p /\ e.target = t /\ e.rel = Len(release) + 1
      /\ e.state = "pending"
  BY <1>1, TypeFacts DEF Changes, ChangeStates, Installations
<1>3. PICK n : n = Len(changes)
  OBVIOUS
<1>4. /\ changes' \in Seq(Changes) /\ n \in Nat /\ Len(changes') = n + 1 /\ changes'[n + 1] = e
      /\ \A i \in 1..n : changes'[i] = changes[i] /\ i \in 1..(n + 1)
      /\ \A i \in 1..(n + 1) : i \in 1..n \/ i = n + 1
  BY <1>1, <1>2, <1>3, AppendFacts DEF Types
<1>5. ChangesPinned'
  <2>1. Len(release) + 1 \in 1..Len(release')
    BY TypeFacts
  <2>2. \A i \in 1..n : /\ changes[i].rel \in 1..Len(release')
                        /\ Entries[changes[i].target] \subseteq release'[changes[i].rel].pins
    BY <1>3 DEF PackageInv, ChangesPinned, Grows
  <2> QED BY <2>1, <2>2, <1>2, <1>4 DEF ChangesPinned
<1>6. OnePending'
  <2>1. \A i \in 1..n : ~(changes[i].pkg = p /\ changes[i].state = "pending")
    BY <1>3 DEF MayPrepare, PendingOf
  <2> QED BY <2>1, <1>2, <1>3, <1>4 DEF PackageInv, OnePending
<1>7. ActiveInstalled'
  <2>1. \A q \in Packages :
          /\ inst[q].rev = NULL <=> inst[q].rel = NULL
          /\ inst[q].rev # NULL =>
               \E i \in 1..(n + 1) : changes'[i].pkg = q /\ changes'[i].state = "active"
    BY <1>3, <1>4 DEF PackageInv, ActiveInstalled
  <2>2. \A i \in 1..(n + 1) : changes'[i].state = "active" => i \in 1..n /\ changes'[i] = changes[i]
    BY <1>2, <1>4
  <2>3. \A i \in 1..n : Served(changes[i].rel) =>
          release'[changes[i].rel].state \in {"published", "superseded"}
    BY <1>3 DEF PackageInv, ChangesPinned, Grows
  <2> QED BY <2>1, <2>2, <2>3, <1>3, <1>4 DEF PackageInv, ActiveInstalled, Served
<1>8. HoldApart'
  <2>1. ASSUME NEW q \in Packages, q # p, NEW w \in Revisions, Holds(q, w), NEW v \in Entries[t]
        PROVE  ResourceOf[v] # ResourceOf[w]
    <3>1. w \in Owned(p)
      <4>1. CASE inst[q].rev # NULL /\ w \in Entries[inst[q].rev]
        BY <2>1, <4>1 DEF Owned
      <4>2. CASE \E i \in 1..Len(changes) :
                    changes[i].pkg = q /\ changes[i].state = "pending" /\ w \in Entries[changes[i].target]
        <5>1. PICK i \in PendingOf(q) : w \in Entries[changes[i].target]
          BY <4>2 DEF PendingOf
        <5>2. i \in UNION {PendingOf(u) : u \in Packages \ {p}}
          BY <2>1, <5>1
        <5>3. w \in UNION {Entries[changes[j].target] : j \in UNION {PendingOf(u) : u \in Packages \ {p}}}
          BY <5>1, <5>2
        <5> QED BY <5>3 DEF Owned
      <4> QED BY <2>1, <4>1, <4>2 DEF Holds
    <3> QED BY <2>1, <3>1 DEF Collides
  <2>2. ASSUME NEW q \in Packages, NEW v \in Revisions,
               \/ inst[q].rev # NULL /\ v \in Entries[inst[q].rev]
               \/ \E i \in 1..(n + 1) : /\ changes'[i].pkg = q /\ changes'[i].state = "pending"
                                        /\ v \in Entries[changes'[i].target]
        PROVE  Holds(q, v) \/ (q = p /\ v \in Entries[t])
    BY <2>2, <1>2, <1>3, <1>4 DEF Holds
  <2>3. \A q \in Packages, v \in Revisions :
          Holds(q, v)' => Holds(q, v) \/ (q = p /\ v \in Entries[t])
    BY <2>2, <1>4 DEF Holds
  <2> SUFFICES ASSUME NEW x \in Packages, NEW y \in Packages, x # y,
                      NEW v \in Revisions, NEW w \in Revisions, Holds(x, v)', Holds(y, w)'
               PROVE  ResourceOf[v] # ResourceOf[w]
    BY DEF HoldApart
  <2>4. CASE Holds(x, v) /\ Holds(y, w)
    BY <2>4 DEF PackageInv, HoldApart
  <2>5. CASE x = p /\ v \in Entries[t]
    BY <2>1, <2>3, <2>5
  <2>6. CASE y = p /\ w \in Entries[t]
    BY <2>1, <2>3, <2>6
  <2> QED BY <2>3, <2>4, <2>5, <2>6
<1> QED BY <1>4, <1>5, <1>6, <1>7, <1>8 DEF PackageInv

-----------------------------------------------------------------------------
(* The steps. *)

LEMMA PinsTyped ==
  ASSUME ReleaseAssumption, Types, ReleaseInv, NEW c \in Channels
  PROVE  Pins(channel[c].rel) \subseteq Revisions
<1>1. CASE channel[c].rel = NULL
  BY <1>1 DEF Pins
<1>2. CASE channel[c].rel # NULL
  <2>1. release[channel[c].rel] \in Releases
    BY <1>2, TypeFacts DEF ReleaseInv, Headed
  <2> QED BY <1>2, <2>1 DEF Pins, Releases
<1> QED BY <1>1, <1>2

LEMMA CreateKeeps ==
  ASSUME ReleaseAssumption, IInv, NEW c \in Channels, NEW vs \in SUBSET Revisions,
         CreateRelease(c, vs)
  PROVE  IInv'
<1>1. /\ vs # {} /\ release' = Append(release, NewDraft(c, vs))
      /\ UNCHANGED <<resState, revState, latest, channel, pubSeq, inst, changes>>
  BY DEF CreateRelease, Selected
<1>2. release' \in Seq(Releases) /\ ReleaseInv' /\ Grows
  BY <1>1, DraftKeeps DEF IInv
<1>3. PackageInv'
  BY <1>1, <1>2, PackagesUntouched DEF IInv
<1> QED BY <1>1, <1>2, <1>3 DEF IInv, Types

LEMMA RetireKeeps ==
  ASSUME IInv, resState' \in [Resources -> ResStates], revState' \in [Revisions -> RevStates],
         UNCHANGED <<latest, release, channel, pubSeq, inst, changes>>
  PROVE  IInv'
<1>1. Types'
  BY DEF IInv, Types
<1>2. ReleaseInv'
  BY DEF IInv, ReleaseInv, Sealing, Headed, Serving, FromEarlierHeads, Served
<1>3. PackageInv'
  BY PackagesUntouched DEF IInv, Grows, Served
<1> QED BY <1>1, <1>2, <1>3 DEF IInv

LEMMA PublishKeeps ==
  ASSUME ReleaseAssumption, IInv, NEW r \in 1..Len(release), Publish(r) PROVE IInv'
<1>1. /\ release' \in Seq(Releases) /\ channel' \in [Channels -> Heads]
      /\ ReleaseInv' /\ Grows /\ release'[r].state = "published"
  BY PublishReleases DEF IInv
<1>2. inst' \in [Packages -> Installations] /\ changes' \in Seq(Changes) /\ PackageInv'
  BY <1>1, PublishPackages DEF IInv
<1>3. pubSeq' = pubSeq + 1 /\ UNCHANGED <<resState, latest>>
  BY DEF Publish
<1>4. revState' \in [Revisions -> RevStates]
  BY DEF Publish, IInv, Types, RevStates, Reusable
<1> QED BY <1>1, <1>2, <1>3, <1>4 DEF IInv, Types

LEMMA PrepareKeeps ==
  ASSUME ReleaseAssumption, IInv, NEW op \in {"install", "upgrade", "rollback"},
         NEW t \in PackageRevs, NEW c \in Channels, NEW k \in Keys, WellFormed(t),
         Prepare(op, t, c, k)
  PROVE  IInv'
<1>1. PICK p \in Packages : p = PackageOf[t]
  BY DEF ReleaseAssumption, CatalogueAssumption
<1>2. PICK pins : pins = DraftPins(p, t, c)
  OBVIOUS
<1>3. pins \in SUBSET Revisions /\ pins # {} /\ Entries[t] \subseteq pins
  <2>1. Pins(channel[c].rel) \subseteq Revisions /\ Entries[t] \subseteq Revisions /\ Entries[t] # {}
    BY PinsTyped, EntriesTyped DEF IInv, WellFormed
  <2> QED BY <2>1, <1>2 DEF DraftPins
<1>4. /\ MayPrepare(p, op, t) /\ ~Collides(p, t)
      /\ release' = Append(release, NewDraft(c, pins))
      /\ changes' = Append(changes,
           [pkg |-> p, op |-> op, target |-> t, rel |-> Len(release) + 1, key |-> k,
            prev |-> inst[p].rev, prevRel |-> inst[p].rel, state |-> "pending"])
      /\ UNCHANGED <<resState, channel, pubSeq, inst>>
  BY <1>1, <1>2 DEF Prepare
<1>5. revState' \in [Revisions -> RevStates] /\ latest' \in [Resources -> Revisions \cup {NULL}]
  <2>1. revState' = [v \in Revisions |-> IF v \in Missing(t) THEN "validated" ELSE revState[v]]
    BY DEF Prepare
  <2>2. latest' = [x \in Resources |->
                     IF \E v \in Missing(t) : ResourceOf[v] = x
                     THEN CHOOSE v \in Missing(t) : ResourceOf[v] = x ELSE latest[x]]
    BY DEF Prepare
  <2>3. Missing(t) \subseteq Revisions
    BY EntriesTyped DEF Missing, IInv
  <2>4. revState' \in [Revisions -> RevStates]
    BY <2>1 DEF IInv, Types, RevStates, Reusable
  <2>5. \A x \in Resources : latest'[x] \in Revisions \cup {NULL}
    BY <2>2, <2>3 DEF IInv, Types
  <2> QED BY <2>2, <2>4, <2>5
<1>6. /\ release' \in Seq(Releases) /\ ReleaseInv' /\ Grows
      /\ Len(release') = Len(release) + 1 /\ release'[Len(release) + 1] = NewDraft(c, pins)
  BY <1>3, <1>4, DraftKeeps DEF IInv
<1>7. Entries[t] \subseteq release'[Len(release) + 1].pins
  BY <1>3, <1>6 DEF NewDraft
<1>8. changes' \in Seq(Changes) /\ PackageInv'
  BY <1>1, <1>4, <1>6, <1>7, PreparePackages DEF IInv
<1> QED BY <1>4, <1>5, <1>6, <1>8 DEF IInv, Types

LEMMA NextKeeps == ASSUME ReleaseAssumption, IInv, Next PROVE IInv'
<1>1. ASSUME NEW c \in Channels, NEW vs \in Selections, CreateRelease(c, vs) PROVE IInv'
  BY <1>1, CreateKeeps DEF ReleaseAssumption, CatalogueAssumption
<1>2. ASSUME NEW r \in 1..Len(release), CreateRollback(r) PROVE IInv'
  <2>1. release[r].channel \in Channels /\ release[r].pins \in SUBSET Revisions
    BY TypeFacts DEF IInv, Releases
  <2> QED BY <1>2, <2>1, CreateKeeps DEF CreateRollback
<1>3. ASSUME NEW r \in 1..Len(release), Stage(r) PROVE IInv'
  <2>1. release' \in Seq(Releases) /\ ReleaseInv' /\ Grows
    BY <1>3, StageKeeps DEF IInv
  <2>2. UNCHANGED <<resState, revState, latest, channel, pubSeq, inst, changes>>
    BY <1>3 DEF Stage
  <2>3. PackageInv'
    BY <2>1, <2>2, PackagesUntouched DEF IInv
  <2> QED BY <2>1, <2>2, <2>3 DEF IInv, Types
<1>4. ASSUME NEW r \in 1..Len(release), Publish(r) PROVE IInv'
  BY <1>4, PublishKeeps
<1>5. ASSUME NEW x, NEW s \in {"deprecated", "archived"}, SetResource(x, s) PROVE IInv'
  BY <1>5, RetireKeeps DEF SetResource, IInv, Types, ResStates
<1>6. ASSUME NEW v, NEW s \in {"deprecated", "archived"}, SetRevision(v, s) PROVE IInv'
  BY <1>6, RetireKeeps DEF SetRevision, IInv, Types, RevStates, Reusable
<1>7. ASSUME NEW op \in {"install", "upgrade", "rollback"}, NEW t \in PackageRevs,
             NEW c \in Channels, NEW k \in Keys, PackageRequest(op, t, c, k)
      PROVE  IInv'
  <2>1. CASE Prepare(op, t, c, k)
    BY <1>7, <2>1, PrepareKeeps DEF PackageRequest
  <2>2. CASE Repeat(PackageOf[t], op, t, c, k)
    BY <2>2, RetireKeeps DEF Repeat, IInv, Types
  <2> QED BY <1>7, <2>1, <2>2 DEF PackageRequest
<1> QED BY <1>1, <1>2, <1>3, <1>4, <1>5, <1>6, <1>7 DEF Next

LEMMA InitKeeps == ASSUME ReleaseAssumption, Init PROVE IInv
<1>1. /\ release = <<>> /\ changes = <<>> /\ pubSeq = 0
      /\ \A c \in Channels : channel[c] = NoChannel
      /\ \A p \in Packages : inst[p] = NoInstallation
  BY DEF Init
<1>2. Len(release) = 0 /\ Len(changes) = 0
  BY <1>1
<1>3. Types
  <2>1. release \in Seq(Releases) /\ changes \in Seq(Changes)
    BY <1>1
  <2>2. channel \in [Channels -> Heads]
    BY DEF Init, NoChannel, Heads
  <2>3. inst \in [Packages -> Installations]
    BY DEF Init, NoInstallation, Installations
  <2>4. resState \in [Resources -> ResStates] /\ revState \in [Revisions -> RevStates]
        /\ latest \in [Resources -> Revisions \cup {NULL}]
    BY DEF Init, ResStates, RevStates, Reusable
  <2> QED BY <1>1, <2>1, <2>2, <2>3, <2>4 DEF Types
<1>4. ReleaseInv
  BY <1>1, <1>2 DEF ReleaseInv, Sealing, Headed, Serving, FromEarlierHeads, NoChannel
<1>5. PackageInv
  BY <1>1, <1>2 DEF PackageInv, ChangesPinned, OnePending, ActiveInstalled, HoldApart, Holds,
                    NoInstallation
<1> QED BY <1>3, <1>4, <1>5 DEF IInv

\* Releases, channels and packages keep to the invariant in every transaction
\* of release.ts and package.ts.
THEOREM Invariance == ASSUME ReleaseAssumption PROVE Spec => []IInv
<1>1. Init => IInv
  BY InitKeeps
<1>2. ASSUME IInv, [Next]_vars PROVE IInv'
  <2>1. CASE Next
    BY <1>2, <2>1, NextKeeps
  <2>2. CASE UNCHANGED vars
    BY <1>2, <2>2, RetireKeeps DEF vars, IInv, Types
  <2> QED BY <1>2, <2>1, <2>2
<1> QED BY <1>1, <1>2, PTL DEF Spec

\* TypeOK: every record of a release, a channel, an installation or a change is
\* one that the tables of migrations 0003 and 0005 can hold.
THEOREM TypeCorrect == ASSUME ReleaseAssumption PROVE Spec => []TypeOK
<1>1. IInv => TypeOK
  <2> SUFFICES ASSUME IInv PROVE TypeOK
    OBVIOUS
  <2>1. DOMAIN release = 1..Len(release) /\ DOMAIN changes = 1..Len(changes)
    BY DEF IInv, Types
  <2>2. \A r \in DOMAIN release : /\ release[r].state \in ReleaseStates
                                  /\ release[r].channel \in Channels
                                  /\ release[r].pins \in (SUBSET Revisions) \ {{}}
                                  /\ release[r].staged = NULL <=> release[r].state = "draft"
    <3> TAKE r \in DOMAIN release
    <3>1. release[r] \in Releases
      BY <2>1, TypeFacts DEF IInv
    <3>2. release[r].pins # {} /\ (release[r].staged = NULL <=> release[r].state = "draft")
      BY <2>1 DEF IInv, ReleaseInv, Sealing
    <3>3. release[r].state \in ReleaseStates /\ release[r].channel \in Channels
          /\ release[r].pins \in SUBSET Revisions
      BY <3>1 DEF Releases
    <3> QED BY <3>2, <3>3
  <2>3. channel \in [Channels -> [rel : DOMAIN release \cup {NULL}, seq : Nat]]
    <3>1. \A c \in Channels : channel[c] \in [rel : DOMAIN release \cup {NULL}, seq : Nat]
      <4> TAKE c \in Channels
      <4>1. channel[c] \in Heads /\ channel[c].rel \in DOMAIN release \cup {NULL}
        BY <2>1, TypeFacts DEF IInv, ReleaseInv, Headed
      <4> QED BY <4>1 DEF Heads
    <3> QED BY <3>1 DEF IInv, Types
  <2>4. \A i \in DOMAIN changes : changes[i].state \in ChangeStates
    BY <2>1, TypeFacts DEF IInv, Changes
  <2> QED BY <2>2, <2>3, <2>4
          DEF TypeOK, IInv, Types, PackageInv, ActiveInstalled, ResStates, RevStates, ChangeStates
<1> QED BY <1>1, Invariance, PTL

\* A channel points to its published release, and of the releases staged from
\* one head at most one was ever published.
THEOREM ReleasesServeOnce ==
  ASSUME ReleaseAssumption PROVE Spec => [](ChannelServesPublished /\ OneFromEachHead)
<1>1. IInv => ChannelServesPublished /\ OneFromEachHead
  <2> SUFFICES ASSUME IInv PROVE ChannelServesPublished /\ OneFromEachHead
    OBVIOUS
  <2>1. DOMAIN release = 1..Len(release)
    BY DEF IInv, Types
  <2>2. ChannelServesPublished
    BY <2>1 DEF ChannelServesPublished, IInv, ReleaseInv, Serving
  <2>3. OneFromEachHead
    <3> SUFFICES ASSUME NEW r \in 1..Len(release), NEW s \in 1..Len(release),
                        r # s, release[r].channel = release[s].channel, Served(r), Served(s)
                 PROVE  release[r].staged.chan # release[s].staged.chan
      BY <2>1 DEF OneFromEachHead, Served
    <3>1. release[r].staged.chan.seq # release[s].staged.chan.seq
      BY DEF IInv, ReleaseInv, FromEarlierHeads
    <3> QED BY <3>1
  <2> QED BY <2>2, <2>3
<1> QED BY <1>1, Invariance, PTL

\* A publication loses no resource of its channel.
THEOREM NoPinIsLost == ASSUME ReleaseAssumption PROVE Spec => [][NoPinLost]_vars
<1>1. ASSUME IInv, Next PROVE NoPinLost
  <2> SUFFICES ASSUME NEW c \in Channels, channel'[c].rel # channel[c].rel
               PROVE  PinsCompatible(Pins(channel[c].rel), release'[channel'[c].rel].pins)
    BY DEF NoPinLost
  <2>1. PICK r \in 1..Len(release) : Publish(r)
    <3>1. channel' # channel
      OBVIOUS
    <3>2. CASE \/ \E d \in Channels, vs \in Selections : CreateRelease(d, vs)
               \/ \E r \in 1..Len(release) : CreateRollback(r) \/ Stage(r)
      BY <3>1, <3>2 DEF CreateRelease, CreateRollback, Stage
    <3>3. CASE \/ \E x \in Editable, s \in {"deprecated", "archived"} : SetResource(x, s)
               \/ \E v \in Revisions, s \in {"deprecated", "archived"} : SetRevision(v, s)
      BY <3>1, <3>3 DEF SetResource, SetRevision
    <3>4. CASE \E op \in {"install", "upgrade", "rollback"}, t \in PackageRevs,
                  d \in Channels, k \in Keys : PackageRequest(op, t, d, k)
      <4>1. PICK op \in {"install", "upgrade", "rollback"}, t \in PackageRevs,
                 d \in Channels, k \in Keys :
              Prepare(op, t, d, k) \/ Repeat(PackageOf[t], op, t, d, k)
        BY <3>4 DEF PackageRequest
      <4>2. CASE Prepare(op, t, d, k)
        BY <3>1, <4>2 DEF Prepare
      <4>3. CASE Repeat(PackageOf[t], op, t, d, k)
        BY <3>1, <4>3 DEF Repeat
      <4> QED BY <4>1, <4>2, <4>3
    <3> QED BY <1>1, <3>2, <3>3, <3>4 DEF Next
  <2>2. release[r].channel \in Channels /\ channel[release[r].channel] \in Heads
    BY <1>1, TypeFacts DEF IInv, Releases
  <2>3. channel' = [channel EXCEPT ![release[r].channel] = [rel |-> r, seq |-> @.seq + 1]]
    BY <2>1 DEF Publish
  <2>4. c = release[r].channel /\ channel'[c].rel = r
    BY <1>1, <2>2, <2>3 DEF IInv, Types
  <2>5. PinsCompatible(Pins(channel[c].rel), release[r].pins)
    BY <2>1, <2>4 DEF Publish, Gate
  <2>6. release'[r].pins = release[r].pins
    BY <1>1, <2>1, PublishReleases DEF IInv, Grows
  <2> QED BY <2>4, <2>5, <2>6
<1>2. IInv /\ [Next]_vars => [NoPinLost]_vars
  BY <1>1
<1> QED BY <1>2, Invariance, PTL DEF Spec

LEMMA AtMostOne ==
  ASSUME NEW S, \A x, y \in S : x = y
  PROVE  Cardinality(S) <= 1
<1>1. CASE S = {}
  BY <1>1, FS_EmptySet
<1>2. CASE S # {}
  <2>1. PICK x : x \in S
    BY <1>2
  <2>2. S = {x}
    BY <2>1
  <2> QED BY <2>2, FS_Singleton
<1> QED BY <1>1, <1>2

\* A package is where its one active change brought it, whole, and shares no
\* resource with another.
THEOREM PackagesWhole ==
  ASSUME ReleaseAssumption PROVE Spec => [](InstallationWhole /\ OwnershipDisjoint)
<1>1. ASSUME IInv PROVE InstallationWhole
  <2>1. DOMAIN changes = 1..Len(changes)
    BY <1>1 DEF IInv, Types
  <2>2. ASSUME NEW p \in Packages PROVE Cardinality(PendingOf(p)) <= 1
    <3>1. \A i, j \in PendingOf(p) : i = j
      BY <1>1 DEF IInv, PackageInv, OnePending, PendingOf
    <3> QED BY <3>1, AtMostOne
  <2>3. ASSUME NEW p \in Packages, NEW i \in 1..Len(changes), changes[i].pkg = p,
               changes[i].state = "active"
        PROVE  /\ inst[p] = [rev |-> changes[i].target, rel |-> changes[i].rel]
               /\ inst[p].rev # NULL
               /\ release[inst[p].rel].state \in {"published", "superseded"}
               /\ Entries[inst[p].rev] \subseteq release[inst[p].rel].pins
    <3>1. /\ inst[p] = [rev |-> changes[i].target, rel |-> changes[i].rel]
          /\ Served(changes[i].rel)
      BY <1>1, <2>3 DEF IInv, PackageInv, ActiveInstalled
    <3>2. changes[i].rel \in 1..Len(release)
          /\ Entries[changes[i].target] \subseteq release[changes[i].rel].pins
      BY <1>1 DEF IInv, PackageInv, ChangesPinned
    <3>3. changes[i].target # NULL
      BY <1>1, EntriesTyped DEF IInv, ReleaseAssumption, CatalogueAssumption
    <3> QED BY <3>1, <3>2, <3>3 DEF Served
  <2>4. \A p \in Packages : inst[p].rev # NULL =>
          \E i \in 1..Len(changes) : changes[i].pkg = p /\ changes[i].state = "active"
    BY <1>1 DEF IInv, PackageInv, ActiveInstalled
  <2> SUFFICES ASSUME NEW p \in Packages
               PROVE  LET current == {i \in DOMAIN changes :
                                       changes[i].pkg = p /\ changes[i].state = "active"}
                      IN  /\ Cardinality(PendingOf(p)) <= 1
                          /\ inst[p].rev = NULL => current = {}
                          /\ inst[p].rev # NULL =>
                               /\ current # {}
                               /\ \A i \in current :
                                    /\ inst[p] = [rev |-> changes[i].target, rel |-> changes[i].rel]
                                    /\ release[inst[p].rel].state \in {"published", "superseded"}
                                    /\ Entries[inst[p].rev] \subseteq release[inst[p].rel].pins
    BY DEF InstallationWhole
  <2> DEFINE current == {i \in DOMAIN changes :
                          changes[i].pkg = p /\ changes[i].state = "active"}
  <2>5. inst[p].rev = NULL => current = {}
    BY <2>1, <2>3
  <2>6. inst[p].rev # NULL => current # {}
    BY <2>1, <2>4
  <2>7. \A i \in current : /\ inst[p] = [rev |-> changes[i].target, rel |-> changes[i].rel]
                         /\ release[inst[p].rel].state \in {"published", "superseded"}
                         /\ Entries[inst[p].rev] \subseteq release[inst[p].rel].pins
    BY <2>1, <2>3
  <2> QED BY <2>2, <2>5, <2>6, <2>7
<1>2. ASSUME IInv PROVE OwnershipDisjoint
  <2> SUFFICES ASSUME NEW p \in Packages, NEW q \in Packages, p # q,
                      NEW v \in (IF inst[p].rev = NULL THEN {} ELSE Entries[inst[p].rev])
                                  \cup UNION {Entries[changes[i].target] : i \in PendingOf(p)},
                      NEW w \in (IF inst[q].rev = NULL THEN {} ELSE Entries[inst[q].rev])
                                  \cup UNION {Entries[changes[i].target] : i \in PendingOf(q)}
               PROVE  ResourceOf[v] # ResourceOf[w]
    BY DEF OwnershipDisjoint
  <2>1. Holds(p, v) /\ v \in Revisions
    BY <1>2, EntriesTyped DEF Holds, PendingOf, IInv
  <2>2. Holds(q, w) /\ w \in Revisions
    BY <1>2, EntriesTyped DEF Holds, PendingOf, IInv
  <2> QED BY <1>2, <2>1, <2>2 DEF IInv, PackageInv, HoldApart
<1> QED BY <1>1, <1>2, Invariance, PTL

-----------------------------------------------------------------------------
(* Locks. *)

\* A transaction holds every lock its plan has taken so far.
TwoPhase ==
  \A t \in Transactions : \A i \in 1..(pc[t] - 1) :
    Lk!Plan(t)[i].kind = "lock" => held[Lk!Plan(t)[i].lock] = t

\* What the owner check of a publication found is still so.
OwnerSeen ==
  "publish" \in Transactions /\ sawOwner["publish"] = TRUE => pc["publish"] >= 6 /\ isOwner

LockTypes ==
  /\ held \in [Lk!Locks -> Transactions \cup {NULL}]
  /\ pc \in [Transactions -> Nat] /\ \A t \in Transactions : pc[t] <= Len(Lk!Plan(t))
  /\ sawOwner \in [Transactions -> BOOLEAN \cup {NULL}]
  /\ isOwner \in BOOLEAN

LockInv == LockTypes /\ TwoPhase /\ OwnerSeen

LEMMA PublishAndRole ==
  /\ Lk!PublishPlan[2] = Lk!Lock("epoch")
  /\ \A i \in 1..12 : Lk!PublishPlan[i].kind = "check" => i = 5
  /\ Lk!RolePlan[1] = Lk!Lock("epoch") /\ \A i \in 1..3 : Lk!RolePlan[i].kind = "commit" => i = 3
  /\ Len(Lk!PublishPlan) = 12 /\ Len(Lk!RolePlan) = 3
  /\ Lk!Plan("publish") = Lk!PublishPlan /\ Lk!Plan("role") = Lk!RolePlan
BY DEF Lk!PublishPlan, Lk!RolePlan, Lk!Plan, Lk!Lock, Lk!Check, Lk!Commit

PlanWellFormed(p) ==
  /\ Len(p) \in Nat \ {0} /\ p[Len(p)].kind = "commit"
  /\ \A i \in 1..Len(p) : p[i].kind = "lock" => p[i].lock \in Lk!Locks

\* Every plan takes known locks and ends with its commit.
LEMMA PlansWellFormed ==
  ASSUME Lk!LockAssumption, NEW t \in Transactions
  PROVE  PlanWellFormed(Lk!Plan(t))
<1>1. PlanWellFormed(Lk!PublishPlan) /\ PlanWellFormed(Lk!StagePlan) /\ PlanWellFormed(Lk!CreatePlan)
  BY DEF Lk!PublishPlan, Lk!StagePlan, Lk!CreatePlan,
         PlanWellFormed, Lk!Lock, Lk!Check, Lk!Commit, Lk!Locks
<1>2. PlanWellFormed(Lk!PackagePlan) /\ PlanWellFormed(Lk!RolePlan) /\ PlanWellFormed(Lk!ArchivePlan)
  BY DEF Lk!PackagePlan, Lk!RolePlan, Lk!ArchivePlan,
         PlanWellFormed, Lk!Lock, Lk!Check, Lk!Commit, Lk!Locks
<1>3. PlanWellFormed(Lk!DraftPlan) /\ PlanWellFormed(Lk!TargetPlan) /\ PlanWellFormed(Lk!ValidatePlan)
  BY DEF Lk!DraftPlan, Lk!TargetPlan, Lk!ValidatePlan,
         PlanWellFormed, Lk!Lock, Lk!Check, Lk!Commit, Lk!Locks
<1>4. PlanWellFormed(Lk!CutoverPlan) /\ PlanWellFormed(Lk!CollectPlan)
  BY DEF Lk!CutoverPlan, Lk!CollectPlan,
         PlanWellFormed, Lk!Lock, Lk!Check, Lk!Commit, Lk!Locks
<1>5. PlanWellFormed(Lk!LeasePlan) /\ PlanWellFormed(Lk!RetirePlan)
  BY DEF Lk!LeasePlan, Lk!RetirePlan,
         PlanWellFormed, Lk!Lock, Lk!Check, Lk!Commit, Lk!Locks
<1>6. Lk!Plan(t) \in {Lk!PublishPlan, Lk!StagePlan, Lk!CreatePlan, Lk!PackagePlan, Lk!RolePlan, Lk!ArchivePlan,
                   Lk!DraftPlan, Lk!TargetPlan, Lk!ValidatePlan, Lk!CutoverPlan, Lk!CollectPlan, Lk!LeasePlan,
                   Lk!RetirePlan}
  BY DEF Lk!LockAssumption, Lk!Plan
<1> QED BY <1>1, <1>2, <1>3, <1>4, <1>5, <1>6

LEMMA BeginKeeps == ASSUME Lk!LockAssumption, LockInv, NEW t \in Transactions, Lk!Begin(t) PROVE LockInv'
<1>1. pc[t] = 0 /\ pc' = [pc EXCEPT ![t] = 1] /\ UNCHANGED <<held, sawOwner, isOwner>>
  BY DEF Lk!Begin, Lk!Running
<1>2. LockTypes'
  BY <1>1, PlansWellFormed DEF LockInv, LockTypes, PlanWellFormed
<1>3. \A u \in Transactions : u = t \/ pc'[u] = pc[u]
  BY <1>1 DEF LockInv, LockTypes
<1>4. pc'[t] = 1
  BY <1>1 DEF LockInv, LockTypes
<1>5. TwoPhase'
  BY <1>1, <1>3, <1>4 DEF LockInv, TwoPhase
<1>6. OwnerSeen'
  BY <1>1, <1>3 DEF LockInv, OwnerSeen
<1> QED BY <1>2, <1>5, <1>6 DEF LockInv

LEMMA AcquireKeeps ==
  ASSUME Lk!LockAssumption, LockInv, NEW t \in Transactions, Lk!Acquire(t) PROVE LockInv'
<1>1. /\ pc[t] # 0 /\ Lk!Plan(t)[pc[t]].kind = "lock" /\ held[Lk!Plan(t)[pc[t]].lock] = NULL
      /\ held' = [held EXCEPT ![Lk!Plan(t)[pc[t]].lock] = t]
      /\ pc' = [pc EXCEPT ![t] = @ + 1] /\ UNCHANGED <<sawOwner, isOwner>>
  BY DEF Lk!Acquire, Lk!Running, Lk!Step
<1>2. PICK l : l = Lk!Plan(t)[pc[t]].lock
  OBVIOUS
<1>3. /\ pc[t] \in 1..Len(Lk!Plan(t)) /\ pc[t] # Len(Lk!Plan(t)) /\ l \in Lk!Locks
      /\ pc[t] \in Nat /\ Len(Lk!Plan(t)) \in Nat
  BY <1>1, <1>2, PlansWellFormed DEF LockInv, LockTypes, PlanWellFormed
<1>4. pc'[t] = pc[t] + 1 /\ \A u \in Transactions : u # t => pc'[u] = pc[u]
  BY <1>1 DEF LockInv, LockTypes
<1>5. held'[l] = t /\ \A k \in Lk!Locks : k # l => held'[k] = held[k]
  BY <1>1, <1>2, <1>3 DEF LockInv, LockTypes
<1>6. LockTypes'
  <2>1. held' \in [Lk!Locks -> Transactions \cup {NULL}]
    BY <1>1, <1>2, <1>3 DEF LockInv, LockTypes
  <2>2. pc' \in [Transactions -> Nat]
    BY <1>1 DEF LockInv, LockTypes
  <2>3. \A u \in Transactions : pc'[u] <= Len(Lk!Plan(u))
    BY <1>3, <1>4 DEF LockInv, LockTypes
  <2> QED BY <1>1, <2>1, <2>2, <2>3 DEF LockInv, LockTypes
<1>7. TwoPhase'
  <2> SUFFICES ASSUME NEW u \in Transactions, NEW i \in 1..(pc'[u] - 1),
                      Lk!Plan(u)[i].kind = "lock"
               PROVE  held'[Lk!Plan(u)[i].lock] = u
    BY DEF TwoPhase
  <2>1. Lk!Plan(u)[i].lock \in Lk!Locks
    <3>1. i \in 1..Len(Lk!Plan(u))
      <4>1. pc'[u] \in Nat /\ pc'[u] <= Len(Lk!Plan(u)) /\ Len(Lk!Plan(u)) \in Nat
        BY <1>6, PlansWellFormed DEF LockTypes, PlanWellFormed
      <4> QED BY <4>1
    <3> QED BY <3>1, PlansWellFormed DEF PlanWellFormed
  <2>2. CASE u = t /\ i = pc[t]
    BY <2>2, <1>2, <1>5
  <2>3. CASE ~(u = t /\ i = pc[t])
    <3>1. i \in 1..(pc[u] - 1)
      BY <2>3, <1>3, <1>4 DEF LockInv, LockTypes
    <3>2. held[Lk!Plan(u)[i].lock] = u
      BY <3>1 DEF LockInv, TwoPhase
    <3>3. Lk!Plan(u)[i].lock # l
      BY <3>2, <1>1, <1>2 DEF Lk!LockAssumption
    <3> QED BY <2>1, <3>2, <3>3, <1>5
  <2> QED BY <2>2, <2>3
<1>8. OwnerSeen'
  BY <1>1, <1>3, <1>4 DEF LockInv, OwnerSeen
<1> QED BY <1>6, <1>7, <1>8 DEF LockInv

LEMMA CheckKeeps ==
  ASSUME Lk!LockAssumption, LockInv, NEW t \in Transactions, Lk!CheckOwner(t) PROVE LockInv'
<1>1. /\ pc[t] # 0 /\ Lk!Plan(t)[pc[t]].kind = "check"
      /\ sawOwner' = [sawOwner EXCEPT ![t] = isOwner]
      /\ pc' = [pc EXCEPT ![t] = @ + 1] /\ UNCHANGED <<held, isOwner>>
  BY DEF Lk!CheckOwner, Lk!Running, Lk!Step
<1>3. /\ pc[t] \in 1..Len(Lk!Plan(t)) /\ pc[t] # Len(Lk!Plan(t))
      /\ pc[t] \in Nat /\ Len(Lk!Plan(t)) \in Nat
  BY <1>1, PlansWellFormed DEF LockInv, LockTypes, PlanWellFormed
<1>4. pc'[t] = pc[t] + 1 /\ \A u \in Transactions : u # t => pc'[u] = pc[u]
  BY <1>1 DEF LockInv, LockTypes
<1>6. LockTypes'
  BY <1>1, <1>3, <1>4 DEF LockInv, LockTypes
<1>7. TwoPhase'
  <2> SUFFICES ASSUME NEW u \in Transactions, NEW i \in 1..(pc'[u] - 1),
                      Lk!Plan(u)[i].kind = "lock"
               PROVE  held[Lk!Plan(u)[i].lock] = u
    BY <1>1 DEF TwoPhase
  <2>1. ~(u = t /\ i = pc[t])
    BY <1>1
  <2>2. i \in 1..(pc[u] - 1)
    BY <2>1, <1>3, <1>4 DEF LockInv, LockTypes
  <2> QED BY <2>2 DEF LockInv, TwoPhase
<1>8. OwnerSeen'
  <2> SUFFICES ASSUME "publish" \in Transactions, sawOwner'["publish"] = TRUE
               PROVE  pc'["publish"] >= 6 /\ isOwner
    BY <1>1 DEF OwnerSeen
  <2>1. CASE t = "publish"
    <3>1. pc[t] = 5
      BY <2>1, <1>1, <1>3, PublishAndRole
    <3>2. sawOwner'[t] = isOwner
      BY <1>1 DEF LockInv, LockTypes
    <3> QED BY <2>1, <3>1, <3>2, <1>4
  <2>2. CASE t # "publish"
    BY <2>2, <1>1, <1>4 DEF LockInv, LockTypes, OwnerSeen
  <2> QED BY <2>1, <2>2
<1> QED BY <1>6, <1>7, <1>8 DEF LockInv

LEMMA LeaveKeeps ==
  ASSUME Lk!LockAssumption, LockInv, NEW t \in Transactions,
         held' = Lk!Released(t), pc' = [pc EXCEPT ![t] = 0],
         sawOwner' = [sawOwner EXCEPT ![t] = NULL],
         isOwner' \in BOOLEAN,
         "publish" \in Transactions /\ t # "publish" /\ sawOwner["publish"] = TRUE
           => isOwner' = isOwner
  PROVE  LockInv'
<1>1. pc'[t] = 0 /\ \A u \in Transactions : u # t => pc'[u] = pc[u]
  BY DEF LockInv, LockTypes
<1>2. \A l \in Lk!Locks : held'[l] = IF held[l] = t THEN NULL ELSE held[l]
  BY DEF Lk!Released
<1>3. LockTypes'
  <2>1. held' \in [Lk!Locks -> Transactions \cup {NULL}]
    BY DEF Lk!Released, LockInv, LockTypes
  <2>2. pc' \in [Transactions -> Nat]
    BY DEF LockInv, LockTypes
  <2>3. \A u \in Transactions : pc'[u] <= Len(Lk!Plan(u))
    BY <1>1, PlansWellFormed DEF LockInv, LockTypes, PlanWellFormed
  <2>4. sawOwner' \in [Transactions -> BOOLEAN \cup {NULL}]
    BY DEF LockInv, LockTypes
  <2> QED BY <2>1, <2>2, <2>3, <2>4 DEF LockTypes
<1>4. TwoPhase'
  <2> SUFFICES ASSUME NEW u \in Transactions, NEW i \in 1..(pc'[u] - 1),
                      Lk!Plan(u)[i].kind = "lock"
               PROVE  held'[Lk!Plan(u)[i].lock] = u
    BY DEF TwoPhase
  <2>1. u # t /\ i \in 1..(pc[u] - 1)
    BY <1>1
  <2>2. held[Lk!Plan(u)[i].lock] = u
    BY <2>1 DEF LockInv, TwoPhase
  <2>3. Lk!Plan(u)[i].lock \in Lk!Locks
    <3>1. i \in 1..Len(Lk!Plan(u))
      BY <2>1, PlansWellFormed DEF LockInv, LockTypes, PlanWellFormed
    <3> QED BY <3>1, PlansWellFormed DEF PlanWellFormed
  <2> QED BY <2>1, <2>2, <2>3, <1>2
<1>5. OwnerSeen'
  <2> SUFFICES ASSUME "publish" \in Transactions, sawOwner'["publish"] = TRUE
               PROVE  pc'["publish"] >= 6 /\ isOwner'
    BY DEF OwnerSeen
  <2>1. t # "publish"
    BY DEF LockInv, LockTypes, Lk!LockAssumption
  <2>2. sawOwner["publish"] = TRUE
    BY <2>1 DEF LockInv, LockTypes
  <2> QED BY <2>1, <2>2, <1>1 DEF LockInv, OwnerSeen
<1> QED BY <1>3, <1>4, <1>5 DEF LockInv

\* A change of roles commits with the epoch's lock, which a publication holds
\* from before its owner check on.
LEMMA Excluded ==
  ASSUME Lk!LockAssumption, LockInv, "publish" \in Transactions, "role" \in Transactions,
         pc["role"] >= 2
  PROVE  pc["publish"] < 3
<1>1. held["epoch"] = "role"
  <2>1. 1 \in 1..(pc["role"] - 1)
    BY DEF LockInv, LockTypes
  <2> QED BY <2>1, PublishAndRole DEF LockInv, TwoPhase, Lk!Lock
<1>2. ASSUME pc["publish"] >= 3 PROVE held["epoch"] = "publish"
  <2>1. 2 \in 1..(pc["publish"] - 1)
    BY <1>2 DEF LockInv, LockTypes
  <2> QED BY <2>1, PublishAndRole DEF LockInv, TwoPhase, Lk!Lock
<1> QED BY <1>1, <1>2 DEF LockInv, LockTypes

LEMMA FinishKeeps ==
  ASSUME Lk!LockAssumption, LockInv, NEW t \in Transactions, Lk!Finish(t) PROVE LockInv'
<1>1. /\ pc[t] # 0 /\ Lk!Plan(t)[pc[t]].kind = "commit"
      /\ held' = Lk!Released(t) /\ pc' = [pc EXCEPT ![t] = 0]
      /\ sawOwner' = [sawOwner EXCEPT ![t] = NULL]
      /\ isOwner' = IF t = "role" THEN ~isOwner ELSE isOwner
  BY DEF Lk!Finish, Lk!Running, Lk!Step
<1>2. ASSUME "publish" \in Transactions, sawOwner["publish"] = TRUE PROVE t # "role"
  <2> SUFFICES ASSUME t = "role" PROVE FALSE
    OBVIOUS
  <2>1. pc["role"] \in 1..3
    BY <1>1, PublishAndRole DEF LockInv, LockTypes
  <2>2. Lk!RolePlan[pc["role"]].kind = "commit"
    BY <1>1, PublishAndRole
  <2>3. pc["role"] = 3
    BY <2>1, <2>2, PublishAndRole
  <2>4. pc["publish"] < 3
    BY <1>2, <2>3, Excluded
  <2>5. pc["publish"] >= 6 /\ pc["publish"] \in Nat
    BY <1>2 DEF LockInv, LockTypes, OwnerSeen
  <2> QED BY <2>4, <2>5
<1>3. isOwner' \in BOOLEAN
  BY <1>1 DEF LockInv, LockTypes
<1> QED BY <1>1, <1>2, <1>3, LeaveKeeps

LEMMA RollbackKeeps ==
  ASSUME Lk!LockAssumption, LockInv, NEW t \in Transactions, Lk!Rollback(t) PROVE LockInv'
<1>1. /\ held' = Lk!Released(t) /\ pc' = [pc EXCEPT ![t] = 0]
      /\ sawOwner' = [sawOwner EXCEPT ![t] = NULL] /\ isOwner' = isOwner
  BY DEF Lk!Rollback
<1>2. isOwner' \in BOOLEAN
  BY <1>1 DEF LockInv, LockTypes
<1> QED BY <1>1, <1>2, LeaveKeeps

\* Row and advisory locks are exclusive and kept to the end of a transaction,
\* and nobody revokes an owner between the check of a publication and its end.
THEOREM Locked == ASSUME Lk!LockAssumption PROVE Lk!Spec => []LockInv
<1>1. ASSUME Lk!Init PROVE LockInv
  <2>1. /\ held \in [Lk!Locks -> Transactions \cup {NULL}] /\ pc \in [Transactions -> Nat]
        /\ sawOwner \in [Transactions -> BOOLEAN \cup {NULL}] /\ isOwner \in BOOLEAN
        /\ \A t \in Transactions : pc[t] = 0 /\ sawOwner[t] = NULL
    BY <1>1 DEF Lk!Init
  <2>2. \A t \in Transactions : pc[t] <= Len(Lk!Plan(t))
    BY <2>1, PlansWellFormed DEF PlanWellFormed
  <2>3. TwoPhase
    BY <2>1 DEF TwoPhase
  <2>4. OwnerSeen
    BY <2>1 DEF OwnerSeen, Lk!LockAssumption
  <2> QED BY <2>1, <2>2, <2>3, <2>4 DEF LockInv, LockTypes
<1>2. ASSUME LockInv, [Lk!Next]_(Lk!vars) PROVE LockInv'
  <2>1. CASE Lk!Next
    BY <1>2, <2>1, BeginKeeps, AcquireKeeps, CheckKeeps, FinishKeeps, RollbackKeeps DEF Lk!Next
  <2>2. CASE UNCHANGED Lk!vars
    BY <1>2, <2>2 DEF Lk!vars, LockInv, LockTypes, TwoPhase, OwnerSeen
  <2> QED BY <1>2, <2>1, <2>2
<1> QED BY <1>1, <1>2, PTL DEF Lk!Spec

\* A release is published only for a principal that is still an owner when the
\* transaction commits (assertPublisherOwner after lock_authorization_epoch).
THEOREM PublishedByOwnerHolds ==
  ASSUME Lk!LockAssumption PROVE Lk!Spec => [][Lk!PublishedByOwner]_(Lk!vars)
<1>1. LockInv /\ [Lk!Next]_(Lk!vars) => [Lk!PublishedByOwner]_(Lk!vars)
  BY DEF LockInv, OwnerSeen, Lk!PublishedByOwner
<1> QED BY <1>1, Locked, PTL DEF Lk!Spec

-----------------------------------------------------------------------------
(* The inductive invariant. *)

CutoverTypes ==
  /\ control \in Nat /\ state \in Nat
  /\ inventory \in [revision : Nat, complete : BOOLEAN]
  /\ active \in [Groups -> 0..NVersions]
  /\ published \in BOOLEAN
  /\ preps \in [Keys -> Cr!Preparation \cup {None}]
  /\ lock \in Callers \cup {None}
  /\ caller \in [Callers -> Cr!Request \cup {None}]
  /\ answers \in [Keys -> SUBSET Cr!Result]
  /\ effects \in [Keys -> Nat]

\* A caller past prepare has a preparation of the command it sent.
Prepared ==
  \A c \in Callers : (caller[c] # None /\ caller[c].phase # "prepare") =>
    preps[caller[c].key] # None /\ Cr!SameCommand(preps[caller[c].key], caller[c])

\* The project's row is held by the one caller that applies.
LockHeld ==
  /\ lock # None => caller[lock] # None /\ caller[lock].phase = "apply"
  /\ \A c \in Callers : (caller[c] # None /\ caller[c].phase = "apply") => lock = c

\* A preparation is committed by one transaction, and its result is then the
\* only answer there is.
Outcome ==
  \A k \in Keys :
    /\ preps[k] = None => effects[k] = 0 /\ answers[k] = {}
    /\ preps[k] # None =>
         \/ /\ preps[k].status = "prepared" /\ preps[k].result = None
            /\ effects[k] = 0 /\ answers[k] = {}
         \/ /\ preps[k].status = "committed" /\ preps[k].result # None
            /\ effects[k] = 1 /\ answers[k] \subseteq {preps[k].result}

\* The state revision tells whether the active versions are still those of a
\* preparation.
CutoverHeads ==
  \A k \in Keys : preps[k] # None =>
    /\ preps[k].state <= state
    /\ preps[k].state = state => active = preps[k].head

CutoverInv == CutoverTypes /\ Prepared /\ LockHeld /\ Outcome /\ CutoverHeads

-----------------------------------------------------------------------------
LEMMA CutoverInit ==
  ASSUME Cr!CutoverAssumption, Cr!Init PROVE CutoverInv
<1>1. active \in [Groups -> 0..NVersions]
  BY DEF Cr!CutoverAssumption, Cr!Init
<1>2. CutoverTypes
  BY <1>1 DEF Cr!Init, CutoverTypes
<1>3. Prepared /\ LockHeld /\ Outcome /\ CutoverHeads
  BY DEF Cr!Init, Prepared, LockHeld, Outcome, CutoverHeads
<1> QED BY <1>2, <1>3 DEF CutoverInv

\* A caller that fails is no longer in any phase.
LEMMA FailKeeps ==
  ASSUME CutoverInv, NEW c \in Callers, Cr!Fail(c)
  PROVE  /\ caller' \in [Callers -> Cr!Request \cup {None}]
         /\ caller'[c] = None
         /\ \A d \in Callers : d # c => caller'[d] = caller[d]
BY DEF CutoverInv, CutoverTypes, Cr!Fail

\* A phase that advances leaves the rest of the request as it is.
LEMMA PhaseKeeps ==
  ASSUME CutoverInv, NEW c \in Callers, caller[c] # None,
         NEW p \in {"prepare", "commit", "lock", "apply"},
         caller' = [caller EXCEPT ![c].phase = p]
  PROVE  /\ caller' \in [Callers -> Cr!Request \cup {None}]
         /\ \A d \in Callers : d # c => caller'[d] = caller[d]
         /\ caller'[c] # None \/ None \in Cr!Request
         /\ caller'[c] \in Cr!Request
         /\ caller'[c].phase = p /\ caller'[c].key = caller[c].key
         /\ caller'[c].group = caller[c].group /\ caller'[c].version = caller[c].version
         /\ caller'[c].expected = caller[c].expected
BY DEF CutoverInv, CutoverTypes, Cr!Request

LEMMA ActivateKeeps ==
  ASSUME Cr!CutoverAssumption, CutoverInv, NEW c \in Callers, NEW k \in Keys, NEW g \in Groups,
         NEW v \in 1..NVersions, NEW e \in 0..control, Cr!Activate(c, k, g, v, e)
  PROVE  CutoverInv'
<1>1. [key |-> k, group |-> g, version |-> v, expected |-> e, phase |-> "prepare"] \in Cr!Request
  BY DEF CutoverInv, CutoverTypes, Cr!Request
<1>2. CutoverTypes'
  BY <1>1 DEF Cr!Activate, CutoverInv, CutoverTypes
<1>3. /\ caller'[c].phase = "prepare" /\ caller'[c] # None
      /\ \A d \in Callers : d # c => caller'[d] = caller[d]
  BY <1>1 DEF Cr!Activate, CutoverInv, CutoverTypes, Cr!CutoverAssumption
<1>4. Prepared'
  BY <1>3 DEF Cr!Activate, CutoverInv, Prepared, Cr!SameCommand
<1>5. LockHeld'
  BY <1>3 DEF Cr!Activate, CutoverInv, LockHeld, CutoverTypes
<1>6. Outcome' /\ CutoverHeads'
  BY DEF Cr!Activate, CutoverInv, Outcome, CutoverHeads
<1> QED BY <1>2, <1>4, <1>5, <1>6 DEF CutoverInv

LEMMA CutoverPrepareKeeps ==
  ASSUME Cr!CutoverAssumption, CutoverInv, NEW c \in Callers, Cr!PrepareSnapshotGroupCutover(c)
  PROVE  CutoverInv'
<1> DEFINE r == caller[c]
<1>1. /\ r # None /\ r \in Cr!Request /\ r.phase = "prepare" /\ r.key \in Keys
      /\ UNCHANGED <<control, state, inventory, active, published, lock, sends, answers, effects>>
  BY DEF Cr!PrepareSnapshotGroupCutover, CutoverInv, CutoverTypes, Cr!Request
<1>2. CASE Cr!Fail(c) /\ preps' = preps
  <2>1. /\ caller' \in [Callers -> Cr!Request \cup {None}]
        /\ caller'[c] = None
        /\ \A d \in Callers : d # c => caller'[d] = caller[d]
    BY <1>2, FailKeeps
  <2>2. CutoverTypes'
    BY <1>1, <1>2, <2>1 DEF CutoverInv, CutoverTypes
  <2>3. Prepared'
    BY <1>1, <1>2, <2>1 DEF CutoverInv, Prepared, Cr!SameCommand
  <2>4. LockHeld'
    BY <1>1, <1>2, <2>1 DEF CutoverInv, LockHeld, CutoverTypes, Cr!CutoverAssumption
  <2>5. Outcome' /\ CutoverHeads'
    BY <1>1, <1>2 DEF CutoverInv, Outcome, CutoverHeads
  <2> QED BY <2>2, <2>3, <2>4, <2>5 DEF CutoverInv
<1>3. CASE /\ preps[r.key] # None /\ Cr!SameCommand(preps[r.key], r) /\ preps' = preps
           /\ caller' = [caller EXCEPT ![c].phase = "commit"]
  <2>1. /\ caller' \in [Callers -> Cr!Request \cup {None}]
        /\ \A d \in Callers : d # c => caller'[d] = caller[d]
        /\ caller'[c] # None /\ caller'[c].phase = "commit" /\ caller'[c].key = r.key
        /\ caller'[c].group = r.group /\ caller'[c].version = r.version
        /\ caller'[c].expected = r.expected
    BY <1>1, <1>3, PhaseKeeps DEF Cr!CutoverAssumption
  <2>2. CutoverTypes'
    BY <1>1, <1>3, <2>1 DEF CutoverInv, CutoverTypes
  <2>3. Prepared'
    BY <1>1, <1>3, <2>1 DEF CutoverInv, Prepared, Cr!SameCommand
  <2>4. LockHeld'
    BY <1>1, <1>3, <2>1 DEF CutoverInv, LockHeld, CutoverTypes, Cr!CutoverAssumption
  <2>5. Outcome' /\ CutoverHeads'
    BY <1>1, <1>3 DEF CutoverInv, Outcome, CutoverHeads
  <2> QED BY <2>2, <2>3, <2>4, <2>5 DEF CutoverInv
<1>4. CASE /\ preps[r.key] = None /\ control = r.expected
           /\ preps' = [preps EXCEPT ![r.key] =
                [group |-> r.group, version |-> r.version, control |-> control, state |-> state,
                 inventory |-> inventory.revision, head |-> active,
                 status |-> "prepared", result |-> None]]
           /\ caller' = [caller EXCEPT ![c].phase = "commit"]
  <2> DEFINE p == [group |-> r.group, version |-> r.version, control |-> control,
                   state |-> state, inventory |-> inventory.revision, head |-> active,
                   status |-> "prepared", result |-> None]
  <2>1. /\ caller' \in [Callers -> Cr!Request \cup {None}]
        /\ \A d \in Callers : d # c => caller'[d] = caller[d]
        /\ caller'[c] # None /\ caller'[c].phase = "commit" /\ caller'[c].key = r.key
        /\ caller'[c].group = r.group /\ caller'[c].version = r.version
        /\ caller'[c].expected = r.expected
    BY <1>1, <1>4, PhaseKeeps DEF Cr!CutoverAssumption
  <2>2. p \in Cr!Preparation /\ p # None
    BY <1>1 DEF CutoverInv, CutoverTypes, Cr!Preparation, Cr!Request, Cr!CutoverAssumption
  <2>3. /\ preps' \in [Keys -> Cr!Preparation \cup {None}]
        /\ preps'[r.key] = p
        /\ \A k \in Keys : k # r.key => preps'[k] = preps[k]
    BY <1>1, <1>4, <2>2 DEF CutoverInv, CutoverTypes
  <2> HIDE DEF p
  <2>4. /\ p.group = r.group /\ p.version = r.version /\ p.control = r.expected
        /\ p.state = state /\ p.head = active /\ p.status = "prepared" /\ p.result = None
    BY <1>4 DEF p
  <2>5. CutoverTypes'
    BY <1>1, <2>1, <2>3 DEF CutoverInv, CutoverTypes
  <2>6. Prepared'
    BY <1>1, <1>4, <2>1, <2>2, <2>3, <2>4 DEF CutoverInv, Prepared, Cr!SameCommand, CutoverTypes, Cr!Request
  <2>7. LockHeld'
    BY <1>1, <2>1 DEF CutoverInv, LockHeld, CutoverTypes, Cr!CutoverAssumption
  <2>8. Outcome'
    BY <1>1, <1>4, <2>2, <2>3, <2>4 DEF CutoverInv, Outcome
  <2>9. CutoverHeads'
    BY <1>1, <2>3, <2>4 DEF CutoverInv, CutoverHeads, CutoverTypes
  <2> QED BY <2>5, <2>6, <2>7, <2>8, <2>9 DEF CutoverInv
<1> QED BY <1>1, <1>2, <1>3, <1>4 DEF Cr!PrepareSnapshotGroupCutover

LEMMA CommitReadsKeeps ==
  ASSUME Cr!CutoverAssumption, CutoverInv, NEW c \in Callers, Cr!CommitReads(c)
  PROVE  CutoverInv'
<1> DEFINE r == caller[c]
<1>1. /\ r # None /\ r \in Cr!Request /\ r.phase = "commit" /\ r.key \in Keys
      /\ UNCHANGED <<control, state, inventory, active, published, preps, lock, sends, effects>>
  BY DEF Cr!CommitReads, CutoverInv, CutoverTypes, Cr!Request
<1>2. preps[r.key] # None /\ Cr!SameCommand(preps[r.key], r) /\ preps[r.key] \in Cr!Preparation
  BY <1>1 DEF CutoverInv, Prepared, CutoverTypes
<1>3. CASE preps[r.key].status = "committed" /\ Cr!Reply(c, r.key, preps[r.key].result)
  <2>1. /\ caller' \in [Callers -> Cr!Request \cup {None}]
        /\ caller'[c] = None
        /\ \A d \in Callers : d # c => caller'[d] = caller[d]
    BY <1>3, FailKeeps DEF Cr!Reply
  <2>2. preps[r.key].result \in Cr!Result /\ answers[r.key] \subseteq {preps[r.key].result}
    BY <1>1, <1>2, <1>3 DEF CutoverInv, Outcome, Cr!Preparation
  <2>3. /\ answers' \in [Keys -> SUBSET Cr!Result]
        /\ answers'[r.key] \subseteq {preps[r.key].result}
        /\ \A k \in Keys : k # r.key => answers'[k] = answers[k]
    BY <1>1, <1>3, <2>2 DEF Cr!Reply, CutoverInv, CutoverTypes
  <2>4. CutoverTypes'
    BY <1>1, <2>1, <2>3 DEF CutoverInv, CutoverTypes
  <2>5. Prepared'
    BY <1>1, <2>1 DEF CutoverInv, Prepared, Cr!SameCommand
  <2>6. LockHeld'
    BY <1>1, <2>1 DEF CutoverInv, LockHeld, CutoverTypes, Cr!CutoverAssumption
  <2>7. Outcome'
    <3> SUFFICES ASSUME NEW k \in Keys
                 PROVE  /\ preps[k] = None => effects[k] = 0 /\ answers'[k] = {}
                        /\ preps[k] # None =>
                             \/ /\ preps[k].status = "prepared" /\ preps[k].result = None
                                /\ effects[k] = 0 /\ answers'[k] = {}
                             \/ /\ preps[k].status = "committed" /\ preps[k].result # None
                                /\ effects[k] = 1 /\ answers'[k] \subseteq {preps[k].result}
      BY <1>1 DEF Outcome
    <3>1. CASE k = r.key
      BY <3>1, <1>2, <1>3, <2>3 DEF CutoverInv, Outcome
    <3>2. CASE k # r.key
      BY <3>2, <2>3 DEF CutoverInv, Outcome
    <3> QED BY <3>1, <3>2
  <2>8. CutoverHeads'
    BY <1>1 DEF CutoverInv, CutoverHeads
  <2> QED BY <2>4, <2>5, <2>6, <2>7, <2>8 DEF CutoverInv
<1>4. CASE caller' = [caller EXCEPT ![c].phase = "lock"] /\ answers' = answers
  <2>1. /\ caller' \in [Callers -> Cr!Request \cup {None}]
        /\ \A d \in Callers : d # c => caller'[d] = caller[d]
        /\ caller'[c] # None /\ caller'[c].phase = "lock" /\ caller'[c].key = r.key
        /\ caller'[c].group = r.group /\ caller'[c].version = r.version
        /\ caller'[c].expected = r.expected
    BY <1>1, <1>4, PhaseKeeps DEF Cr!CutoverAssumption
  <2>2. CutoverTypes'
    BY <1>1, <1>4, <2>1 DEF CutoverInv, CutoverTypes
  <2>3. Prepared'
    BY <1>1, <1>2, <2>1 DEF CutoverInv, Prepared, Cr!SameCommand
  <2>4. LockHeld'
    BY <1>1, <2>1 DEF CutoverInv, LockHeld, CutoverTypes, Cr!CutoverAssumption
  <2>5. Outcome' /\ CutoverHeads'
    BY <1>1, <1>4 DEF CutoverInv, Outcome, CutoverHeads
  <2> QED BY <2>2, <2>3, <2>4, <2>5 DEF CutoverInv
<1> QED BY <1>1, <1>3, <1>4 DEF Cr!CommitReads

LEMMA CommitLocksKeeps ==
  ASSUME Cr!CutoverAssumption, CutoverInv, NEW c \in Callers, Cr!CommitLocks(c)
  PROVE  CutoverInv'
<1> DEFINE r == caller[c]
<1>1. /\ r # None /\ r \in Cr!Request /\ r.phase = "lock" /\ r.key \in Keys /\ lock = None
      /\ UNCHANGED <<control, state, inventory, active, published, preps, sends, answers, effects>>
  BY DEF Cr!CommitLocks, CutoverInv, CutoverTypes, Cr!Request
<1>2. preps[r.key] # None /\ Cr!SameCommand(preps[r.key], r)
  BY <1>1 DEF CutoverInv, Prepared, CutoverTypes
<1>3. \A d \in Callers : caller[d] # None => caller[d].phase # "apply"
  BY <1>1 DEF CutoverInv, LockHeld, Cr!CutoverAssumption
<1>4. CASE lock' = c /\ caller' = [caller EXCEPT ![c].phase = "apply"]
  <2>1. /\ caller' \in [Callers -> Cr!Request \cup {None}]
        /\ \A d \in Callers : d # c => caller'[d] = caller[d]
        /\ caller'[c] # None /\ caller'[c].phase = "apply" /\ caller'[c].key = r.key
        /\ caller'[c].group = r.group /\ caller'[c].version = r.version
        /\ caller'[c].expected = r.expected
    BY <1>1, <1>4, PhaseKeeps DEF Cr!CutoverAssumption
  <2>2. CutoverTypes'
    BY <1>1, <1>4, <2>1 DEF CutoverInv, CutoverTypes
  <2>3. Prepared'
    BY <1>1, <1>2, <2>1 DEF CutoverInv, Prepared, Cr!SameCommand
  <2>4. LockHeld'
    BY <1>3, <1>4, <2>1 DEF LockHeld
  <2>5. Outcome' /\ CutoverHeads'
    BY <1>1 DEF CutoverInv, Outcome, CutoverHeads
  <2> QED BY <2>2, <2>3, <2>4, <2>5 DEF CutoverInv
<1>5. CASE lock' = lock /\ Cr!Fail(c)
  <2>1. /\ caller' \in [Callers -> Cr!Request \cup {None}]
        /\ caller'[c] = None
        /\ \A d \in Callers : d # c => caller'[d] = caller[d]
    BY <1>5, FailKeeps
  <2>2. CutoverTypes'
    BY <1>1, <1>5, <2>1 DEF CutoverInv, CutoverTypes
  <2>3. Prepared'
    BY <1>1, <2>1 DEF CutoverInv, Prepared, Cr!SameCommand
  <2>4. LockHeld'
    BY <1>1, <1>3, <1>5, <2>1 DEF LockHeld
  <2>5. Outcome' /\ CutoverHeads'
    BY <1>1 DEF CutoverInv, Outcome, CutoverHeads
  <2> QED BY <2>2, <2>3, <2>4, <2>5 DEF CutoverInv
<1> QED BY <1>1, <1>4, <1>5 DEF Cr!CommitLocks

\* What the transaction writes, and what holds of the preparation then.
LEMMA CommitAppliesKeeps ==
  ASSUME Cr!CutoverAssumption, CutoverInv, NEW c \in Callers, Cr!CommitApplies(c)
  PROVE  CutoverInv'
<1> DEFINE r == caller[c]
           p == preps[r.key]
           changed == active[p.group] # p.version
           result == [control |-> IF changed /\ published THEN control + 1 ELSE control,
                      state |-> IF changed THEN state + 1 ELSE state, changed |-> changed]
<1>1. /\ r # None /\ r \in Cr!Request /\ r.phase = "apply" /\ r.key \in Keys /\ lock' = None
      /\ UNCHANGED <<inventory, published, sends>>
  BY DEF Cr!CommitApplies, CutoverInv, CutoverTypes, Cr!Request
<1>2. p # None /\ p \in Cr!Preparation
  BY <1>1 DEF CutoverInv, Prepared, CutoverTypes
<1>3. lock = c /\ \A d \in Callers : (d # c /\ caller[d] # None) => caller[d].phase # "apply"
  BY <1>1 DEF CutoverInv, LockHeld
<1>4. ASSUME Cr!Fail(c) PROVE
        /\ caller' \in [Callers -> Cr!Request \cup {None}]
        /\ caller'[c] = None
        /\ \A d \in Callers : d # c => caller'[d] = caller[d]
        /\ LockHeld'
  <2>1. /\ caller' \in [Callers -> Cr!Request \cup {None}]
        /\ caller'[c] = None
        /\ \A d \in Callers : d # c => caller'[d] = caller[d]
    BY <1>4, FailKeeps
  <2> QED BY <1>1, <1>3, <2>1 DEF LockHeld
<1>5. CASE /\ p.status = "prepared" /\ p.state = state
           /\ active' = [active EXCEPT ![p.group] = p.version]
           /\ control' = result.control /\ state' = result.state
           /\ preps' = [preps EXCEPT ![r.key] = [p EXCEPT !.status = "committed", !.result = result]]
           /\ effects' = [effects EXCEPT ![r.key] = @ + 1]
           /\ Cr!Reply(c, r.key, result)
  <2>1. Cr!Fail(c)
    BY <1>5 DEF Cr!Reply
  <2>2. result \in Cr!Result /\ result # None
    <3>1. result.control \in Nat /\ result.state \in Nat
      BY DEF CutoverInv, CutoverTypes
    <3>2. result.changed \in BOOLEAN
      OBVIOUS
    <3>3. result = [control |-> result.control, state |-> result.state, changed |-> result.changed]
      OBVIOUS
    <3> HIDE DEF result
    <3>4. result \in Cr!Result
      BY <3>1, <3>2, <3>3 DEF Cr!Result
    <3> QED BY <3>4 DEF Cr!CutoverAssumption
  <2>3. /\ state' \in Nat /\ control' \in Nat
        /\ changed => state' = state + 1
        /\ ~changed => state' = state
    <3>1. state \in Nat /\ control \in Nat
      BY DEF CutoverInv, CutoverTypes
    <3>2. /\ result.state = IF changed THEN state + 1 ELSE state
          /\ result.control = IF changed /\ published THEN control + 1 ELSE control
      OBVIOUS
    <3>3. state' = result.state /\ control' = result.control
      BY <1>5
    <3> HIDE DEF changed, result
    <3> QED BY <3>1, <3>2, <3>3
  <2>4. /\ active' \in [Groups -> 0..NVersions]
        /\ ~changed => active' = active
    <3>1. active \in [Groups -> 0..NVersions] /\ p.group \in Groups /\ p.version \in 0..NVersions
      BY <1>2 DEF CutoverInv, CutoverTypes, Cr!Preparation
    <3>2. active' = [active EXCEPT ![p.group] = p.version]
      BY <1>5
    <3> HIDE DEF p, result
    <3> QED BY <3>1, <3>2
  <2> DEFINE q == [p EXCEPT !.status = "committed", !.result = result]
  <2> HIDE DEF result
  <2>5. /\ q \in Cr!Preparation /\ q # None
        /\ q.status = "committed" /\ q.result = result
        /\ q.group = p.group /\ q.version = p.version /\ q.control = p.control
        /\ q.state = p.state /\ q.head = p.head
    BY <1>2, <2>2 DEF Cr!Preparation, Cr!CutoverAssumption
  <2> HIDE DEF changed, q
  <2>6. /\ preps' \in [Keys -> Cr!Preparation \cup {None}]
        /\ preps'[r.key] = q
        /\ \A k \in Keys : k # r.key => preps'[k] = preps[k]
    BY <1>1, <1>5, <2>5 DEF CutoverInv, CutoverTypes, q
  <2>7. effects[r.key] = 0 /\ answers[r.key] = {}
    BY <1>1, <1>2, <1>5 DEF CutoverInv, Outcome
  <2>8. /\ answers' \in [Keys -> SUBSET Cr!Result]
        /\ answers'[r.key] \subseteq {result}
        /\ \A k \in Keys : k # r.key => answers'[k] = answers[k]
    BY <1>1, <1>5, <2>2, <2>7 DEF Cr!Reply, CutoverInv, CutoverTypes
  <2>9. /\ effects' \in [Keys -> Nat] /\ effects'[r.key] = 1
        /\ \A k \in Keys : k # r.key => effects'[k] = effects[k]
    BY <1>1, <1>5, <2>7 DEF CutoverInv, CutoverTypes
  <2>10. CutoverTypes'
    BY <1>1, <1>4, <2>1, <2>3, <2>4, <2>6, <2>8, <2>9 DEF CutoverInv, CutoverTypes
  <2>11. Prepared'
    BY <1>4, <2>1, <2>5, <2>6 DEF CutoverInv, Prepared, Cr!SameCommand, CutoverTypes, Cr!Request
  <2>12. Outcome'
    BY <2>2, <2>5, <2>6, <2>8, <2>9 DEF CutoverInv, Outcome
  <2>13. CutoverHeads'
    <3> SUFFICES ASSUME NEW k \in Keys, preps'[k] # None
                 PROVE  /\ preps'[k].state <= state'
                        /\ preps'[k].state = state' => active' = preps'[k].head
      BY DEF CutoverHeads
    <3>1. preps[k] # None /\ preps'[k].state = preps[k].state /\ preps'[k].head = preps[k].head
          /\ preps[k].state \in Nat
      BY <1>2, <2>5, <2>6 DEF CutoverInv, CutoverTypes, Cr!Preparation
    <3>2. preps[k].state <= state /\ (preps[k].state = state => active = preps[k].head)
      BY <3>1 DEF CutoverInv, CutoverHeads
    <3> QED BY <2>3, <2>4, <3>1, <3>2 DEF CutoverInv, CutoverTypes
  <2> QED BY <1>4, <2>1, <2>10, <2>11, <2>12, <2>13 DEF CutoverInv
<1>6. CASE Cr!Fail(c) /\ UNCHANGED <<active, control, state, preps, effects, answers>>
  <2>1. CutoverTypes'
    BY <1>1, <1>4, <1>6 DEF CutoverInv, CutoverTypes
  <2>2. Prepared'
    BY <1>4, <1>6 DEF CutoverInv, Prepared, Cr!SameCommand
  <2>3. Outcome' /\ CutoverHeads'
    BY <1>6 DEF CutoverInv, Outcome, CutoverHeads
  <2> QED BY <1>4, <1>6, <2>1, <2>2, <2>3 DEF CutoverInv
<1> QED BY <1>5, <1>6 DEF Cr!CommitApplies, Cr!MarkCommitted, Cr!Current

LEMMA AbortKeeps ==
  ASSUME Cr!CutoverAssumption, CutoverInv, NEW c \in Callers, Cr!Abort(c)
  PROVE  CutoverInv'
<1>1. /\ caller' \in [Callers -> Cr!Request \cup {None}]
      /\ caller'[c] = None
      /\ \A d \in Callers : d # c => caller'[d] = caller[d]
  BY FailKeeps DEF Cr!Abort
<1>2. CutoverTypes'
  BY <1>1 DEF Cr!Abort, CutoverInv, CutoverTypes
<1>3. Prepared'
  BY <1>1 DEF Cr!Abort, CutoverInv, Prepared, Cr!SameCommand
<1>4. LockHeld'
  BY <1>1 DEF Cr!Abort, CutoverInv, LockHeld, CutoverTypes, Cr!CutoverAssumption
<1>5. Outcome' /\ CutoverHeads'
  BY DEF Cr!Abort, CutoverInv, Outcome, CutoverHeads
<1> QED BY <1>2, <1>3, <1>4, <1>5 DEF CutoverInv

LEMMA OthersKeep ==
  ASSUME CutoverInv, Cr!Publish \/ Cr!Measure \/ Cr!BuildElsewhere
  PROVE  CutoverInv'
<1>1. CutoverTypes'
  <2>1. CASE Cr!Measure
    <3>1. inventory' \in [revision : Nat, complete : BOOLEAN]
      BY <2>1 DEF Cr!Measure, CutoverInv, CutoverTypes
    <3> QED BY <2>1, <3>1 DEF Cr!Measure, CutoverInv, CutoverTypes
  <2>2. CASE Cr!Publish
    BY <2>2 DEF Cr!Publish, CutoverInv, CutoverTypes
  <2>3. CASE Cr!BuildElsewhere
    BY <2>3 DEF Cr!BuildElsewhere, CutoverInv, CutoverTypes
  <2> QED BY <2>1, <2>2, <2>3
<1>2. Prepared' /\ LockHeld' /\ Outcome'
  BY DEF Cr!Publish, Cr!Measure, Cr!BuildElsewhere, CutoverInv, Prepared, Cr!SameCommand, LockHeld, Outcome
<1>3. CutoverHeads'
  <2>1. CASE Cr!Publish \/ Cr!Measure
    BY <2>1 DEF Cr!Publish, Cr!Measure, CutoverInv, CutoverHeads
  <2>2. CASE Cr!BuildElsewhere
    <3> SUFFICES ASSUME NEW k \in Keys, preps[k] # None
                 PROVE  preps[k].state <= state' /\ preps[k].state # state'
      BY <2>2 DEF Cr!BuildElsewhere, CutoverHeads
    <3>1. preps[k].state \in Nat /\ preps[k].state <= state /\ state \in Nat
      BY DEF CutoverInv, CutoverTypes, CutoverHeads, Cr!Preparation
    <3> QED BY <2>2, <3>1 DEF Cr!BuildElsewhere
  <2> QED BY <2>1, <2>2
<1> QED BY <1>1, <1>2, <1>3 DEF CutoverInv

LEMMA CutoverNext ==
  ASSUME Cr!CutoverAssumption, CutoverInv, [Cr!Next]_(Cr!vars)
  PROVE  CutoverInv'
<1>1. CASE Cr!Next
  BY <1>1, ActivateKeeps, CutoverPrepareKeeps, CommitReadsKeeps, CommitLocksKeeps, CommitAppliesKeeps,
     AbortKeeps, OthersKeep DEF Cr!Next
<1>2. CASE UNCHANGED Cr!vars
  BY <1>2 DEF Cr!vars, CutoverInv, CutoverTypes, Prepared, Cr!SameCommand, LockHeld, Outcome, CutoverHeads
<1> QED BY <1>1, <1>2

-----------------------------------------------------------------------------
\* The invariant holds of every behaviour, however many callers send how
\* many requests under how many keys.
THEOREM CutoverInvariance ==
  ASSUME Cr!CutoverAssumption PROVE Cr!Spec => []CutoverInv
<1>1. Cr!Init => CutoverInv
  BY CutoverInit
<1>2. CutoverInv /\ [Cr!Next]_(Cr!vars) => CutoverInv'
  BY CutoverNext
<1> QED BY <1>1, <1>2, PTL DEF Cr!Spec

\* TypeOK: a result is stored exactly when a preparation is committed, and
\* the project's row is held by a caller that applies.
THEOREM CutoverTypeCorrect ==
  ASSUME Cr!CutoverAssumption PROVE Cr!Spec => []Cr!TypeOK
<1>1. CutoverInv => Cr!TypeOK
  BY DEF CutoverInv, CutoverTypes, Outcome, LockHeld, Cr!TypeOK
<1> QED BY <1>1, CutoverInvariance, PTL

\* Callers that commit one preparation at once apply its effects once
\* (commit_snapshot_group_cutover).
THEOREM EffectsOnce ==
  ASSUME Cr!CutoverAssumption PROVE Cr!Spec => []Cr!AppliedOnce
<1>1. CutoverInv => Cr!AppliedOnce
  BY DEF CutoverInv, Outcome, Cr!AppliedOnce
<1> QED BY <1>1, CutoverInvariance, PTL

\* Whoever is answered for a key is given its one stored result
\* (commitSnapshotGroupCutover, resultFromRow).
THEOREM ResultsAgree ==
  ASSUME Cr!CutoverAssumption PROVE Cr!Spec => []Cr!OneResult
<1>1. CutoverInv => Cr!OneResult
  BY DEF CutoverInv, Outcome, Cr!OneResult
<1> QED BY <1>1, CutoverInvariance, PTL

\* What takes effect was prepared from what is active: no activation by
\* another caller is overwritten unseen.
THEOREM CutoversSeen ==
  ASSUME Cr!CutoverAssumption PROVE Cr!Spec => [][Cr!NoLostCutover]_(Cr!vars)
<1>1. ASSUME CutoverInv, [Cr!Next]_(Cr!vars) PROVE Cr!NoLostCutover
  <2> SUFFICES ASSUME NEW k \in Keys, effects'[k] > effects[k] PROVE active = preps[k].head
    BY DEF Cr!NoLostCutover
  <2>1. effects[k] \in Nat /\ effects' # effects
    BY <1>1 DEF CutoverInv, CutoverTypes
  <2>2. PICK c \in Callers : Cr!CommitApplies(c)
    BY <1>1, <2>1 DEF Cr!Next, Cr!vars, Cr!Activate, Cr!PrepareSnapshotGroupCutover, Cr!CommitReads, Cr!CommitLocks,
       Cr!Abort, Cr!Publish, Cr!Measure, Cr!BuildElsewhere
  <2>3. /\ effects' = [effects EXCEPT ![caller[c].key] = @ + 1]
        /\ state = preps[caller[c].key].state
    BY <2>1, <2>2 DEF Cr!CommitApplies, Cr!Current
  <2>4. caller[c].key = k
    BY <1>1, <2>1, <2>3 DEF CutoverInv, CutoverTypes
  <2>5. preps[k] # None
    BY <1>1, <2>2, <2>4 DEF Cr!CommitApplies, CutoverInv, Prepared
  <2> QED BY <1>1, <2>3, <2>4, <2>5 DEF CutoverInv, CutoverHeads
<1> QED BY <1>1, CutoverInvariance, PTL DEF Cr!Spec

\* A caller is answered about the command it sent, never about another that
\* used its key (prepare_snapshot_group_cutover).
THEOREM AnswersFit ==
  ASSUME Cr!CutoverAssumption PROVE Cr!Spec => [][Cr!AskedFor]_(Cr!vars)
<1>1. ASSUME Cr!CutoverAssumption, CutoverInv, [Cr!Next]_(Cr!vars) PROVE Cr!AskedFor
  <2> SUFFICES ASSUME NEW c \in Callers, caller[c] # None, answers' # answers, caller'[c] = None
               PROVE  Cr!SameCommand(preps[caller[c].key], caller[c])
    BY DEF Cr!AskedFor
  <2>1. PICK d \in Callers : Cr!CommitReads(d) \/ Cr!CommitApplies(d)
    BY <1>1 DEF Cr!Next, Cr!vars, Cr!Activate, Cr!PrepareSnapshotGroupCutover, Cr!CommitLocks,
       Cr!Abort, Cr!Publish, Cr!Measure, Cr!BuildElsewhere
  <2>2. Cr!Fail(d) /\ caller[d] # None /\ caller[d].phase # "prepare"
    BY <2>1 DEF Cr!CommitReads, Cr!CommitApplies, Cr!Reply
  <2>3. d = c
    BY <1>1, <2>2, FailKeeps
  <2> QED BY <1>1, <2>2, <2>3 DEF CutoverInv, Prepared
<1> QED BY <1>1, CutoverInvariance, PTL DEF Cr!Spec

-----------------------------------------------------------------------------
(* Deliveries. *)

\* The provers know nothing of exponentiation but this.
PowersOfTwo == \A n \in Nat : 2 ^ n \in Nat

\* The retry policy and the descriptions of events are what the code checks
\* them to be; None is no worker, digest or handle.
OutboxAssumption ==
  /\ Ob!RetryPolicyAssumption /\ PowersOfTwo
  /\ MaxReplays \in Nat
  /\ \A e \in Events : /\ Ob!Record(e).tx \in Commits
                       /\ Ob!Record(e).sequence \in Nat /\ Ob!Record(e).ordinal \in Nat
  /\ None \notin Workers /\ None \notin Digests
  /\ None \notin [event : Events, token : Nat]

Bookkeeping ==
  [state : Ob!OutboxState, avail : 0..MaximumBackoff, cycle : 0..MaximumAttempts,
   replays : 0..MaxReplays,
   lease : [worker : Workers \union {None}, token : Nat, left : 0..LeaseDuration]]

Reached(e) == attempts[e] # <<>>
Applied(e) == \E i \in DOMAIN applied : applied[i] = e

-----------------------------------------------------------------------------
(* The inductive invariant. *)

\* An event's record and its attempts: the lease is that of the last attempt,
\* which alone is open, and attempts are counted by cycles.
Fits(r, a) ==
  /\ r \in Bookkeeping /\ a \in Seq(Ob!Outcomes)
  /\ Len(a) <= MaximumAttempts * r.replays + r.cycle
  /\ r.state \in {"none", "PENDING"} => r.cycle = 0
  /\ r.state = "none" => a = <<>>
  /\ r.state = "RETRY_WAIT" => r.cycle < MaximumAttempts
  /\ r.state \in {"LEASED", "DELIVERING"} =>
       /\ r.cycle > 0 /\ r.lease.worker \in Workers
       /\ Len(a) > 0 /\ r.lease.token = Len(a) /\ a[Len(a)] = "ACTIVE"
       /\ \A i \in 1..(Len(a) - 1) : a[i] # "ACTIVE"
  /\ r.state \notin {"LEASED", "DELIVERING"} =>
       r.lease = Ob!NoLease /\ \A i \in 1..Len(a) : a[i] # "ACTIVE"

OutboxTypes ==
  /\ events \in [Events -> Bookkeeping]
  /\ attempts \in [Events -> Seq(Ob!Outcomes)]
  /\ \A e \in Events : Fits(events[e], attempts[e])
  /\ transactions \in [Commits -> Digests \union {None}]
  /\ holding \in [Workers -> [event : Events, token : Nat] \union {None}]
  /\ sent \subseteq Events \X Nat /\ acked \subseteq Events \X Nat
  /\ applied \in Seq(Events)

\* An event is there if and only if its transaction was committed, and
\* committed events of a stream have places of their own.
EventsInserted ==
  /\ \A e \in Events : events[e].state # "none" => transactions[Ob!Record(e).tx] # None
  /\ \A e, f \in Ob!Committed : (e # f /\ Ob!SameStream(e, f)) => Ob!Before(e, f) \/ Ob!Before(f, e)

\* An event was claimed only after all that come before it were delivered:
\* nothing is committed before it later.
Reaching ==
  \A e, f \in Ob!Committed : (Ob!SameStream(e, f) /\ Ob!Before(e, f) /\ Reached(f)) =>
    events[e].state = "DELIVERED"

\* Only what was claimed is sent, only what is applied is acknowledged or
\* delivered.
Messages ==
  /\ \A d \in sent \union acked : Reached(d[1])
  /\ \A d \in acked : Applied(d[1])
  /\ \A i \in DOMAIN applied : Reached(applied[i])
  /\ \A e \in Events : events[e].state = "DELIVERED" => Applied(e)

OutboxInv == OutboxTypes /\ EventsInserted /\ Reaching /\ Messages /\ Ob!AppliedInOrder

-----------------------------------------------------------------------------
(* An event's record and attempts under each operation. *)

LEMMA NoLeaseType ==
  ASSUME OutboxAssumption
  PROVE  Ob!NoLease \in [worker : Workers \union {None}, token : Nat, left : 0..LeaseDuration]
BY DEF OutboxAssumption, Ob!RetryPolicyAssumption, Ob!NoLease

\* retryBackoffMs stays within its bound.
LEMMA BackoffBounded ==
  ASSUME OutboxAssumption, NEW n \in Nat, n > 0
  PROVE  Ob!Backoff(n) \in 0..MaximumBackoff
<1>1. n - 1 \in Nat /\ 2 ^ (n - 1) \in Nat
  BY DEF OutboxAssumption, PowersOfTwo
<1>2. InitialBackoff \in Nat /\ MaximumBackoff \in Nat
  BY DEF OutboxAssumption, Ob!RetryPolicyAssumption
<1>3. InitialBackoff * 2 ^ (n - 1) \in Nat
  BY <1>1, <1>2
<1> QED BY <1>2, <1>3 DEF Ob!Backoff

\* An attempt is opened.
LEMMA ClaimFits ==
  ASSUME OutboxAssumption, NEW r, NEW a, Fits(r, a), NEW w \in Workers,
         r.state \in {"PENDING", "RETRY_WAIT"}
  PROVE  Fits([r EXCEPT !.state = "LEASED", !.cycle = @ + 1,
                        !.lease = [worker |-> w, token |-> Len(a) + 1, left |-> LeaseDuration]],
              Append(a, "ACTIVE"))
<1> DEFINE l == [worker |-> w, token |-> Len(a) + 1, left |-> LeaseDuration]
           q == [r EXCEPT !.state = "LEASED", !.cycle = @ + 1, !.lease = l]
           b == Append(a, "ACTIVE")
<1>1. /\ MaximumAttempts \in Nat /\ MaximumAttempts > 0 /\ LeaseDuration \in Nat
      /\ r \in Bookkeeping /\ a \in Seq(Ob!Outcomes) /\ Len(a) \in Nat
  BY DEF OutboxAssumption, Ob!RetryPolicyAssumption, Fits
<1>2. l \in [worker : Workers \union {None}, token : Nat, left : 0..LeaseDuration]
  BY <1>1
<1>3. r.cycle \in Nat /\ r.cycle < MaximumAttempts /\ r.replays \in Nat
  BY <1>1 DEF Fits, Bookkeeping
<1>4. /\ q.state = "LEASED" /\ q.cycle = r.cycle + 1 /\ q.lease = l /\ q.replays = r.replays
      /\ q \in Bookkeeping
  <2>1. r.cycle + 1 \in 0..MaximumAttempts
    BY <1>1, <1>3
  <2> HIDE DEF l
  <2> QED BY <1>1, <1>2, <2>1 DEF Bookkeeping, Ob!OutboxState
<1>5. /\ b \in Seq(Ob!Outcomes) /\ Len(b) = Len(a) + 1 /\ b[Len(b)] = "ACTIVE"
      /\ \A i \in 1..Len(a) : b[i] = a[i]
  BY <1>1 DEF Ob!Outcomes
<1>6. \A i \in 1..(Len(b) - 1) : b[i] # "ACTIVE"
  BY <1>1, <1>5 DEF Fits
<1>7. Len(b) <= MaximumAttempts * q.replays + q.cycle
  <2>1. Len(a) <= MaximumAttempts * r.replays + r.cycle /\ MaximumAttempts * r.replays \in Nat
    BY <1>1, <1>3 DEF Fits
  <2> QED BY <1>1, <1>3, <1>4, <1>5, <2>1
<1>8. /\ l.worker = w /\ l.token = Len(b)
  BY <1>5
<1> HIDE DEF l, q, b
<1>9. q.lease.worker \in Workers /\ q.lease.token = Len(b) /\ Len(b) > 0 /\ q.cycle > 0
  BY <1>1, <1>3, <1>4, <1>5, <1>8
<1>10. Fits(q, b)
  BY <1>4, <1>5, <1>6, <1>7, <1>9 DEF Fits
<1> QED BY <1>10 DEF q, b, l

\* The open attempt ends with an outcome, and the event is delivered, waits
\* or is a dead letter.
LEMMA CloseFits ==
  ASSUME OutboxAssumption, NEW r, NEW a, Fits(r, a), r.state \in {"LEASED", "DELIVERING"},
         NEW s \in {"DELIVERED", "RETRY_WAIT", "DEAD_LETTER"},
         s = "RETRY_WAIT" => r.cycle < MaximumAttempts,
         NEW n \in 0..MaximumBackoff, NEW o \in Ob!Outcomes, o # "ACTIVE"
  PROVE  Fits([r EXCEPT !.state = s, !.avail = n, !.lease = Ob!NoLease], [a EXCEPT ![Len(a)] = o])
<1> DEFINE q == [r EXCEPT !.state = s, !.avail = n, !.lease = Ob!NoLease]
           b == [a EXCEPT ![Len(a)] = o]
<1>1. /\ r \in Bookkeeping /\ a \in Seq(Ob!Outcomes) /\ Len(a) \in Nat /\ Len(a) > 0
      /\ \A i \in 1..(Len(a) - 1) : a[i] # "ACTIVE"
  BY DEF Fits
<1>2. /\ q.state = s /\ q.cycle = r.cycle /\ q.replays = r.replays /\ q.lease = Ob!NoLease
      /\ q \in Bookkeeping
  BY <1>1, NoLeaseType DEF Bookkeeping, Ob!OutboxState
<1>3. /\ b \in Seq(Ob!Outcomes) /\ Len(b) = Len(a) /\ b[Len(a)] = o
      /\ \A i \in 1..Len(a) : i # Len(a) => b[i] = a[i]
  BY <1>1
<1>4. \A i \in 1..Len(b) : b[i] # "ACTIVE"
  <2> SUFFICES ASSUME NEW i \in 1..Len(a) PROVE b[i] # "ACTIVE"
    BY <1>3
  <2>1. CASE i = Len(a)
    BY <2>1, <1>3
  <2>2. CASE i # Len(a)
    <3>1. i \in 1..(Len(a) - 1)
      BY <1>1, <2>2
    <3> QED BY <3>1, <2>2, <1>1, <1>3
  <2> QED BY <2>1, <2>2
<1>5. Len(b) <= MaximumAttempts * q.replays + q.cycle
  BY <1>2, <1>3 DEF Fits
<1> HIDE DEF q, b
<1>6. Fits(q, b)
  BY <1>2, <1>3, <1>4, <1>5 DEF Fits
<1> QED BY <1>6 DEF q, b

\* A heartbeat extends the lease, a delivery that starts changes the state.
LEMMA LeasedFits ==
  ASSUME OutboxAssumption, NEW r, NEW a, Fits(r, a), r.state \in {"LEASED", "DELIVERING"}
  PROVE  /\ Fits([r EXCEPT !.lease.left = LeaseDuration], a)
         /\ Fits([r EXCEPT !.state = "DELIVERING"], a)
<1>1. r \in Bookkeeping /\ LeaseDuration \in 0..LeaseDuration
  BY DEF Fits, OutboxAssumption, Ob!RetryPolicyAssumption
<1> DEFINE q == [r EXCEPT !.lease.left = LeaseDuration]
           p == [r EXCEPT !.state = "DELIVERING"]
<1>2. /\ q \in Bookkeeping /\ q.state = r.state /\ q.cycle = r.cycle /\ q.replays = r.replays
      /\ q.lease.worker = r.lease.worker /\ q.lease.token = r.lease.token
  BY <1>1 DEF Bookkeeping
<1>3. /\ p \in Bookkeeping /\ p.state = "DELIVERING" /\ p.cycle = r.cycle /\ p.replays = r.replays
      /\ p.lease = r.lease
  BY <1>1 DEF Bookkeeping, Ob!OutboxState
<1> HIDE DEF q, p
<1>4. Fits(q, a)
  BY <1>2 DEF Fits
<1>5. Fits(p, a)
  BY <1>3 DEF Fits
<1> QED BY <1>4, <1>5 DEF q, p

\* A transaction commits the event; a dead letter starts another cycle.
LEMMA PendingFits ==
  ASSUME OutboxAssumption, NEW r, NEW a, Fits(r, a)
  PROVE  /\ r.state = "none" => Fits([r EXCEPT !.state = "PENDING"], a)
         /\ (r.state = "DEAD_LETTER" /\ r.replays < MaxReplays) =>
              Fits([r EXCEPT !.state = "PENDING", !.avail = 0, !.cycle = 0, !.replays = @ + 1], a)
<1>1. /\ r \in Bookkeeping /\ MaximumAttempts \in Nat /\ MaximumBackoff \in Nat /\ MaxReplays \in Nat
      /\ r.replays \in Nat /\ r.cycle \in Nat /\ r.cycle <= MaximumAttempts
      /\ Len(a) \in Nat /\ Len(a) <= MaximumAttempts * r.replays + r.cycle
  BY DEF Fits, OutboxAssumption, Ob!RetryPolicyAssumption, Bookkeeping
<1> DEFINE p == [r EXCEPT !.state = "PENDING"]
           q == [r EXCEPT !.state = "PENDING", !.avail = 0, !.cycle = 0, !.replays = @ + 1]
<1>2. /\ p \in Bookkeeping /\ p.state = "PENDING" /\ p.cycle = r.cycle /\ p.replays = r.replays
      /\ p.lease = r.lease
  BY <1>1 DEF Bookkeeping, Ob!OutboxState
<1>3. ASSUME r.replays < MaxReplays PROVE
      /\ q \in Bookkeeping /\ q.state = "PENDING" /\ q.cycle = 0 /\ q.replays = r.replays + 1
      /\ q.lease = r.lease
  <2>1. r.replays + 1 \in 0..MaxReplays /\ 0 \in 0..MaximumBackoff /\ 0 \in 0..MaximumAttempts
    BY <1>1, <1>3
  <2> QED BY <1>1, <2>1 DEF Bookkeeping, Ob!OutboxState
<1>4. MaximumAttempts * r.replays + r.cycle <= MaximumAttempts * (r.replays + 1) + 0
  BY <1>1
<1>5. Len(a) <= MaximumAttempts * (r.replays + 1) + 0
  <2>1. MaximumAttempts * r.replays \in Nat /\ MaximumAttempts * (r.replays + 1) \in Nat
    BY <1>1
  <2> QED BY <1>1, <1>4, <2>1
<1> HIDE DEF p, q
<1>6. ASSUME r.state = "none" PROVE Fits(p, a)
  BY <1>2, <1>6 DEF Fits
<1>7. ASSUME r.state = "DEAD_LETTER", r.replays < MaxReplays PROVE Fits(q, a)
  <2>1. Len(a) <= MaximumAttempts * q.replays + q.cycle
    BY <1>3, <1>5, <1>7
  <2> QED BY <1>3, <1>7, <2>1 DEF Fits
<1> QED BY <1>6, <1>7 DEF p, q

\* Time passes.
LEMMA TickFits ==
  ASSUME OutboxAssumption, NEW r, NEW a, Fits(r, a)
  PROVE  LET q == [r EXCEPT !.avail = Ob!Passed(@), !.lease.left = Ob!Passed(@)]
         IN  Fits(q, a) /\ q.state = r.state
<1> DEFINE q == [r EXCEPT !.avail = Ob!Passed(@), !.lease.left = Ob!Passed(@)]
<1>1. r \in Bookkeeping /\ MaximumBackoff \in Nat /\ LeaseDuration \in Nat
  BY DEF Fits, OutboxAssumption, Ob!RetryPolicyAssumption
<1>2. Ob!Passed(r.avail) \in 0..MaximumBackoff /\ Ob!Passed(r.lease.left) \in 0..LeaseDuration
  BY <1>1 DEF Bookkeeping, Ob!Passed
<1>3. /\ q \in Bookkeeping /\ q.state = r.state /\ q.cycle = r.cycle /\ q.replays = r.replays
      /\ q.lease.worker = r.lease.worker /\ q.lease.token = r.lease.token
      /\ q.lease.left = Ob!Passed(r.lease.left)
  BY <1>1, <1>2 DEF Bookkeeping
<1>4. r.lease = Ob!NoLease => q.lease = Ob!NoLease
  BY <1>1 DEF Ob!NoLease, Ob!Passed, Bookkeeping
<1> HIDE DEF q
<1>5. Fits(q, a)
  BY <1>3, <1>4 DEF Fits
<1> QED BY <1>3, <1>5 DEF q

-----------------------------------------------------------------------------
(* The steps. *)

LEMMA InitIInv ==
  ASSUME OutboxAssumption, Ob!Init PROVE OutboxInv
<1> DEFINE r == [state |-> "none", avail |-> 0, cycle |-> 0, replays |-> 0, lease |-> Ob!NoLease]
<1>1. /\ MaximumBackoff \in Nat /\ MaximumAttempts \in Nat /\ MaxReplays \in Nat
  BY DEF OutboxAssumption, Ob!RetryPolicyAssumption
<1>2. r \in Bookkeeping
  BY <1>1, NoLeaseType DEF Bookkeeping, Ob!OutboxState
<1>3. Fits(r, <<>>)
  BY <1>1, <1>2 DEF Fits
<1>4. events \in [Events -> Bookkeeping] /\ \A e \in Events : events[e] = r /\ attempts[e] = <<>>
  BY <1>2 DEF Ob!Init
<1> HIDE DEF r
<1>5. OutboxTypes
  BY <1>3, <1>4 DEF Ob!Init, OutboxTypes
<1>6. \A e \in Events : events[e].state = "none"
  BY <1>4 DEF r
<1>7. EventsInserted /\ Reaching /\ Messages
  BY <1>6 DEF Ob!Init, EventsInserted, Reaching, Messages, Ob!Committed
<1>8. Ob!AppliedInOrder
  BY DEF Ob!Init, Ob!AppliedInOrder
<1> QED BY <1>5, <1>7, <1>8 DEF OutboxInv

\* A step that commits nothing, claims nothing and applies nothing keeps the
\* order of the streams, if it delivers only what is applied and sends only
\* what was claimed.
LEMMA QuietStep ==
  ASSUME OutboxInv, OutboxTypes',
         \A e \in Events : /\ events'[e].state = "none" <=> events[e].state = "none"
                           /\ events[e].state = "DELIVERED" => events'[e].state = "DELIVERED"
                           /\ events'[e].state = "DELIVERED" =>
                                events[e].state = "DELIVERED" \/ Applied(e)
                           /\ attempts'[e] = <<>> <=> attempts[e] = <<>>,
         \A d \in sent' : d \in sent \/ Reached(d[1]),
         acked' \subseteq acked,
         UNCHANGED <<transactions, applied>>
  PROVE  OutboxInv'
<1>1. Ob!Committed' = Ob!Committed
  BY DEF Ob!Committed
<1>2. \A e \in Events : Reached(e)' <=> Reached(e)
  BY DEF Reached
<1>3. \A e \in Events : Applied(e)' <=> Applied(e)
  BY DEF Applied
<1>4. EventsInserted'
  BY <1>1 DEF OutboxInv, EventsInserted, Ob!SameStream, Ob!Before
<1>5. Reaching'
  BY <1>1, <1>2 DEF OutboxInv, Reaching, Ob!SameStream, Ob!Before, Ob!Committed
<1>6. Messages'
  <2>1. \A d \in (sent \union acked)' : Reached(d[1])'
    BY <1>2 DEF OutboxInv, Messages, OutboxTypes
  <2>2. \A d \in acked' : Applied(d[1])'
    BY <1>3 DEF OutboxInv, Messages, OutboxTypes
  <2>3. \A i \in DOMAIN applied' : Reached(applied[i])'
    BY <1>2 DEF OutboxInv, Messages, OutboxTypes
  <2>4. \A e \in Events : events'[e].state = "DELIVERED" => Applied(e)'
    BY <1>3 DEF OutboxInv, Messages
  <2> QED BY <2>1, <2>2, <2>3, <2>4 DEF Messages
<1>7. Ob!AppliedInOrder'
  BY DEF OutboxInv, Ob!AppliedInOrder, Ob!SameStream, Ob!Before
<1> QED BY <1>4, <1>5, <1>6, <1>7 DEF OutboxInv

\* A worker that owns its lease holds the last attempt of an event in flight.
LEMMA OwnerHolds ==
  ASSUME OutboxAssumption, OutboxInv, NEW w \in Workers, Ob!Owns(w), Ob!InFlight(holding[w].event)
  PROVE  LET e == holding[w].event
         IN  /\ e \in Events /\ Reached(e)
             /\ holding[w].token = Len(attempts[e]) /\ attempts[e][Len(attempts[e])] = "ACTIVE"
             /\ Len(attempts[e]) \in Nat /\ Len(attempts[e]) > 0
BY DEF OutboxInv, OutboxTypes, Ob!Owns, Ob!InFlight, Fits, Reached, OutboxAssumption

\* One event's record and attempts change.
LEMMA OneEvent ==
  ASSUME OutboxInv, NEW e \in Events, NEW r, NEW a, Fits(r, a),
         events' = [events EXCEPT ![e] = r], attempts' = [attempts EXCEPT ![e] = a]
  PROVE  /\ events' \in [Events -> Bookkeeping] /\ attempts' \in [Events -> Seq(Ob!Outcomes)]
         /\ events'[e] = r /\ attempts'[e] = a
         /\ \A f \in Events : f # e => events'[f] = events[f] /\ attempts'[f] = attempts[f]
         /\ \A f \in Events : Fits(events'[f], attempts'[f])
<1>1. r \in Bookkeeping /\ a \in Seq(Ob!Outcomes)
  BY DEF Fits
<1>2. /\ events' \in [Events -> Bookkeeping] /\ attempts' \in [Events -> Seq(Ob!Outcomes)]
      /\ events'[e] = r /\ attempts'[e] = a
      /\ \A f \in Events : f # e => events'[f] = events[f] /\ attempts'[f] = attempts[f]
  BY <1>1 DEF OutboxInv, OutboxTypes
<1>3. \A f \in Events : Fits(events'[f], attempts'[f])
  <2> SUFFICES ASSUME NEW f \in Events PROVE Fits(events'[f], attempts'[f])
    OBVIOUS
  <2>1. CASE f = e
    BY <2>1, <1>2
  <2>2. CASE f # e
    BY <2>2, <1>2 DEF OutboxInv, OutboxTypes
  <2> QED BY <2>1, <2>2
<1> QED BY <1>2, <1>3

LEMMA HeartbeatKeeps ==
  ASSUME OutboxAssumption, OutboxInv, NEW w \in Workers, Ob!Heartbeat(w)
  PROVE  OutboxInv'
<1> DEFINE e == holding[w].event
<1>1. e \in Events /\ events[e].state \in {"LEASED", "DELIVERING"}
  BY OwnerHolds DEF Ob!Heartbeat, Ob!InFlight
<1>2. Fits([events[e] EXCEPT !.lease.left = LeaseDuration], attempts[e])
  BY <1>1, LeasedFits DEF OutboxInv, OutboxTypes
<1>3. /\ events' = [events EXCEPT ![e] = [events[e] EXCEPT !.lease.left = LeaseDuration]]
      /\ attempts' = [attempts EXCEPT ![e] = attempts[e]]
      /\ UNCHANGED <<attempts, transactions, holding, sent, acked, applied>>
  BY <1>1 DEF Ob!Heartbeat, OutboxInv, OutboxTypes
<1>4. [events[e] EXCEPT !.lease.left = LeaseDuration].state = events[e].state
  BY <1>1 DEF OutboxInv, OutboxTypes, Bookkeeping
<1> HIDE DEF e
<1>5. /\ events' \in [Events -> Bookkeeping] /\ \A f \in Events : Fits(events'[f], attempts'[f])
      /\ \A f \in Events : events'[f].state = events[f].state
  BY <1>1, <1>2, <1>3, <1>4, OneEvent
<1>6. OutboxTypes'
  BY <1>3, <1>5 DEF OutboxInv, OutboxTypes
<1> QED BY <1>3, <1>5, <1>6, QuietStep

LEMMA StartDeliveryKeeps ==
  ASSUME OutboxAssumption, OutboxInv, NEW w \in Workers, Ob!StartDelivery(w)
  PROVE  OutboxInv'
<1> DEFINE e == holding[w].event
<1>1. /\ e \in Events /\ events[e].state = "LEASED" /\ Reached(e)
      /\ holding[w].token \in Nat
  BY OwnerHolds DEF Ob!StartDelivery, Ob!InFlight
<1>2. Fits([events[e] EXCEPT !.state = "DELIVERING"], attempts[e])
  BY <1>1, LeasedFits DEF OutboxInv, OutboxTypes
<1>3. /\ events' = [events EXCEPT ![e] = [events[e] EXCEPT !.state = "DELIVERING"]]
      /\ attempts' = [attempts EXCEPT ![e] = attempts[e]]
      /\ sent' = sent \union {<<e, holding[w].token>>}
      /\ UNCHANGED <<attempts, transactions, holding, acked, applied>>
  BY <1>1 DEF Ob!StartDelivery, OutboxInv, OutboxTypes
<1>4. [events[e] EXCEPT !.state = "DELIVERING"].state = "DELIVERING"
  BY <1>1 DEF OutboxInv, OutboxTypes, Bookkeeping
<1> HIDE DEF e
<1>5. /\ events' \in [Events -> Bookkeeping] /\ \A f \in Events : Fits(events'[f], attempts'[f])
      /\ events'[e].state = "DELIVERING"
      /\ \A f \in Events : f # e => events'[f].state = events[f].state
  BY <1>1, <1>2, <1>3, <1>4, OneEvent
<1>6. OutboxTypes'
  <2>1. <<e, holding[w].token>> \in Events \X Nat
    BY <1>1
  <2>2. sent' \subseteq Events \X Nat
    BY <1>3, <2>1 DEF OutboxInv, OutboxTypes
  <2> QED BY <1>3, <1>5, <2>2 DEF OutboxInv, OutboxTypes
<1>7. \A d \in sent' : d \in sent \/ Reached(d[1])
  BY <1>1, <1>3
<1> QED BY <1>1, <1>3, <1>5, <1>6, <1>7, QuietStep

\* The last attempt is closed: for AcknowledgeDelivery and FailDelivery.
LEMMA CloseKeeps ==
  ASSUME OutboxAssumption, OutboxInv, NEW e \in Events, Ob!InFlight(e),
         NEW s \in {"DELIVERED", "RETRY_WAIT", "DEAD_LETTER"},
         s = "RETRY_WAIT" => events[e].cycle < MaximumAttempts,
         s = "DELIVERED" => Applied(e),
         NEW n \in 0..MaximumBackoff, NEW o \in Ob!Outcomes, o # "ACTIVE",
         events' = [events EXCEPT ![e] = [events[e] EXCEPT !.state = s, !.avail = n, !.lease = Ob!NoLease]],
         attempts' = [attempts EXCEPT ![e] = [attempts[e] EXCEPT ![Len(attempts[e])] = o]],
         holding' \in [Workers -> [event : Events, token : Nat] \union {None}],
         sent' = sent, acked' \subseteq acked, UNCHANGED <<transactions, applied>>
  PROVE  OutboxInv'
<1> DEFINE r == [events[e] EXCEPT !.state = s, !.avail = n, !.lease = Ob!NoLease]
           a == [attempts[e] EXCEPT ![Len(attempts[e])] = o]
<1>1. events[e].state \in {"LEASED", "DELIVERING"} /\ Fits(events[e], attempts[e])
  BY DEF Ob!InFlight, OutboxInv, OutboxTypes
<1>2. Fits(r, a)
  BY <1>1, CloseFits
<1>3. r.state = s /\ attempts[e] # <<>> /\ a # <<>>
  BY <1>1 DEF Fits, Bookkeeping
<1>4. events' = [events EXCEPT ![e] = r] /\ attempts' = [attempts EXCEPT ![e] = a]
  OBVIOUS
<1> HIDE DEF r, a
<1>5. /\ events' \in [Events -> Bookkeeping] /\ attempts' \in [Events -> Seq(Ob!Outcomes)]
      /\ events'[e] = r /\ attempts'[e] = a
      /\ \A f \in Events : f # e => events'[f] = events[f] /\ attempts'[f] = attempts[f]
      /\ \A f \in Events : Fits(events'[f], attempts'[f])
  BY <1>2, <1>4, OneEvent
<1>6. OutboxTypes'
  BY <1>5 DEF OutboxInv, OutboxTypes
<1> QED BY <1>1, <1>3, <1>5, <1>6, QuietStep

LEMMA AcknowledgeKeeps ==
  ASSUME OutboxAssumption, OutboxInv, NEW w \in Workers, Ob!AcknowledgeDelivery(w)
  PROVE  OutboxInv'
<1> DEFINE e == holding[w].event
<1>1. /\ e \in Events /\ Ob!InFlight(e) /\ holding[w].token = Len(attempts[e])
  BY OwnerHolds DEF Ob!AcknowledgeDelivery, Ob!InFlight
<1>2. Applied(e)
  BY DEF Ob!AcknowledgeDelivery, OutboxInv, Messages
<1>3. events[e] \in Bookkeeping
  BY <1>1 DEF OutboxInv, OutboxTypes
<1>4. /\ events[e].avail \in 0..MaximumBackoff
      /\ [events[e] EXCEPT !.state = "DELIVERED", !.lease = Ob!NoLease]
           = [events[e] EXCEPT !.state = "DELIVERED", !.avail = events[e].avail, !.lease = Ob!NoLease]
  BY <1>3 DEF Bookkeeping
<1>5. attempts' = [attempts EXCEPT ![e] = [attempts[e] EXCEPT ![Len(attempts[e])] = "SUCCEEDED"]]
  BY <1>1 DEF Ob!AcknowledgeDelivery
<1>6. events' = [events EXCEPT ![e] = [events[e] EXCEPT !.state = "DELIVERED",
                                           !.avail = events[e].avail, !.lease = Ob!NoLease]]
  BY <1>1, <1>4 DEF Ob!AcknowledgeDelivery, OutboxInv, OutboxTypes
<1>7. /\ holding' \in [Workers -> [event : Events, token : Nat] \union {None}]
      /\ sent' = sent /\ acked' \subseteq acked /\ UNCHANGED <<transactions, applied>>
  BY DEF Ob!AcknowledgeDelivery, OutboxInv, OutboxTypes
<1>8. "SUCCEEDED" \in Ob!Outcomes
  BY DEF Ob!Outcomes
<1> HIDE DEF e
<1> QED BY <1>1, <1>2, <1>4, <1>5, <1>6, <1>7, <1>8, CloseKeeps

\* The record of a failed attempt.
LEMMA FailedRecord ==
  ASSUME OutboxAssumption, NEW r, NEW a, Fits(r, a), r.state \in {"LEASED", "DELIVERING"},
         NEW retryable \in BOOLEAN
  PROVE  \E s \in {"RETRY_WAIT", "DEAD_LETTER"}, n \in 0..MaximumBackoff :
           /\ Ob!Failed(r, retryable) = [r EXCEPT !.state = s, !.avail = n, !.lease = Ob!NoLease]
           /\ s = "RETRY_WAIT" => r.cycle < MaximumAttempts
<1>1. r.cycle \in Nat /\ r.cycle > 0
  BY DEF Fits, Bookkeeping
<1>2. Ob!Backoff(r.cycle) \in 0..MaximumBackoff /\ 0 \in 0..MaximumBackoff
  BY <1>1, BackoffBounded DEF OutboxAssumption, Ob!RetryPolicyAssumption
<1>3. CASE Ob!CanRetry(r, retryable)
  BY <1>2, <1>3 DEF Ob!Failed, Ob!CanRetry
<1>4. CASE ~Ob!CanRetry(r, retryable)
  BY <1>2, <1>4 DEF Ob!Failed
<1> QED BY <1>3, <1>4

LEMMA FailedState ==
  ASSUME NEW r \in Bookkeeping, NEW retryable \in BOOLEAN
  PROVE  Ob!Failed(r, retryable).state \in {"RETRY_WAIT", "DEAD_LETTER"}
<1> DEFINE s == IF Ob!CanRetry(r, retryable) THEN "RETRY_WAIT" ELSE "DEAD_LETTER"
           n == IF Ob!CanRetry(r, retryable) THEN Ob!Backoff(r.cycle) ELSE 0
<1>1. Ob!Failed(r, retryable) = [r EXCEPT !.state = s, !.avail = n, !.lease = Ob!NoLease]
  BY DEF Ob!Failed
<1>2. s \in {"RETRY_WAIT", "DEAD_LETTER"}
  OBVIOUS
<1> HIDE DEF s, n
<1>3. [r EXCEPT !.state = s, !.avail = n, !.lease = Ob!NoLease].state = s
  BY DEF Bookkeeping
<1> QED BY <1>1, <1>2, <1>3

LEMMA OutboxFailKeeps ==
  ASSUME OutboxAssumption, OutboxInv, NEW w \in Workers, NEW retryable \in BOOLEAN,
         Ob!FailDelivery(w, retryable)
  PROVE  OutboxInv'
<1> DEFINE e == holding[w].event
           o == IF Ob!CanRetry(events[e], retryable) THEN "RETRY_SCHEDULED" ELSE "DEAD_LETTER"
<1>1. /\ e \in Events /\ Ob!InFlight(e) /\ holding[w].token = Len(attempts[e])
      /\ Fits(events[e], attempts[e]) /\ events[e].state \in {"LEASED", "DELIVERING"}
  BY OwnerHolds DEF Ob!FailDelivery, Ob!InFlight, OutboxInv, OutboxTypes
<1>2. PICK s \in {"RETRY_WAIT", "DEAD_LETTER"}, n \in 0..MaximumBackoff :
        /\ Ob!Failed(events[e], retryable) = [events[e] EXCEPT !.state = s, !.avail = n, !.lease = Ob!NoLease]
        /\ s = "RETRY_WAIT" => events[e].cycle < MaximumAttempts
  BY <1>1, FailedRecord
<1>3. attempts' = [attempts EXCEPT ![e] = [attempts[e] EXCEPT ![Len(attempts[e])] = o]]
  BY <1>1 DEF Ob!FailDelivery
<1>4. events' = [events EXCEPT ![e] = [events[e] EXCEPT !.state = s, !.avail = n, !.lease = Ob!NoLease]]
  BY <1>1, <1>2 DEF Ob!FailDelivery, OutboxInv, OutboxTypes
<1>5. /\ holding' \in [Workers -> [event : Events, token : Nat] \union {None}]
      /\ sent' = sent /\ acked' \subseteq acked /\ UNCHANGED <<transactions, applied>>
  BY DEF Ob!FailDelivery, OutboxInv, OutboxTypes
<1>6. o \in Ob!Outcomes /\ o # "ACTIVE"
  BY DEF Ob!Outcomes
<1> HIDE DEF e, o
<1> QED BY <1>1, <1>2, <1>3, <1>4, <1>5, <1>6, CloseKeeps

LEMMA ReclaimKeeps ==
  ASSUME OutboxAssumption, OutboxInv, Ob!ReclaimExpiredLeases
  PROVE  OutboxInv'
<1>1. ASSUME NEW e \in Events
      PROVE  /\ Fits(events'[e], attempts'[e])
             /\ events'[e] = events[e] \/ /\ events[e].state \in {"LEASED", "DELIVERING"}
                                          /\ events'[e].state \in {"RETRY_WAIT", "DEAD_LETTER"}
             /\ attempts'[e] = <<>> <=> attempts[e] = <<>>
  <2>1. CASE e \notin Ob!Expired
    BY <2>1 DEF Ob!ReclaimExpiredLeases, OutboxInv, OutboxTypes
  <2>2. CASE e \in Ob!Expired
    <3> DEFINE o == IF Ob!CanRetry(events[e], TRUE) THEN "LEASE_EXPIRED" ELSE "DEAD_LETTER"
    <3>1. events[e].state \in {"LEASED", "DELIVERING"} /\ Fits(events[e], attempts[e])
      BY <2>2 DEF Ob!Expired, Ob!InFlight, OutboxInv, OutboxTypes
    <3>2. PICK s \in {"RETRY_WAIT", "DEAD_LETTER"}, n \in 0..MaximumBackoff :
            /\ Ob!Failed(events[e], TRUE) = [events[e] EXCEPT !.state = s, !.avail = n, !.lease = Ob!NoLease]
            /\ s = "RETRY_WAIT" => events[e].cycle < MaximumAttempts
      BY <3>1, FailedRecord
    <3>3. events[e].lease.token = Len(attempts[e]) /\ attempts[e] \in Seq(Ob!Outcomes)
          /\ Len(attempts[e]) > 0 /\ events[e] \in Bookkeeping
      BY <3>1 DEF Fits
    <3>4. events'[e] = [events[e] EXCEPT !.state = s, !.avail = n, !.lease = Ob!NoLease]
      BY <2>2, <3>2 DEF Ob!ReclaimExpiredLeases
    <3>5. attempts'[e] = [attempts[e] EXCEPT ![Len(attempts[e])] = o]
      BY <2>2, <3>3 DEF Ob!ReclaimExpiredLeases
    <3>6. o \in Ob!Outcomes /\ o # "ACTIVE"
      BY DEF Ob!Outcomes
    <3> HIDE DEF o
    <3>7. Fits(events'[e], attempts'[e])
      <4>1. Fits([events[e] EXCEPT !.state = s, !.avail = n, !.lease = Ob!NoLease],
                 [attempts[e] EXCEPT ![Len(attempts[e])] = o])
        BY <3>1, <3>2, <3>6, CloseFits
      <4> QED BY <3>4, <3>5, <4>1
    <3>8. events'[e].state = s
      BY <3>3, <3>4 DEF Bookkeeping
    <3>9. attempts[e] # <<>> /\ attempts'[e] # <<>>
      BY <3>3, <3>5
    <3> QED BY <3>1, <3>7, <3>8, <3>9
  <2> QED BY <2>1, <2>2
<1>2. /\ events' \in [Events -> Bookkeeping] /\ attempts' \in [Events -> Seq(Ob!Outcomes)]
  <2>1. \A e \in Events : events'[e] \in Bookkeeping /\ attempts'[e] \in Seq(Ob!Outcomes)
    BY <1>1 DEF Fits
  <2>2. events' = [e \in Events |-> events'[e]] /\ attempts' = [e \in Events |-> attempts'[e]]
    BY DEF Ob!ReclaimExpiredLeases
  <2> QED BY <2>1, <2>2
<1>3. UNCHANGED <<transactions, holding, sent, acked, applied>>
  BY DEF Ob!ReclaimExpiredLeases
<1>4. OutboxTypes'
  BY <1>1, <1>2, <1>3 DEF OutboxInv, OutboxTypes
<1> QED BY <1>1, <1>3, <1>4, QuietStep

LEMMA TickKeeps ==
  ASSUME OutboxAssumption, OutboxInv, Ob!Tick
  PROVE  OutboxInv'
<1>1. UNCHANGED <<attempts, transactions, holding, sent, acked, applied>>
  BY DEF Ob!Tick
<1>2. ASSUME NEW e \in Events
      PROVE  Fits(events'[e], attempts'[e]) /\ events'[e].state = events[e].state
  <2>1. events'[e] = [events[e] EXCEPT !.avail = Ob!Passed(@), !.lease.left = Ob!Passed(@)]
    BY DEF Ob!Tick
  <2>2. Fits(events[e], attempts[e])
    BY DEF OutboxInv, OutboxTypes
  <2> DEFINE q == [events[e] EXCEPT !.avail = Ob!Passed(@), !.lease.left = Ob!Passed(@)]
  <2>3. Fits(q, attempts[e]) /\ q.state = events[e].state
    BY <2>2, TickFits
  <2>4. events'[e] = q
    BY <2>1
  <2> HIDE DEF q
  <2> QED BY <1>1, <2>3, <2>4
<1>3. events' \in [Events -> Bookkeeping]
  <2>1. \A e \in Events : events'[e] \in Bookkeeping
    BY <1>2 DEF Fits
  <2>2. events' = [e \in Events |-> events'[e]]
    BY DEF Ob!Tick
  <2> QED BY <2>1, <2>2
<1>4. OutboxTypes'
  BY <1>1, <1>2, <1>3 DEF OutboxInv, OutboxTypes
<1> QED BY <1>1, <1>2, <1>4, QuietStep

LEMMA ReplayKeeps ==
  ASSUME OutboxAssumption, OutboxInv, NEW e \in Events, Ob!ReplayDeadLetter(e)
  PROVE  OutboxInv'
<1> DEFINE r == [events[e] EXCEPT !.state = "PENDING", !.avail = 0, !.cycle = 0, !.replays = @ + 1]
<1>1. Fits(r, attempts[e]) /\ r.state = "PENDING"
  BY PendingFits DEF Ob!ReplayDeadLetter, OutboxInv, OutboxTypes, Bookkeeping
<1>2. /\ events' = [events EXCEPT ![e] = r] /\ attempts' = [attempts EXCEPT ![e] = attempts[e]]
      /\ UNCHANGED <<attempts, transactions, holding, sent, acked, applied>>
  <2>1. events' = [events EXCEPT ![e] = r]
    BY DEF Ob!ReplayDeadLetter
  <2>2. UNCHANGED <<attempts, transactions, holding, sent, acked, applied>>
    BY DEF Ob!ReplayDeadLetter
  <2>3. attempts' = [attempts EXCEPT ![e] = attempts[e]]
    BY <2>2 DEF OutboxInv, OutboxTypes
  <2> QED BY <2>1, <2>2, <2>3
<1> HIDE DEF r
<1>3. /\ events' \in [Events -> Bookkeeping]
      /\ events'[e] = r /\ \A f \in Events : f # e => events'[f] = events[f]
      /\ \A f \in Events : Fits(events'[f], attempts'[f])
  BY <1>1, <1>2, OneEvent
<1>4. OutboxTypes'
  BY <1>2, <1>3 DEF OutboxInv, OutboxTypes
<1> QED BY <1>1, <1>2, <1>3, <1>4, QuietStep DEF Ob!ReplayDeadLetter

LEMMA DropKeeps ==
  ASSUME OutboxInv, NEW w \in Workers, Ob!Drop(w)
  PROVE  OutboxInv'
<1>1. OutboxTypes'
  BY DEF Ob!Drop, OutboxInv, OutboxTypes
<1> QED BY <1>1, QuietStep DEF Ob!Drop

\* The events of a transaction go in behind those of their streams.
LEMMA CommitKeeps ==
  ASSUME OutboxAssumption, OutboxInv, NEW t \in Commits, NEW digest \in Digests,
         Ob!CommitBusinessTransaction(t, digest)
  PROVE  OutboxInv'
<1> DEFINE batch == {e \in Events : Ob!Record(e).tx = t}
<1>1. /\ transactions[t] = None /\ Ob!InsertsBehind(batch)
      /\ transactions' = [transactions EXCEPT ![t] = digest]
      /\ UNCHANGED <<attempts, holding, sent, acked, applied>>
  BY DEF Ob!CommitBusinessTransaction
<1>2. \A e \in Events : e \in batch =>
        events[e].state = "none" /\ events'[e] = [events[e] EXCEPT !.state = "PENDING"]
  BY <1>1 DEF Ob!CommitBusinessTransaction, OutboxInv, EventsInserted
<1>3. \A e \in Events : e \notin batch => events'[e] = events[e]
  BY DEF Ob!CommitBusinessTransaction
<1> HIDE DEF batch
<1>4. ASSUME NEW e \in Events
      PROVE  /\ Fits(events'[e], attempts'[e])
             /\ e \in batch => events'[e].state = "PENDING" /\ attempts[e] = <<>>
  <2>1. Fits(events[e], attempts[e]) /\ events[e] \in Bookkeeping
    BY DEF OutboxInv, OutboxTypes
  <2>2. CASE e \in batch
    <3>1. Fits([events[e] EXCEPT !.state = "PENDING"], attempts[e])
      BY <1>2, <2>1, <2>2, PendingFits
    <3>2. events'[e].state = "PENDING"
      BY <1>2, <2>1, <2>2 DEF Bookkeeping
    <3>3. attempts[e] = <<>>
      BY <1>2, <2>1, <2>2 DEF Fits
    <3> QED BY <1>1, <1>2, <2>2, <3>1, <3>2, <3>3
  <2>3. CASE e \notin batch
    BY <1>1, <1>3, <2>1, <2>3
  <2> QED BY <2>2, <2>3
<1>5. OutboxTypes'
  <2>1. events' \in [Events -> Bookkeeping]
    <3>1. \A e \in Events : events'[e] \in Bookkeeping
      BY <1>4 DEF Fits
    <3>2. events' = [e \in Events |-> events'[e]]
      BY DEF Ob!CommitBusinessTransaction
    <3> QED BY <3>1, <3>2
  <2> QED BY <1>1, <1>4, <2>1 DEF OutboxInv, OutboxTypes
<1>6. Ob!Committed' = Ob!Committed \union batch /\ batch \subseteq Events
  BY <1>2, <1>3, <1>4 DEF Ob!Committed, batch
<1>7. EventsInserted'
  <2>1. \A e \in Events : events'[e].state # "none" => transactions'[Ob!Record(e).tx] # None
    <3> SUFFICES ASSUME NEW e \in Events, events'[e].state # "none"
                 PROVE  transactions'[Ob!Record(e).tx] # None
      OBVIOUS
    <3>1. Ob!Record(e).tx \in Commits
      BY DEF OutboxAssumption
    <3>2. CASE e \in batch
      BY <1>1, <3>1, <3>2 DEF batch, OutboxAssumption, OutboxInv, OutboxTypes
    <3>3. CASE e \notin batch
      <4>1. transactions[Ob!Record(e).tx] # None
        BY <1>3, <3>3 DEF OutboxInv, EventsInserted
      <4> QED BY <1>1, <3>1, <4>1 DEF OutboxAssumption, OutboxInv, OutboxTypes
    <3> QED BY <3>2, <3>3
  <2>2. \A e, f \in Ob!Committed \union batch :
          (e # f /\ Ob!SameStream(e, f)) => Ob!Before(e, f) \/ Ob!Before(f, e)
    <3> SUFFICES ASSUME NEW e \in Ob!Committed \union batch, NEW f \in Ob!Committed \union batch,
                        e # f, Ob!SameStream(e, f)
                 PROVE  Ob!Before(e, f) \/ Ob!Before(f, e)
      OBVIOUS
    <3>1. /\ e \in Events /\ f \in Events
          /\ Ob!Record(e).sequence \in Nat /\ Ob!Record(e).ordinal \in Nat
          /\ Ob!Record(f).sequence \in Nat /\ Ob!Record(f).ordinal \in Nat
      BY <1>6 DEF OutboxAssumption, Ob!Committed
    <3>2. CASE e \in Ob!Committed /\ f \in Ob!Committed
      BY <3>2 DEF OutboxInv, EventsInserted
    <3>3. CASE e \in batch /\ f \in batch
      BY <1>1, <3>1, <3>3 DEF Ob!InsertsBehind, Ob!Before
    <3>4. CASE e \in batch /\ f \in Ob!Committed
      BY <1>1, <3>1, <3>4 DEF Ob!InsertsBehind, Ob!Before
    <3>5. CASE f \in batch /\ e \in Ob!Committed
      BY <1>1, <3>1, <3>5 DEF Ob!InsertsBehind, Ob!Before, Ob!SameStream
    <3> QED BY <3>2, <3>3, <3>4, <3>5
  <2> QED BY <1>6, <2>1, <2>2 DEF EventsInserted, Ob!SameStream, Ob!Before
<1>8. Reaching'
  <2> SUFFICES ASSUME NEW e \in Ob!Committed \union batch, NEW f \in Ob!Committed \union batch,
                      Ob!SameStream(e, f), Ob!Before(e, f), Reached(f)
               PROVE  events'[e].state = "DELIVERED"
    BY <1>1, <1>6 DEF Reaching, Ob!SameStream, Ob!Before, Reached
  <2>1. f \in Ob!Committed /\ f \notin batch /\ f \in Events /\ e \in Events
    BY <1>4, <1>6 DEF Reached, Ob!Committed
  <2>2. e \notin batch
    <3>1. SUFFICES ASSUME e \in batch PROVE FALSE
      OBVIOUS
    <3>2. Ob!Record(f).sequence < Ob!Record(e).sequence
      BY <1>1, <2>1, <3>1 DEF Ob!InsertsBehind
    <3> QED BY <2>1, <3>2 DEF Ob!Before, OutboxAssumption
  <2>3. events[e].state = "DELIVERED"
    BY <2>1, <2>2 DEF OutboxInv, Reaching
  <2> QED BY <1>3, <2>1, <2>2, <2>3
<1>9. Messages'
  <2>1. \A e \in Events : events'[e].state = "DELIVERED" => events[e].state = "DELIVERED"
    BY <1>3, <1>4
  <2> QED BY <1>1, <2>1 DEF OutboxInv, Messages, Reached, Applied
<1>10. Ob!AppliedInOrder'
  BY <1>1 DEF OutboxInv, Ob!AppliedInOrder, Ob!SameStream, Ob!Before
<1> QED BY <1>5, <1>7, <1>8, <1>9, <1>10 DEF OutboxInv

\* A claim opens an attempt of an event that nothing undelivered precedes.
LEMMA ClaimKeeps ==
  ASSUME OutboxAssumption, OutboxInv, NEW w \in Workers, NEW e \in Events, Ob!ClaimNext(w, e)
  PROVE  OutboxInv'
<1> DEFINE r == [events[e] EXCEPT !.state = "LEASED", !.cycle = events[e].cycle + 1,
                                  !.lease = [worker |-> w, token |-> Len(attempts[e]) + 1,
                                             left |-> LeaseDuration]]
           a == Append(attempts[e], "ACTIVE")
<1>1. /\ events[e].state \in {"PENDING", "RETRY_WAIT"} /\ ~Ob!Blocked(e)
      /\ events' = [events EXCEPT ![e] = r] /\ attempts' = [attempts EXCEPT ![e] = a]
      /\ UNCHANGED <<transactions, sent, acked, applied>>
  BY DEF Ob!ClaimNext
<1>2. /\ Fits(events[e], attempts[e]) /\ attempts[e] \in Seq(Ob!Outcomes)
      /\ events[e] \in Bookkeeping
  BY DEF OutboxInv, OutboxTypes
<1>3. Fits(r, a)
  BY <1>1, <1>2, ClaimFits
<1>4. r.state = "LEASED" /\ a # <<>>
  BY <1>2 DEF Bookkeeping
<1>5. holding' \in [Workers -> [event : Events, token : Nat] \union {None}]
  <2>1. [event |-> e, token |-> Len(attempts[e]) + 1] \in [event : Events, token : Nat]
    BY <1>2
  <2> QED BY <2>1 DEF Ob!ClaimNext, OutboxInv, OutboxTypes
<1> HIDE DEF r, a
<1>6. /\ events' \in [Events -> Bookkeeping] /\ attempts' \in [Events -> Seq(Ob!Outcomes)]
      /\ events'[e] = r /\ attempts'[e] = a
      /\ \A f \in Events : f # e => events'[f] = events[f] /\ attempts'[f] = attempts[f]
      /\ \A f \in Events : Fits(events'[f], attempts'[f])
  BY <1>1, <1>3, OneEvent
<1>7. OutboxTypes'
  BY <1>1, <1>5, <1>6 DEF OutboxInv, OutboxTypes
<1>8. Ob!Committed' = Ob!Committed
  BY <1>1, <1>4, <1>6 DEF Ob!Committed
<1>9. EventsInserted'
  BY <1>1, <1>8 DEF OutboxInv, EventsInserted, Ob!SameStream, Ob!Before, Ob!Committed
<1>10. Reaching'
  <2> SUFFICES ASSUME NEW f \in Ob!Committed, NEW g \in Ob!Committed,
                      Ob!SameStream(f, g), Ob!Before(f, g), attempts'[g] # <<>>
               PROVE  events'[f].state = "DELIVERED"
    BY <1>8 DEF Reaching, Ob!SameStream, Ob!Before, Reached
  <2>1. events[f].state = "DELIVERED"
    <3>1. CASE g = e
      BY <1>1, <3>1 DEF Ob!Blocked, Ob!SameStream
    <3>2. CASE g # e
      BY <1>6, <3>2 DEF OutboxInv, Reaching, Reached, Ob!Committed
    <3> QED BY <3>1, <3>2
  <2> QED BY <1>1, <1>6, <2>1 DEF Ob!Committed
<1>11. Messages'
  <2>1. \A f \in Events : Reached(f) => Reached(f)'
    BY <1>4, <1>6 DEF Reached
  <2>2. \A f \in Events : events'[f].state = "DELIVERED" => events[f].state = "DELIVERED"
    BY <1>4, <1>6
  <2>3. \A f \in Events : Applied(f) => Applied(f)'
    BY <1>1 DEF Applied
  <2>4. \A d \in sent \union acked : d[1] \in Events
    BY DEF OutboxInv, OutboxTypes
  <2>5. \A i \in DOMAIN applied : applied[i] \in Events
    BY DEF OutboxInv, OutboxTypes
  <2>6. (\A d \in sent \union acked : Reached(d[1]))'
    BY <1>1, <2>1, <2>4 DEF OutboxInv, Messages
  <2>7. (\A d \in acked : Applied(d[1]))'
    BY <1>1, <2>3, <2>4 DEF OutboxInv, Messages
  <2>8. (\A i \in DOMAIN applied : Reached(applied[i]))'
    BY <1>1, <2>1, <2>5 DEF OutboxInv, Messages
  <2>9. (\A f \in Events : events[f].state = "DELIVERED" => Applied(f))'
    BY <2>2, <2>3 DEF OutboxInv, Messages
  <2> QED BY <2>6, <2>7, <2>8, <2>9 DEF Messages
<1>12. Ob!AppliedInOrder'
  BY <1>1 DEF OutboxInv, Ob!AppliedInOrder, Ob!SameStream, Ob!Before
<1> QED BY <1>7, <1>9, <1>10, <1>11, <1>12 DEF OutboxInv

\* What was claimed is committed.
LEMMA ReachedCommitted ==
  ASSUME OutboxInv, NEW e \in Events, Reached(e)
  PROVE  e \in Ob!Committed
BY DEF OutboxInv, OutboxTypes, Fits, Reached, Ob!Committed

\* The consumer applies an event that was claimed: everything before it in
\* its stream was applied, and everything after it was not.
LEMMA ConsumerKeeps ==
  ASSUME OutboxAssumption, OutboxInv, NEW d \in sent, Ob!ConsumerApplies(d)
  PROVE  OutboxInv'
<1> DEFINE e == d[1]
<1>1. /\ d \in Events \X Nat /\ e \in Events /\ Reached(e) /\ e \in Ob!Committed
      /\ sent' = sent \ {d} /\ acked' = acked \union {d}
      /\ UNCHANGED <<events, attempts, transactions, holding>>
  BY ReachedCommitted DEF Ob!ConsumerApplies, OutboxInv, OutboxTypes, Messages
<1>2. \/ Applied(e) /\ applied' = applied
      \/ ~Applied(e) /\ applied' = Append(applied, e)
  BY DEF Ob!ConsumerApplies, Applied
<1> HIDE DEF e
<1>3. applied \in Seq(Events) /\ Len(applied) \in Nat
  BY DEF OutboxInv, OutboxTypes
<1>4. /\ applied' \in Seq(Events)
      /\ \A i \in DOMAIN applied : i \in DOMAIN applied' /\ applied'[i] = applied[i]
      /\ \A i \in DOMAIN applied' : i \in DOMAIN applied \/ applied'[i] = e
      /\ \E i \in DOMAIN applied' : applied'[i] = e
  <2>1. CASE Applied(e) /\ applied' = applied
    BY <1>3, <2>1 DEF Applied
  <2>2. CASE applied' = Append(applied, e)
    <3>1. /\ applied' \in Seq(Events) /\ Len(applied') = Len(applied) + 1
          /\ \A i \in 1..Len(applied) : applied'[i] = applied[i]
          /\ applied'[Len(applied) + 1] = e
      BY <1>1, <1>3, <2>2
    <3>2. DOMAIN applied' = 1..(Len(applied) + 1) /\ DOMAIN applied = 1..Len(applied)
      BY <1>3, <3>1
    <3> QED BY <1>3, <3>1, <3>2
  <2> QED BY <1>2, <2>1, <2>2
<1>5. OutboxTypes'
  BY <1>1, <1>4 DEF OutboxInv, OutboxTypes
<1>6. EventsInserted' /\ Reaching'
  BY <1>1 DEF OutboxInv, EventsInserted, Reaching, Ob!Committed, Ob!SameStream, Ob!Before, Reached
<1>7. Messages'
  <2>1. \A f \in Events : Reached(f)' <=> Reached(f)
    BY <1>1 DEF Reached
  <2>2. Applied(e)'
    BY <1>4 DEF Applied
  <2>3. \A f \in Events : Applied(f) => Applied(f)'
    BY <1>4 DEF Applied
  <2>4. (\A g \in sent \union acked : Reached(g[1]))'
    BY <1>1, <2>1 DEF OutboxInv, Messages, OutboxTypes
  <2>5. (\A g \in acked : Applied(g[1]))'
    <3> SUFFICES ASSUME NEW g \in acked' PROVE Applied(g[1])'
      OBVIOUS
    <3>1. CASE g = d
      BY <3>1, <2>2 DEF e
    <3>2. CASE g # d
      BY <3>2, <1>1, <2>3 DEF OutboxInv, Messages, OutboxTypes
    <3> QED BY <3>1, <3>2
  <2>6. (\A i \in DOMAIN applied : Reached(applied[i]))'
    <3> SUFFICES ASSUME NEW i \in DOMAIN applied' PROVE attempts[applied'[i]] # <<>>
      BY <1>1 DEF Reached
    <3>1. CASE i \in DOMAIN applied
      BY <3>1, <1>4 DEF OutboxInv, Messages, Reached
    <3>2. CASE applied'[i] = e
      BY <3>2, <1>1 DEF Reached
    <3> QED BY <3>1, <3>2, <1>4
  <2>7. (\A f \in Events : events[f].state = "DELIVERED" => Applied(f))'
    BY <1>1, <2>3 DEF OutboxInv, Messages
  <2> QED BY <2>4, <2>5, <2>6, <2>7 DEF Messages
<1>8. Ob!AppliedInOrder'
  <2>1. CASE applied' = applied
    BY <2>1 DEF OutboxInv, Ob!AppliedInOrder, Ob!SameStream, Ob!Before
  <2>2. CASE ~Applied(e) /\ applied' = Append(applied, e)
    <3>1. /\ DOMAIN applied = 1..Len(applied) /\ DOMAIN applied' = 1..(Len(applied) + 1)
          /\ applied'[Len(applied) + 1] = e
          /\ \A i \in 1..Len(applied) : applied'[i] = applied[i]
      BY <1>1, <1>3, <2>2
    <3>2. ASSUME NEW i \in 1..Len(applied), Ob!SameStream(applied[i], e)
          PROVE  Ob!Before(applied[i], e)
      <4> DEFINE f == applied[i]
      <4>1. f \in Events /\ Reached(f) /\ f \in Ob!Committed
        BY <1>3, <3>1, ReachedCommitted DEF OutboxInv, Messages
      <4>2. f # e
        BY <2>2, <3>1 DEF Applied
      <4> HIDE DEF f
      <4>3. Ob!SameStream(f, e) /\ Ob!SameStream(e, f)
        BY <3>2 DEF f, Ob!SameStream
      <4>4. Ob!Before(f, e) \/ Ob!Before(e, f)
        BY <1>1, <4>1, <4>2, <4>3 DEF OutboxInv, EventsInserted
      <4>5. CASE Ob!Before(e, f)
        <5>1. events[e].state = "DELIVERED"
          BY <1>1, <4>1, <4>3, <4>5 DEF OutboxInv, Reaching
        <5> QED BY <1>1, <2>2, <5>1 DEF OutboxInv, Messages
      <4> QED BY <4>4, <4>5 DEF f
    <3> SUFFICES ASSUME NEW i \in 1..(Len(applied) + 1), NEW j \in 1..(Len(applied) + 1),
                        i < j, Ob!SameStream(applied'[i], applied'[j])
                 PROVE  Ob!Before(applied'[i], applied'[j])
      BY <3>1 DEF Ob!AppliedInOrder, Ob!SameStream, Ob!Before
    <3>3. CASE j = Len(applied) + 1
      <4>1. i \in 1..Len(applied)
        BY <1>3, <3>3
      <4> QED BY <3>1, <3>2, <3>3, <4>1
    <3>4. CASE j # Len(applied) + 1
      <4>1. i \in 1..Len(applied) /\ j \in 1..Len(applied)
        BY <1>3, <3>4
      <4>2. applied'[i] = applied[i] /\ applied'[j] = applied[j]
        BY <3>1, <4>1
      <4> QED BY <3>1, <4>1, <4>2 DEF OutboxInv, Ob!AppliedInOrder
    <3> QED BY <3>3, <3>4
  <2> QED BY <1>2, <2>1, <2>2
<1> QED BY <1>5, <1>6, <1>7, <1>8 DEF OutboxInv

LEMMA NextIInv ==
  ASSUME OutboxAssumption, OutboxInv, [Ob!Next]_(Ob!vars)
  PROVE  OutboxInv'
<1>1. CASE UNCHANGED Ob!vars
  BY <1>1 DEF Ob!vars, OutboxInv, OutboxTypes, EventsInserted, Reaching, Messages, Ob!AppliedInOrder, Ob!Committed,
     Ob!SameStream, Ob!Before, Reached, Applied
<1>2. CASE \E t \in Commits, d \in Digests : Ob!CommitBusinessTransaction(t, d)
  BY <1>2, CommitKeeps
<1>3. ASSUME NEW w \in Workers, Ob!Claim(w) \/ Ob!Heartbeat(w) \/ Ob!StartDelivery(w) \/ Ob!Drop(w)
      PROVE  OutboxInv'
  BY <1>3, ClaimKeeps, HeartbeatKeeps, StartDeliveryKeeps, DropKeeps DEF Ob!Claim
<1>4. ASSUME NEW w \in Workers, Ob!Finish(w) PROVE OutboxInv'
  BY <1>4, AcknowledgeKeeps, OutboxFailKeeps DEF Ob!Finish
<1>5. CASE \E d \in sent : Ob!ConsumerApplies(d)
  BY <1>5, ConsumerKeeps
<1>6. CASE Ob!ReclaimExpiredLeases \/ Ob!Tick
  BY <1>6, ReclaimKeeps, TickKeeps
<1>7. CASE \E e \in Events : Ob!ReplayDeadLetter(e)
  BY <1>7, ReplayKeeps
<1> QED BY <1>1, <1>2, <1>3, <1>4, <1>5, <1>6, <1>7 DEF Ob!Next

-----------------------------------------------------------------------------
(* The theorems. *)

\* The invariant holds of every behaviour, whatever the streams and policy.
THEOREM OutboxInvariance ==
  ASSUME OutboxAssumption PROVE Ob!Spec => []OutboxInv
<1>1. Ob!Init => OutboxInv
  BY InitIInv
<1>2. OutboxInv /\ [Ob!Next]_(Ob!vars) => OutboxInv'
  BY NextIInv
<1> QED BY <1>1, <1>2, PTL DEF Ob!Spec

\* TypeOK: leases, waits and attempts of every event stay within what the
\* retry policy allows (assertRetryPolicy), over all its replays.
THEOREM OutboxTyped ==
  ASSUME OutboxAssumption PROVE Ob!Spec => []Ob!TypeOK
<1>1. OutboxInv => Ob!TypeOK
  <2> SUFFICES ASSUME OutboxInv PROVE Ob!TypeOK
    OBVIOUS
  <2>1. ASSUME NEW e \in Events PROVE events[e] \in Ob!OutboxEvent
    <3> DEFINE r == events[e]
               a == attempts[e]
    <3>1. Fits(r, a) /\ r \in Bookkeeping
      BY DEF OutboxInv, OutboxTypes, Fits
    <3>2. /\ MaximumAttempts \in Nat /\ MaxReplays \in Nat
          /\ r.replays \in Nat /\ r.replays <= MaxReplays
          /\ r.cycle \in Nat /\ r.cycle <= MaximumAttempts
      BY <3>1 DEF Bookkeeping, OutboxAssumption, Ob!RetryPolicyAssumption
    <3> HIDE DEF r, a
    <3>3. MaximumAttempts * r.replays + r.cycle <= MaximumAttempts * (MaxReplays + 1)
      BY <3>2
    <3>4. MaximumAttempts * r.replays \in Nat /\ MaximumAttempts * (MaxReplays + 1) \in Nat
      BY <3>2
    <3>5. r.lease.token \in 0..(MaximumAttempts * (MaxReplays + 1))
      <4>1. CASE r.state \in {"LEASED", "DELIVERING"}
        <5>1. r.lease.token = Len(a) /\ Len(a) \in Nat /\ Len(a) > 0
              /\ Len(a) <= MaximumAttempts * r.replays + r.cycle
          BY <3>1, <4>1 DEF Fits
        <5> QED BY <3>2, <3>3, <3>4, <5>1
      <4>2. CASE r.state \notin {"LEASED", "DELIVERING"}
        BY <3>1, <3>4, <4>2 DEF Fits, Ob!NoLease
      <4> QED BY <4>1, <4>2
    <3>6. r.lease \in [worker : Workers \union {None},
                       token : 0..(MaximumAttempts * (MaxReplays + 1)), left : 0..LeaseDuration]
      BY <3>1, <3>5 DEF Bookkeeping
    <3>7. r \in Ob!OutboxEvent
      BY <3>1, <3>6 DEF Bookkeeping, Ob!OutboxEvent
    <3> QED BY <3>7 DEF r
  <2>2. events \in [Events -> Ob!OutboxEvent]
    BY <2>1 DEF OutboxInv, OutboxTypes
  <2> QED BY <2>2 DEF OutboxInv, OutboxTypes, Ob!TypeOK
<1> QED BY <1>1, OutboxInvariance, PTL

\* An event in flight has one open attempt, that of its lease, and no other
\* event has any (assertInvariants).
THEOREM OneAttempt ==
  ASSUME OutboxAssumption PROVE Ob!Spec => []Ob!OneOpenAttempt
<1>1. OutboxInv => Ob!OneOpenAttempt
  <2> SUFFICES ASSUME OutboxInv, NEW e \in Events
               PROVE  {i \in DOMAIN attempts[e] : attempts[e][i] = "ACTIVE"}
                        = IF Ob!InFlight(e) THEN {events[e].lease.token} ELSE {}
    BY DEF Ob!OneOpenAttempt
  <2>1. /\ Fits(events[e], attempts[e]) /\ Len(attempts[e]) \in Nat
        /\ DOMAIN attempts[e] = 1..Len(attempts[e])
    BY DEF OutboxInv, OutboxTypes
  <2>2. CASE Ob!InFlight(e)
    <3>1. /\ events[e].lease.token = Len(attempts[e]) /\ Len(attempts[e]) > 0
          /\ attempts[e][Len(attempts[e])] = "ACTIVE"
          /\ \A i \in 1..(Len(attempts[e]) - 1) : attempts[e][i] # "ACTIVE"
      BY <2>1, <2>2 DEF Fits, Ob!InFlight
    <3> QED BY <2>1, <2>2, <3>1
  <2>3. CASE ~Ob!InFlight(e)
    BY <2>1, <2>3 DEF Fits, Ob!InFlight
  <2> QED BY <2>2, <2>3
<1> QED BY <1>1, OutboxInvariance, PTL

\* No event runs ahead of its stream, and no two of one stream are under way
\* at once (hasUndeliveredPredecessor, commitBusinessTransaction).
THEOREM StreamsOrdered ==
  ASSUME OutboxAssumption PROVE Ob!Spec => []Ob!StreamInOrder
<1>1. OutboxInv => Ob!StreamInOrder
  <2> SUFFICES ASSUME OutboxInv, NEW e \in Ob!Committed, NEW f \in Ob!Committed,
                      Ob!SameStream(e, f), Ob!Before(e, f),
                      events[f].state \in {"LEASED", "DELIVERING", "DELIVERED"}
               PROVE  events[e].state = "DELIVERED"
    BY DEF Ob!StreamInOrder
  <2>1. f \in Events
    BY DEF Ob!Committed
  <2>2. Reached(f)
    <3>1. CASE events[f].state = "DELIVERED"
      BY <2>1, <3>1 DEF OutboxInv, Messages, Applied
    <3>2. CASE events[f].state \in {"LEASED", "DELIVERING"}
      BY <2>1, <3>2 DEF OutboxInv, OutboxTypes, Fits, Reached
    <3> QED BY <3>1, <3>2
  <2> QED BY <2>2 DEF OutboxInv, Reaching
<1> QED BY <1>1, OutboxInvariance, PTL

\* The consumer first applies the events of a stream in their order, whatever
\* is repeated, lost or late.
THEOREM ConsumerOrdered ==
  ASSUME OutboxAssumption PROVE Ob!Spec => []Ob!AppliedInOrder
<1>1. OutboxInv => Ob!AppliedInOrder
  BY DEF OutboxInv
<1> QED BY <1>1, OutboxInvariance, PTL

\* What is recorded as delivered was applied, and an action is complete only
\* when all its events were (acknowledgeDelivery, actionDeliveryStatus).
THEOREM DeliveredApplied ==
  ASSUME OutboxAssumption PROVE Ob!Spec => []Ob!DeliveredWasApplied
<1>1. OutboxInv => Ob!DeliveredWasApplied
  <2> SUFFICES ASSUME OutboxInv PROVE Ob!DeliveredWasApplied
    OBVIOUS
  <2>1. \A e \in Events : events[e].state = "DELIVERED" => \E i \in DOMAIN applied : applied[i] = e
    BY DEF OutboxInv, Messages, Applied
  <2>2. ASSUME NEW a, Ob!ActionDeliveryStatus(a) = "COMPLETE",
               NEW f \in Ob!Committed, Ob!Record(f).action = a
        PROVE  events[f].state = "DELIVERED"
    <3> DEFINE own == {e \in Ob!Committed : Ob!Record(e).action = a}
               done == {e \in own : events[e].state = "DELIVERED"}
    <3>1. f \in own
      BY <2>2
    <3> SUFFICES ASSUME done # own PROVE FALSE
      BY <3>1
    <3>2. Ob!ActionDeliveryStatus(a) =
            CASE own = {} -> "NOT_APPLICABLE"
              [] own # {} /\ (\E e \in own : events[e].state = "DEAD_LETTER") -> "DEAD_LETTER"
              [] own # {} /\ done = own -> "COMPLETE"
              [] OTHER -> IF done = {} THEN "PENDING" ELSE "PARTIAL"
      BY DEF Ob!ActionDeliveryStatus
    <3>3. own # {}
      BY <3>1
    <3> DEFINE dead == \E e \in own : events[e].state = "DEAD_LETTER"
    <3>4. CASE dead
      BY <2>2, <3>2, <3>3, <3>4
    <3>5. CASE ~dead
      BY <2>2, <3>2, <3>3, <3>5
    <3> QED BY <3>4, <3>5
  <2>3. Ob!Committed \subseteq Events
    BY DEF Ob!Committed
  <2> QED BY <2>1, <2>2, <2>3 DEF Ob!DeliveredWasApplied
<1> QED BY <1>1, OutboxInvariance, PTL

\* A worker that lost its lease ends no attempt (assertValidLease).
THEOREM WorkersFenced ==
  ASSUME OutboxAssumption PROVE Ob!Spec => [][Ob!StaleWorkersAreFenced]_(Ob!vars)
<1>1. ASSUME OutboxAssumption, OutboxInv, [Ob!Next]_(Ob!vars) PROVE Ob!StaleWorkersAreFenced
  <2> SUFFICES ASSUME NEW w \in Workers, holding[w] # None, holding'[w] = None,
                      attempts' # attempts
               PROVE  attempts[holding[w].event][holding[w].token] = "ACTIVE"
    BY DEF Ob!StaleWorkersAreFenced
  <2>1. PICK v \in Workers : Ob!Finish(v)
    <3>1. holding' # holding
      OBVIOUS
    <3>2. ~\E v \in Workers : Ob!Claim(v)
      <4> SUFFICES ASSUME NEW v \in Workers, NEW e \in Events, Ob!ClaimNext(v, e) PROVE FALSE
        BY DEF Ob!Claim
      <4>1. /\ holding[v] = None
            /\ holding' = [holding EXCEPT ![v] = [event |-> e, token |-> Len(attempts[e]) + 1]]
        BY DEF Ob!ClaimNext
      <4>2. v # w
        BY <4>1
      <4> QED BY <1>1, <4>1, <4>2 DEF OutboxInv, OutboxTypes
    <3> QED BY <1>1, <3>1, <3>2 DEF Ob!Next, Ob!vars, Ob!CommitBusinessTransaction, Ob!Heartbeat, Ob!StartDelivery,
           Ob!Drop, Ob!ConsumerApplies, Ob!ReclaimExpiredLeases, Ob!Tick, Ob!ReplayDeadLetter
  <2>2. /\ Ob!Owns(v) /\ Ob!InFlight(holding[v].event) /\ holding[v] # None
        /\ holding' = [holding EXCEPT ![v] = None]
    BY <2>1 DEF Ob!Finish, Ob!AcknowledgeDelivery, Ob!FailDelivery, Ob!InFlight, Ob!Owns
  <2>3. v = w
    BY <1>1, <2>2 DEF OutboxInv, OutboxTypes
  <2> QED BY <1>1, <2>2, <2>3, OwnerHolds
<1> QED BY <1>1, OutboxInvariance, PTL DEF Ob!Spec

\* What was delivered stays delivered and what was committed stays committed:
\* no lease, retry or replay undoes either.
THEOREM DeliveredForGood ==
  ASSUME OutboxAssumption PROVE Ob!Spec => [][Ob!CommittedOnce]_(Ob!vars)
<1>1. ASSUME OutboxAssumption, OutboxInv, [Ob!Next]_(Ob!vars) PROVE Ob!CommittedOnce
  <2> SUFFICES ASSUME NEW e \in Events
               PROVE  /\ events[e].state = "DELIVERED" => events'[e].state = "DELIVERED"
                      /\ events[e].state # "none" => events'[e].state # "none"
    BY DEF Ob!CommittedOnce
  <2>1. /\ events[e] \in Bookkeeping /\ events \in [Events -> Bookkeeping]
        /\ OutboxInv' /\ events'[e] \in Bookkeeping
    BY <1>1, NextIInv DEF OutboxInv, OutboxTypes
  <2>2. CASE events'[e] = events[e]
    BY <2>2
  <2>3. CASE \E t \in Commits, d \in Digests : Ob!CommitBusinessTransaction(t, d)
    BY <1>1, <2>1, <2>3 DEF Ob!CommitBusinessTransaction, OutboxInv, EventsInserted, OutboxAssumption
  <2>4. ASSUME NEW w \in Workers, NEW f \in Events, Ob!ClaimNext(w, f)
        PROVE  events'[e] = events[e] \/ /\ events[e].state \in {"PENDING", "RETRY_WAIT"}
                                         /\ events'[e].state = "LEASED"
    <3>1. CASE f # e
      <4> DEFINE r == [events[f] EXCEPT !.state = "LEASED", !.cycle = events[f].cycle + 1,
                                        !.lease = [worker |-> w, token |-> Len(attempts[f]) + 1,
                                                   left |-> LeaseDuration]]
      <4>1. events' = [events EXCEPT ![f] = r]
        BY <2>4 DEF Ob!ClaimNext
      <4> HIDE DEF r
      <4> QED BY <2>1, <3>1, <4>1
    <3>2. CASE f = e
      <4> DEFINE l == [worker |-> w, token |-> Len(attempts[e]) + 1, left |-> LeaseDuration]
                 n == events[e].cycle + 1
      <4>1. events'[e] = [events[e] EXCEPT !.state = "LEASED", !.cycle = n, !.lease = l]
        BY <2>1, <2>4, <3>2 DEF Ob!ClaimNext
      <4> HIDE DEF l, n
      <4>2. events'[e].state = "LEASED"
        BY <2>1, <4>1 DEF Bookkeeping
      <4> QED BY <2>4, <3>2, <4>2 DEF Ob!ClaimNext
    <3> QED BY <3>1, <3>2
  <2>5. ASSUME NEW w \in Workers, Ob!Heartbeat(w) \/ Ob!StartDelivery(w)
        PROVE  events'[e].state = events[e].state \/ /\ events[e].state = "LEASED"
                                                     /\ events'[e].state = "DELIVERING"
    <3> DEFINE h == holding[w].event
               r == [events[h] EXCEPT !.lease.left = LeaseDuration]
               q == [events[h] EXCEPT !.state = "DELIVERING"]
    <3>1. CASE holding[w].event # e
      <4>1. events' = [events EXCEPT ![h] = r] \/ events' = [events EXCEPT ![h] = q]
        BY <2>5 DEF Ob!Heartbeat, Ob!StartDelivery
      <4> HIDE DEF r, q
      <4> QED BY <2>1, <3>1, <4>1
    <3>2. CASE holding[w].event = e /\ Ob!Heartbeat(w)
      <4>1. events'[e] = [events[e] EXCEPT !.lease.left = LeaseDuration]
        BY <2>1, <3>2 DEF Ob!Heartbeat
      <4>2. [events[e] EXCEPT !.lease.left = LeaseDuration].state = events[e].state
        BY <2>1 DEF Bookkeeping
      <4> QED BY <4>1, <4>2
    <3>3. CASE holding[w].event = e /\ Ob!StartDelivery(w)
      <4>1. events'[e] = [events[e] EXCEPT !.state = "DELIVERING"] /\ events[e].state = "LEASED"
        BY <2>1, <3>3 DEF Ob!StartDelivery
      <4> QED BY <2>1, <4>1 DEF Bookkeeping
    <3> QED BY <2>5, <3>1, <3>2, <3>3
  <2>6. ASSUME NEW w \in Workers, Ob!Finish(w)
        PROVE  events'[e] = events[e] \/ /\ events[e].state \in {"LEASED", "DELIVERING"}
                                         /\ events'[e].state # "none"
    <3> DEFINE h == holding[w].event
               r == [events[h] EXCEPT !.state = "DELIVERED", !.lease = Ob!NoLease]
    <3>1. CASE holding[w].event # e
      <4>1. \/ events' = [events EXCEPT ![h] = r]
            \/ \E b \in BOOLEAN : events' = [events EXCEPT ![h] = Ob!Failed(events[h], b)]
        BY <2>6 DEF Ob!Finish, Ob!AcknowledgeDelivery, Ob!FailDelivery
      <4> HIDE DEF r
      <4> QED BY <2>1, <3>1, <4>1
    <3>2. CASE holding[w].event = e /\ Ob!AcknowledgeDelivery(w)
      <4>1. /\ events'[e] = [events[e] EXCEPT !.state = "DELIVERED", !.lease = Ob!NoLease]
            /\ events[e].state = "DELIVERING"
        BY <2>1, <3>2 DEF Ob!AcknowledgeDelivery
      <4> QED BY <2>1, <4>1 DEF Bookkeeping
    <3>3. CASE holding[w].event = e /\ \E b \in BOOLEAN : Ob!FailDelivery(w, b)
      <4>1. PICK b \in BOOLEAN : events'[e] = Ob!Failed(events[e], b)
        BY <2>1, <3>3 DEF Ob!FailDelivery
      <4>2. events'[e].state \in {"RETRY_WAIT", "DEAD_LETTER"}
        BY <2>1, <4>1, FailedState
      <4> QED BY <3>3, <4>2 DEF Ob!FailDelivery, Ob!InFlight
    <3> QED BY <2>6, <3>1, <3>2, <3>3 DEF Ob!Finish
  <2>7. ASSUME Ob!ReclaimExpiredLeases
        PROVE  events'[e] = events[e] \/ /\ events[e].state \in {"LEASED", "DELIVERING"}
                                         /\ events'[e].state # "none"
    <3>1. CASE e \notin Ob!Expired
      <4>1. events'[e] = events[e]
        BY <2>7, <3>1 DEF Ob!ReclaimExpiredLeases
      <4> QED BY <4>1
    <3>2. CASE e \in Ob!Expired
      <4>1. events'[e] = Ob!Failed(events[e], TRUE)
        BY <2>7, <3>2 DEF Ob!ReclaimExpiredLeases
      <4>2. events'[e].state \in {"RETRY_WAIT", "DEAD_LETTER"}
        BY <2>1, <4>1, FailedState
      <4> QED BY <3>2, <4>2 DEF Ob!Expired, Ob!InFlight
    <3> QED BY <3>1, <3>2
  <2>8. ASSUME Ob!Tick PROVE events'[e].state = events[e].state
    BY <2>1, <2>8 DEF Ob!Tick, Bookkeeping
  <2>9. ASSUME NEW f \in Events, Ob!ReplayDeadLetter(f)
        PROVE  events'[e] = events[e] \/ /\ events[e].state = "DEAD_LETTER"
                                         /\ events'[e].state = "PENDING"
    <3>1. CASE f # e
      <4> DEFINE r == [events[f] EXCEPT !.state = "PENDING", !.avail = 0, !.cycle = 0,
                                        !.replays = events[f].replays + 1]
      <4>1. events' = [events EXCEPT ![f] = r]
        BY <2>9 DEF Ob!ReplayDeadLetter
      <4> HIDE DEF r
      <4> QED BY <2>1, <3>1, <4>1
    <3>2. CASE f = e
      <4> DEFINE n == events[e].replays + 1
      <4>1. events'[e] = [events[e] EXCEPT !.state = "PENDING", !.avail = 0, !.cycle = 0, !.replays = n]
        BY <2>1, <2>9, <3>2 DEF Ob!ReplayDeadLetter
      <4> HIDE DEF n
      <4>2. events'[e].state = "PENDING"
        BY <2>1, <4>1 DEF Bookkeeping
      <4> QED BY <2>9, <3>2, <4>2 DEF Ob!ReplayDeadLetter
    <3> QED BY <3>1, <3>2
  <2>10. CASE UNCHANGED events
    BY <2>10
  <2> QED BY <1>1, <2>2, <2>3, <2>4, <2>5, <2>6, <2>7, <2>8, <2>9, <2>10
         DEF Ob!Next, Ob!vars, Ob!Claim, Ob!Drop, Ob!ConsumerApplies
<1> QED BY <1>1, OutboxInvariance, PTL DEF Ob!Spec

-----------------------------------------------------------------------------
-----------------------------------------------------------------------------
(* Revisions and roles: what was read is older or exact, and what was      *)
(* authorized was allowed at the epoch it names.                           *)

\* The contents, revisions and readings there can be.
Content == [tag : Tags, refs : SUBSET Nat]
Revision == [res : Resources, parent : Nat \cup {NULL}, state : Rr!Reusable \cup {"draft", "archived"},
             etag : 1..MaxEtag, content : Content, edges : SUBSET Nat]
Reading == [epoch : Nat \cup {NULL}, id : Nat \cup {NULL}, etag : Nat, content : Content \cup {NULL}]

DataTypes ==
  /\ project \in {"active", "archived"} /\ epoch \in 1..MaxEpoch
  /\ role \in [Principals -> Roles \cup {"owner", NULL}]
  /\ resState \in [Resources -> {"absent", "active", "deprecated", "archived"}]
  /\ rev \in Seq(Revision)

\* What the principals have read and asked for.
CallTypes ==
  /\ seen \in [Principals -> Reading]
  /\ call = [p \in Principals |-> call[p]]

\* A revision refers to revisions that are there; a draft has no edges yet.
Stored(x) ==
  /\ resState[x.res] # "absent"
  /\ x.content.refs \subseteq Rr!Ids /\ x.edges \subseteq Rr!Ids
  /\ x.state = "draft" => x.edges = {}

\* What was read of a revision is older than it, or still exact.
Read(i, etag, content) ==
  /\ i \in Rr!Ids /\ etag \in Nat /\ etag <= rev[i].etag
  /\ etag = rev[i].etag => content = rev[i].content

SeenSound(x) ==
  /\ x.epoch # NULL => x.epoch \in Nat /\ x.epoch <= epoch
  /\ x.id # NULL => Read(x.id, x.etag, x.content)

\* The content of a request refers to revisions that are there.
Given(c) == c.content \in Content /\ c.content.refs \subseteq Rr!Ids

\* A request that was authorized: it is of things that are there, and its
\* author still has the permission unless the epoch has moved.
CallSound(p, c) ==
  /\ c.op \in {"create", "retireResource"} => c.res \in Resources
  /\ c.op \in {"patch", "child", "validate", "retire"} => c.id \in Rr!Ids
  /\ c.op \in {"create", "patch", "child"} => Given(c)
  /\ c.op = "patch" => Read(c.id, c.etag, c.base)
  /\ c.op = "role" => c.who \in Principals /\ c.role \in Roles \cup {NULL}
  /\ c.op \in {"role", "archiveProject"} =>
       /\ c.epoch \in Nat /\ c.epoch <= epoch
       /\ c.epoch = epoch => Rr!Needed(c.op) \in Rr!Grants(role[p])

\* The data alone, and with it the readings and the requests.
DataInv == DataTypes /\ (\A i \in Rr!Ids : Stored(rev[i])) /\ Rr!ClosureSettled

ResourceInv ==
  /\ DataInv /\ CallTypes
  /\ \A p \in Principals : SeenSound(seen[p])
  /\ \A p \in Principals : call[p] # NULL => CallSound(p, call[p])

-----------------------------------------------------------------------------
\* An empty project.
LEMMA ResourceStart == ASSUME Rr!ResourceAssumption, Rr!Init PROVE ResourceInv
<1>1. Len(rev) = 0 /\ Rr!Ids = {} /\ rev \in Seq(Revision)
  BY DEF Rr!Init, Rr!Ids
<1>2. Rr!Unseen \in Reading
  BY DEF Rr!Unseen, Reading
<1>3. DataTypes /\ CallTypes
  BY <1>1, <1>2 DEF Rr!Init, DataTypes, CallTypes, Rr!ResourceAssumption
<1>4. ASSUME NEW p \in Principals PROVE SeenSound(seen[p]) /\ call[p] = NULL
  BY DEF Rr!Init, Rr!Unseen, SeenSound
<1> QED BY <1>1, <1>3, <1>4 DEF ResourceInv, DataInv, Rr!ClosureSettled

\* The closure is closed, and the smallest set that is.
LEMMA ClosureLeast ==
  ASSUME NEW S \in SUBSET Rr!Ids, NEW ids \in SUBSET S, \A k \in S : rev[k].edges \subseteq S
  PROVE  Rr!Closure(ids) \subseteq S
BY DEF Rr!Closure

LEMMA ClosureClosed ==
  ASSUME NEW ids, \A k \in Rr!Ids : rev[k].edges \subseteq Rr!Ids
  PROVE  /\ Rr!Closure(ids) \subseteq Rr!Ids
         /\ \A k \in Rr!Closure(ids) : rev[k].edges \subseteq Rr!Closure(ids)
         /\ ids \subseteq Rr!Ids => ids \subseteq Rr!Closure(ids)
<1>1. Rr!Closure(ids) \subseteq Rr!Ids
  BY DEF Rr!Closure
<1>2. ASSUME NEW k \in Rr!Closure(ids), NEW t \in rev[k].edges PROVE t \in Rr!Closure(ids)
  <2>1. t \in Rr!Ids /\ k \in Rr!Ids
    BY <1>1, <1>2
  <2>2. ASSUME NEW S \in SUBSET Rr!Ids, ids \subseteq S, \A j \in S : rev[j].edges \subseteq S
        PROVE  t \in S
    <3>1. k \in S
      BY <2>2 DEF Rr!Closure
    <3> QED BY <1>2, <2>2, <3>1
  <2> QED BY <2>1, <2>2 DEF Rr!Closure
<1>3. ids \subseteq Rr!Ids => ids \subseteq Rr!Closure(ids)
  BY DEF Rr!Closure
<1> QED BY <1>1, <1>2, <1>3

\* Where the edges of what a set reaches do not change, it reaches no more.
LEMMA ClosureKept ==
  ASSUME NEW ids \in SUBSET Rr!Ids, \A k \in Rr!Ids : rev[k].edges \subseteq Rr!Ids, Rr!Ids \subseteq Rr!Ids',
         \A k \in Rr!Closure(ids) : rev'[k].edges = rev[k].edges
  PROVE  Rr!Closure(ids)' \subseteq Rr!Closure(ids)
<1>1. PICK C : C = Rr!Closure(ids)
  OBVIOUS
<1>2. C \subseteq Rr!Ids' /\ ids \subseteq C /\ \A k \in C : rev'[k].edges \subseteq C
  BY <1>1, ClosureClosed
<1>3. \A j \in Rr!Closure(ids)' : j \in C
  BY <1>2 DEF Rr!Closure
<1> QED BY <1>1, <1>3

-----------------------------------------------------------------------------
(* What a transaction may do. *)

\* A revision keeps its resource, its content moves with its etag, and past
\* draft nothing of it moves but its state.
Keeps(x, y) ==
  /\ y.res = x.res /\ x.etag <= y.etag
  /\ x.etag = y.etag => y.content = x.content
  /\ x.state # "draft" =>
       y.state # "draft" /\ y.content = x.content /\ y.etag = x.etag /\ y.edges = x.edges

RevisionsGrow ==
  /\ Rr!Ids \subseteq Rr!Ids' /\ \A i \in Rr!Ids : Keeps(rev[i], rev'[i])
  /\ epoch <= epoch' /\ (epoch' = epoch => role' = role)

\* No revision leaves draft, and none starts beyond it.
Drafted ==
  /\ \A i \in Rr!Ids : (rev[i].state = "draft" => rev'[i].state = "draft")
                  /\ rev'[i].edges = rev[i].edges
  /\ \A i \in Rr!Ids' \ Rr!Ids : rev'[i].state = "draft"

\* What was read and authorized stays sound.
LEMMA KnowledgeKept ==
  ASSUME DataTypes, DataTypes', RevisionsGrow
  PROVE  /\ \A x : SeenSound(x) => SeenSound(x)'
         /\ \A p, c : CallSound(p, c) => CallSound(p, c)'
<1>1. epoch \in Nat /\ epoch' \in Nat /\ epoch <= epoch'
  BY DEF DataTypes, RevisionsGrow
<1>2. ASSUME NEW i, NEW e, NEW d, Read(i, e, d) PROVE Read(i, e, d)'
  <2>1. PICK x, y : x = rev[i] /\ y = rev'[i] /\ x.etag \in Nat /\ y.etag \in Nat /\ Keeps(x, y)
    <3>1. i \in Rr!Ids /\ i \in Rr!Ids'
      BY <1>2 DEF Read, RevisionsGrow
    <3>2. rev[i] \in Revision /\ rev'[i] \in Revision
      BY <3>1 DEF DataTypes, Rr!Ids
    <3> QED BY <3>1, <3>2 DEF Revision, RevisionsGrow
  <2>2. i \in Rr!Ids' /\ e \in Nat /\ e <= x.etag /\ (e = x.etag => d = x.content)
    BY <1>2, <2>1 DEF Read, RevisionsGrow
  <2>3. e <= y.etag /\ (e = y.etag => d = y.content)
    BY <2>1, <2>2 DEF Keeps
  <2> QED BY <2>1, <2>2, <2>3 DEF Read
<1>3. ASSUME NEW x, SeenSound(x) PROVE SeenSound(x)'
  BY <1>1, <1>2, <1>3 DEF SeenSound
<1>4. ASSUME NEW p, NEW c, CallSound(p, c) PROVE CallSound(p, c)'
  <2>1. c.op \in {"create", "patch", "child"} => Given(c)'
    BY <1>4 DEF CallSound, Given, RevisionsGrow
  <2>2. c.op = "patch" => Read(c.id, c.etag, c.base)'
    <3> SUFFICES ASSUME c.op = "patch" PROVE Read(c.id, c.etag, c.base)'
      OBVIOUS
    <3>1. PICK i, e, d : i = c.id /\ e = c.etag /\ d = c.base
      OBVIOUS
    <3>2. Read(i, e, d)
      BY <1>4, <3>1 DEF CallSound
    <3>3. Read(i, e, d)'
      BY <1>2, <3>2
    <3> QED BY <3>1, <3>3
  <2>3. c.op \in {"role", "archiveProject"} =>
          /\ c.epoch \in Nat /\ c.epoch <= epoch'
          /\ c.epoch = epoch' => Rr!Needed(c.op) \in Rr!Grants(role'[p])
    <3> SUFFICES ASSUME c.op \in {"role", "archiveProject"}
                 PROVE  /\ c.epoch \in Nat /\ c.epoch <= epoch'
                        /\ c.epoch = epoch' => Rr!Needed(c.op) \in Rr!Grants(role'[p])
      OBVIOUS
    <3>1. c.epoch \in Nat /\ c.epoch <= epoch /\ (c.epoch = epoch => Rr!Needed(c.op) \in Rr!Grants(role[p]))
      BY <1>4 DEF CallSound
    <3>2. c.epoch <= epoch'
      BY <1>1, <3>1
    <3>3. CASE c.epoch = epoch'
      <4>1. epoch' = epoch
        BY <1>1, <3>1, <3>3
      <4> QED BY <3>1, <3>2, <3>3, <4>1 DEF RevisionsGrow
    <3> QED BY <3>1, <3>2, <3>3
  <2>4. c.op \in {"patch", "child", "validate", "retire"} => c.id \in Rr!Ids'
    BY <1>4 DEF CallSound, RevisionsGrow
  <2> QED BY <1>4, <2>1, <2>2, <2>3, <2>4 DEF CallSound, Given
<1> QED BY <1>3, <1>4

\* Settled closures stay settled while no revision leaves draft.
LEMMA SettledKept ==
  ASSUME DataInv, DataTypes', RevisionsGrow, Drafted
  PROVE  Rr!ClosureSettled'
<1>1. \A k \in Rr!Ids : rev[k].edges \subseteq Rr!Ids
  BY DEF DataInv, Stored
<1>2. ASSUME NEW i \in Rr!Ids', rev'[i].state # "draft"
      PROVE  /\ rev'[i].edges = rev'[i].content.refs
             /\ i \notin Rr!Closure(rev[i].edges)'
             /\ \A t \in Rr!Closure(rev[i].edges)' : rev'[t].state # "draft"
  <2>1. i \in Rr!Ids /\ rev[i].state # "draft"
    BY <1>2 DEF Drafted
  <2>2. PICK E \in SUBSET Rr!Ids : E = rev[i].edges
    BY <1>1, <2>1
  <2>3. /\ E = rev[i].content.refs /\ i \notin Rr!Closure(E)
        /\ \A t \in Rr!Closure(E) : rev[t].state # "draft"
    BY <2>1, <2>2 DEF DataInv, Rr!ClosureSettled
  <2>4. rev'[i].edges = E /\ rev'[i].content.refs = E
    BY <2>1, <2>2, <2>3 DEF RevisionsGrow, Keeps
  <2>5. Rr!Closure(E) \subseteq Rr!Ids
    BY <1>1, ClosureClosed
  <2>6. Rr!Closure(E)' \subseteq Rr!Closure(E)
    <3>1. Rr!Ids \subseteq Rr!Ids' /\ \A k \in Rr!Closure(E) : rev'[k].edges = rev[k].edges
      BY <2>5 DEF RevisionsGrow, Drafted
    <3> QED BY <1>1, <3>1, ClosureKept
  <2>7. \A t \in Rr!Closure(E)' : t # i /\ rev'[t].state # "draft"
    BY <2>3, <2>5, <2>6 DEF RevisionsGrow, Keeps
  <2> QED BY <2>4, <2>7
<1> QED BY <1>2 DEF Rr!ClosureSettled

-----------------------------------------------------------------------------
(* The transactions. *)

\* A draft is appended.
LEMMA AppendKeeps ==
  ASSUME DataInv, DataTypes', NEW r \in Revision, rev' = Append(rev, r), UNCHANGED <<epoch, role>>,
         r.state = "draft", r.edges = {}, r.content.refs \subseteq Rr!Ids, resState'[r.res] # "absent",
         \A x \in Resources : resState[x] # "absent" => resState'[x] # "absent"
  PROVE  DataInv' /\ RevisionsGrow /\ Drafted
<1>1. PICK n \in Nat : n = Len(rev) /\ Rr!Ids = 1..n
  BY DEF DataInv, DataTypes, Rr!Ids
<1>2. Rr!Ids' = 1..(n + 1) /\ rev'[n + 1] = r /\ \A i \in 1..n : rev'[i] = rev[i]
  BY <1>1 DEF DataInv, DataTypes, Rr!Ids
<1>3. \A i \in Rr!Ids : rev[i] \in Revision /\ Stored(rev[i])
  BY <1>1 DEF DataInv, DataTypes
<1>4. RevisionsGrow /\ Drafted
  <2>1. ASSUME NEW i \in Rr!Ids PROVE Keeps(rev[i], rev'[i])
    <3>1. rev[i] \in Revision /\ rev'[i] = rev[i]
      BY <1>1, <1>2, <1>3
    <3> QED BY <3>1 DEF Keeps, Revision
  <2>2. \A i \in Rr!Ids' \ Rr!Ids : i = n + 1
    BY <1>1, <1>2
  <2>3. epoch <= epoch'
    BY DEF DataInv, DataTypes
  <2> QED BY <1>1, <1>2, <2>1, <2>2, <2>3 DEF RevisionsGrow, Drafted
<1>5. ASSUME NEW i \in Rr!Ids' PROVE Stored(rev[i])'
  <2>1. CASE i = n + 1
    BY <1>1, <1>2, <2>1 DEF Stored
  <2>2. CASE i \in 1..n
    BY <1>1, <1>2, <1>3, <2>2 DEF Stored, Revision
  <2>3. i \in 1..(n + 1)
    BY <1>2
  <2>4. i = n + 1 \/ i \in 1..n
    BY <2>3
  <2> QED BY <2>1, <2>2, <2>4
<1> QED BY <1>4, <1>5, SettledKept DEF DataInv

\* One revision is replaced.
LEMMA ReplaceTyped ==
  ASSUME DataInv, NEW i \in Rr!Ids, NEW y \in Revision, rev' = [rev EXCEPT ![i] = y]
  PROVE  /\ rev' \in Seq(Revision) /\ Rr!Ids' = Rr!Ids /\ rev'[i] = y /\ rev[i] \in Revision
         /\ \A k \in Rr!Ids : rev[k] \in Revision /\ (k # i => rev'[k] = rev[k])
<1>1. rev \in Seq(Revision) /\ Rr!Ids = 1..Len(rev)
  BY DEF DataInv, DataTypes, Rr!Ids
<1>2. rev' \in Seq(Revision) /\ Len(rev') = Len(rev)
  BY <1>1
<1>3. Rr!Ids' = Rr!Ids
  BY <1>2 DEF Rr!Ids
<1>4. rev'[i] = y /\ \A k \in Rr!Ids : rev[k] \in Revision /\ (k # i => rev'[k] = rev[k])
  BY <1>1
<1> QED BY <1>2, <1>3, <1>4

\* So the revisions only move on.
LEMMA ReplaceGrows ==
  ASSUME DataInv, NEW i \in Rr!Ids, NEW y \in Revision, rev' = [rev EXCEPT ![i] = y],
         Keeps(rev[i], y), UNCHANGED <<epoch, role>>
  PROVE  RevisionsGrow
<1>1. ASSUME NEW k \in Rr!Ids PROVE Keeps(rev[k], rev'[k])
  <2>1. rev[k] \in Revision /\ rev'[i] = y /\ (k # i => rev'[k] = rev[k])
    BY ReplaceTyped
  <2>2. Keeps(rev[k], rev[k])
    BY <2>1 DEF Keeps, Revision
  <2> QED BY <2>1, <2>2
<1>2. Rr!Ids' = Rr!Ids /\ role' = role
  BY ReplaceTyped
<1>3. epoch \in Nat /\ epoch' = epoch
  BY DEF DataInv, DataTypes
<1> QED BY <1>1, <1>2, <1>3 DEF RevisionsGrow

\* And if it leaves no draft and gets no edges, the data stay sound.
LEMMA ReplaceKeeps ==
  ASSUME DataInv, NEW i \in Rr!Ids, NEW y \in Revision, rev' = [rev EXCEPT ![i] = y],
         Keeps(rev[i], y), rev[i].state = "draft" => y.state = "draft", y.edges = rev[i].edges,
         y.content.refs \subseteq Rr!Ids, UNCHANGED <<project, epoch, role, resState>>
  PROVE  DataInv' /\ RevisionsGrow /\ Drafted
<1>1. /\ rev' \in Seq(Revision) /\ Rr!Ids' = Rr!Ids /\ rev'[i] = y
      /\ \A k \in Rr!Ids : rev[k] \in Revision /\ (k # i => rev'[k] = rev[k])
  BY ReplaceTyped
<1>2. DataTypes' /\ RevisionsGrow
  BY <1>1, ReplaceGrows DEF DataInv, DataTypes
<1>3. Drafted
  BY <1>1 DEF Drafted
<1>4. ASSUME NEW k \in Rr!Ids' PROVE Stored(rev[k])'
  <2>1. Stored(rev[k]) /\ k \in Rr!Ids
    BY <1>1 DEF DataInv
  <2>2. CASE k = i
    BY <1>1, <2>1, <2>2 DEF Stored, Keeps
  <2>3. CASE k # i
    BY <1>1, <2>1, <2>3 DEF Stored
  <2> QED BY <2>2, <2>3
<1> QED BY <1>2, <1>3, <1>4, SettledKept DEF DataInv

\* A resource is created with its first draft.
LEMMA CreateResourceKeeps ==
  ASSUME Rr!ResourceAssumption, DataInv, NEW c, c.res \in Resources, Given(c), Rr!Create(c)
  PROVE  DataInv' /\ RevisionsGrow /\ Drafted
<1>1. PICK r : r = Rr!NewDraft(c.res, NULL, c.content)
  OBVIOUS
<1>2. r \in Revision /\ r.state = "draft" /\ r.edges = {} /\ r.content.refs \subseteq Rr!Ids /\ r.res = c.res
  BY <1>1 DEF Rr!NewDraft, Revision, Given, Rr!ResourceAssumption
<1>3. rev' = Append(rev, r) /\ UNCHANGED <<project, epoch, role>>
      /\ resState' = [resState EXCEPT ![c.res] = "active"]
  BY <1>1 DEF Rr!Create
<1>4. DataTypes' /\ resState'[c.res] # "absent"
      /\ \A x \in Resources : resState[x] # "absent" => resState'[x] # "absent"
  BY <1>2, <1>3 DEF DataInv, DataTypes
<1> QED BY <1>2, <1>3, <1>4, AppendKeeps

\* A draft is derived from a revision past draft.
LEMMA ChildKeeps ==
  ASSUME Rr!ResourceAssumption, DataInv, NEW c, c.id \in Rr!Ids, Given(c), Rr!Child(c)
  PROVE  DataInv' /\ RevisionsGrow /\ Drafted
<1>1. PICK x \in Revision : x = rev[c.id] /\ resState[x.res] = "active" /\ c.id \in Nat
  BY DEF DataInv, DataTypes, Rr!Ids, Rr!Child
<1>2. PICK r : r = Rr!NewDraft(x.res, c.id, c.content)
  OBVIOUS
<1>3. r \in Revision /\ r.state = "draft" /\ r.edges = {} /\ r.content.refs \subseteq Rr!Ids /\ r.res = x.res
  BY <1>1, <1>2 DEF Rr!NewDraft, Revision, Given, Rr!ResourceAssumption
<1>4. rev' = Append(rev, r) /\ UNCHANGED <<project, epoch, role, resState>>
  BY <1>1, <1>2 DEF Rr!Child
<1>5. DataTypes' /\ resState'[r.res] # "absent"
  BY <1>1, <1>3, <1>4 DEF DataInv, DataTypes
<1> QED BY <1>3, <1>4, <1>5, AppendKeeps

\* A patch of the etag the revision has.
LEMMA PatchKeeps ==
  ASSUME Rr!ResourceAssumption, DataInv, NEW c, c.id \in Rr!Ids, Given(c), Rr!Patch(c)
  PROVE  /\ DataInv' /\ RevisionsGrow /\ Drafted /\ UNCHANGED <<project, role>>
         /\ rev[c.id].etag = c.etag
         /\ \A k \in Rr!Ids : k # c.id => rev'[k] = rev[k]
<1>1. PICK i, a, x : i = c.id /\ a = c.content /\ x = rev[i] /\ i \in Rr!Ids
  OBVIOUS
<1>2. x \in Revision /\ x.state = "draft" /\ x.etag < MaxEtag /\ x.etag = c.etag
      /\ UNCHANGED <<project, epoch, role, resState>>
  BY <1>1 DEF Rr!Patch, Rr!Editable, Rr!EtagMatches, DataInv, DataTypes, Rr!Ids
<1>3. CASE rev' = rev
  <2>1. rev' = [rev EXCEPT ![i] = x]
    BY <1>1, <1>3 DEF DataInv, DataTypes, Rr!Ids
  <2>2. Keeps(x, x) /\ x.content.refs \subseteq Rr!Ids
    BY <1>1, <1>2 DEF Keeps, Revision, DataInv, Stored
  <2> QED BY <1>1, <1>2, <1>3, <2>1, <2>2, ReplaceKeeps
<1>4. CASE rev' # rev
  <2>1. PICK n : n = x.etag + 1
    OBVIOUS
  <2>2. PICK u : u = [x EXCEPT !.content = a]
    OBVIOUS
  <2>3. PICK y : y = [u EXCEPT !.etag = n]
    OBVIOUS
  <2>4. rev' = [[rev EXCEPT ![i] = u] EXCEPT ![i] = y]
    <3>1. rev' = [rev EXCEPT ![i].content = a, ![i].etag = @ + 1]
      BY <1>1, <1>4 DEF Rr!Patch
    <3>2. u.etag = x.etag /\ i \in DOMAIN rev
      BY <1>1, <1>2, <2>2 DEF Revision, DataInv, DataTypes, Rr!Ids
    <3> QED BY <1>1, <2>1, <2>2, <2>3, <3>1, <3>2
  <2>5. rev' = [rev EXCEPT ![i] = y]
    BY <1>1, <2>4 DEF DataInv, DataTypes, Rr!Ids
  <2>6. /\ y \in Revision /\ y.state = "draft" /\ y.edges = x.edges /\ y.res = x.res
        /\ y.etag = n /\ y.content = a
    <3>1. n \in 1..MaxEtag /\ a \in Content
      BY <1>1, <1>2, <2>1 DEF Rr!ResourceAssumption, Revision, Given
    <3>2. u \in Revision /\ u.state = "draft" /\ u.edges = x.edges /\ u.res = x.res /\ u.content = a
      BY <1>2, <2>2, <3>1 DEF Revision
    <3> QED BY <2>3, <3>1, <3>2 DEF Revision
  <2>7. Keeps(x, y)
    BY <1>2, <2>1, <2>6 DEF Keeps, Revision
  <2>8. y.content.refs \subseteq Rr!Ids
    BY <1>1, <2>6 DEF Given
  <2>9. DataInv' /\ RevisionsGrow /\ Drafted
    BY <1>1, <1>2, <2>5, <2>6, <2>7, <2>8, ReplaceKeeps
  <2>10. \A k \in Rr!Ids : k # i => rev'[k] = rev[k]
    BY <1>1, <2>5, <2>6, ReplaceTyped
  <2> QED BY <1>1, <1>2, <2>9, <2>10
<1> QED BY <1>3, <1>4

\* A draft that is validated gets its edges, which reach what is settled, and
\* not the draft itself, so that nothing else reaches more or less than before.
LEMMA ValidateKeeps ==
  ASSUME DataInv, NEW c, c.id \in Rr!Ids, Rr!Validate(c)
  PROVE  DataInv' /\ RevisionsGrow /\ project' = project /\ role' = role
         /\ \A k \in Rr!Ids : rev'[k].content = rev[k].content
<1>1. PICK i, x, E : i = c.id /\ x = rev[i] /\ i \in Rr!Ids /\ E = x.content.refs
  OBVIOUS
<1>2. x \in Revision /\ Stored(x) /\ E \subseteq Rr!Ids /\ \A k \in Rr!Ids : rev[k].edges \subseteq Rr!Ids
  BY <1>1 DEF DataInv, DataTypes, Rr!Ids, Stored
<1>3. UNCHANGED <<project, epoch, role, resState>>
  BY DEF Rr!Validate
<1>4. CASE rev' = rev
  <2>1. rev' = [rev EXCEPT ![i] = x]
    BY <1>1, <1>4 DEF DataInv, DataTypes, Rr!Ids
  <2>2. Keeps(x, x)
    BY <1>2 DEF Keeps, Revision
  <2> QED BY <1>1, <1>2, <1>3, <1>4, <2>1, <2>2, ReplaceKeeps
<1>5. CASE rev' # rev
  <2>1. x.state = "draft" /\ Rr!Valid(i)
        /\ rev' = [rev EXCEPT ![i].state = "validated", ![i].edges = E]
    BY <1>1, <1>5 DEF Rr!Validate
  <2>2. PICK u, y : u = [x EXCEPT !.state = "validated"] /\ y = [u EXCEPT !.edges = E]
    OBVIOUS
  <2>3. rev' = [rev EXCEPT ![i] = y]
    BY <1>1, <2>1, <2>2 DEF DataInv, DataTypes, Rr!Ids
  <2>4. /\ y \in Revision /\ y.state = "validated" /\ y.edges = E /\ y.res = x.res
        /\ y.etag = x.etag /\ y.content = x.content
    <3>1. /\ u \in Revision /\ u.state = "validated" /\ u.res = x.res
          /\ u.etag = x.etag /\ u.content = x.content
      BY <1>2, <2>2 DEF Revision, Rr!Reusable
    <3>2. E \in SUBSET Nat
      BY <1>2 DEF Rr!Ids
    <3> QED BY <2>2, <3>1, <3>2 DEF Revision
  <2>5. Keeps(x, y)
    BY <1>2, <2>1, <2>4 DEF Keeps, Revision
  <2>6. /\ rev' \in Seq(Revision) /\ Rr!Ids' = Rr!Ids /\ rev'[i] = y
        /\ \A k \in Rr!Ids : rev[k] \in Revision /\ (k # i => rev'[k] = rev[k])
    BY <1>1, <2>3, <2>4, ReplaceTyped
  <2>7. RevisionsGrow
    BY <1>1, <1>3, <2>3, <2>4, <2>5, ReplaceGrows
  <2>8. DataTypes'
    BY <1>3, <2>6 DEF DataInv, DataTypes
  <2>9. ASSUME NEW k \in Rr!Ids' PROVE Stored(rev[k])'
    <3>1. Stored(rev[k]) /\ k \in Rr!Ids
      BY <2>6 DEF DataInv
    <3>2. CASE k = i
      BY <1>1, <1>2, <1>3, <2>4, <2>6, <3>1, <3>2 DEF Stored
    <3>3. CASE k # i
      BY <1>3, <2>6, <3>1, <3>3 DEF Stored
    <3> QED BY <3>2, <3>3
  <2>10. i \notin Rr!Closure(E) /\ \A t \in Rr!Closure(E) : rev[t].state # "draft"
    BY <1>1, <2>1 DEF Rr!Valid, Rr!TargetAvailable, Rr!Reusable
  \* The draft is in no closure of settled edges.
  <2>11. ASSUME NEW F \in SUBSET Rr!Ids, i \notin Rr!Closure(F)
         PROVE  Rr!Closure(F)' \subseteq Rr!Closure(F)
    <3>1. Rr!Closure(F) \subseteq Rr!Ids
      BY <1>2, ClosureClosed
    <3>2. \A k \in Rr!Closure(F) : rev'[k].edges = rev[k].edges
      BY <2>6, <2>11, <3>1
    <3>3. Rr!Ids \subseteq Rr!Ids'
      BY <2>6
    <3> QED BY <1>2, <3>2, <3>3, ClosureKept
  <2>12. ASSUME NEW k \in Rr!Ids', rev'[k].state # "draft"
         PROVE  /\ rev'[k].edges = rev'[k].content.refs
                /\ k \notin Rr!Closure(rev[k].edges)'
                /\ \A t \in Rr!Closure(rev[k].edges)' : rev'[t].state # "draft"
    <3>1. PICK F \in SUBSET Rr!Ids : F = rev'[k].edges
      <4>1. rev'[k].edges \subseteq Rr!Ids
        BY <2>6, <2>9 DEF Stored
      <4> QED BY <4>1
    <3>2. /\ F = rev'[k].content.refs /\ k \notin Rr!Closure(F) /\ i \notin Rr!Closure(F)
          /\ \A t \in Rr!Closure(F) : rev[t].state # "draft"
      <4>1. CASE k = i
        BY <2>4, <2>6, <2>10, <3>1, <4>1, <1>1
      <4>2. CASE k # i
        <5>1. k \in Rr!Ids /\ rev[k].state # "draft" /\ F = rev[k].edges /\ F = rev'[k].edges
              /\ rev'[k] = rev[k]
          BY <1>2, <2>6, <2>12, <3>1, <4>2
        <5>2. /\ F = rev[k].content.refs /\ k \notin Rr!Closure(F)
              /\ \A t \in Rr!Closure(F) : rev[t].state # "draft"
          BY <5>1 DEF DataInv, Rr!ClosureSettled
        <5> QED BY <1>1, <2>1, <5>1, <5>2
      <4> QED BY <4>1, <4>2
    <3>3. Rr!Closure(F)' \subseteq Rr!Closure(F) /\ Rr!Closure(F) \subseteq Rr!Ids
      BY <1>2, <2>11, <3>2, ClosureClosed
    <3>4. \A t \in Rr!Closure(F)' : t # k /\ rev'[t].state # "draft"
      BY <2>6, <3>2, <3>3
    <3> QED BY <3>1, <3>2, <3>4
  <2>13. Rr!ClosureSettled'
    BY <2>12 DEF Rr!ClosureSettled
  <2>14. \A k \in Rr!Ids : rev'[k].content = rev[k].content
    BY <1>1, <2>4, <2>6
  <2> QED BY <1>3, <2>7, <2>8, <2>9, <2>13, <2>14 DEF DataInv
<1> QED BY <1>4, <1>5

\* The state of a revision past draft moves on.
LEMMA AdvanceKeeps ==
  ASSUME DataInv, NEW i \in Rr!Ids, NEW s \in Rr!Reusable \cup {"archived"}, rev[i].state # "draft",
         rev' = [rev EXCEPT ![i].state = s], UNCHANGED <<project, epoch, role, resState>>
  PROVE  DataInv' /\ RevisionsGrow /\ Drafted /\ \A k \in Rr!Ids : rev'[k].content = rev[k].content
<1>1. PICK x \in Revision : x = rev[i]
  BY DEF DataInv, DataTypes, Rr!Ids
<1>2. PICK y : y = [x EXCEPT !.state = s]
  OBVIOUS
<1>3. rev' = [rev EXCEPT ![i] = y]
  BY <1>1, <1>2 DEF DataInv, DataTypes, Rr!Ids
<1>4. /\ y \in Revision /\ y.state = s /\ y.edges = x.edges /\ y.res = x.res
      /\ y.etag = x.etag /\ y.content = x.content
  BY <1>1, <1>2 DEF Revision, Rr!Reusable
<1>5. s # "draft" /\ x.state # "draft" /\ x.content.refs \subseteq Rr!Ids
  BY <1>1 DEF Rr!Reusable, DataInv, Stored
<1>6. Keeps(x, y)
  BY <1>1, <1>4, <1>5 DEF Keeps, Revision
<1>7. DataInv' /\ RevisionsGrow /\ Drafted
  BY <1>1, <1>3, <1>4, <1>5, <1>6, ReplaceKeeps
<1>8. \A k \in Rr!Ids : rev'[k].content = rev[k].content
  BY <1>1, <1>3, <1>4, ReplaceTyped
<1> QED BY <1>7, <1>8

\* What leaves the revisions alone.
LEMMA OtherKeeps ==
  ASSUME DataInv, DataTypes', rev' = rev, epoch <= epoch', epoch' = epoch => role' = role,
         \A x \in Resources : resState[x] # "absent" => resState'[x] # "absent"
  PROVE  DataInv' /\ RevisionsGrow /\ Drafted
<1>1. Rr!Ids' = Rr!Ids /\ \A k \in Rr!Ids : rev[k] \in Revision /\ rev'[k] = rev[k]
  BY DEF DataInv, DataTypes, Rr!Ids
<1>2. RevisionsGrow /\ Drafted
  BY <1>1 DEF RevisionsGrow, Drafted, Keeps, Revision
<1>3. \A k \in Rr!Ids' : Stored(rev[k])'
  BY <1>1 DEF DataInv, Stored, Revision
<1> QED BY <1>2, <1>3, SettledKept DEF DataInv

\* A resource is retired; it was not absent and is not after.
LEMMA ResourceKeeps ==
  ASSUME DataInv, NEW c, c.res \in Resources, Rr!RetireResource(c)
  PROVE  DataInv' /\ RevisionsGrow /\ Drafted
<1>1. rev' = rev /\ UNCHANGED <<project, epoch, role>> /\ resState' = [resState EXCEPT ![c.res] = c.to]
      /\ c.to \in {"deprecated", "archived"}
  BY DEF Rr!RetireResource
<1>2. DataTypes' /\ \A x \in Resources : resState[x] # "absent" => resState'[x] # "absent"
  BY <1>1 DEF DataInv, DataTypes
<1>3. epoch <= epoch'
  BY <1>1 DEF DataInv, DataTypes
<1> QED BY <1>1, <1>2, <1>3, OtherKeeps

\* The epoch moves whenever a role does.
LEMMA RoleKeeps ==
  ASSUME Rr!ResourceAssumption, DataInv, NEW c, c.who \in Principals, c.role \in Roles \cup {NULL},
         Rr!ReplaceRole(c)
  PROVE  DataInv' /\ RevisionsGrow /\ Drafted
<1>1. rev' = rev /\ UNCHANGED <<project, resState>> /\ epoch \in 1..MaxEpoch /\ epoch < MaxEpoch
      /\ role' = [role EXCEPT ![c.who] = c.role]
      /\ epoch' = IF role[c.who] = c.role THEN epoch ELSE epoch + 1
  BY DEF Rr!ReplaceRole, DataInv, DataTypes
<1>2. epoch <= epoch' /\ epoch' \in 1..MaxEpoch /\ (epoch' = epoch => role[c.who] = c.role)
  BY <1>1 DEF Rr!ResourceAssumption
<1>3. role' \in [Principals -> Roles \cup {"owner", NULL}] /\ (epoch' = epoch => role' = role)
  BY <1>1, <1>2 DEF DataInv, DataTypes
<1>4. DataTypes'
  BY <1>1, <1>2, <1>3 DEF DataInv, DataTypes
<1> QED BY <1>1, <1>2, <1>3, <1>4, OtherKeeps

\* The project is archived.
LEMMA ArchiveKeeps ==
  ASSUME Rr!ResourceAssumption, DataInv, NEW c, Rr!ArchiveProject(c)
  PROVE  DataInv' /\ RevisionsGrow /\ Drafted
<1>1. rev' = rev /\ UNCHANGED <<role, resState>> /\ epoch \in 1..MaxEpoch /\ epoch < MaxEpoch
      /\ project' = "archived" /\ epoch' = IF project = "archived" THEN epoch ELSE epoch + 1
  BY DEF Rr!ArchiveProject, DataInv, DataTypes
<1>2. epoch <= epoch' /\ epoch' \in 1..MaxEpoch
  BY <1>1 DEF Rr!ResourceAssumption
<1>3. DataTypes'
  BY <1>1, <1>2 DEF DataInv, DataTypes
<1> QED BY <1>1, <1>2, <1>3, OtherKeeps

-----------------------------------------------------------------------------
(* Every step. *)

\* What a step may do to the data, beyond growing.
Kept == \A k \in Rr!Ids : rev'[k].content = rev[k].content
DraftsStay == \A k \in Rr!Ids : rev[k].state = "draft" => rev'[k].state = "draft"

\* One transaction of a request that was authorized.
LEMMA TransactionKeeps ==
  ASSUME Rr!ResourceAssumption, ResourceInv, NEW p \in Principals, Rr!Execute(p)
  PROVE  /\ DataInv' /\ RevisionsGrow
         /\ Kept \/ \E i \in Rr!Ids : /\ call[p].op = "patch" /\ call[p].id = i
                                     /\ call[p].base = rev[i].content
                                     /\ \A k \in Rr!Ids : k # i => rev'[k] = rev[k]
         /\ project = "archived" => DraftsStay
         /\ (role' # role \/ project' # project) => Rr!Needed(call[p].op) \in Rr!Grants(role[p])
<1>1. PICK c : c = call[p] /\ CallSound(p, c) /\ Rr!Transaction(c)
  BY DEF Rr!Execute, ResourceInv
<1>2. DataInv
  BY DEF ResourceInv
<1>3. Rr!Ids \subseteq Rr!Ids /\ \A r : rev' = Append(rev, r) => \A k \in Rr!Ids : rev'[k] = rev[k]
  BY <1>2 DEF DataInv, DataTypes, Rr!Ids
<1>4. CASE c.op = "create" /\ Rr!Create(c)
  <2>1. DataInv' /\ RevisionsGrow /\ Drafted
    BY <1>1, <1>2, <1>4, CreateResourceKeeps DEF CallSound
  <2>2. Kept /\ UNCHANGED <<project, role>>
    BY <1>3, <1>4 DEF Rr!Create, Kept
  <2> QED BY <2>1, <2>2 DEF Drafted, DraftsStay
<1>5. CASE c.op = "patch" /\ Rr!Patch(c)
  <2>1. c.id \in Rr!Ids /\ Given(c) /\ Read(c.id, c.etag, c.base)
    BY <1>1, <1>5 DEF CallSound
  <2>2. /\ DataInv' /\ RevisionsGrow /\ Drafted /\ UNCHANGED <<project, role>> /\ rev[c.id].etag = c.etag
        /\ \A k \in Rr!Ids : k # c.id => rev'[k] = rev[k]
    BY <1>2, <1>5, <2>1, PatchKeeps
  <2>3. c.base = rev[c.id].content
    BY <2>1, <2>2 DEF Read
  <2> QED BY <1>1, <1>5, <2>1, <2>2, <2>3 DEF Drafted, DraftsStay
<1>6. CASE c.op = "child" /\ Rr!Child(c)
  <2>1. DataInv' /\ RevisionsGrow /\ Drafted
    BY <1>1, <1>2, <1>6, ChildKeeps DEF CallSound
  <2>2. Kept /\ UNCHANGED <<project, role>>
    BY <1>3, <1>6 DEF Rr!Child, Kept
  <2> QED BY <2>1, <2>2 DEF Drafted, DraftsStay
<1>7. CASE c.op = "validate" /\ Rr!Validate(c)
  <2>1. /\ DataInv' /\ RevisionsGrow /\ project' = project /\ role' = role
        /\ \A k \in Rr!Ids : rev'[k].content = rev[k].content
    BY <1>1, <1>2, <1>7, ValidateKeeps DEF CallSound
  <2>2. project = "active"
    BY <1>7 DEF Rr!Validate, Rr!MayValidate
  <2> QED BY <2>1, <2>2 DEF Kept
<1>8. CASE c.op = "retire" /\ Rr!Retire(c)
  <2>1. PICK i, s : i = c.id /\ s = c.to
    OBVIOUS
  <2>2. i \in Rr!Ids /\ s \in Rr!Reusable \cup {"archived"} /\ rev[i].state # "draft"
        /\ rev' = [rev EXCEPT ![i].state = s] /\ UNCHANGED <<project, epoch, role, resState>>
    BY <1>1, <1>8, <2>1 DEF CallSound, Rr!Retire, Rr!Reusable
  <2>3. DataInv' /\ RevisionsGrow /\ Drafted /\ \A k \in Rr!Ids : rev'[k].content = rev[k].content
    BY <1>2, <2>2, AdvanceKeeps
  <2> QED BY <2>2, <2>3 DEF Drafted, DraftsStay, Kept
<1>9. CASE c.op = "retireResource" /\ Rr!RetireResource(c)
  <2>1. DataInv' /\ RevisionsGrow /\ Drafted
    BY <1>1, <1>2, <1>9, ResourceKeeps DEF CallSound
  <2> QED BY <1>9, <2>1 DEF Rr!RetireResource, Drafted, DraftsStay, Kept
<1>10. CASE c.op = "role" /\ Rr!ReplaceRole(c)
  <2>1. c.who \in Principals /\ c.role \in Roles \cup {NULL} /\ c.epoch = epoch
        /\ Rr!Needed(c.op) \in Rr!Grants(role[p])
    BY <1>1, <1>10 DEF CallSound, Rr!ReplaceRole, Rr!EpochExpected
  <2>2. DataInv' /\ RevisionsGrow /\ Drafted
    BY <1>2, <1>10, <2>1, RoleKeeps
  <2> QED BY <1>1, <1>10, <2>1, <2>2 DEF Rr!ReplaceRole, Drafted, DraftsStay, Kept
<1>11. CASE c.op = "archiveProject" /\ Rr!ArchiveProject(c)
  <2>1. Rr!Needed(c.op) \in Rr!Grants(role[p])
    BY <1>1, <1>11 DEF CallSound, Rr!ArchiveProject, Rr!EpochExpected
  <2>2. DataInv' /\ RevisionsGrow /\ Drafted
    BY <1>2, <1>11, ArchiveKeeps
  <2> QED BY <1>1, <1>11, <2>1, <2>2 DEF Rr!ArchiveProject, Drafted, DraftsStay, Kept
<1> QED BY <1>1, <1>4, <1>5, <1>6, <1>7, <1>8, <1>9, <1>10, <1>11 DEF Rr!Transaction

\* A step that is no transaction of a request.
LEMMA OtherSteps ==
  ASSUME ResourceInv,
         UNCHANGED <<project, epoch, role, resState, rev>> \/ \E i \in Rr!Ids : Rr!Publish(i)
  PROVE  DataInv' /\ RevisionsGrow /\ Kept /\ DraftsStay /\ UNCHANGED <<project, epoch, role>>
<1>1. DataInv
  BY DEF ResourceInv
<1>2. CASE UNCHANGED <<project, epoch, role, resState, rev>>
  <2>1. DataTypes' /\ epoch <= epoch'
    BY <1>1, <1>2 DEF DataInv, DataTypes
  <2>2. DataInv' /\ RevisionsGrow
    BY <1>1, <1>2, <2>1, OtherKeeps
  <2> QED BY <1>2, <2>2 DEF Kept, DraftsStay
<1>3. ASSUME NEW i \in Rr!Ids, Rr!Publish(i)
      PROVE  DataInv' /\ RevisionsGrow /\ Kept /\ DraftsStay /\ UNCHANGED <<project, epoch, role>>
  <2>1. rev[i].state # "draft" /\ rev' = [rev EXCEPT ![i].state = "published"]
        /\ UNCHANGED <<project, epoch, role, resState>>
    BY <1>3 DEF Rr!Publish
  <2>2. "published" \in Rr!Reusable \cup {"archived"}
    BY DEF Rr!Reusable
  <2>3. DataInv' /\ RevisionsGrow /\ Drafted /\ \A k \in Rr!Ids : rev'[k].content = rev[k].content
    BY <1>1, <2>1, <2>2, AdvanceKeeps
  <2> QED BY <2>1, <2>3 DEF Drafted, DraftsStay, Kept
<1> QED BY <1>2, <1>3

\* A request that is parsed and authorized.
LEMMA ContentsGiven ==
  ASSUME NEW x, NEW a \in Rr!Contents(x) PROVE a \in Content /\ a.refs \subseteq Rr!Ids
BY DEF Rr!Contents, Content, Rr!Ids

\* A command about a revision sends back what its author has read of it.
LEMMA RevisionCommandSound ==
  ASSUME ResourceInv, NEW p \in Principals, NEW c \in Rr!RevisionCommands(p)
  PROVE  CallSound(p, c)
<1>1. SeenSound(seen[p])
  BY DEF ResourceInv
<1>2. CASE c \in Rr!CreateCommands
  <2>1. c.op = "create" /\ c.res \in Resources /\ \E y \in Resources : c.content \in Rr!Contents(y)
    BY <1>2 DEF Rr!CreateCommands
  <2>2. c.content \in Content /\ c.content.refs \subseteq Rr!Ids
    BY <2>1, ContentsGiven
  <2> QED BY <2>1, <2>2 DEF CallSound, Given
<1>3. CASE c \in Rr!PatchCommands(p)
  <2>1. /\ c.op = "patch" /\ c.id = seen[p].id /\ c.etag = seen[p].etag
        /\ c.base = seen[p].content /\ seen[p].id # NULL /\ c.content \in Rr!Contents(rev[seen[p].id].res)
    BY <1>3 DEF Rr!PatchCommands
  <2>2. Read(c.id, c.etag, c.base) /\ c.id \in Rr!Ids
    BY <1>1, <2>1 DEF SeenSound, Read
  <2>3. c.content \in Content /\ c.content.refs \subseteq Rr!Ids
    BY <2>1, ContentsGiven
  <2> QED BY <2>1, <2>2, <2>3 DEF CallSound, Given
<1>4. CASE c \in Rr!ChildCommands
  <2>1. c.op = "child" /\ c.id \in Rr!Ids /\ c.content \in Rr!Contents(rev[c.id].res)
    BY <1>4 DEF Rr!ChildCommands
  <2>2. c.content \in Content /\ c.content.refs \subseteq Rr!Ids
    BY <2>1, ContentsGiven
  <2> QED BY <2>1, <2>2 DEF CallSound, Given
<1>5. CASE c \in Rr!StateCommands
  BY <1>5 DEF Rr!StateCommands, CallSound
<1> QED BY <1>2, <1>3, <1>4, <1>5 DEF Rr!RevisionCommands

\* A command about the project sends back the epoch, and its author may send it.
LEMMA ProjectCommandSound ==
  ASSUME ResourceInv, NEW p \in Principals, NEW c \in Rr!ProjectCommands(p), Rr!Authorize(p, c)
  PROVE  CallSound(p, c)
<1>1. SeenSound(seen[p])
  BY DEF ResourceInv
<1>2. CASE c.op \in {"role", "archiveProject"} /\ c.epoch = seen[p].epoch
           /\ (c.op = "role" => c.who \in Principals /\ c.role \in Roles \cup {NULL})
  <2>1. c.epoch # NULL /\ Rr!Needed(c.op) \in Rr!Grants(role[p])
    BY <1>2 DEF Rr!Authorize, Rr!Allowed
  <2>2. c.epoch \in Nat /\ c.epoch <= epoch
    BY <1>1, <1>2, <2>1 DEF SeenSound
  <2> QED BY <1>2, <2>1, <2>2 DEF CallSound
<1>3. CASE c.op = "retireResource" /\ c.res \in Resources
  BY <1>3 DEF CallSound
<1>4. \/ \E q \in Principals, r \in Roles \cup {NULL} :
             c = [op |-> "role", who |-> q, role |-> r, epoch |-> seen[p].epoch]
      \/ c = [op |-> "archiveProject", epoch |-> seen[p].epoch]
      \/ \E x \in Resources, s \in {"deprecated", "archived"} :
             c = [op |-> "retireResource", res |-> x, to |-> s]
  BY DEF Rr!ProjectCommands
<1> QED BY <1>2, <1>3, <1>4

\* Every step keeps the invariant.
LEMMA ResourceStep ==
  ASSUME Rr!ResourceAssumption, ResourceInv, [Rr!Next]_(Rr!vars)
  PROVE  ResourceInv'
<1>1. DataInv' /\ RevisionsGrow
  <2>1. UNCHANGED <<project, epoch, role, resState, rev>> \/ (\E i \in Rr!Ids : Rr!Publish(i))
        \/ \E p \in Principals : Rr!Execute(p)
    BY DEF Rr!Next, Rr!vars, Rr!ReadEpoch, Rr!ReadRevision, Rr!Authorize, Rr!Fail
  <2> QED BY <2>1, OtherSteps, TransactionKeeps
<1>2. DataTypes /\ DataTypes' /\ CallTypes
  BY <1>1 DEF ResourceInv, DataInv
<1>3. (\A x : SeenSound(x) => SeenSound(x)') /\ (\A p, c : CallSound(p, c) => CallSound(p, c)')
  BY <1>1, <1>2, KnowledgeKept
<1>4. ASSUME \/ UNCHANGED seen
             \/ \E p \in Principals : Rr!ReadEpoch(p) \/ \E i \in Rr!Ids : Rr!ReadRevision(p, i)
      PROVE  seen' \in [Principals -> Reading] /\ \A q \in Principals : SeenSound(seen[q])'
  <2>1. ASSUME UNCHANGED seen
        PROVE  seen' \in [Principals -> Reading] /\ \A q \in Principals : SeenSound(seen[q])'
    BY <1>2, <1>3, <2>1 DEF CallTypes, ResourceInv, SeenSound
  <2>2. ASSUME NEW p \in Principals, NEW x \in Reading, SeenSound(x)', seen' = [seen EXCEPT ![p] = x]
        PROVE  seen' \in [Principals -> Reading] /\ \A q \in Principals : SeenSound(seen[q])'
    <3>1. seen' \in [Principals -> Reading] /\ seen'[p] = x
          /\ \A q \in Principals : q # p => seen'[q] = seen[q]
      BY <1>2, <2>2 DEF CallTypes
    <3>2. \A q \in Principals : q # p => SeenSound(seen[q])'
      BY <1>3, <3>1 DEF ResourceInv, SeenSound
    <3>3. SeenSound(seen[p])'
      BY <2>2, <3>1 DEF SeenSound
    <3> QED BY <3>1, <3>2, <3>3
  <2>3. ASSUME NEW p \in Principals, Rr!ReadEpoch(p)
        PROVE  \E x \in Reading : SeenSound(x)' /\ seen' = [seen EXCEPT ![p] = x]
    <3>1. PICK y \in Reading : y = seen[p] /\ SeenSound(y)
      BY <1>2 DEF CallTypes, ResourceInv
    <3>2. PICK x : x = [y EXCEPT !.epoch = epoch]
      OBVIOUS
    <3>3. seen' = [seen EXCEPT ![p] = x] /\ epoch \in Nat /\ UNCHANGED <<epoch, rev>>
      BY <1>2, <2>3, <3>1, <3>2 DEF Rr!ReadEpoch, DataTypes, CallTypes
    <3>4. x \in Reading /\ x.epoch = epoch /\ x.id = y.id /\ x.etag = y.etag /\ x.content = y.content
      BY <3>1, <3>2, <3>3 DEF Reading
    <3>5. SeenSound(y)'
      BY <1>3, <3>1
    <3>6. SeenSound(x)'
      BY <3>3, <3>4, <3>5 DEF SeenSound
    <3> QED BY <3>3, <3>4, <3>6
  <2>4. ASSUME NEW p \in Principals, NEW i \in Rr!Ids, Rr!ReadRevision(p, i)
        PROVE  \E x \in Reading : SeenSound(x)' /\ seen' = [seen EXCEPT ![p] = x]
    <3>1. PICK y \in Reading : y = seen[p] /\ SeenSound(y)
      BY <1>2 DEF CallTypes, ResourceInv
    <3>2. PICK r \in Revision : r = rev[i]
      BY <1>2 DEF DataTypes, Rr!Ids
    <3>3. PICK u, v, x : u = [y EXCEPT !.id = i] /\ v = [u EXCEPT !.etag = r.etag]
                         /\ x = [v EXCEPT !.content = r.content]
      OBVIOUS
    <3>4. seen' = [seen EXCEPT ![p] = x] /\ i \in Nat /\ UNCHANGED <<epoch, rev>>
      <4>1. seen' = [[[seen EXCEPT ![p].id = i] EXCEPT ![p].etag = r.etag] EXCEPT ![p].content = r.content]
        BY <2>4, <3>2 DEF Rr!ReadRevision
      <4>2. [seen EXCEPT ![p].id = i] = [seen EXCEPT ![p] = u]
        BY <1>2, <3>1, <3>3 DEF CallTypes
      <4>3. [[seen EXCEPT ![p] = u] EXCEPT ![p].etag = r.etag] = [seen EXCEPT ![p] = v]
        BY <1>2, <3>1, <3>3 DEF CallTypes
      <4>4. [[seen EXCEPT ![p] = v] EXCEPT ![p].content = r.content] = [seen EXCEPT ![p] = x]
        BY <1>2, <3>1, <3>3 DEF CallTypes
      <4>5. i \in Nat /\ UNCHANGED <<epoch, rev>>
        BY <2>4 DEF Rr!ReadRevision, Rr!Ids
      <4> QED BY <4>1, <4>2, <4>3, <4>4, <4>5
    <3>5. u \in Reading /\ u.epoch = y.epoch /\ u.id = i
      BY <3>1, <3>3, <3>4 DEF Reading
    <3>6. v \in Reading /\ v.epoch = y.epoch /\ v.id = i /\ v.etag = r.etag
      <4>1. r.etag \in Nat
        BY DEF Revision, Rr!ResourceAssumption
      <4> QED BY <3>3, <3>5, <4>1 DEF Reading
    <3>7. x \in Reading /\ x.epoch = y.epoch /\ x.id = i /\ x.etag = r.etag /\ x.content = r.content
      BY <3>2, <3>3, <3>6 DEF Reading, Revision
    <3>8. SeenSound(y)'
      BY <1>3, <3>1
    <3>9. Read(i, r.etag, r.content)'
      BY <3>2, <3>4 DEF Read, Rr!Ids, Revision
    <3>10. SeenSound(x)'
      BY <3>7, <3>8, <3>9 DEF SeenSound
    <3> QED BY <3>4, <3>7, <3>10
  <2> QED BY <1>4, <2>1, <2>2, <2>3, <2>4
<1>5. UNCHANGED seen \/ \E p \in Principals : Rr!ReadEpoch(p) \/ \E i \in Rr!Ids : Rr!ReadRevision(p, i)
  BY DEF Rr!Next, Rr!vars, Rr!Execute, Rr!Authorize, Rr!Fail, Rr!Publish
<1>6. UNCHANGED call
      \/ \E p \in Principals : \E c : /\ c = NULL \/ (Rr!Authorize(p, c) /\ CallSound(p, c))
                                    /\ call' = [call EXCEPT ![p] = c]
  <2>1. ASSUME NEW p \in Principals, Rr!Execute(p) \/ Rr!Fail(p) PROVE call' = [call EXCEPT ![p] = NULL]
    BY <2>1 DEF Rr!Execute, Rr!Fail
  <2>2. ASSUME NEW p \in Principals, NEW c \in Rr!RevisionCommands(p) \cup Rr!ProjectCommands(p),
               Rr!Authorize(p, c)
        PROVE  CallSound(p, c) /\ call' = [call EXCEPT ![p] = c]
    BY <2>2, RevisionCommandSound, ProjectCommandSound DEF Rr!Authorize
  <2> QED BY <2>1, <2>2 DEF Rr!Next, Rr!vars, Rr!ReadEpoch, Rr!ReadRevision, Rr!Publish
<1>7. call' = [p \in Principals |-> call'[p]]
      /\ \A p \in Principals : call'[p] # NULL => CallSound(p, call[p])'
  <2>1. ASSUME UNCHANGED call
        PROVE  call' = [p \in Principals |-> call'[p]]
               /\ \A p \in Principals : call'[p] # NULL => CallSound(p, call[p])'
    BY <1>2, <1>3, <2>1 DEF CallTypes, ResourceInv, CallSound, Read, Given
  <2>2. ASSUME NEW p \in Principals, NEW c, c = NULL \/ (Rr!Authorize(p, c) /\ CallSound(p, c)),
               call' = [call EXCEPT ![p] = c]
        PROVE  call' = [q \in Principals |-> call'[q]]
               /\ \A q \in Principals : call'[q] # NULL => CallSound(q, call[q])'
    <3>1. call' = [q \in Principals |-> IF q = p THEN c ELSE call[q]]
      BY <1>2, <2>2 DEF CallTypes
    <3>2. \A q \in Principals : q # p /\ call[q] # NULL => CallSound(q, call[q])
      BY DEF ResourceInv
    <3>3. ASSUME NEW q \in Principals, call'[q] # NULL PROVE \E d : d = call'[q] /\ CallSound(q, d)'
      BY <1>3, <2>2, <3>1, <3>2, <3>3
    <3> QED BY <3>1, <3>3 DEF CallSound, Read, Given
  <2> QED BY <1>6, <2>1, <2>2
<1> QED BY <1>1, <1>4, <1>5, <1>7 DEF ResourceInv, CallTypes

-----------------------------------------------------------------------------
(* The theorems. *)

\* ResourceInv is an invariant of the authoring services.
THEOREM ResourceInvariance == ASSUME Rr!ResourceAssumption PROVE Rr!Spec => []ResourceInv
<1>1. Rr!Init => ResourceInv
  BY ResourceStart
<1>2. ResourceInv /\ [Rr!Next]_(Rr!vars) => ResourceInv'
  BY ResourceStep
<1> QED BY <1>1, <1>2, PTL DEF Rr!Spec

\* Revisions, roles and resources keep to their types, and a draft has no edges.
THEOREM ResourceTyped == ASSUME Rr!ResourceAssumption PROVE Rr!Spec => []Rr!TypeOK
<1>1. ResourceInv => Rr!TypeOK
  <2>1. ASSUME DataInv, NEW i \in Rr!Ids
        PROVE  resState[rev[i].res] # "absent" /\ rev[i].state \in Rr!Reusable \cup {"draft", "archived"}
               /\ rev[i].etag \in 1..MaxEtag /\ (rev[i].state = "draft" => rev[i].edges = {})
    <3>1. rev[i] \in Revision /\ Stored(rev[i])
      BY <2>1 DEF DataInv, DataTypes, Rr!Ids
    <3> QED BY <3>1 DEF Stored, Revision
  <2> QED BY <2>1 DEF ResourceInv, DataInv, DataTypes, Rr!TypeOK
<1> QED BY <1>1, ResourceInvariance, PTL

\* Whatever a validated revision reaches through stored edges is past draft and
\* not the revision itself: a release can pin the whole closure.
THEOREM ClosuresSettled == ASSUME Rr!ResourceAssumption PROVE Rr!Spec => []Rr!ClosureSettled
<1>1. ResourceInv => Rr!ClosureSettled
  BY DEF ResourceInv, DataInv
<1> QED BY <1>1, ResourceInvariance, PTL

\* What no step does.
LEMMA ResourceActions ==
  ASSUME Rr!ResourceAssumption, ResourceInv, [Rr!Next]_(Rr!vars)
  PROVE  /\ Rr!NoLostUpdate /\ Rr!ImmutableOnceValidated
         /\ Rr!NothingValidatedAfterArchive /\ Rr!ChangedByPermitted
<1>1. CASE \E p \in Principals : Rr!Execute(p)
  <2>1. PICK p \in Principals : Rr!Execute(p)
    BY <1>1
  <2>2. call[p] # NULL /\ call'[p] = NULL
    BY <2>1 DEF Rr!Execute, ResourceInv, CallTypes
  <2>3. /\ RevisionsGrow
        /\ Kept \/ \E i \in Rr!Ids : /\ call[p].op = "patch" /\ call[p].id = i
                                    /\ call[p].base = rev[i].content
                                    /\ \A k \in Rr!Ids : k # i => rev'[k] = rev[k]
        /\ project = "archived" => DraftsStay
        /\ (role' # role \/ project' # project) => Rr!Needed(call[p].op) \in Rr!Grants(role[p])
    BY <2>1, TransactionKeeps
  <2>4. Rr!NoLostUpdate
    BY <2>2, <2>3 DEF Rr!NoLostUpdate, Kept
  <2>5. Rr!ImmutableOnceValidated
    BY <2>3 DEF Rr!ImmutableOnceValidated, RevisionsGrow, Keeps
  <2> QED BY <2>2, <2>3, <2>4, <2>5 DEF Rr!NothingValidatedAfterArchive, DraftsStay, Rr!ChangedByPermitted
<1>2. CASE UNCHANGED <<project, epoch, role, resState, rev>> \/ \E i \in Rr!Ids : Rr!Publish(i)
  <2>1. RevisionsGrow /\ Kept /\ DraftsStay /\ UNCHANGED <<project, epoch, role>>
    BY <1>2, OtherSteps
  <2> QED BY <2>1 DEF Rr!NoLostUpdate, Kept, Rr!ImmutableOnceValidated, RevisionsGrow, Keeps,
                     Rr!NothingValidatedAfterArchive, DraftsStay, Rr!ChangedByPermitted
<1> QED BY <1>1, <1>2 DEF Rr!Next, Rr!vars, Rr!ReadEpoch, Rr!ReadRevision, Rr!Authorize, Rr!Fail

\* A patch replaces exactly the content its author has read, however the
\* requests of any number of authors interleave.
THEOREM UpdatesKept ==
  ASSUME Rr!ResourceAssumption
  PROVE  Rr!Spec => [][Rr!NoLostUpdate]_(Rr!vars)
BY ResourceActions, ResourceInvariance, PTL DEF Rr!Spec

\* Past draft, content, etag and edges are final, whatever patch was authorized.
THEOREM ValidatedImmutable ==
  ASSUME Rr!ResourceAssumption
  PROVE  Rr!Spec => [][Rr!ImmutableOnceValidated]_(Rr!vars)
BY ResourceActions, ResourceInvariance, PTL DEF Rr!Spec

\* Nothing is validated in an archived project, also on a permission read before.
THEOREM ArchivedValidatesNothing ==
  ASSUME Rr!ResourceAssumption
  PROVE  Rr!Spec => [][Rr!NothingValidatedAfterArchive]_(Rr!vars)
BY ResourceActions, ResourceInvariance, PTL DEF Rr!Spec

\* Roles change and the project is archived only by a principal whose role still
\* permits it at the commit: the epoch of the request is the current one.
THEOREM PermittedChanges ==
  ASSUME Rr!ResourceAssumption
  PROVE  Rr!Spec => [][Rr!ChangedByPermitted]_(Rr!vars)
BY ResourceActions, ResourceInvariance, PTL DEF Rr!Spec
=============================================================================
