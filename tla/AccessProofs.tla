---------------------------- MODULE AccessProofs ----------------------------
(***************************************************************************)
(* Proofs about who may read what, for any principals, requests, tokens    *)
(* and limits:                                                             *)
(*   - PolicyGateway: decisions are those of their epoch, and never older  *)
(*     than an answer or a notification;                                   *)
(*   - PolicyEpoch (Ep): a revocation ends every ALLOW within a TTL;       *)
(*   - RuntimeQuery (Rq): what a response shows was allowed when its lease *)
(*     was committed, and the lease is released first;                     *)
(*   - RuntimeIdentity (Id): a delegation is used once, in time, by a      *)
(*     chain of which everyone is alive and may do what it asks for.       *)
(* A parameter that several of them have under one name is any parameter:  *)
(* each theorem assumes what its own component demands, and no more.       *)
(***************************************************************************)
EXTENDS PolicyGateway, FiniteSetTheorems, TLAPS

CONSTANTS Actor, Requests, Processes, MaxTime                    \* PolicyEpoch
VARIABLES commits, dbClock, now, published, down, delivery, heard

CONSTANTS Objects, Links, LeaseTtl, MaxActivation                \* RuntimeQuery
VARIABLES activation, retired, requests, leases

CONSTANTS Operations, Tokens, Proofs, Humans, HumanClients,      \* RuntimeIdentity
  ClientOf, CapabilitiesOf, MappedTypes, Permissions, GrantsOf, MaxActors, MaxTtl, Tolerance,
  None
VARIABLES active, bound, profiles, replay, req

Ep == INSTANCE PolicyEpoch
Rq == INSTANCE RuntimeQuery
Id == INSTANCE RuntimeIdentity

-----------------------------------------------------------------------------
(* Proofs, for any principals, keys, callers, limits and bounds.            *)
(*                                                                          *)
(* What is cached or being loaded is sound: it is what the log says of its  *)
(* epoch, and if it is not below the floor then it is not below any answer  *)
(* either.  Within a process every answer lifts the floor to its epoch, so  *)
(* the floor stands for the answers; a restart forgets the floor and, with  *)
(* it, everything the floor would have had to judge.                        *)

Entry == [key : Keys, epoch : Epochs, decision : Decisions, expiresAt : 0..(MaxClock + Ttl)]
Call == [at : {"idle", "reading", "loading"}, key : Keys, floor : Epochs, epoch : Epochs,
         allowed : BOOLEAN, seen : Epochs]

SoundEntry(x) ==
  /\ x.epoch \in 1..Epoch /\ x.epoch <= floor
  /\ x.decision = "ALLOW" <=> IsAllowed(x.epoch, x.key)
  /\ x.epoch >= floor => x.epoch >= answered

SoundCall(x) ==
  /\ x.at # "idle" => x.seen <= answered
  /\ x.at = "loading" =>
       /\ x.epoch \in 1..Epoch /\ x.seen <= x.epoch
       /\ x.allowed <=> IsAllowed(x.epoch, x.key)
       /\ x.epoch >= floor => x.epoch >= answered

CacheSound == \A i \in DOMAIN cache : SoundEntry(cache[i])
CallsSound == \A c \in Callers : SoundCall(calls[c])

IInv ==
  /\ TypeOK
  /\ answered <= Epoch
  /\ CacheSound /\ CallsSound
  /\ DecisionIsOfItsEpoch /\ EpochsNeverGoBack
  /\ CacheBounded
  /\ unsafe => cache = <<>>

\* What every step but a restart does: the log grows, floor and answers rise,
\* and answers no further than to the floor.
Forward ==
  /\ Epoch <= Epoch' /\ \A e \in 1..Epoch : log'[e] = log[e]
  /\ floor <= floor' /\ answered <= answered'
  /\ answered' = answered \/ answered' <= floor'

-----------------------------------------------------------------------------
(* The cache as a sequence.                                                 *)

Unique(s) == \A i, j \in DOMAIN s : s[i].key = s[j].key => i = j
Within(s, t) == \A i \in DOMAIN s : \E j \in DOMAIN t : s[i] = t[j]

(* A key's entry leaves alone: the others stay as they are (#cache.delete).  *)
LEMMA WithoutKeeps ==
  ASSUME NEW S, NEW s \in Seq(S), Unique(s), NEW k
  PROVE  /\ Without(s, k) \in Seq(S) /\ Len(Without(s, k)) <= Len(s)
         /\ Unique(Without(s, k)) /\ Within(Without(s, k), s)
<1>1. CASE \E i \in DOMAIN s : s[i].key = k
  <2> DEFINE i == CHOOSE i \in DOMAIN s : s[i].key = k
             t == [j \in 1..(Len(s) - 1) |-> s[IF j < i THEN j ELSE j + 1]]
  <2>1. i \in 1..Len(s)
    BY <1>1
  <2>2. Without(s, k) = t
    BY <1>1 DEF Without
  <2> HIDE DEF i
  <2>3. /\ t \in Seq(S) /\ Len(t) = Len(s) - 1 /\ DOMAIN t = 1..(Len(s) - 1)
    BY <2>1
  <2>4. \A j \in DOMAIN t : /\ t[j] = s[IF j < i THEN j ELSE j + 1]
                            /\ (IF j < i THEN j ELSE j + 1) \in DOMAIN s
    BY <2>1, <2>3
  <2>5. Unique(t)
    BY <2>1, <2>3, <2>4 DEF Unique
  <2>6. Within(t, s)
    <3> HIDE DEF t
    <3> QED
      BY <2>4 DEF Within
  <2>7. Len(t) <= Len(s)
    BY <2>1, <2>3
  <2> HIDE DEF t
  <2> QED
    BY <2>2, <2>3, <2>5, <2>6, <2>7
<1>2. CASE ~ \E i \in DOMAIN s : s[i].key = k
  BY <1>2 DEF Without, Within
<1> QED
  BY <1>1, <1>2

(* An entry that is put takes the place of its key or the last one.         *)
LEMMA PutKeeps ==
  ASSUME NEW S, NEW s \in Seq(S), Unique(s), NEW e \in S
  PROVE  /\ Put(s, e) \in Seq(S) /\ Len(Put(s, e)) <= Len(s) + 1
         /\ Unique(Put(s, e))
         /\ \A i \in DOMAIN Put(s, e) : Put(s, e)[i] = e \/ \E j \in DOMAIN s : Put(s, e)[i] = s[j]
<1>1. CASE \E i \in DOMAIN s : s[i].key = e.key
  <2> DEFINE t == [i \in DOMAIN s |-> IF s[i].key = e.key THEN e ELSE s[i]]
  <2>1. Put(s, e) = t
    BY <1>1 DEF Put
  <2>2. t \in Seq(S) /\ Len(t) = Len(s) /\ DOMAIN t = DOMAIN s
    OBVIOUS
  <2>3. \A i \in DOMAIN t : t[i].key = s[i].key
    OBVIOUS
  <2>4. Unique(t)
    BY <2>2, <2>3 DEF Unique
  <2> QED
    BY <2>1, <2>2, <2>4
<1>2. CASE ~ \E i \in DOMAIN s : s[i].key = e.key
  <2> DEFINE t == Append(s, e)
  <2>1. Put(s, e) = t
    BY <1>2 DEF Put
  <2>2. /\ t \in Seq(S) /\ Len(t) = Len(s) + 1 /\ DOMAIN t = 1..(Len(s) + 1)
        /\ t[Len(s) + 1] = e /\ \A i \in 1..Len(s) : t[i] = s[i]
    OBVIOUS
  <2> HIDE DEF t
  <2>3. Unique(t)
    BY <1>2, <2>2 DEF Unique
  <2> QED
    BY <2>1, <2>2, <2>3
<1> QED
  BY <1>1, <1>2

(* Storing an entry keeps the cache within its limit, with one entry per    *)
(* key, and leaves nothing in it but the new entry and old ones.            *)
LEMMA StoreKeeps ==
  ASSUME GatewayAssumption, cache \in Seq(Entry), CacheBounded, NEW e \in Entry
  PROVE  /\ StoreCacheEntry(e) \in Seq(Entry)
         /\ Len(StoreCacheEntry(e)) <= MaximumCacheEntries /\ Unique(StoreCacheEntry(e))
         /\ \A i \in DOMAIN StoreCacheEntry(e) :
              \/ StoreCacheEntry(e)[i] = e
              \/ \E j \in DOMAIN cache : StoreCacheEntry(e)[i] = cache[j]
<1> DEFINE over == Len(cache) - MaximumCacheEntries + 1
           rest == IF over > 0 THEN SubSeq(cache, over + 1, Len(cache)) ELSE cache
<1>1. StoreCacheEntry(e) = Put(rest, e)
  BY DEF StoreCacheEntry
<1>2. MaximumCacheEntries \in Nat \ {0} /\ Len(cache) \in Nat /\ Len(cache) <= MaximumCacheEntries
  BY DEF GatewayAssumption, CacheBounded
<1>3. /\ rest \in Seq(Entry) /\ Len(rest) <= MaximumCacheEntries - 1
      /\ Unique(rest) /\ Within(rest, cache)
  <2>1. CASE over > 0
    <3>1. over = 1 /\ rest = SubSeq(cache, 2, Len(cache))
      BY <1>2, <2>1
    <3> HIDE DEF rest
    <3>2. 1 <= Len(cache) /\ DOMAIN cache = 1..Len(cache)
      BY <1>2, <2>1
    <3>3. /\ rest \in Seq(Entry) /\ Len(rest) = Len(cache) - 1
          /\ \A i \in 1..(Len(cache) - 1) : rest[i] = cache[i + 1]
      BY <1>2, <3>1, <3>2
    <3>4. DOMAIN rest = 1..(Len(cache) - 1) /\ \A i \in DOMAIN rest : i + 1 \in DOMAIN cache
      BY <1>2, <3>2, <3>3
    <3>5. Unique(rest)
      BY <1>2, <3>3, <3>4 DEF Unique, CacheBounded
    <3>6. Within(rest, cache)
      BY <3>3, <3>4 DEF Within
    <3> QED
      BY <1>2, <3>2, <3>3, <3>5, <3>6
  <2>2. CASE ~(over > 0)
    <3>1. rest = cache
      BY <2>2
    <3> QED
      BY <1>2, <2>2, <3>1 DEF Unique, Within, CacheBounded
  <2> QED
    BY <2>1, <2>2
<1> HIDE DEF rest
<1>4. /\ Put(rest, e) \in Seq(Entry) /\ Len(Put(rest, e)) <= Len(rest) + 1 /\ Unique(Put(rest, e))
      /\ \A i \in DOMAIN Put(rest, e) : \/ Put(rest, e)[i] = e
                                        \/ \E j \in DOMAIN rest : Put(rest, e)[i] = rest[j]
  BY <1>3, PutKeeps
<1>5. Len(rest) \in Nat /\ Len(Put(rest, e)) \in Nat
  BY <1>3, <1>4
<1> QED
  BY <1>1, <1>2, <1>3, <1>4, <1>5 DEF Within

-----------------------------------------------------------------------------
(* What is sound stays so when the process moves forward.                   *)

LEMMA Constants ==
  ASSUME GatewayAssumption
  PROVE  /\ MaxEpoch \in Nat /\ MaxClock \in Nat /\ Ttl \in Nat /\ MaxRestarts \in Nat
         /\ NoCall \in Call /\ NoCall.at = "idle"
         /\ NoAnswer.source = "NONE" /\ NoAnswer.key \in Keys
BY DEF GatewayAssumption, NoCall, NoAnswer, Call, Epochs

LEMMA Typed ==
  ASSUME GatewayAssumption, TypeOK
  PROVE  /\ cache \in Seq(Entry) /\ calls \in [Callers -> Call]
         /\ Epoch \in Nat /\ Epoch >= 1 /\ Epoch <= MaxEpoch /\ Epoch = Len(log)
         /\ floor \in Nat /\ answered \in Nat /\ clock \in Nat
         /\ \A e \in 1..Epoch : log[e] \in [facts : [Principals -> Facts], time : 0..MaxClock]
<1>1. cache \in Seq(Entry) /\ calls \in [Callers -> Call]
  BY DEF TypeOK, Entry, Call
<1>2. Epoch \in Nat /\ Epoch >= 1 /\ Epoch <= MaxEpoch
  BY Constants DEF TypeOK
<1>3. floor \in Nat /\ answered \in Nat /\ clock \in Nat
  BY <1>2, Constants DEF TypeOK, Epochs
<1>4. \A e \in 1..Epoch : log[e] \in [facts : [Principals -> Facts], time : 0..MaxClock]
  <2> DEFINE Commit == [facts : [Principals -> Facts], time : 0..MaxClock]
  <2>1. log \in Seq(Commit)
    BY DEF TypeOK
  <2> HIDE DEF Commit
  <2>2. \A e \in 1..Len(log) : log[e] \in Commit
    BY <2>1
  <2> QED
    BY <2>2 DEF Epoch, Commit
<1> QED
  BY <1>1, <1>2, <1>3, <1>4 DEF Epoch

LEMMA TypedNext ==
  ASSUME GatewayAssumption, TypeOK'
  PROVE  Epoch' \in Nat /\ Epoch' <= MaxEpoch /\ floor' \in Nat /\ answered' \in Nat
<1>1. Epoch' \in Nat /\ Epoch' <= MaxEpoch
  BY Constants DEF TypeOK
<1> QED
  BY <1>1, Constants DEF TypeOK, Epochs

LEMMA EntryStays ==
  ASSUME GatewayAssumption, TypeOK, TypeOK', Forward, NEW x \in Entry, SoundEntry(x)
  PROVE  SoundEntry(x)'
<1>1. /\ x.epoch \in 1..Epoch /\ x.epoch <= floor
      /\ (x.decision = "ALLOW") <=> IsAllowed(x.epoch, x.key)
      /\ x.epoch >= floor => x.epoch >= answered
  BY DEF SoundEntry
<1>2. /\ Epoch \in Nat /\ Epoch' \in Nat /\ floor \in Nat /\ floor' \in Nat
      /\ answered \in Nat /\ answered' \in Nat
  BY Typed, TypedNext
<1>3. IsAllowed(x.epoch, x.key)' <=> IsAllowed(x.epoch, x.key)
  BY <1>1 DEF Forward, IsAllowed
<1>4. x.epoch \in 1..Epoch' /\ x.epoch <= floor' /\ (x.epoch >= floor' => x.epoch >= answered')
  BY <1>1, <1>2 DEF Forward
<1> QED
  BY <1>1, <1>3, <1>4 DEF SoundEntry

LEMMA CallStays ==
  ASSUME GatewayAssumption, TypeOK, TypeOK', Forward, NEW x \in Call, SoundCall(x)
  PROVE  SoundCall(x)'
<1>1. /\ Epoch \in Nat /\ Epoch' \in Nat /\ floor \in Nat /\ floor' \in Nat
      /\ answered \in Nat /\ answered' \in Nat
      /\ x.epoch \in Nat /\ x.seen \in Nat
  BY Typed, TypedNext, Constants DEF Epochs, Call
<1>2. x.at # "idle" => x.seen <= answered'
  BY <1>1 DEF SoundCall, Forward
<1>3. ASSUME x.at = "loading"
      PROVE  /\ x.epoch \in 1..Epoch' /\ x.seen <= x.epoch
             /\ x.allowed <=> IsAllowed(x.epoch, x.key)'
             /\ x.epoch >= floor' => x.epoch >= answered'
  <2>1. x.epoch \in 1..Epoch /\ x.seen <= x.epoch /\ (x.epoch >= floor => x.epoch >= answered)
    BY <1>3 DEF SoundCall
  <2>2. x.allowed <=> IsAllowed(x.epoch, x.key)
    BY <1>3 DEF SoundCall
  <2>3. IsAllowed(x.epoch, x.key)' <=> IsAllowed(x.epoch, x.key)
    BY <2>1 DEF Forward, IsAllowed
  <2>4. x.epoch \in 1..Epoch' /\ (x.epoch >= floor' => x.epoch >= answered')
    BY <1>1, <2>1 DEF Forward
  <2> QED
    BY <2>1, <2>2, <2>3, <2>4
<1> QED
  BY <1>2, <1>3 DEF SoundCall

(* Entries that were in the cache stay sound, wherever they are now.        *)
LEMMA CacheStays ==
  ASSUME GatewayAssumption, TypeOK, TypeOK', Forward, CacheSound, Within(cache', cache)
  PROVE  CacheSound'
<1>1. ASSUME NEW i \in DOMAIN cache' PROVE SoundEntry(cache[i])'
  <2>1. PICK j \in DOMAIN cache : cache'[i] = cache[j]
    BY <1>1 DEF Within
  <2>2. cache[j] \in Entry /\ SoundEntry(cache[j])
    BY Typed DEF CacheSound
  <2>3. \A y \in Entry : SoundEntry(y) => SoundEntry(y)'
    BY EntryStays
  <2>4. PICK y \in Entry : y = cache'[i] /\ SoundEntry(y)
    BY <2>1, <2>2
  <2>5. SoundEntry(y)'
    BY <2>3, <2>4
  <2> QED
    BY <2>4, <2>5 DEF SoundEntry
<1> QED
  BY <1>1 DEF CacheSound

(* So do the calls a step leaves alone.                                     *)
LEMMA CallRemains ==
  ASSUME GatewayAssumption, TypeOK, TypeOK', Forward, CallsSound, NEW c \in Callers,
         calls'[c] = calls[c]
  PROVE  SoundCall(calls[c])'
<1>1. calls[c] \in Call /\ SoundCall(calls[c])
  BY Typed DEF CallsSound
<1>2. \A y \in Call : SoundCall(y) => SoundCall(y)'
  BY CallStays
<1>3. PICK y \in Call : y = calls[c] /\ SoundCall(y)
  BY <1>1
<1>4. SoundCall(y)'
  BY <1>2, <1>3
<1> QED
  BY <1>3, <1>4 DEF SoundCall

(* An answer that is not given again stays a decision of its epoch.         *)
LEMMA AnswerStays ==
  ASSUME GatewayAssumption, TypeOK, TypeOK', Forward, DecisionIsOfItsEpoch, EpochsNeverGoBack,
         UNCHANGED answer
  PROVE  DecisionIsOfItsEpoch' /\ EpochsNeverGoBack'
<1>1. Epoch \in Nat /\ Epoch' \in Nat
  BY Typed, TypedNext
<1>2. EpochsNeverGoBack'
  BY DEF EpochsNeverGoBack, Decided
<1>3. ASSUME Decided PROVE answer.epoch \in 1..Epoch' /\ log'[answer.epoch] = log[answer.epoch]
  BY <1>1, <1>3 DEF Forward, DecisionIsOfItsEpoch
<1> QED
  BY <1>2, <1>3 DEF DecisionIsOfItsEpoch, Decided

(* A step that answers no one and leaves cache and calls, or empties the    *)
(* cache, keeps the invariant.                                              *)
LEMMA QuietStep ==
  ASSUME GatewayAssumption, IInv, TypeOK', Forward, UNCHANGED <<calls, answer, answered, unsafe>>,
         cache' = cache \/ cache' = <<>>
  PROVE  IInv'
<1>1. TypeOK /\ answered' <= Epoch'
  BY Typed, TypedNext DEF IInv, Forward
<1>2. CacheSound'
  <2>1. Within(cache', cache)
    BY DEF Within
  <2> QED
    BY <1>1, <2>1, CacheStays DEF IInv
<1>3. CallsSound'
  BY <1>1, CallRemains DEF IInv, CallsSound
<1>4. DecisionIsOfItsEpoch' /\ EpochsNeverGoBack'
  BY <1>1, AnswerStays DEF IInv
<1>5. CacheBounded'
  BY DEF IInv, CacheBounded, GatewayAssumption
<1>6. unsafe' => cache' = <<>>
  BY DEF IInv
<1> QED
  BY <1>1, <1>2, <1>3, <1>4, <1>5, <1>6 DEF IInv

-----------------------------------------------------------------------------
(* The steps.                                                               *)

\* What an answer does to the history: it rises to the epoch answered, if it
\* was below, and stays a number of the log.
LEMMA AnswerAdds ==
  ASSUME GatewayAssumption, IInv, NEW x \in Call, NEW source \in {"CACHE", "FRESH", "FAIL_CLOSED"},
         NEW decision \in Decisions, NEW e \in Epochs, e <= Epoch, UNCHANGED log,
         Answer(x, source, decision, e),
         source # "FAIL_CLOSED" =>
           e >= 1 /\ x.seen <= e /\ (decision = "ALLOW" <=> IsAllowed(e, x.key))
  PROVE  /\ answer' \in [source : {"NONE", "CACHE", "FRESH", "FAIL_CLOSED"}, key : Keys,
                         decision : Decisions, epoch : Epochs, seen : Epochs, time : 0..MaxClock]
         /\ answered' \in Epochs /\ answered' <= Epoch /\ answered <= answered'
         /\ answered' = answered \/ answered' = e
         /\ answered' = answered \/ e > answered
         /\ DecisionIsOfItsEpoch' /\ EpochsNeverGoBack'
<1>1. /\ answer' = [source |-> source, key |-> x.key, decision |-> decision,
                    epoch |-> e, seen |-> x.seen, time |-> clock]
      /\ answered' = IF e > answered THEN e ELSE answered
  BY DEF Answer
<1>2. TypeOK /\ answered <= Epoch /\ Epoch \in Nat /\ answered \in Nat /\ answered \in Epochs /\ e \in Nat
  <2>1. TypeOK /\ answered <= Epoch
    BY DEF IInv
  <2>2. answered \in Epochs
    BY <2>1 DEF TypeOK
  <2>3. e \in Nat
    BY Constants DEF Epochs
  <2> QED
    BY <2>1, <2>2, <2>3, Typed
<1>3. clock \in 0..MaxClock /\ x.key \in Keys /\ x.seen \in Epochs
  BY <1>2 DEF TypeOK, Call
<1>4. /\ answer'.source = source /\ answer'.key = x.key /\ answer'.decision = decision
      /\ answer'.epoch = e /\ answer'.seen = x.seen
  BY <1>1
<1>5. answer' \in [source : {"NONE", "CACHE", "FRESH", "FAIL_CLOSED"}, key : Keys,
                   decision : Decisions, epoch : Epochs, seen : Epochs, time : 0..MaxClock]
  BY <1>1, <1>3
<1>6. /\ answered' \in Epochs /\ answered' <= Epoch /\ answered <= answered'
      /\ answered' = answered \/ answered' = e
      /\ answered' = answered \/ e > answered
  BY <1>1, <1>2
<1>7. EpochsNeverGoBack'
  BY <1>2, <1>3, <1>4 DEF EpochsNeverGoBack, Decided, Epochs
<1>8. DecisionIsOfItsEpoch'
  <2>1. Epoch' = Epoch
    BY DEF Epoch
  <2> SUFFICES ASSUME source # "FAIL_CLOSED"
               PROVE  /\ e \in 1..Epoch
                      /\ decision = "ALLOW" <=> \A p \in x.key : log[e].facts[p] = "granted"
    BY <1>4, <2>1 DEF DecisionIsOfItsEpoch, Decided
  <2> QED
    BY <1>2 DEF IsAllowed
<1> QED
  BY <1>5, <1>6, <1>7, <1>8

LEMMA CommitKeeps ==
  ASSUME GatewayAssumption, IInv, NEW p \in Principals, NEW f \in Facts, AuthorizationCommit(p, f)
  PROVE  IInv'
<1> DEFINE Commit == [facts : [Principals -> Facts], time : 0..MaxClock]
           entry == [facts |-> [log[Epoch].facts EXCEPT ![p] = f], time |-> clock]
<1>1. TypeOK /\ log \in Seq(Commit) /\ clock \in 0..MaxClock /\ Epoch \in 1..Epoch
  BY Typed DEF IInv, TypeOK
<1>2. entry \in Commit
  <2>1. log[Epoch] \in Commit
    BY <1>1, Typed
  <2> QED
    BY <1>1, <2>1
<1>3. log' = Append(log, entry)
  BY DEF AuthorizationCommit
<1> HIDE DEF Commit, entry
<1>4. log' \in Seq(Commit) /\ Len(log') = Len(log) + 1 /\ \A e \in 1..Len(log) : log'[e] = log[e]
  BY <1>1, <1>2, <1>3
<1>5. Epoch' = Epoch + 1 /\ Epoch < MaxEpoch /\ MaxEpoch \in Nat
  BY <1>4, Constants DEF Epoch, AuthorizationCommit
<1>6. Forward
  <2>1. UNCHANGED <<floor, answered>> /\ floor \in Nat /\ answered \in Nat /\ Epoch \in Nat
    BY <1>1, Typed DEF AuthorizationCommit
  <2> QED
    BY <1>4, <1>5, <2>1 DEF Forward, Epoch
<1>7. TypeOK'
  <2>1. Epoch' \in 1..MaxEpoch /\ 1..Epoch \subseteq 1..Epoch' /\ Epoch + 1 \in 1..Epoch'
    BY <1>1, <1>5, Typed
  <2>2. notices' \subseteq 1..Epoch' /\ floor' \in 1..Epoch'
    BY <1>1, <2>1 DEF AuthorizationCommit, TypeOK
  <2>3. UNCHANGED <<clock, clockFault, cache, unsafe, calls, answer, answered, restarts>>
    BY DEF AuthorizationCommit, time
  <2> QED
    BY <1>1, <1>4, <2>1, <2>2, <2>3 DEF TypeOK, Commit
<1> QED
  BY <1>6, <1>7, QuietStep DEF AuthorizationCommit

\* The steps that leave the log and the calls as they are, and the type of the
\* rest, which they leave alone as well.
LEMMA NoticeKeeps ==
  ASSUME GatewayAssumption, IInv, NEW e \in notices, NEW again \in BOOLEAN,
         ObserveNotification(e, again) \/ LoseNotification(e)
  PROVE  IInv'
<1>1. TypeOK /\ Epoch \in Nat /\ e \in 1..Epoch /\ floor \in 1..Epoch /\ answered \in Nat
  BY Typed DEF IInv, TypeOK
<1>2. UNCHANGED <<log, clock, clockFault, unsafe, calls, answer, answered, restarts>>
  BY DEF ObserveNotification, LoseNotification, time
<1>3. notices' \subseteq notices /\ (cache' = cache \/ cache' = <<>>)
  BY DEF ObserveNotification, LoseNotification
<1>4. floor' = floor \/ (e > floor /\ floor' = e)
  BY DEF ObserveNotification, LoseNotification, Raised
<1>5. floor' \in 1..Epoch /\ floor <= floor' /\ Epoch' = Epoch
  BY <1>1, <1>2, <1>4 DEF Epoch
<1>6. TypeOK'
  <2>1. notices' \subseteq 1..Epoch
    BY <1>1, <1>3 DEF TypeOK
  <2>2. cache' \in Seq(Entry)
    <3>1. cache \in Seq(Entry) /\ <<>> \in Seq(Entry)
      BY <1>1, Typed
    <3> QED
      BY <1>3, <3>1
  <2> QED
    BY <1>1, <1>2, <1>5, <2>1, <2>2 DEF TypeOK, Entry
<1>7. Forward
  BY <1>1, <1>2, <1>5 DEF Forward
<1> QED
  BY <1>2, <1>3, <1>6, <1>7, QuietStep

LEMMA ClockKeeps ==
  ASSUME GatewayAssumption, IInv, Tick \/ ClockFault \/ UNCHANGED vars
  PROVE  IInv'
<1>1. TypeOK /\ Epoch \in Nat /\ floor \in Nat /\ answered \in Nat
  BY Typed DEF IInv
<1>2. UNCHANGED <<log, notices, cache, floor, unsafe, calls, answer, answered, restarts>>
  BY DEF Tick, ClockFault, vars, db
<1>3. clock' \in 0..MaxClock /\ clockFault' \in BOOLEAN
  <2>1. clock \in 0..MaxClock /\ clockFault \in BOOLEAN /\ MaxClock \in Nat
    BY <1>1, Constants DEF TypeOK
  <2>2. clock' = clock \/ (clock < MaxClock /\ clock' = clock + 1)
    BY DEF Tick, ClockFault, vars
  <2>3. clockFault' = clockFault \/ clockFault' = ~clockFault
    BY DEF Tick, ClockFault, vars
  <2>4. clock' \in 0..MaxClock
    BY <2>1, <2>2
  <2> QED
    BY <2>1, <2>3, <2>4
<1>4. Epoch' = Epoch
  BY <1>2 DEF Epoch
<1>5. TypeOK'
  BY <1>1, <1>2, <1>3, <1>4 DEF TypeOK
<1>6. Forward
  BY <1>1, <1>2, <1>4 DEF Forward
<1> QED
  BY <1>2, <1>5, <1>6, QuietStep

(* A restart forgets the floor, and with it every entry and call that was   *)
(* sound only above it.                                                     *)
LEMMA RestartKeeps ==
  ASSUME GatewayAssumption, IInv, Restart
  PROVE  IInv'
<1>1. TypeOK /\ Epoch \in Nat /\ Epoch >= 1 /\ answered <= Epoch
  BY Typed DEF IInv
<1>2. /\ log' = log /\ clock' = clock /\ answered' = answered /\ Epoch' = Epoch
      /\ cache' = <<>> /\ floor' = 1 /\ ~unsafe' /\ unsafe' \in BOOLEAN /\ clockFault' \in BOOLEAN
      /\ calls' = [c \in Callers |-> NoCall] /\ answer' = NoAnswer /\ notices' = {}
  BY DEF Restart, Epoch
<1>3. restarts' \in 0..MaxRestarts
  BY <1>1, Constants DEF Restart, TypeOK
<1>4. calls' \in [Callers -> Call] /\ \A c \in Callers : calls'[c].at = "idle"
  BY <1>2, Constants
<1>5. NoAnswer \in [source : {"NONE", "CACHE", "FRESH", "FAIL_CLOSED"}, key : Keys,
                    decision : Decisions, epoch : Epochs, seen : Epochs, time : 0..MaxClock]
  BY Constants DEF NoAnswer, Decisions, Epochs
<1>6. TypeOK'
  BY <1>1, <1>2, <1>3, <1>4, <1>5 DEF TypeOK, Call
<1>7. CacheSound' /\ CallsSound' /\ CacheBounded'
  BY <1>2, <1>4 DEF CacheSound, CallsSound, SoundCall, CacheBounded, GatewayAssumption
<1>8. DecisionIsOfItsEpoch' /\ EpochsNeverGoBack'
  BY <1>2, Constants DEF DecisionIsOfItsEpoch, EpochsNeverGoBack, Decided
<1> QED
  BY <1>1, <1>2, <1>6, <1>7, <1>8 DEF IInv

(* A step that answers from nothing new, the calls being as they were but   *)
(* for one that is new or over, keeps the invariant if it keeps the type.   *)
LEMMA AnswerKeeps ==
  ASSUME GatewayAssumption, IInv, TypeOK', Forward, answered' <= Epoch',
         Within(cache', cache), CacheBounded', unsafe' => cache' = <<>>,
         DecisionIsOfItsEpoch', EpochsNeverGoBack',
         \A c \in Callers : calls'[c] = calls[c] \/ SoundCall(calls[c])'
  PROVE  IInv'
<1>1. TypeOK /\ CacheSound /\ CallsSound
  BY DEF IInv
<1>2. CacheSound'
  BY <1>1, CacheStays
<1>3. CallsSound'
  BY <1>1, CallRemains DEF CallsSound
<1> QED
  BY <1>2, <1>3 DEF IInv

\* A request that is refused is answered with no epoch at all.
LEMMA InvalidKeeps ==
  ASSUME GatewayAssumption, IInv, NEW c \in Callers, NEW k \in Keys, InvalidRequest(c, k)
  PROVE  IInv'
<1> DEFINE call == [NoCall EXCEPT !.key = k, !.seen = answered]
<1>1. TypeOK /\ Epoch \in Nat /\ floor \in Nat /\ answered \in Nat /\ answered \in Epochs
  BY Typed DEF IInv, TypeOK
<1>2. call \in Call
  BY <1>1, Constants DEF Call
<1>3. /\ UNCHANGED <<log, notices, clock, clockFault, cache, floor, unsafe, calls, restarts>>
      /\ Answer(call, "FAIL_CLOSED", "DENY", 0)
  BY DEF InvalidRequest, db, time
<1> HIDE DEF call
<1>4. /\ answer' \in [source : {"NONE", "CACHE", "FRESH", "FAIL_CLOSED"}, key : Keys,
                      decision : Decisions, epoch : Epochs, seen : Epochs, time : 0..MaxClock]
      /\ answered' \in Epochs /\ answered' <= Epoch /\ answered <= answered'
      /\ answered' = answered \/ 0 > answered
      /\ DecisionIsOfItsEpoch' /\ EpochsNeverGoBack'
  <2>1. "DENY" \in Decisions /\ 0 \in Epochs /\ 0 <= Epoch /\ log' = log
    BY <1>1, <1>3, Constants DEF Decisions, Epochs
  <2> QED
    BY <1>2, <1>3, <2>1, AnswerAdds
<1>5. answered' = answered /\ Epoch' = Epoch
  BY <1>1, <1>3, <1>4 DEF Epoch
<1>6. TypeOK'
  BY <1>1, <1>3, <1>4, <1>5 DEF TypeOK
<1>7. Forward
  BY <1>1, <1>3, <1>5 DEF Forward
<1>8. Within(cache', cache) /\ CacheBounded' /\ (unsafe' => cache' = <<>>)
  BY <1>3 DEF Within, IInv, CacheBounded
<1> QED
  BY <1>3, <1>4, <1>5, <1>6, <1>7, <1>8, AnswerKeeps

(* What a failed call leaves: the same cache or none, and no clock trusted  *)
(* that has been found wrong (#failClosed).                                 *)
LEMMA FailClosedKeeps ==
  ASSUME GatewayAssumption, IInv, NEW x \in Call, FailClosed(x),
         UNCHANGED <<log, notices, clock, clockFault, floor, restarts>>,
         calls' \in [Callers -> Call], cache' = <<>> \/ (~clockFault /\ cache' = cache),
         \A c \in Callers : calls'[c] = calls[c] \/ calls'[c] = NoCall
  PROVE  IInv'
<1>1. /\ TypeOK /\ Epoch \in Nat /\ floor \in Nat /\ answered \in Nat
      /\ unsafe \in BOOLEAN /\ clockFault \in BOOLEAN
  BY Typed DEF IInv, TypeOK
<1>2. Answer(x, "FAIL_CLOSED", "DENY", 0) /\ unsafe' = (unsafe \/ clockFault)
  BY DEF FailClosed
<1>3. /\ answer' \in [source : {"NONE", "CACHE", "FRESH", "FAIL_CLOSED"}, key : Keys,
                      decision : Decisions, epoch : Epochs, seen : Epochs, time : 0..MaxClock]
      /\ answered' \in Epochs /\ answered' <= Epoch /\ answered <= answered'
      /\ answered' = answered \/ 0 > answered
      /\ DecisionIsOfItsEpoch' /\ EpochsNeverGoBack'
  <2>1. "DENY" \in Decisions /\ 0 \in Epochs /\ 0 <= Epoch /\ log' = log
    BY <1>1, Constants DEF Decisions, Epochs
  <2> QED
    BY <1>2, <2>1, AnswerAdds
<1>4. answered' = answered /\ Epoch' = Epoch
  BY <1>1, <1>3 DEF Epoch
<1>5. TypeOK'
  <2>1. cache' \in Seq(Entry)
    <3>1. cache \in Seq(Entry) /\ <<>> \in Seq(Entry)
      BY <1>1, Typed
    <3> QED
      BY <3>1
  <2>2. unsafe' \in BOOLEAN
    BY <1>1, <1>2
  <2>3. calls' \in [Callers -> [at : {"idle", "reading", "loading"}, key : Keys,
                                floor : Epochs, epoch : Epochs, allowed : BOOLEAN, seen : Epochs]]
    BY DEF Call
  <2> QED
    BY <1>1, <1>3, <1>4, <2>1, <2>2, <2>3 DEF TypeOK, Entry
<1>6. Forward
  BY <1>1, <1>4 DEF Forward
<1>7. Within(cache', cache) /\ CacheBounded'
  BY DEF Within, IInv, CacheBounded, GatewayAssumption
<1>8. unsafe' => cache' = <<>>
  BY <1>1, <1>2 DEF IInv
<1>9. \A c \in Callers : calls'[c] = calls[c] \/ SoundCall(calls[c])'
  BY Constants DEF SoundCall
<1> QED
  BY <1>3, <1>4, <1>5, <1>6, <1>7, <1>8, <1>9, AnswerKeeps

LEMMA FailedKeeps ==
  ASSUME GatewayAssumption, IInv, NEW c \in Callers, Failed(c)
  PROVE  IInv'
<1>1. calls \in [Callers -> Call]
  BY Typed DEF IInv
<1>2. /\ calls' \in [Callers -> Call]
      /\ \A d \in Callers : calls'[d] = calls[d] \/ calls'[d] = NoCall
  BY <1>1, Constants DEF Failed
<1>3. cache' = <<>> \/ (~clockFault /\ cache' = cache)
  BY DEF Failed
<1>4. FailClosed(calls[c]) /\ UNCHANGED <<log, notices, clock, clockFault, floor, restarts>>
  BY DEF Failed, db, time
<1>5. calls[c] \in Call
  BY <1>1
<1> QED
  BY <1>2, <1>3, <1>4, <1>5, FailClosedKeeps

\* The snapshot is the log's last entry, so it is at every answer given so far.
LEMMA ReadKeeps ==
  ASSUME GatewayAssumption, IInv, NEW c \in Callers, ReadSnapshot(c)
  PROVE  IInv'
<1>1. /\ TypeOK /\ Epoch \in Nat /\ Epoch >= 1 /\ Epoch <= MaxEpoch /\ MaxEpoch \in Nat
      /\ calls \in [Callers -> Call] /\ floor \in Nat /\ answered \in Nat /\ answered <= Epoch
  BY Typed, Constants DEF IInv
<1>2. calls[c].at = "reading" /\ SoundCall(calls[c]) /\ calls[c] \in Call
  BY <1>1 DEF ReadSnapshot, IInv, CallsSound
<1>3. PICK b \in BOOLEAN : b = IsAllowed(Epoch, calls[c].key)
  BY DEF IsAllowed
<1>4. PICK x \in Call :
        /\ x = [calls[c] EXCEPT !.at = "loading", !.epoch = Epoch, !.allowed = b]
        /\ x.at = "loading" /\ x.epoch = Epoch /\ x.seen = calls[c].seen
        /\ x.key = calls[c].key /\ x.allowed = b
  <2>1. Epoch \in Epochs
    BY <1>1 DEF Epochs
  <2> DEFINE y == [calls[c] EXCEPT !.at = "loading", !.epoch = Epoch, !.allowed = b]
  <2>2. calls[c] \in Call
    BY <1>2
  <2>3. /\ y \in Call /\ y.at = "loading" /\ y.epoch = Epoch /\ y.seen = calls[c].seen
        /\ y.key = calls[c].key /\ y.allowed = b
    BY <2>1, <2>2 DEF Call
  <2> QED
    BY <2>3
<1>5. calls' = [calls EXCEPT ![c] = x]
  BY <1>3, <1>4 DEF ReadSnapshot
<1>6. /\ UNCHANGED <<log, notices, clock, clockFault, cache, floor, unsafe, answer, answered, restarts>>
      /\ Epoch' = Epoch
  BY DEF ReadSnapshot, db, time, Epoch
<1>7. calls' \in [Callers -> Call] /\ calls'[c] = x /\ \A d \in Callers : d # c => calls'[d] = calls[d]
  BY <1>1, <1>5
<1>8. TypeOK'
  BY <1>1, <1>6, <1>7 DEF TypeOK, Call
<1>9. Forward
  BY <1>1, <1>6 DEF Forward
<1>10. SoundCall(x)'
  <2>1. x.seen <= answered
    BY <1>2, <1>4 DEF SoundCall
  <2>2. x.seen <= x.epoch /\ x.epoch \in 1..Epoch /\ (x.epoch >= floor => x.epoch >= answered)
    <3>1. x.seen \in Nat
      BY <1>1, <1>4 DEF Call, Epochs
    <3> QED
      BY <1>1, <1>4, <2>1, <3>1
  <2>3. x.allowed <=> IsAllowed(x.epoch, x.key)
    BY <1>3, <1>4
  <2>4. IsAllowed(x.epoch, x.key)' <=> IsAllowed(x.epoch, x.key)
    BY <1>6 DEF IsAllowed
  <2>5. x.epoch \in 1..Epoch' /\ x.seen <= answered' /\ (x.epoch >= floor' => x.epoch >= answered')
    BY <1>6, <2>1, <2>2
  <2> QED
    BY <2>2, <2>3, <2>4, <2>5 DEF SoundCall
<1>11. \A d \in Callers : calls'[d] = calls[d] \/ SoundCall(calls[d])'
  BY <1>7, <1>10 DEF SoundCall
<1>12. Within(cache', cache) /\ CacheBounded' /\ (unsafe' => cache' = <<>>)
  BY <1>6 DEF Within, IInv, CacheBounded
<1>13. DecisionIsOfItsEpoch' /\ EpochsNeverGoBack'
  BY <1>1, <1>6, <1>8, <1>9, AnswerStays DEF IInv
<1> QED
  BY <1>1, <1>6, <1>8, <1>9, <1>11, <1>12, <1>13, AnswerKeeps

\* A call begins: it is refused, answered from the cache, or goes to read, and
\* then remembers what had been answered before.
LEMMA StartKeeps ==
  ASSUME GatewayAssumption, IInv, NEW c \in Callers, NEW k \in Keys, AuthorizeStart(c, k)
  PROVE  IInv'
<1>1. /\ TypeOK /\ Epoch \in Nat /\ floor \in Nat /\ answered \in Nat /\ answered <= Epoch
      /\ floor \in 1..Epoch /\ Epoch <= MaxEpoch /\ MaxEpoch \in Nat
      /\ cache \in Seq(Entry) /\ calls \in [Callers -> Call]
  BY Typed, Constants DEF IInv, TypeOK
<1>2. PICK x \in Call : /\ x = [NoCall EXCEPT !.key = k, !.floor = floor, !.seen = answered]
                        /\ x.at = "idle" /\ x.key = k /\ x.seen = answered
  <2> DEFINE y == [NoCall EXCEPT !.key = k, !.floor = floor, !.seen = answered]
  <2>1. floor \in Epochs /\ answered \in Epochs
    BY <1>1 DEF Epochs
  <2>2. y \in Call /\ y.at = "idle" /\ y.key = k /\ y.seen = answered
    BY <2>1, Constants DEF Call
  <2> QED
    BY <2>2
<1>3. /\ UNCHANGED <<log, notices, clock, clockFault, floor, restarts>> /\ Epoch' = Epoch
  BY DEF AuthorizeStart, db, time, Epoch
<1>4. CASE cache' = <<>> /\ FailClosed(x) /\ UNCHANGED calls
  BY <1>1, <1>3, <1>4, FailClosedKeeps
<1>5. CASE /\ UNCHANGED <<unsafe, cache, calls>>
           /\ \E i \in Held(k) : /\ Usable(cache[i])
                                 /\ Answer(x, "CACHE", cache[i].decision, cache[i].epoch)
  <2>1. PICK i \in DOMAIN cache : /\ cache[i].key = k /\ cache[i].epoch >= floor
                                  /\ Answer(x, "CACHE", cache[i].decision, cache[i].epoch)
    BY <1>5 DEF Held, Usable
  <2>2. PICK e \in Entry : e = cache[i] /\ SoundEntry(e)
    BY <1>1 DEF IInv, CacheSound
  <2>3. /\ e.decision \in Decisions /\ e.epoch \in Epochs /\ e.key = k
        /\ Answer(x, "CACHE", e.decision, e.epoch)
    BY <2>1, <2>2 DEF Entry
  <2>4. /\ e.epoch \in 1..Epoch /\ e.epoch = floor /\ e.epoch >= answered
        /\ (e.decision = "ALLOW") <=> IsAllowed(e.epoch, x.key)
    BY <1>1, <1>2, <2>1, <2>2, <2>3 DEF SoundEntry
  <2>5. /\ answer' \in [source : {"NONE", "CACHE", "FRESH", "FAIL_CLOSED"}, key : Keys,
                        decision : Decisions, epoch : Epochs, seen : Epochs, time : 0..MaxClock]
        /\ answered' \in Epochs /\ answered' <= Epoch /\ answered <= answered'
        /\ answered' = answered \/ answered' = e.epoch
        /\ DecisionIsOfItsEpoch' /\ EpochsNeverGoBack'
    <3>1. e.epoch <= Epoch /\ e.epoch >= 1 /\ x.seen <= e.epoch /\ log' = log
      BY <1>1, <1>2, <1>3, <2>4
    <3> QED
      BY <2>3, <2>4, <3>1, AnswerAdds
  <2>6. TypeOK'
    BY <1>1, <1>3, <1>5, <2>5 DEF TypeOK
  <2>7. Forward
    BY <1>1, <1>3, <2>4, <2>5 DEF Forward
  <2>8. Within(cache', cache) /\ CacheBounded' /\ (unsafe' => cache' = <<>>)
    BY <1>5 DEF Within, IInv, CacheBounded
  <2> QED
    BY <1>3, <1>5, <2>5, <2>6, <2>7, <2>8, AnswerKeeps
<1>6. CASE /\ UNCHANGED <<unsafe, answer, answered>> /\ ~unsafe
           /\ cache' = Without(cache, k)
           /\ calls' = [calls EXCEPT ![c] = [x EXCEPT !.at = "reading"]]
  <2>1. PICK y \in Call : /\ y = [x EXCEPT !.at = "reading"]
                          /\ y.at = "reading" /\ y.seen = answered
    <3>1. [x EXCEPT !.at = "reading"] \in Call
      BY DEF Call
    <3> QED
      BY <1>2, <3>1 DEF Call
  <2>2. calls' \in [Callers -> Call] /\ calls'[c] = y /\ \A d \in Callers : d # c => calls'[d] = calls[d]
    BY <1>1, <1>6, <2>1
  <2>3. /\ cache' \in Seq(Entry) /\ Len(cache') <= Len(cache) /\ Unique(cache') /\ Within(cache', cache)
    BY <1>1, <1>6, WithoutKeeps DEF IInv, CacheBounded, Unique
  <2>4. CacheBounded'
    <3>1. Len(cache') \in Nat /\ Len(cache) \in Nat /\ MaximumCacheEntries \in Nat
      BY <1>1, <2>3 DEF GatewayAssumption
    <3>2. Len(cache) <= MaximumCacheEntries
      BY DEF IInv, CacheBounded
    <3> QED
      BY <2>3, <3>1, <3>2 DEF CacheBounded, Unique
  <2>5. TypeOK'
    BY <1>1, <1>3, <1>6, <2>2, <2>3 DEF TypeOK, Entry, Call
  <2>6. Forward
    BY <1>1, <1>3, <1>6 DEF Forward
  <2>7. \A d \in Callers : calls'[d] = calls[d] \/ SoundCall(calls[d])'
    BY <1>1, <1>6, <2>1, <2>2 DEF SoundCall
  <2>8. DecisionIsOfItsEpoch' /\ EpochsNeverGoBack'
    BY <1>1, <1>6, <2>5, <2>6, AnswerStays DEF IInv
  <2> QED
    BY <1>1, <1>3, <1>6, <2>3, <2>4, <2>5, <2>6, <2>7, <2>8, AnswerKeeps
<1> QED
  BY <1>2, <1>4, <1>5, <1>6 DEF AuthorizeStart

(* A decision is confirmed only if it is not below the floor, which it then *)
(* becomes; the entry it leaves is at the floor.                            *)
LEMMA ConfirmKeeps ==
  ASSUME GatewayAssumption, IInv, NEW c \in Callers, Confirm(c)
  PROVE  IInv'
<1> DEFINE decision == IF calls[c].allowed THEN "ALLOW" ELSE "DENY"
<1>1. /\ TypeOK /\ Epoch \in Nat /\ floor \in Nat /\ answered \in Nat /\ answered <= Epoch
      /\ floor \in 1..Epoch /\ Epoch <= MaxEpoch /\ MaxEpoch \in Nat
      /\ cache \in Seq(Entry) /\ calls \in [Callers -> Call]
  BY Typed, Constants DEF IInv, TypeOK
<1>2. PICK x \in Call : x = calls[c] /\ x.at = "loading" /\ SoundCall(x)
  BY <1>1 DEF Confirm, IInv, CallsSound
<1>3. /\ UNCHANGED <<log, notices, clock, clockFault, restarts>> /\ Epoch' = Epoch
      /\ calls' = [calls EXCEPT ![c] = NoCall]
  BY DEF Confirm, db, time, Epoch
<1>4. /\ calls' \in [Callers -> Call] /\ calls'[c] = NoCall
      /\ \A d \in Callers : calls'[d] = calls[d] \/ calls'[d] = NoCall
  BY <1>1, <1>3, Constants
<1>5. CASE FailClosed(calls[c]) /\ cache' = (IF clockFault THEN <<>> ELSE cache) /\ UNCHANGED floor
  BY <1>2, <1>3, <1>4, <1>5, FailClosedKeeps
<1>6. CASE /\ ~(calls[c].epoch < floor \/ unsafe \/ clockFault)
           /\ floor' = Raised(floor, calls[c].epoch)
           /\ cache' = StoreCacheEntry([key |-> calls[c].key, epoch |-> calls[c].epoch,
                         decision |-> decision, expiresAt |-> clock + Ttl])
           /\ Answer(calls[c], "FRESH", decision, calls[c].epoch)
           /\ UNCHANGED unsafe
  <2>1. /\ x.epoch \in 1..Epoch /\ x.epoch >= floor /\ x.epoch >= answered /\ x.seen <= x.epoch
        /\ x.allowed <=> IsAllowed(x.epoch, x.key)
        /\ x.epoch \in Nat /\ x.epoch \in Epochs /\ x.key \in Keys
    <3>1. x.epoch \in Epochs /\ x.key \in Keys
      BY DEF Call
    <3>2. x.epoch \in 1..Epoch /\ x.seen <= x.epoch /\ (x.epoch >= floor => x.epoch >= answered)
      BY <1>2 DEF SoundCall
    <3>3. x.allowed <=> IsAllowed(x.epoch, x.key)
      BY <1>2 DEF SoundCall
    <3> QED
      BY <1>1, <1>2, <1>6, <3>1, <3>2, <3>3
  <2>2. floor' = x.epoch
    BY <1>1, <1>2, <1>6, <2>1 DEF Raised
  <2>3. PICK d \in Decisions : d = decision /\ (d = "ALLOW" <=> IsAllowed(x.epoch, x.key))
    BY <1>2, <2>1 DEF Decisions
  <2>4. PICK e \in Entry : /\ e = [key |-> x.key, epoch |-> x.epoch, decision |-> d,
                                   expiresAt |-> clock + Ttl]
                           /\ e.key = x.key /\ e.epoch = x.epoch /\ e.decision = d
    <3>1. clock + Ttl \in 0..(MaxClock + Ttl)
      BY <1>1, Constants DEF TypeOK
    <3> DEFINE y == [key |-> x.key, epoch |-> x.epoch, decision |-> d, expiresAt |-> clock + Ttl]
    <3>2. y \in Entry
      BY <2>1, <3>1 DEF Entry
    <3> QED
      BY <3>2
  <2>5. cache' = StoreCacheEntry(e) /\ Answer(x, "FRESH", d, x.epoch)
    BY <1>2, <1>6, <2>3, <2>4
  <2>6. /\ cache' \in Seq(Entry) /\ Len(cache') <= MaximumCacheEntries /\ Unique(cache')
        /\ \A i \in DOMAIN cache' : cache'[i] = e \/ \E j \in DOMAIN cache : cache'[i] = cache[j]
    BY <1>1, <2>5, StoreKeeps DEF IInv
  <2>7. /\ answer' \in [source : {"NONE", "CACHE", "FRESH", "FAIL_CLOSED"}, key : Keys,
                        decision : Decisions, epoch : Epochs, seen : Epochs, time : 0..MaxClock]
        /\ answered' \in Epochs /\ answered' <= Epoch /\ answered <= answered'
        /\ answered' = answered \/ answered' = x.epoch
        /\ DecisionIsOfItsEpoch' /\ EpochsNeverGoBack'
    <3>1. x.epoch <= Epoch /\ x.epoch >= 1 /\ log' = log
      BY <1>1, <1>3, <2>1
    <3> QED
      BY <2>1, <2>3, <2>5, <3>1, AnswerAdds
  <2>8. TypeOK'
    <3>1. floor' \in 1..Epoch'
      BY <1>3, <2>1, <2>2
    <3> QED
      BY <1>1, <1>3, <1>4, <1>6, <2>6, <2>7, <3>1 DEF TypeOK, Entry, Call
  <2>9. Forward /\ answered' <= floor'
    BY <1>1, <1>3, <2>1, <2>2, <2>7 DEF Forward
  <2>10. SoundEntry(e)'
    <3>1. e.epoch \in 1..Epoch' /\ e.epoch <= floor' /\ (e.epoch >= floor' => e.epoch >= answered')
      BY <1>1, <1>3, <2>1, <2>2, <2>4, <2>7
    <3>2. IsAllowed(e.epoch, e.key)' <=> IsAllowed(e.epoch, e.key)
      BY <1>3 DEF IsAllowed
    <3>3. (e.decision = "ALLOW") <=> IsAllowed(e.epoch, e.key)
      BY <2>3, <2>4
    <3> QED
      BY <3>1, <3>2, <3>3 DEF SoundEntry
  <2>11. CacheSound'
    <3>1. ASSUME NEW i \in DOMAIN cache' PROVE SoundEntry(cache[i])'
      <4>1. CASE cache'[i] = e
        BY <2>10, <4>1 DEF SoundEntry
      <4>2. CASE \E j \in DOMAIN cache : cache'[i] = cache[j]
        <5>1. PICK y \in Entry : y = cache'[i] /\ SoundEntry(y)
          BY <1>1, <4>2 DEF IInv, CacheSound
        <5>2. SoundEntry(y)'
          BY <1>1, <2>8, <2>9, <5>1, EntryStays
        <5> QED
          BY <5>1, <5>2 DEF SoundEntry
      <4> QED
        BY <2>6, <4>1, <4>2
    <3> QED
      BY <3>1 DEF CacheSound
  <2>12. CallsSound'
    <3>1. ASSUME NEW w \in Callers PROVE SoundCall(calls[w])'
      <4>1. CASE calls'[w] = NoCall
        BY <4>1, Constants DEF SoundCall
      <4>2. CASE calls'[w] = calls[w]
        BY <1>1, <2>8, <2>9, <4>2, CallRemains DEF IInv
      <4> QED
        BY <1>4, <4>1, <4>2
    <3> QED
      BY <3>1 DEF CallsSound
  <2>13. CacheBounded' /\ (unsafe' => cache' = <<>>)
    BY <1>6, <2>6 DEF CacheBounded, Unique
  <2> QED
    BY <1>3, <2>7, <2>8, <2>11, <2>12, <2>13 DEF IInv
<1> QED
  BY <1>5, <1>6 DEF Confirm

LEMMA NextKeeps == ASSUME GatewayAssumption, IInv, [Next]_vars PROVE IInv'
<1>1. CASE \E p \in Principals, f \in Facts : AuthorizationCommit(p, f)
  BY <1>1, CommitKeeps
<1>2. CASE \E c \in Callers, k \in Keys : AuthorizeStart(c, k) \/ InvalidRequest(c, k)
  BY <1>2, StartKeeps, InvalidKeeps
<1>3. CASE \E c \in Callers : ReadSnapshot(c) \/ SnapshotFailure(c) \/ ArtifactFailure(c) \/ Confirm(c)
  BY <1>3, ReadKeeps, FailedKeeps, ConfirmKeeps DEF SnapshotFailure, ArtifactFailure
<1>4. CASE \/ \E e \in notices, again \in BOOLEAN : ObserveNotification(e, again)
           \/ \E e \in notices : LoseNotification(e)
  <2>1. TRUE \in BOOLEAN
    OBVIOUS
  <2> QED
    BY <1>4, <2>1, NoticeKeeps
<1>5. CASE Tick \/ ClockFault \/ UNCHANGED vars
  BY <1>5, ClockKeeps
<1>6. CASE Restart
  BY <1>6, RestartKeeps
<1> QED
  BY <1>1, <1>2, <1>3, <1>4, <1>5, <1>6 DEF Next

LEMMA InitHolds == ASSUME GatewayAssumption, Init PROVE IInv
<1> DEFINE Commit == [facts : [Principals -> Facts], time : 0..MaxClock]
           first == [facts |-> [p \in Principals |-> "granted"], time |-> 0]
<1>1. /\ MaxEpoch \in Nat \ {0} /\ MaxClock \in Nat /\ MaxRestarts \in Nat
      /\ MaximumCacheEntries \in Nat /\ 0 \in Epochs
  BY DEF GatewayAssumption, Epochs
<1>2. first \in Commit
  BY <1>1 DEF Facts
<1>3. log = <<first>>
  BY DEF Init
<1> HIDE DEF Commit, first
<1>4. log \in Seq(Commit) /\ Epoch = 1
  BY <1>2, <1>3 DEF Epoch
<1>5. NoAnswer \in [source : {"NONE", "CACHE", "FRESH", "FAIL_CLOSED"}, key : Keys,
                    decision : Decisions, epoch : Epochs, seen : Epochs, time : 0..MaxClock]
  BY <1>1, Constants DEF NoAnswer, Decisions
<1>6. calls \in [Callers -> Call] /\ \A c \in Callers : calls[c].at = "idle"
  BY Constants DEF Init
<1>7. TypeOK
  <2>1. /\ notices = {} /\ clock = 0 /\ clockFault = FALSE /\ cache = <<>> /\ floor = 1
        /\ unsafe = FALSE /\ answer = NoAnswer /\ answered = 0 /\ restarts = 0
    BY DEF Init
  <2>2. cache \in Seq(Entry) /\ notices \subseteq 1..Epoch /\ floor \in 1..Epoch /\ Epoch \in 1..MaxEpoch
    BY <1>1, <1>4, <2>1
  <2>3. clock \in 0..MaxClock /\ restarts \in 0..MaxRestarts /\ answered \in Epochs
    BY <1>1, <2>1
  <2> QED
    BY <1>4, <1>5, <1>6, <2>1, <2>2, <2>3 DEF TypeOK, Commit, Call, Entry
<1>8. CacheSound /\ CallsSound /\ CacheBounded /\ answered <= Epoch /\ (unsafe => cache = <<>>)
  BY <1>1, <1>4, <1>6 DEF Init, CacheSound, CallsSound, SoundCall, CacheBounded
<1>9. DecisionIsOfItsEpoch /\ EpochsNeverGoBack
  BY Constants DEF Init, DecisionIsOfItsEpoch, EpochsNeverGoBack, Decided
<1> QED
  BY <1>7, <1>8, <1>9 DEF IInv

(* Whatever the database commits, the network loses and the clock does, the *)
(* gateway keeps its invariant: a decision it can still give is the log's,  *)
(* and not below what was answered.                                         *)
THEOREM GatewayInvariance == ASSUME GatewayAssumption PROVE Spec => []IInv
<1>1. Init => IInv
  BY InitHolds
<1>2. IInv /\ [Next]_vars => IInv'
  BY NextKeeps
<1> QED
  BY <1>1, <1>2, PTL DEF Spec

(* Every decision is what the facts of the epoch it names gave              *)
(* (policy-domain/src/gateway.ts), and no call is answered at an epoch      *)
(* before one that had been answered when it began, over restarts too.      *)
THEOREM DecisionsSound ==
  ASSUME GatewayAssumption PROVE Spec => [](DecisionIsOfItsEpoch /\ EpochsNeverGoBack)
<1>1. IInv => DecisionIsOfItsEpoch /\ EpochsNeverGoBack
  BY DEF IInv
<1> QED
  BY <1>1, GatewayInvariance, PTL

(* The cache never exceeds its limit and holds a request once               *)
(* (#storeCacheEntry), however many calls for it were in flight.            *)
THEOREM CacheSafe == ASSUME GatewayAssumption PROVE Spec => []CacheBounded
<1>1. IInv => CacheBounded
  BY DEF IInv
<1> QED
  BY <1>1, GatewayInvariance, PTL

(* No decision is given below the floor, neither the one before nor the one *)
(* after the step that gives it (#raiseEpochFloor, the second check of      *)
(* authorize).                                                              *)
THEOREM FloorReached == ASSUME GatewayAssumption PROVE Spec => [][AnswersReachTheFloor]_vars
<1>1. ASSUME IInv, [Next]_vars PROVE [AnswersReachTheFloor]_vars
  <2> SUFFICES ASSUME Next, answer' # answer, Decided'
               PROVE  answer'.epoch >= floor /\ answer'.epoch >= floor'
    BY <1>1 DEF AnswersReachTheFloor
  <2>1. TypeOK /\ floor \in Nat
    BY <1>1, Typed DEF IInv
  <2>2. ASSUME NEW x, NEW decision, NEW e, Answer(x, "FAIL_CLOSED", decision, e) PROVE FALSE
    BY <2>2 DEF Answer, Decided
  <2>3. ASSUME NEW c \in Callers, NEW k \in Keys, AuthorizeStart(c, k)
        PROVE  answer'.epoch >= floor /\ answer'.epoch >= floor'
    <3>1. PICK i \in DOMAIN cache : cache[i].epoch >= floor /\ answer'.epoch = cache[i].epoch
      BY <2>2, <2>3 DEF AuthorizeStart, Usable, Held, FailClosed, Answer
    <3> QED
      BY <2>3, <3>1 DEF AuthorizeStart
  <2>4. ASSUME NEW c \in Callers, Confirm(c)
        PROVE  answer'.epoch >= floor /\ answer'.epoch >= floor'
    <3>1. /\ ~(calls[c].epoch < floor) /\ floor' = Raised(floor, calls[c].epoch)
          /\ answer'.epoch = calls[c].epoch
      BY <2>2, <2>4 DEF Confirm, FailClosed, Answer
    <3>2. calls[c].epoch \in Nat
      BY <2>1, Typed, Constants DEF Call, Epochs
    <3> QED
      BY <2>1, <3>1, <3>2 DEF Raised
  <2>5. ~Restart
    BY Constants DEF Restart, Decided
  <2>6. \A c \in Callers : ~SnapshotFailure(c) /\ ~ArtifactFailure(c)
    BY <2>2 DEF SnapshotFailure, ArtifactFailure, Failed, FailClosed
  <2>7. \A c \in Callers, k \in Keys : ~InvalidRequest(c, k)
    BY <2>2 DEF InvalidRequest
  <2> QED
    BY <2>3, <2>4, <2>5, <2>6, <2>7
    DEF Next, AuthorizationCommit, ReadSnapshot, ObserveNotification, LoseNotification, Tick, ClockFault
<1> QED
  BY <1>1, GatewayInvariance, PTL DEF Spec

(* Once its clock was found unsafe a process gives no decision and keeps    *)
(* none, and calls in flight at that moment are refused as well             *)
(* (#observeMonotonicClock, #failClosedSince).                              *)
THEOREM UnsafeFails == ASSUME GatewayAssumption PROVE Spec => [][UnsafeClockFailsClosed]_vars
<1>1. ASSUME IInv, [Next]_vars PROVE [UnsafeClockFailsClosed]_vars
  <2> SUFFICES ASSUME Next, unsafe, restarts' = restarts
               PROVE  /\ unsafe' /\ cache' = <<>>
                      /\ answer' # answer => answer'.source = "FAIL_CLOSED"
    BY <1>1 DEF UnsafeClockFailsClosed
  <2>1. cache = <<>> /\ restarts \in Nat
    BY <1>1, Constants DEF IInv, TypeOK
  <2>2. ASSUME NEW x, FailClosed(x) PROVE answer'.source = "FAIL_CLOSED" /\ unsafe'
    BY <2>2 DEF FailClosed, Answer
  <2>3. ~Restart
    BY <2>1 DEF Restart
  <2>4. ASSUME NEW c \in Callers, NEW k \in Keys, AuthorizeStart(c, k)
        PROVE  unsafe' /\ cache' = <<>> /\ answer'.source = "FAIL_CLOSED"
    BY <2>2, <2>4 DEF AuthorizeStart
  <2>5. ASSUME NEW c \in Callers, NEW k \in Keys, InvalidRequest(c, k)
        PROVE  unsafe' /\ cache' = <<>> /\ answer'.source = "FAIL_CLOSED"
    BY <2>1, <2>5 DEF InvalidRequest, Answer
  <2>6. ASSUME NEW c \in Callers, SnapshotFailure(c) \/ ArtifactFailure(c)
        PROVE  unsafe' /\ cache' = <<>> /\ answer'.source = "FAIL_CLOSED"
    BY <2>1, <2>2, <2>6 DEF SnapshotFailure, ArtifactFailure, Failed
  <2>7. ASSUME NEW c \in Callers, Confirm(c)
        PROVE  unsafe' /\ cache' = <<>> /\ answer'.source = "FAIL_CLOSED"
    BY <2>1, <2>2, <2>7 DEF Confirm
  <2> QED
    BY <2>1, <2>3, <2>4, <2>5, <2>6, <2>7
    DEF Next, AuthorizationCommit, ReadSnapshot, ObserveNotification, LoseNotification, Tick, ClockFault
<1> QED
  BY <1>1, GatewayInvariance, PTL DEF Spec

-----------------------------------------------------------------------------
(* Epochs.                                                                  *)
(*                                                                          *)
(* An entry of the cache is what was granted at its epoch, and it expires   *)
(* within a TTL of every commit since: decide reads the clock before it     *)
(* reads the store, and a notification that raises the floor empties the    *)
(* cache.  So it is with the last answer.                                   *)

EpochCommit == [bindings : SUBSET Principals, changedAt : 0..MaxTime, time : 0..MaxTime]
EpochEntry == [request : Requests, epoch : Nat, expiresAt : 0..(MaxTime + Ttl),
               decision : {"ALLOW", "DENY"}]
EpochAnswer == [decision : {"ALLOW", "DENY"}, epoch : Nat, request : Requests, time : 0..MaxTime]

\* What is decided at an epoch of g and may be served before the time n: it was
\* granted then, and no commit since is older than n less a TTL.
Grants(x, g) == Ep!Granted(x.request, g[x.epoch].bindings)
FreshUntil(e, n, g) == \A i \in (e + 1)..Len(g) : n <= g[i].time + Ttl

GoodEntry(x, g, n) ==
  /\ x.epoch \in 1..Len(g) /\ x.expiresAt <= n + Ttl
  /\ FreshUntil(x.epoch, x.expiresAt, g)
  /\ x.decision = "ALLOW" => Grants(x, g)
GoodAnswer(a, g, n) ==
  /\ a.epoch \in 0..Len(g) /\ a.time <= n
  /\ a.decision = "ALLOW" =>
       a.epoch \in 1..Len(g) /\ Grants(a, g) /\ FreshUntil(a.epoch, a.time + 1, g)
GoodProcess(C, f, h, a, g, n) ==
  /\ f \in 1..Len(g) /\ h \in 1..Len(g) /\ h <= f
  /\ \A x \in C : GoodEntry(x, g, n)
  /\ \A x, y \in C : x.request = y.request => x = y
  /\ GoodAnswer(a, g, n)

EpochStore ==
  /\ commits \in Seq(EpochCommit) /\ Ep!Epoch \in 1..MaxEpoch
  /\ dbClock \in 0..MaxTime /\ now \in 0..MaxTime
  /\ published \in BOOLEAN /\ down \subseteq {"store", "artifacts"}
  /\ delivery \in [Processes -> BOOLEAN]
EpochProcesses ==
  /\ cache \in [Processes -> SUBSET EpochEntry]
  /\ floor \in [Processes -> Nat] /\ heard \in [Processes -> Nat]
  /\ unsafe \subseteq Processes
  /\ answer \in [Processes -> EpochAnswer]
EpochInv ==
  /\ EpochStore /\ EpochProcesses
  /\ \A p \in Processes :
       GoodProcess(cache[p], floor[p], heard[p], answer[p], commits, now)

LEMMA NoAnswerGood ==
  ASSUME Ep!EpochAssumption, NEW a \in EpochAnswer, a.decision = "DENY", a.epoch = 0,
         NEW g \in Seq(EpochCommit), NEW n \in Int, a.time <= n
  PROVE  GoodAnswer(a, g, n)
BY DEF GoodAnswer

LEMMA NoAnswerTyped == ASSUME Ep!EpochAssumption PROVE Ep!NoAnswer \in EpochAnswer
<1>1. (CHOOSE r \in Requests : TRUE) \in Requests
  BY DEF Ep!EpochAssumption
<1> QED BY <1>1 DEF Ep!NoAnswer, EpochAnswer, Ep!EpochAssumption

LEMMA EpochStart == ASSUME Ep!EpochAssumption, Ep!Init PROVE EpochInv
<1>1. PICK c \in EpochCommit : c = [bindings |-> {}, changedAt |-> 0, time |-> 0]
  <2>1. 0 \in 0..MaxTime
    BY DEF Ep!EpochAssumption
  <2>2. [bindings |-> {}, changedAt |-> 0, time |-> 0] \in EpochCommit
    BY <2>1 DEF EpochCommit
  <2> QED BY <2>2
<1>2. commits = <<c>> /\ commits \in Seq(EpochCommit) /\ Len(commits) = 1
  BY <1>1 DEF Ep!Init
<1>3. EpochStore
  <2>1. 1 \in 1..MaxEpoch /\ 0 \in 0..MaxTime
    BY DEF Ep!EpochAssumption
  <2>2. /\ dbClock = 0 /\ now = 0 /\ published = FALSE /\ down = {}
        /\ delivery = [p \in Processes |-> TRUE]
    BY DEF Ep!Init
  <2> QED BY <1>2, <2>1, <2>2 DEF EpochStore, Ep!Epoch
<1>4. EpochProcesses
  BY NoAnswerTyped DEF Ep!Init, EpochProcesses
<1>5. GoodAnswer(Ep!NoAnswer, commits, 0)
  <2>1. Ep!NoAnswer.decision = "DENY" /\ Ep!NoAnswer.epoch = 0 /\ Ep!NoAnswer.time <= 0
    BY DEF Ep!NoAnswer
  <2>2. PICK a \in EpochAnswer : a = Ep!NoAnswer
    BY NoAnswerTyped
  <2>3. PICK g \in Seq(EpochCommit) : g = commits
    BY <1>2
  <2>4. GoodAnswer(a, g, 0)
    BY <2>1, <2>2, NoAnswerGood
  <2> QED BY <2>2, <2>3, <2>4
<1>6. ASSUME NEW p \in Processes
      PROVE  GoodProcess(cache[p], floor[p], heard[p], answer[p], commits, now)
  BY <1>2, <1>5 DEF Ep!Init, GoodProcess
<1> QED BY <1>3, <1>4, <1>6 DEF EpochInv

\* The history goes on and time passes: what was good stays good.
Continues(g, h, n, m) ==
  /\ n <= m /\ Len(g) <= Len(h)
  /\ \A i \in 1..Len(g) : h[i] = g[i]
  /\ \A i \in (Len(g) + 1)..Len(h) : n <= h[i].time

LEMMA EpEntryStays ==
  ASSUME Ep!EpochAssumption, NEW g \in Seq(EpochCommit), NEW h \in Seq(EpochCommit),
         NEW n \in Nat, NEW m \in Nat, Continues(g, h, n, m),
         NEW x \in EpochEntry, GoodEntry(x, g, n)
  PROVE  GoodEntry(x, h, m)
<1>1. x.epoch \in 1..Len(g) /\ h[x.epoch] = g[x.epoch] /\ x.expiresAt \in Nat
  BY DEF GoodEntry, Continues, EpochEntry, Ep!EpochAssumption
<1>2. FreshUntil(x.epoch, x.expiresAt, h)
  <2>1. SUFFICES ASSUME NEW i \in (x.epoch + 1)..Len(h) PROVE x.expiresAt <= h[i].time + Ttl
    BY DEF FreshUntil
  <2>2. CASE i \in 1..Len(g)
    <3>1. i \in (x.epoch + 1)..Len(g) /\ h[i] = g[i]
      BY <1>1, <2>2 DEF Continues
    <3> QED BY <3>1 DEF GoodEntry, FreshUntil
  <2>3. CASE i \notin 1..Len(g)
    <3>1. i \in (Len(g) + 1)..Len(h)
      BY <1>1, <2>3
    <3>2. n <= h[i].time /\ h[i].time \in Nat
      <4>1. i \in 1..Len(h)
        BY <1>1, <3>1
      <4>2. h[i] \in EpochCommit
        BY <4>1
      <4> QED BY <3>1, <4>2 DEF Continues, EpochCommit, Ep!EpochAssumption
    <3>3. x.expiresAt <= n + Ttl /\ Ttl \in Nat
      BY DEF GoodEntry, Ep!EpochAssumption
    <3>4. PICK a, b, c : a = x.expiresAt /\ b = h[i].time /\ c = Ttl
      OBVIOUS
    <3>5. a <= b + c
      BY ONLY <1>1, <3>2, <3>3, <3>4, n \in Nat
    <3> QED BY <3>4, <3>5
  <2> QED BY <2>2, <2>3
<1> QED BY <1>1, <1>2 DEF GoodEntry, Grants, Continues, Ep!EpochAssumption

LEMMA EpAnswerStays ==
  ASSUME Ep!EpochAssumption, NEW g \in Seq(EpochCommit), NEW h \in Seq(EpochCommit),
         NEW n \in Nat, NEW m \in Nat, Continues(g, h, n, m),
         NEW a \in EpochAnswer, GoodAnswer(a, g, n)
  PROVE  GoodAnswer(a, h, m)
<1>1. a.epoch \in 0..Len(h) /\ a.time <= m /\ a.time \in Nat /\ a.time <= n
  BY DEF GoodAnswer, Continues, EpochAnswer, Ep!EpochAssumption
<1>2. ASSUME a.decision = "ALLOW"
      PROVE  a.epoch \in 1..Len(h) /\ Grants(a, h) /\ FreshUntil(a.epoch, a.time + 1, h)
  <2>1. a.epoch \in 1..Len(g) /\ Grants(a, g) /\ FreshUntil(a.epoch, a.time + 1, g)
    BY <1>2 DEF GoodAnswer
  <2>2. a.epoch \in 1..Len(h) /\ h[a.epoch] = g[a.epoch]
    BY <2>1 DEF Continues
  <2>3. ASSUME NEW i \in (a.epoch + 1)..Len(h) PROVE a.time + 1 <= h[i].time + Ttl
    <3>1. CASE i \in 1..Len(g)
      <4>1. i \in (a.epoch + 1)..Len(g) /\ h[i] = g[i]
        BY <2>1, <3>1 DEF Continues
      <4> QED BY <2>1, <4>1 DEF FreshUntil
    <3>2. CASE i \notin 1..Len(g)
      <4>1. i \in (Len(g) + 1)..Len(h)
        BY <2>1, <3>2
      <4>2. n <= h[i].time /\ h[i].time \in Nat
        <5>1. i \in 1..Len(h)
          BY <2>1, <4>1
        <5>2. h[i] \in EpochCommit
          BY <5>1
        <5> QED BY <4>1, <5>2 DEF Continues, EpochCommit, Ep!EpochAssumption
      <4> QED BY <1>1, <4>2 DEF Ep!EpochAssumption
    <3> QED BY <3>1, <3>2
  <2> QED BY <2>1, <2>2, <2>3 DEF Grants, FreshUntil
<1> QED BY <1>1, <1>2 DEF GoodAnswer

\* A process that keeps part of its cache and its answer while its floor and
\* what it heard rise.
LEMMA EpProcessStays ==
  ASSUME Ep!EpochAssumption, NEW g \in Seq(EpochCommit), NEW h \in Seq(EpochCommit),
         NEW n \in Nat, NEW m \in Nat, Continues(g, h, n, m),
         NEW C \in SUBSET EpochEntry, NEW D \in SUBSET C, NEW f, NEW k, NEW f2, NEW k2,
         NEW a \in EpochAnswer, GoodProcess(C, f, k, a, g, n),
         f2 \in 1..Len(h), k2 \in 1..Len(h), k2 <= f2
  PROVE  GoodProcess(D, f2, k2, a, h, m)
<1>1. \A x \in D : GoodEntry(x, h, m)
  <2>1. ASSUME NEW x \in D PROVE GoodEntry(x, h, m)
    <3>1. x \in EpochEntry /\ GoodEntry(x, g, n)
      BY DEF GoodProcess
    <3> QED BY <3>1, EpEntryStays
  <2> QED BY <2>1
<1>2. GoodAnswer(a, h, m)
  BY EpAnswerStays DEF GoodProcess
<1> QED BY <1>1, <1>2 DEF GoodProcess

LEMMA EpTransactKeeps ==
  ASSUME Ep!EpochAssumption, EpochInv, NEW b \in SUBSET Principals, Ep!TransactAuthorizationChange(b)
  PROVE  EpochInv'
<1>1. PICK g \in Seq(EpochCommit), n \in 0..MaxTime : g = commits /\ n = now
  BY DEF EpochInv, EpochStore
<1>2. PICK c \in EpochCommit : c = [bindings |-> b, changedAt |-> dbClock, time |-> n]
  BY DEF EpochInv, EpochStore, EpochCommit
<1>3. PICK h \in Seq(EpochCommit) : h = Append(g, c)
  <2>1. Append(g, c) \in Seq(EpochCommit)
    OBVIOUS
  <2> QED BY <2>1
<1>4. commits' = h /\ Len(g) < MaxEpoch /\ Len(g) >= 1 /\ UNCHANGED <<Ep!environment, unsafe, answer>>
  BY <1>1, <1>2, <1>3 DEF Ep!TransactAuthorizationChange, Ep!Epoch, EpochInv, EpochStore
<1>5. Len(h) = Len(g) + 1 /\ h[Len(h)] = c /\ \A i \in 1..Len(g) : h[i] = g[i]
  BY <1>3
<1>6. Continues(g, h, n, n)
  <2>1. c.time = n
    BY <1>2
  <2> QED BY <1>5, <2>1, n \in Int DEF Continues
<1>7. EpochStore'
  BY <1>4, <1>5 DEF EpochInv, EpochStore, Ep!environment, Ep!Epoch, Ep!EpochAssumption
<1>8. ASSUME NEW p \in Processes
      PROVE  /\ cache'[p] \in SUBSET cache[p] /\ floor'[p] \in 1..Len(h)
             /\ heard'[p] \in 1..Len(h) /\ heard'[p] <= floor'[p]
             /\ floor'[p] = IF delivery[p] THEN Len(h) ELSE floor[p]
  <2>1. floor[p] \in 1..Len(g) /\ heard[p] \in 1..Len(g) /\ heard[p] <= floor[p]
    BY <1>1 DEF EpochInv, GoodProcess
  <2>2. Len(g) + 1 > floor[p]
    BY <2>1
  <2>3. Ep!Observe(p, Len(g) + 1) = [cache |-> {}, floor |-> Len(g) + 1]
    BY <2>2 DEF Ep!Observe
  <2>4. /\ cache'[p] = IF delivery[p] THEN {} ELSE cache[p]
        /\ floor'[p] = IF delivery[p] THEN Len(g) + 1 ELSE floor[p]
        /\ heard'[p] = IF delivery[p] THEN Len(g) + 1 ELSE heard[p]
    <3> DEFINE after == [q \in Processes |->
           IF delivery[q] THEN Ep!Observe(q, Len(g) + 1)
                          ELSE [cache |-> cache[q], floor |-> floor[q]]]
    <3>1. /\ cache' = [q \in Processes |-> after[q].cache]
          /\ floor' = [q \in Processes |-> after[q].floor]
          /\ heard' = [q \in Processes |-> IF delivery[q] THEN Len(g) + 1 ELSE heard[q]]
      BY <1>1 DEF Ep!TransactAuthorizationChange, Ep!Epoch
    <3>2. after[p] = IF delivery[p] THEN [cache |-> {}, floor |-> Len(g) + 1]
                                    ELSE [cache |-> cache[p], floor |-> floor[p]]
      BY <2>3
    <3> HIDE DEF after
    <3>3. PICK d, x : d = delivery[p] /\ x = after[p]
      OBVIOUS
    <3>4. x.cache = (IF d THEN {} ELSE cache[p]) /\ x.floor = (IF d THEN Len(g) + 1 ELSE floor[p])
      <4>1. CASE d
        BY <3>2, <3>3, <4>1
      <4>2. CASE ~d
        BY <3>2, <3>3, <4>2
      <4> QED BY <4>1, <4>2
    <3>5. cache'[p] = x.cache /\ floor'[p] = x.floor
      BY <3>1, <3>3
    <3>6. heard'[p] = IF d THEN Len(g) + 1 ELSE heard[p]
      BY <3>1, <3>3
    <3> QED BY <3>3, <3>4, <3>5, <3>6
  <2> QED BY <1>5, <2>1, <2>4
<1>9. EpochProcesses'
  <2>1. cache' \in [Processes -> SUBSET EpochEntry]
    <3>1. cache' = [p \in Processes |-> cache'[p]]
      BY DEF Ep!TransactAuthorizationChange
    <3> QED BY <1>8, <3>1 DEF EpochInv, EpochProcesses
  <2>2. floor' \in [Processes -> Nat] /\ heard' \in [Processes -> Nat]
    <3>1. floor' = [p \in Processes |-> floor'[p]] /\ heard' = [p \in Processes |-> heard'[p]]
      BY DEF Ep!TransactAuthorizationChange
    <3>2. ASSUME NEW p \in Processes PROVE floor'[p] \in Nat /\ heard'[p] \in Nat
      <4>1. PICK f2 \in 1..Len(h), k2 \in 1..Len(h) : f2 = floor'[p] /\ k2 = heard'[p]
        BY <1>8
      <4> QED BY <4>1
    <3> QED BY <3>1, <3>2
  <2> QED BY <1>4, <2>1, <2>2 DEF EpochInv, EpochProcesses
<1>10. ASSUME NEW p \in Processes
       PROVE  GoodProcess(cache'[p], floor'[p], heard'[p], answer'[p], commits', now')
  <2>1. PICK C \in SUBSET EpochEntry, a \in EpochAnswer, f \in Nat, k \in Nat :
          C = cache[p] /\ a = answer[p] /\ f = floor[p] /\ k = heard[p]
    BY DEF EpochInv, EpochProcesses
  <2>2. GoodProcess(C, f, k, a, g, n)
    BY <1>1, <2>1 DEF EpochInv
  <2>3. PICK D \in SUBSET C, f2 \in 1..Len(h), k2 \in 1..Len(h) :
          D = cache'[p] /\ f2 = floor'[p] /\ k2 = heard'[p]
    BY <1>8, <2>1
  <2>4. k2 <= f2
    BY <1>8, <2>3
  <2>5. n \in Nat
    BY DEF Ep!EpochAssumption
  <2>6. GoodProcess(D, f2, k2, a, h, n)
    BY <1>6, <2>2, <2>4, <2>5, EpProcessStays
  <2> QED BY <1>1, <1>4, <2>1, <2>3, <2>6 DEF Ep!environment
<1> QED BY <1>7, <1>9, <1>10 DEF EpochInv

\* A step that leaves the history alone: it may read the clock later and
\* rewrite one process.
LEMMA EpochOneProcess ==
  ASSUME Ep!EpochAssumption, EpochInv, UNCHANGED <<commits, Ep!environment>>, NEW p \in Processes,
         NEW C \in SUBSET EpochEntry, NEW f \in Nat, NEW k \in Nat, NEW a \in EpochAnswer,
         cache' = [cache EXCEPT ![p] = C], floor' = [floor EXCEPT ![p] = f],
         heard' = [heard EXCEPT ![p] = k], answer' = [answer EXCEPT ![p] = a],
         unsafe' \subseteq Processes, GoodProcess(C, f, k, a, commits, now)
  PROVE  EpochInv'
<1>1. EpochStore' /\ EpochProcesses'
  BY DEF EpochInv, EpochStore, EpochProcesses, Ep!environment, Ep!Epoch
<1>2. ASSUME NEW s \in Processes
      PROVE  GoodProcess(cache'[s], floor'[s], heard'[s], answer'[s], commits', now')
  <2>1. commits' = commits /\ now' = now
    BY DEF Ep!environment
  <2>2. CASE s = p
    <3>1. cache'[s] = C /\ floor'[s] = f /\ heard'[s] = k /\ answer'[s] = a
      BY <2>2 DEF EpochInv, EpochProcesses
    <3> QED BY <2>1, <3>1
  <2>3. CASE s # p
    <3>1. /\ cache'[s] = cache[s] /\ floor'[s] = floor[s]
          /\ heard'[s] = heard[s] /\ answer'[s] = answer[s]
      BY <2>3 DEF EpochInv, EpochProcesses
    <3> QED BY <2>1, <3>1 DEF EpochInv
  <2> QED BY <2>2, <2>3
<1> QED BY <1>1, <1>2 DEF EpochInv

LEMMA EpLateKeeps ==
  ASSUME Ep!EpochAssumption, EpochInv, NEW p \in Processes, NEW e \in 1..Ep!Epoch, Ep!LateNotification(p, e)
  PROVE  EpochInv'
<1>1. PICK C \in SUBSET EpochEntry, f \in Nat, k \in Nat, a \in EpochAnswer :
        C = cache[p] /\ f = floor[p] /\ k = heard[p] /\ a = answer[p]
  BY DEF EpochInv, EpochProcesses
<1>2. PICK g \in Seq(EpochCommit), n \in Nat : g = commits /\ n = now
  BY DEF EpochInv, EpochStore, Ep!EpochAssumption
<1>3. GoodProcess(C, f, k, a, g, n)
  BY <1>1, <1>2 DEF EpochInv
<1>4. PICK D \in SUBSET C, f2 \in Nat, k2 \in Nat :
        /\ D = IF e > f THEN {} ELSE C
        /\ f2 = IF e > f THEN e ELSE f
        /\ k2 = IF e > k THEN e ELSE k
  <2>1. e \in Nat
    BY <1>2 DEF Ep!Epoch
  <2> QED BY <2>1
<1>5. Ep!Observe(p, e).cache = D /\ Ep!Observe(p, e).floor = f2
  BY <1>1, <1>4 DEF Ep!Observe
<1>6. /\ cache' = [cache EXCEPT ![p] = D] /\ floor' = [floor EXCEPT ![p] = f2]
      /\ heard' = [heard EXCEPT ![p] = k2] /\ answer' = [answer EXCEPT ![p] = a]
      /\ UNCHANGED <<commits, Ep!environment>> /\ unsafe' \subseteq Processes
  BY <1>1, <1>4, <1>5 DEF Ep!LateNotification, EpochInv, EpochProcesses
<1>7. GoodProcess(D, f2, k2, a, g, n)
  <2>1. e \in 1..Len(g)
    BY <1>2 DEF Ep!Epoch
  <2>2. f2 \in 1..Len(g) /\ k2 \in 1..Len(g) /\ k2 <= f2
    BY <1>3, <1>4, <2>1 DEF GoodProcess
  <2>3. Continues(g, g, n, n)
    BY DEF Continues
  <2> QED BY <1>3, <2>2, <2>3, EpProcessStays
<1>8. D \in SUBSET EpochEntry
  OBVIOUS
<1> QED BY <1>2, <1>6, <1>7, <1>8, EpochOneProcess

LEMMA EpDecideKeeps ==
  ASSUME Ep!EpochAssumption, EpochInv, NEW p \in Processes, NEW r \in Requests, Ep!Decide(p, r)
  PROVE  /\ EpochInv'
         /\ answer'[p].epoch # 0 => answer'[p].epoch >= heard[p]
         /\ \A s \in Processes \ {p} : answer'[s] = answer[s]
<1>1. PICK C \in SUBSET EpochEntry, f \in Nat, k \in Nat, a \in EpochAnswer :
        C = cache[p] /\ f = floor[p] /\ k = heard[p] /\ a = answer[p]
  BY DEF EpochInv, EpochProcesses
<1>2. PICK g \in Seq(EpochCommit), n \in 0..MaxTime : g = commits /\ n = now
  BY DEF EpochInv, EpochStore
<1>3. GoodProcess(C, f, k, a, g, n)
  BY <1>1, <1>2 DEF EpochInv
<1>4. Len(g) >= 1 /\ Len(g) \in Nat /\ Ep!Epoch = Len(g)
  BY <1>2 DEF EpochInv, EpochStore, Ep!Epoch
<1>5. UNCHANGED <<commits, Ep!environment, heard>> /\ unsafe' \subseteq Processes
  BY DEF Ep!Decide, EpochInv, EpochProcesses
<1>6. heard' = [heard EXCEPT ![p] = k]
  BY <1>1, <1>5 DEF EpochInv, EpochProcesses
<1>7. PICK held : held = {x \in C : x.request = r}
  OBVIOUS
<1>8. ASSUME NEW D \in SUBSET EpochEntry, NEW f2 \in Nat, NEW b \in EpochAnswer,
             cache' = [cache EXCEPT ![p] = D], floor' = [floor EXCEPT ![p] = f2],
             answer' = [answer EXCEPT ![p] = b], GoodProcess(D, f2, k, b, g, n),
             b.epoch # 0 => b.epoch >= k
      PROVE  /\ EpochInv'
             /\ answer'[p].epoch # 0 => answer'[p].epoch >= heard[p]
             /\ \A s \in Processes \ {p} : answer'[s] = answer[s]
  <2>1. EpochInv'
    BY <1>2, <1>5, <1>6, <1>8, EpochOneProcess
  <2>2. answer'[p] = b /\ \A s \in Processes \ {p} : answer'[s] = answer[s]
    BY <1>8 DEF EpochInv, EpochProcesses
  <2> QED BY <1>1, <1>8, <2>1, <2>2
<1>9. ASSUME NEW x \in held, Ep!Live(x, p),
             answer' = [answer EXCEPT ![p] = [decision |-> x.decision, epoch |-> x.epoch,
                                              request |-> r, time |-> now]],
             UNCHANGED <<cache, floor>>
      PROVE  /\ EpochInv'
             /\ answer'[p].epoch # 0 => answer'[p].epoch >= heard[p]
             /\ \A s \in Processes \ {p} : answer'[s] = answer[s]
  <2>1. PICK b : b = [decision |-> x.decision, epoch |-> x.epoch, request |-> r, time |-> n]
    OBVIOUS
  <2>2. x \in EpochEntry /\ x.request = r /\ GoodEntry(x, g, n) /\ n < x.expiresAt /\ x.epoch >= f
    BY <1>1, <1>2, <1>3, <1>7, <1>9 DEF GoodProcess, Ep!Live
  <2>3. b \in EpochAnswer
    BY <2>1, <2>2 DEF EpochAnswer, EpochEntry
  <2>4. GoodAnswer(b, g, n)
    <3>1. b.epoch = x.epoch /\ b.time = n /\ b.decision = x.decision /\ b.request = x.request
      BY <2>1, <2>2
    <3>2. x.epoch \in 1..Len(g) /\ x.epoch \in Int /\ x.expiresAt \in Int /\ n \in Int
      BY <2>2 DEF GoodEntry, EpochEntry
    <3>3. \A i \in 1..Len(g) : g[i].time \in Int
      <4>1. \A i \in 1..Len(g) : g[i] \in EpochCommit
        OBVIOUS
      <4> QED BY <4>1 DEF EpochCommit
    <3>4. FreshUntil(b.epoch, b.time + 1, g)
      BY <2>2, <3>1, <3>2, <3>3 DEF GoodEntry, FreshUntil, Ep!EpochAssumption
    <3> QED BY <2>2, <3>1, <3>2, <3>4 DEF GoodAnswer, GoodEntry, Grants
  <2>5. GoodProcess(C, f, k, b, g, n)
    BY <1>3, <2>4 DEF GoodProcess
  <2>6. x.epoch >= k
    BY <1>3, <2>2 DEF GoodProcess, EpochEntry
  <2>7. cache' = [cache EXCEPT ![p] = C] /\ floor' = [floor EXCEPT ![p] = f]
    BY <1>1, <1>9 DEF EpochInv, EpochProcesses
  <2>8. answer' = [answer EXCEPT ![p] = b] /\ b.epoch = x.epoch
    BY <1>2, <1>9, <2>1
  <2> QED BY <1>8, <2>3, <2>5, <2>6, <2>7, <2>8
<1>10. PICK fresh : fresh = [request |-> r, epoch |-> Len(g), expiresAt |-> n + Ttl,
               decision |-> IF Ep!Granted(r, g[Len(g)].bindings) THEN "ALLOW" ELSE "DENY"]
  OBVIOUS
<1>11. ASSUME Ep!Epoch >= floor[p],
              cache' = [cache EXCEPT ![p] = Ep!Cached(p, fresh)],
              floor' = [floor EXCEPT ![p] = IF Ep!Epoch > @ THEN Ep!Epoch ELSE @],
              answer' = [answer EXCEPT ![p] = [decision |-> fresh.decision, epoch |-> Ep!Epoch,
                                            request |-> r, time |-> now]]
       PROVE /\ EpochInv'
             /\ answer'[p].epoch # 0 => answer'[p].epoch >= heard[p]
             /\ \A s \in Processes \ {p} : answer'[s] = answer[s]
  <2>1. PICK d \in {"ALLOW", "DENY"} :
          d = IF Ep!Granted(r, g[Len(g)].bindings) THEN "ALLOW" ELSE "DENY"
    OBVIOUS
  <2>2. PICK b : b = [decision |-> d, epoch |-> Len(g), request |-> r, time |-> n]
    OBVIOUS
  <2>3. PICK D : D = {x \in C : x.request # r} \cup {fresh}
    OBVIOUS
  <2>4. fresh = [request |-> r, epoch |-> Len(g), expiresAt |-> n + Ttl, decision |-> d]
    BY <1>10, <2>1
  <2>5. fresh \in EpochEntry
    BY <1>4, <2>4 DEF EpochEntry, Ep!EpochAssumption
  <2>6. b \in EpochAnswer
    BY <1>4, <2>2 DEF EpochAnswer
  <2>7. GoodEntry(fresh, g, n) /\ GoodAnswer(b, g, n)
    <3>1. Len(g) \in 1..Len(g) /\ n + Ttl <= n + Ttl /\ n <= n
      BY <1>4, n \in Int DEF Ep!EpochAssumption
    <3>2. \A i \in Int : i \notin (Len(g) + 1)..Len(g)
      BY <1>4
    <3> QED BY <1>4, <2>1, <2>2, <2>4, <3>1, <3>2
            DEF GoodEntry, GoodAnswer, FreshUntil, Grants
  <2>8. GoodProcess(D, Len(g), k, b, g, n)
    <3>1. \A x \in D : GoodEntry(x, g, n)
      BY <1>3, <2>3, <2>7 DEF GoodProcess
    <3>2. \A x, y \in D : x.request = y.request => x = y
      BY <1>3, <2>3, <2>4 DEF GoodProcess
    <3>3. Len(g) \in 1..Len(g) /\ k \in 1..Len(g) /\ k <= Len(g)
      BY <1>3, <1>4 DEF GoodProcess
    <3> QED BY <2>7, <3>1, <3>2, <3>3 DEF GoodProcess
  <2>9. f <= Len(g)
    BY <1>3 DEF GoodProcess
  <2>10. floor' = [floor EXCEPT ![p] = Len(g)]
    <3>1. (IF Len(g) > f THEN Len(g) ELSE f) = Len(g)
      BY <1>4, <2>9
    <3> QED BY <1>1, <1>4, <1>11, <3>1 DEF EpochInv, EpochProcesses
  <2>11. cache' = [cache EXCEPT ![p] = D]
    BY <1>1, <1>11, <2>3, <2>4 DEF Ep!Cached
  <2>12. answer' = [answer EXCEPT ![p] = b]
    BY <1>2, <1>4, <1>11, <2>2, <2>4
  <2>13. b.epoch >= k
    BY <1>3, <1>4, <2>2 DEF GoodProcess
  <2>14. D \in SUBSET EpochEntry
    BY <2>3, <2>5
  <2> QED BY <1>4, <1>8, <2>6, <2>8, <2>10, <2>11, <2>12, <2>13, <2>14
<1>12. ASSUME cache' = [cache EXCEPT ![p] = @ \ held],
              answer' = [answer EXCEPT ![p] = [Ep!NoAnswer EXCEPT !.request = r, !.time = now]],
              UNCHANGED floor
       PROVE /\ EpochInv'
             /\ answer'[p].epoch # 0 => answer'[p].epoch >= heard[p]
             /\ \A s \in Processes \ {p} : answer'[s] = answer[s]
  <2>1. PICK o \in EpochAnswer : o = Ep!NoAnswer /\ o.decision = "DENY" /\ o.epoch = 0
    BY NoAnswerTyped DEF Ep!NoAnswer
  <2>2. PICK b : b = [o EXCEPT !.request = r, !.time = n]
    OBVIOUS
  <2>3. b \in EpochAnswer /\ b.decision = "DENY" /\ b.epoch = 0 /\ b.time = n
    BY <2>1, <2>2 DEF EpochAnswer
  <2>4. GoodAnswer(b, g, n)
    BY <2>3, NoAnswerGood, n \in Int
  <2>5. GoodProcess(C \ held, f, k, b, g, n)
    BY <1>3, <2>4 DEF GoodProcess
  <2>6. cache' = [cache EXCEPT ![p] = C \ held] /\ floor' = [floor EXCEPT ![p] = f]
    BY <1>1, <1>12 DEF EpochInv, EpochProcesses
  <2>7. answer' = [answer EXCEPT ![p] = b]
    BY <1>2, <1>12, <2>1, <2>2
  <2> QED BY <1>8, <2>3, <2>5, <2>6, <2>7
<1>13. \/ \E x \in held :
            /\ Ep!Live(x, p)
            /\ answer' = [answer EXCEPT ![p] = [decision |-> x.decision, epoch |-> x.epoch,
                                                request |-> r, time |-> now]]
            /\ UNCHANGED <<cache, floor>>
       \/ /\ Ep!Epoch >= floor[p]
          /\ cache' = [cache EXCEPT ![p] = Ep!Cached(p, fresh)]
          /\ floor' = [floor EXCEPT ![p] = IF Ep!Epoch > @ THEN Ep!Epoch ELSE @]
          /\ answer' = [answer EXCEPT ![p] = [decision |-> fresh.decision, epoch |-> Ep!Epoch,
                                              request |-> r, time |-> now]]
       \/ /\ cache' = [cache EXCEPT ![p] = @ \ held]
          /\ answer' = [answer EXCEPT ![p] = [Ep!NoAnswer EXCEPT !.request = r, !.time = now]]
          /\ UNCHANGED floor
  BY <1>1, <1>2, <1>4, <1>7, <1>10 DEF Ep!Decide, Ep!Bindings
<1> QED BY <1>9, <1>11, <1>12, <1>13

LEMMA EpUnsafeKeeps ==
  ASSUME Ep!EpochAssumption, EpochInv, NEW p \in Processes, NEW r \in Requests, Ep!DecideClockUnsafe(p, r)
  PROVE  /\ EpochInv'
         /\ answer'[p].epoch = 0
         /\ \A s \in Processes \ {p} : answer'[s] = answer[s]
<1>1. PICK C \in SUBSET EpochEntry, f \in Nat, k \in Nat, a \in EpochAnswer :
        C = cache[p] /\ f = floor[p] /\ k = heard[p] /\ a = answer[p]
  BY DEF EpochInv, EpochProcesses
<1>2. PICK g \in Seq(EpochCommit), n \in 0..MaxTime : g = commits /\ n = now
  BY DEF EpochInv, EpochStore
<1>3. PICK o \in EpochAnswer : o = Ep!NoAnswer /\ o.decision = "DENY" /\ o.epoch = 0
  BY NoAnswerTyped DEF Ep!NoAnswer
<1>4. PICK b : b = [o EXCEPT !.request = r, !.time = n]
  OBVIOUS
<1>5. b \in EpochAnswer /\ b.decision = "DENY" /\ b.epoch = 0 /\ b.time = n
  BY <1>3, <1>4 DEF EpochAnswer
<1>6. GoodAnswer(b, g, n)
  BY <1>5, NoAnswerGood, n \in Int
<1>7. GoodProcess(C, f, k, a, g, n)
  BY <1>1, <1>2 DEF EpochInv
<1>8. GoodProcess({}, f, k, b, g, n)
  BY <1>6, <1>7 DEF GoodProcess
<1>9. /\ cache' = [cache EXCEPT ![p] = {}] /\ floor' = [floor EXCEPT ![p] = f]
      /\ heard' = [heard EXCEPT ![p] = k] /\ answer' = [answer EXCEPT ![p] = b]
      /\ UNCHANGED <<commits, Ep!environment>> /\ unsafe' \subseteq Processes
  BY <1>1, <1>2, <1>3, <1>4 DEF Ep!DecideClockUnsafe, EpochInv, EpochProcesses
<1>10. EpochInv'
  BY <1>2, <1>5, <1>8, <1>9, EpochOneProcess
<1> QED BY <1>5, <1>9, <1>10 DEF EpochInv, EpochProcesses

LEMMA EpochOthersMove ==
  ASSUME Ep!EpochAssumption, EpochInv, UNCHANGED <<commits, cache, floor, heard, unsafe, answer>>,
         now' \in now..MaxTime, dbClock' \in 0..MaxTime, published' \in BOOLEAN,
         down' \subseteq {"store", "artifacts"}, delivery' \in [Processes -> BOOLEAN]
  PROVE  EpochInv'
<1>1. PICK g \in Seq(EpochCommit), n \in Nat, m \in Nat : g = commits /\ n = now /\ m = now' /\ n <= m
  BY DEF EpochInv, EpochStore, Ep!EpochAssumption
<1>2. Continues(g, g, n, m)
  BY <1>1 DEF Continues
<1>3. ASSUME NEW p \in Processes
      PROVE  GoodProcess(cache'[p], floor'[p], heard'[p], answer'[p], commits', now')
  <2>1. PICK C \in SUBSET EpochEntry, f \in Nat, k \in Nat, a \in EpochAnswer :
          C = cache[p] /\ f = floor[p] /\ k = heard[p] /\ a = answer[p]
    BY DEF EpochInv, EpochProcesses
  <2>2. GoodProcess(C, f, k, a, g, n)
    BY <1>1, <2>1 DEF EpochInv
  <2>3. f \in 1..Len(g) /\ k \in 1..Len(g) /\ k <= f
    BY <2>2 DEF GoodProcess
  <2>4. GoodProcess(C, f, k, a, g, m)
    BY <1>2, <2>2, <2>3, EpProcessStays
  <2> QED BY <1>1, <2>1, <2>4
<1>4. EpochStore'
  BY DEF EpochInv, EpochStore, Ep!Epoch
<1> QED BY <1>3, <1>4 DEF EpochInv, EpochProcesses

LEMMA EpochQuiet ==
  ASSUME Ep!EpochAssumption, EpochInv,
         \/ UNCHANGED Ep!vars \/ Ep!PublishArtifact \/ Ep!Advance
         \/ \E d \in {"store", "artifacts"} : Ep!SetReadFailure(d)
         \/ \E t \in 0..MaxTime : Ep!SetDatabaseClock(t)
         \/ \E p \in Processes : Ep!SetDelivery(p)
  PROVE  EpochInv' /\ UNCHANGED answer
<1>1. UNCHANGED <<commits, cache, floor, heard, unsafe, answer>>
  BY DEF Ep!vars, Ep!PublishArtifact, Ep!Advance, Ep!SetReadFailure, Ep!SetDatabaseClock,
     Ep!SetDelivery, Ep!process
<1>2. /\ now' \in now..MaxTime /\ dbClock' \in 0..MaxTime /\ published' \in BOOLEAN
      /\ down' \subseteq {"store", "artifacts"} /\ delivery' \in [Processes -> BOOLEAN]
  <2>1. CASE UNCHANGED Ep!vars
    BY <2>1 DEF EpochInv, EpochStore, Ep!vars
  <2>2. CASE Ep!PublishArtifact
    BY <2>2 DEF EpochInv, EpochStore, Ep!PublishArtifact
  <2>3. CASE Ep!Advance
    BY <2>3 DEF EpochInv, EpochStore, Ep!Advance, Ep!EpochAssumption
  <2>4. ASSUME NEW d \in {"store", "artifacts"}, Ep!SetReadFailure(d)
        PROVE  /\ now' \in now..MaxTime /\ dbClock' \in 0..MaxTime /\ published' \in BOOLEAN
               /\ down' \subseteq {"store", "artifacts"} /\ delivery' \in [Processes -> BOOLEAN]
    BY <2>4 DEF EpochInv, EpochStore, Ep!SetReadFailure
  <2>5. ASSUME NEW t \in 0..MaxTime, Ep!SetDatabaseClock(t)
        PROVE  /\ now' \in now..MaxTime /\ dbClock' \in 0..MaxTime /\ published' \in BOOLEAN
               /\ down' \subseteq {"store", "artifacts"} /\ delivery' \in [Processes -> BOOLEAN]
    BY <2>5 DEF EpochInv, EpochStore, Ep!SetDatabaseClock
  <2>6. ASSUME NEW p \in Processes, Ep!SetDelivery(p)
        PROVE  /\ now' \in now..MaxTime /\ dbClock' \in 0..MaxTime /\ published' \in BOOLEAN
               /\ down' \subseteq {"store", "artifacts"} /\ delivery' \in [Processes -> BOOLEAN]
    BY <2>6 DEF EpochInv, EpochStore, Ep!SetDelivery
  <2> QED BY <2>1, <2>2, <2>3, <2>4, <2>5, <2>6
<1> QED BY <1>1, <1>2, EpochOthersMove

LEMMA EpochStep ==
  ASSUME Ep!EpochAssumption, EpochInv, [Ep!Next]_(Ep!vars)
  PROVE  EpochInv' /\ Ep!NotifiedProcessesAreCurrent
<1>1. ASSUME NEW b \in SUBSET Principals, Ep!TransactAuthorizationChange(b)
      PROVE  EpochInv' /\ Ep!NotifiedProcessesAreCurrent
  BY <1>1, EpTransactKeeps DEF Ep!TransactAuthorizationChange, Ep!NotifiedProcessesAreCurrent
<1>2. ASSUME NEW p \in Processes, NEW e \in 1..Ep!Epoch, Ep!LateNotification(p, e)
      PROVE  EpochInv' /\ Ep!NotifiedProcessesAreCurrent
  BY <1>2, EpLateKeeps DEF Ep!LateNotification, Ep!NotifiedProcessesAreCurrent
<1>3. ASSUME NEW p \in Processes, NEW r \in Requests, Ep!Decide(p, r)
      PROVE  EpochInv' /\ Ep!NotifiedProcessesAreCurrent
  BY <1>3, EpDecideKeeps DEF Ep!NotifiedProcessesAreCurrent
<1>4. ASSUME NEW p \in Processes, NEW r \in Requests, Ep!DecideClockUnsafe(p, r)
      PROVE  EpochInv' /\ Ep!NotifiedProcessesAreCurrent
  BY <1>4, EpUnsafeKeeps DEF Ep!NotifiedProcessesAreCurrent
<1>5. ASSUME \/ UNCHANGED Ep!vars \/ Ep!PublishArtifact \/ Ep!Advance
             \/ \E d \in {"store", "artifacts"} : Ep!SetReadFailure(d)
             \/ \E t \in 0..MaxTime : Ep!SetDatabaseClock(t)
             \/ \E p \in Processes : Ep!SetDelivery(p)
      PROVE  EpochInv' /\ Ep!NotifiedProcessesAreCurrent
  BY <1>5, EpochQuiet DEF Ep!NotifiedProcessesAreCurrent
<1> QED BY <1>1, <1>2, <1>3, <1>4, <1>5 DEF Ep!Next

\* The inductive invariant of the epoch harness: what every process caches and
\* answered fits the commits of the store.
THEOREM EpochInvariance == ASSUME Ep!EpochAssumption PROVE Ep!Spec => []EpochInv
<1>1. Ep!Init => EpochInv
  BY EpochStart
<1>2. EpochInv /\ [Ep!Next]_(Ep!vars) => EpochInv'
  BY EpochStep
<1> QED BY <1>1, <1>2, PTL DEF Ep!Spec

LEMMA EpochBounded ==
  ASSUME Ep!EpochAssumption, EpochInv PROVE Ep!TypeOK /\ Ep!RevokedWithinTtl /\ Ep!AllowedWasGranted
<1>1. ASSUME NEW p \in Processes
      PROVE  /\ GoodProcess(cache[p], floor[p], heard[p], answer[p], commits, now)
             /\ cache[p] \in SUBSET EpochEntry /\ answer[p] \in EpochAnswer
  BY DEF EpochInv, EpochProcesses
<1>2. \A p \in Processes : answer[p].epoch \in 0..Ep!Epoch
  BY <1>1 DEF GoodProcess, GoodAnswer, Ep!Epoch
<1>3. ASSUME NEW p \in Processes
      PROVE  cache[p] \subseteq [request : Requests, epoch : 1..Ep!Epoch,
                              expiresAt : 0..(MaxTime + Ttl), decision : {"ALLOW", "DENY"}]
  BY <1>1 DEF GoodProcess, GoodEntry, EpochEntry, Ep!Epoch
<1>4. answer \in [Processes -> [decision : {"ALLOW", "DENY"}, epoch : 0..Ep!Epoch,
                               request : Requests, time : 0..MaxTime]]
  BY <1>2 DEF EpochInv, EpochProcesses, EpochAnswer
<1>5. Ep!TypeOK
  BY <1>1, <1>3, <1>4 DEF Ep!TypeOK, EpochInv, EpochStore, EpochProcesses, EpochCommit,
     GoodProcess, Ep!Epoch
<1>6. Ep!RevokedWithinTtl
  <2>1. SUFFICES ASSUME NEW p \in Processes, answer[p].decision = "ALLOW",
                        NEW e \in (answer[p].epoch + 1)..Ep!Epoch
                 PROVE  answer[p].time < commits[e].time + Ttl
    BY DEF Ep!RevokedWithinTtl
  <2>2. answer[p].epoch \in 1..Ep!Epoch /\ FreshUntil(answer[p].epoch, answer[p].time + 1, commits)
    BY <1>1, <2>1 DEF GoodProcess, GoodAnswer, Ep!Epoch
  <2>3. answer[p].time + 1 <= commits[e].time + Ttl
    BY <2>2 DEF FreshUntil, Ep!Epoch
  <2>4. commits[e] \in EpochCommit
    BY <2>2 DEF EpochInv, EpochStore, Ep!Epoch
  <2> QED BY <1>1, <2>3, <2>4 DEF EpochCommit, EpochAnswer, Ep!EpochAssumption
<1>7. Ep!AllowedWasGranted
  BY <1>1 DEF Ep!AllowedWasGranted, GoodProcess, GoodAnswer, Grants, Ep!Granted, Ep!Bindings
<1> QED BY <1>5, <1>6, <1>7

\* The processes keep to their types, caches hold one entry per request
\* (#cache, #epochFloor).
THEOREM EpochTyped == ASSUME Ep!EpochAssumption PROVE Ep!Spec => []Ep!TypeOK
<1>1. EpochInv => Ep!TypeOK
  BY EpochBounded
<1> QED BY <1>1, EpochInvariance, PTL

\* What decide allows was granted at the epoch it names, and a revocation
\* ends every ALLOW within a TTL, whatever was cached, missed or down.
THEOREM RevocationsBounded ==
  ASSUME Ep!EpochAssumption
  PROVE  Ep!Spec => [](Ep!RevokedWithinTtl /\ Ep!AllowedWasGranted)
<1>1. EpochInv => Ep!RevokedWithinTtl /\ Ep!AllowedWasGranted
  BY EpochBounded
<1> QED BY <1>1, EpochInvariance, PTL

\* A process the bus has reached answers at the epoch it was told of, or a
\* later one (observeNotification, decide).
THEOREM NotifiedAreCurrent ==
  ASSUME Ep!EpochAssumption
  PROVE  Ep!Spec => [][Ep!NotifiedProcessesAreCurrent]_(Ep!vars)
<1>1. EpochInv /\ [Ep!Next]_(Ep!vars) => [Ep!NotifiedProcessesAreCurrent]_(Ep!vars)
  BY EpochStep
<1> QED BY <1>1, EpochInvariance, PTL DEF Ep!Spec

-----------------------------------------------------------------------------
(* Queries.                                                                 *)
(*                                                                          *)
(* What a request may show was allowed at some epoch it was answered for.   *)
(* commit_query_lease demands that there was one such epoch and that it is  *)
(* the current one, so from then on all of it is allowed at the epoch the   *)
(* lease names.                                                             *)

QueryStages == {"idle", "objects", "links", "leased", "releasing", "done"}
QueryResponses == {"none", "data", "RELEASE_RETIRED", "QUERY_EXECUTION_FAILED",
              "POLICY_EVALUATION_UNAVAILABLE", "OBJECT_NOT_ACCESSIBLE", "QUERY_CONTEXT_CHANGED"}
QueryRequest == [at : QueryStages, asks : SUBSET Rq!Resources, activation : Nat, epochs : SUBSET Nat,
            visible : SUBSET Rq!Resources, kind : {"metadata", "object"}, response : QueryResponses]
QueryLease == [state : {"none", "committed", "released", "expired"},
          expires : 0..(MaxTime + LeaseTtl), epoch : Nat, databaseEpoch : Nat]

\* What holds of a request, its lease and the log of authorization facts.
QueryAsking(q) == q.at \in {"idle", "objects", "links"}
QueryDecided(q, g) ==
  /\ q.epochs \subseteq 1..Len(g)
  /\ \A x \in q.visible : \E e \in q.epochs : x \in g[e]
QueryEnds(q) ==
  /\ q.at \in {"idle", "objects"} => q.asks \subseteq Objects /\ q.visible \subseteq Objects
  /\ q.at = "links" => \A l \in q.asks : l \in Links /\ l \subseteq q.visible
  /\ \A l \in Links : l \in q.visible => l \subseteq q.visible
QueryLeased(q, l, g) ==
  /\ QueryAsking(q) => q.response = "none"
  /\ q.response = "data" => q.at \in {"releasing", "done"}
  /\ q.at \in {"leased", "releasing"} \/ q.response = "data" =>
       l.databaseEpoch \in 1..Len(g) /\ q.visible \subseteq g[l.databaseEpoch]
  /\ q.at = "done" /\ q.response = "data" => l.state = "released"
QuerySound(q, l, g) == QueryDecided(q, g) /\ QueryEnds(q) /\ QueryLeased(q, l, g)

QueryDatabase ==
  /\ log \in Seq(SUBSET Rq!Resources) /\ Rq!Epoch \in 1..MaxEpoch
  /\ activation \in 1..MaxActivation /\ retired \in BOOLEAN /\ now \in 0..MaxTime
QueryInv ==
  /\ QueryDatabase
  /\ requests \in [Requests -> QueryRequest] /\ leases \in [Requests -> QueryLease]
  /\ \A r \in Requests : QuerySound(requests[r], leases[r], log)

\* The sizes the instance speaks of are those of FiniteSets.
LEMMA QuerySizes == \A S : Rq!Cardinality(S) = Cardinality(S)
BY DEF Rq!Cardinality, Cardinality

LEMMA QueryStart == ASSUME Rq!QueryAssumption, Rq!Init PROVE QueryInv
<1>1. PICK allowed \in SUBSET Rq!Resources : log = <<allowed>>
  BY DEF Rq!Init
<1>2. QueryDatabase
  <2>1. log \in Seq(SUBSET Rq!Resources) /\ Len(log) = 1
    BY <1>1
  <2>2. activation = 1 /\ retired = FALSE /\ now = 0
    BY DEF Rq!Init
  <2>3. 1 \in 1..MaxEpoch /\ 1 \in 1..MaxActivation /\ 0 \in 0..MaxTime
    BY DEF Rq!QueryAssumption
  <2> QED BY <2>1, <2>2, <2>3 DEF QueryDatabase, Rq!Epoch
<1>3. Rq!Idle \in QueryRequest
  BY DEF Rq!Idle, QueryRequest, QueryStages, QueryResponses
<1>4. Rq!NoLease \in QueryLease
  BY DEF Rq!NoLease, QueryLease, Rq!QueryAssumption
<1>5. QuerySound(Rq!Idle, Rq!NoLease, log)
  BY DEF QuerySound, QueryDecided, QueryEnds, QueryLeased, QueryAsking, Rq!Idle
<1> QED BY <1>2, <1>3, <1>4, <1>5 DEF Rq!Init, QueryInv

\* A step that leaves the log alone and rewrites one request and its lease.
LEMMA QueryOneRequest ==
  ASSUME Rq!QueryAssumption, QueryInv, NEW r \in Requests, UNCHANGED Rq!database,
         NEW q \in QueryRequest, NEW l \in QueryLease, QuerySound(q, l, log),
         requests' = [requests EXCEPT ![r] = q], leases' = [leases EXCEPT ![r] = l]
  PROVE  QueryInv'
<1>1. QueryDatabase'
  BY DEF QueryDatabase, QueryInv, Rq!database, Rq!Epoch
<1>2. requests' \in [Requests -> QueryRequest] /\ leases' \in [Requests -> QueryLease]
  BY DEF QueryInv
<1>3. ASSUME NEW s \in Requests PROVE QuerySound(requests[s], leases[s], log)'
  <2>1. CASE s = r
    <3>1. requests'[s] = q /\ leases'[s] = l /\ log' = log
      BY <2>1 DEF QueryInv, Rq!database
    <3> QED BY <3>1
  <2>2. CASE s # r
    <3>1. requests'[s] = requests[s] /\ leases'[s] = leases[s] /\ log' = log
      BY <2>2 DEF QueryInv, Rq!database
    <3> QED BY <3>1 DEF QueryInv
  <2> QED BY <2>1, <2>2
<1> QED BY <1>1, <1>2, <1>3 DEF QueryInv

\* Old authorization facts stay in the log.
LEMMA QueryLogGrows ==
  ASSUME Rq!QueryAssumption, QueryInv, NEW allowed \in SUBSET Rq!Resources, Rq!AuthorizationCommit(allowed)
  PROVE  QueryInv'
<1>1. QueryDatabase'
  <2>1. PICK g \in Seq(SUBSET Rq!Resources) : g = log
    BY DEF QueryInv, QueryDatabase
  <2>2. log' = Append(g, allowed) /\ Len(g) < MaxEpoch /\ UNCHANGED <<activation, retired, now>>
    BY <2>1 DEF Rq!AuthorizationCommit, Rq!Epoch
  <2>3. log' \in Seq(SUBSET Rq!Resources) /\ Len(log') = Len(g) + 1
    BY <2>2
  <2>4. Len(log') \in 1..MaxEpoch
    BY <2>2, <2>3 DEF Rq!QueryAssumption
  <2> QED BY <2>2, <2>3, <2>4 DEF QueryInv, QueryDatabase, Rq!Epoch
<1>2. ASSUME NEW r \in Requests PROVE QuerySound(requests[r], leases[r], log)'
  <2>1. PICK q \in QueryRequest, l \in QueryLease : q = requests[r] /\ l = leases[r]
    BY DEF QueryInv
  <2>2. PICK g \in Seq(SUBSET Rq!Resources), h \in Seq(SUBSET Rq!Resources) :
          /\ g = log /\ h = log' /\ h = Append(g, allowed)
    BY <1>1 DEF Rq!AuthorizationCommit, QueryInv, QueryDatabase
  <2>3. Len(h) = Len(g) + 1 /\ \A e \in 1..Len(g) : e \in 1..Len(h) /\ h[e] = g[e]
    BY <2>2
  <2>4. QuerySound(q, l, g)
    BY <2>1, <2>2 DEF QueryInv
  <2>5. QueryDecided(q, h)
    BY ONLY <2>3, <2>4 DEF QuerySound, QueryDecided
  <2>6. QueryLeased(q, l, h)
    BY ONLY <2>3, <2>4 DEF QuerySound, QueryLeased
  <2>7. QuerySound(q, l, h)
    BY <2>4, <2>5, <2>6 DEF QuerySound
  <2>8. requests'[r] = q /\ leases'[r] = l /\ log' = h
    BY <2>1, <2>2 DEF Rq!AuthorizationCommit
  <2> QED BY <2>7, <2>8
<1> QED BY <1>1, <1>2 DEF QueryInv, Rq!AuthorizationCommit

LEMMA QueryOthersMove ==
  ASSUME Rq!QueryAssumption, QueryInv, Rq!Cutover \/ Rq!Retire \/ Rq!Tick
  PROVE  QueryInv'
<1>1. UNCHANGED <<log, requests, leases>>
  BY DEF Rq!Cutover, Rq!Retire, Rq!Tick
<1>2. QueryDatabase'
  <2>1. CASE Rq!Cutover
    BY <2>1 DEF Rq!Cutover, QueryInv, QueryDatabase, Rq!Epoch, Rq!QueryAssumption
  <2>2. CASE Rq!Retire
    BY <2>2 DEF Rq!Retire, QueryInv, QueryDatabase, Rq!Epoch
  <2>3. CASE Rq!Tick
    BY <2>3 DEF Rq!Tick, QueryInv, QueryDatabase, Rq!Epoch, Rq!QueryAssumption
  <2> QED BY <2>1, <2>2, <2>3
<1> QED BY <1>1, <1>2 DEF QueryInv

LEMMA QueryRespondent ==
  ASSUME Rq!QueryAssumption, QueryInv, NEW r \in Requests, NEW response \in QueryResponses \ {"data"},
         UNCHANGED <<Rq!database, leases>>, Rq!Respond(r, response)
  PROVE  QueryInv'
<1>1. PICK q \in QueryRequest, l \in QueryLease, g \in Seq(SUBSET Rq!Resources) :
        q = requests[r] /\ l = leases[r] /\ g = log
  BY DEF QueryInv, QueryDatabase
<1>2. PICK p : p = [q EXCEPT !.at = "done", !.response = response]
  OBVIOUS
<1>3. p \in QueryRequest
  BY <1>2 DEF QueryRequest, QueryStages
<1>4. QuerySound(q, l, g)
  BY <1>1 DEF QueryInv
<1>5. QuerySound(p, l, g)
  BY ONLY <1>2, <1>4, q \in QueryRequest, response \in QueryResponses \ {"data"}
     DEF QuerySound, QueryDecided, QueryEnds, QueryLeased, QueryAsking, QueryRequest
<1>6. requests' = [requests EXCEPT ![r] = p]
  BY <1>1, <1>2 DEF Rq!Respond, QueryInv
<1>7. leases' = [leases EXCEPT ![r] = l]
  BY <1>1 DEF QueryInv
<1> QED BY <1>1, <1>3, <1>5, <1>6, <1>7, QueryOneRequest

\* Steps of one request: from q and l to p and m under the log g.
LEMMA QueryRequestStep ==
  ASSUME Rq!QueryAssumption, QueryInv, NEW r \in Requests,
         \/ Rq!ExpireLease(r) \/ Rq!AskLinks(r)
         \/ \E kind \in {"metadata", "object"}, asks \in SUBSET Objects : Rq!Resolve(r, kind, asks)
         \/ \E x \in requests[r].asks, e \in 1..Rq!Epoch : Rq!Authorized(r, x, e)
         \/ \E lost \in BOOLEAN : Rq!CommitLease(r, lost)
         \/ \E o \in {"data", "OBJECT_NOT_ACCESSIBLE", "QUERY_EXECUTION_FAILED"} : Rq!Execute(r, o)
         \/ \E released \in BOOLEAN : Rq!Release(r, released)
  PROVE  QueryInv'
<1>1. PICK q \in QueryRequest, l \in QueryLease, g \in Seq(SUBSET Rq!Resources) :
        q = requests[r] /\ l = leases[r] /\ g = log
  BY DEF QueryInv, QueryDatabase
<1>2. QuerySound(q, l, g)
  BY <1>1 DEF QueryInv
<1>3. \A p : requests' = [requests EXCEPT ![r] = p] /\ UNCHANGED <<Rq!database, leases>>
             /\ p \in QueryRequest /\ QuerySound(p, l, g) => QueryInv'
  <2> SUFFICES ASSUME NEW p, requests' = [requests EXCEPT ![r] = p],
                      UNCHANGED <<Rq!database, leases>>, p \in QueryRequest, QuerySound(p, l, g)
               PROVE  QueryInv'
    OBVIOUS
  <2>1. leases' = [leases EXCEPT ![r] = l]
    BY <1>1 DEF QueryInv
  <2> QED BY <1>1, <2>1, QueryOneRequest
<1>4. CASE Rq!ExpireLease(r)
  <2>1. PICK m \in QueryLease : m = [l EXCEPT !.state = "expired"]
    BY DEF QueryLease
  <2>2. l.state = "committed"
    BY <1>1, <1>4 DEF Rq!ExpireLease
  <2>3. QuerySound(q, m, g)
    BY ONLY <1>2, <2>1, <2>2, l \in QueryLease DEF QuerySound, QueryLeased, QueryLease
  <2>4. requests' = [requests EXCEPT ![r] = q]
    BY <1>1, <1>4 DEF Rq!ExpireLease, QueryInv
  <2>5. leases' = [leases EXCEPT ![r] = m] /\ UNCHANGED Rq!database
    BY <1>1, <1>4, <2>1 DEF Rq!ExpireLease, QueryInv
  <2> QED BY <1>1, <2>3, <2>4, <2>5, QueryOneRequest
<1>5. CASE Rq!AskLinks(r)
  <2>1. PICK p : p = [q EXCEPT !.at = "links", !.asks = Rq!LinkCandidates(r)]
    OBVIOUS
  <2>2. Rq!LinkCandidates(r) = {k \in Links : k \subseteq q.visible}
    BY <1>1 DEF Rq!LinkCandidates
  <2>3. p \in QueryRequest
    BY <2>1, <2>2 DEF QueryRequest, QueryStages, Rq!Resources
  <2>4. q.at = "objects"
    BY <1>1, <1>5 DEF Rq!AskLinks
  <2>5. QuerySound(p, l, g)
    BY ONLY <1>2, <2>1, <2>2, <2>4, q \in QueryRequest
       DEF QuerySound, QueryDecided, QueryEnds, QueryLeased, QueryAsking, QueryRequest
  <2>6. requests' = [requests EXCEPT ![r] = p] /\ UNCHANGED <<Rq!database, leases>>
    BY <1>1, <1>5, <2>1 DEF Rq!AskLinks, QueryInv
  <2> QED BY <1>3, <2>3, <2>5, <2>6
<1>6. ASSUME NEW kind \in {"metadata", "object"}, NEW asks \in SUBSET Objects,
             Rq!Resolve(r, kind, asks)
      PROVE  QueryInv'
  <2>1. PICK p : p = [Rq!Idle EXCEPT !.at = IF retired THEN "done" ELSE "objects",
                    !.response = IF retired THEN "RELEASE_RETIRED" ELSE "none",
                    !.kind = kind, !.asks = asks, !.activation = activation]
    OBVIOUS
  <2>2. PICK t : t = retired
    OBVIOUS
  <2>3. p = [at |-> IF t THEN "done" ELSE "objects", asks |-> asks, activation |-> activation,
             epochs |-> {}, visible |-> {}, kind |-> kind,
             response |-> IF t THEN "RELEASE_RETIRED" ELSE "none"]
    BY <2>1, <2>2 DEF Rq!Idle
  <2>4. p \in QueryRequest
    BY <2>3 DEF QueryRequest, QueryStages, QueryResponses, Rq!Resources, QueryInv, QueryDatabase
  <2>5. QuerySound(p, l, g)
    BY ONLY <2>3, asks \in SUBSET Objects DEF QuerySound, QueryDecided, QueryEnds, QueryLeased, QueryAsking
  <2>6. requests' = [requests EXCEPT ![r] = p] /\ UNCHANGED <<Rq!database, leases>>
    BY <1>6, <2>1 DEF Rq!Resolve
  <2> QED BY <1>3, <2>4, <2>5, <2>6
<1>7. ASSUME NEW x \in requests[r].asks, NEW e \in 1..Rq!Epoch, Rq!Authorized(r, x, e)
      PROVE  QueryInv'
  <2>1. PICK v : v = IF x \in g[e] THEN q.visible \cup {x} ELSE q.visible
    OBVIOUS
  <2>2. PICK p : p = [q EXCEPT !.asks = q.asks \ {x}, !.epochs = q.epochs \cup {e}, !.visible = v]
    OBVIOUS
  <2>3. x \in q.asks /\ e \in 1..Len(g) /\ q.at \in {"objects", "links"}
    BY <1>1, <1>7 DEF Rq!Epoch, Rq!Authorized
  <2>4. p \in QueryRequest
    <3>1. q.asks \ {x} \in SUBSET Rq!Resources /\ v \in SUBSET Rq!Resources
      BY <2>1, <2>3 DEF QueryRequest
    <3>2. q.epochs \cup {e} \in SUBSET Nat
      BY <2>3 DEF QueryRequest
    <3> QED BY <2>2, <3>1, <3>2 DEF QueryRequest
  <2>5. QueryDecided(p, g)
    BY ONLY <1>2, <2>1, <2>2, <2>3, q \in QueryRequest DEF QuerySound, QueryDecided, QueryRequest
  <2>6. QueryEnds(p)
    <3>1. Objects \cap Links = {}
      BY DEF Rq!QueryAssumption
    <3> QED BY ONLY <1>2, <2>1, <2>2, <2>3, <3>1, q \in QueryRequest DEF QuerySound, QueryEnds, QueryRequest
  <2>7. QueryLeased(p, l, g)
    BY ONLY <1>2, <2>1, <2>2, <2>3, q \in QueryRequest DEF QuerySound, QueryLeased, QueryAsking, QueryRequest
  <2>8. requests' = [requests EXCEPT ![r] = p] /\ UNCHANGED <<Rq!database, leases>>
    BY <1>1, <1>7, <2>1, <2>2 DEF Rq!Authorized, QueryInv
  <2> QED BY <1>3, <2>4, <2>5, <2>6, <2>7, <2>8 DEF QuerySound
<1>8. ASSUME NEW lost \in BOOLEAN, Rq!CommitLease(r, lost) PROVE QueryInv'
  <2>1. PICK a : a = Rq!AuthorizationEpoch(r)
    OBVIOUS
  <2>2. a = Len(g) /\ q.at \in {"objects", "links"}
    BY <1>1, <1>8, <2>1 DEF Rq!CommitLease, Rq!ContextUnchanged, Rq!Epoch, Rq!Ready
  <2>3. Cardinality(q.epochs) = 1
    BY <1>1, <1>8, QuerySizes DEF Rq!CommitLease, Rq!OneEpoch
  <2>4. q.epochs \subseteq 1..Len(g)
    BY <1>2 DEF QuerySound, QueryDecided
  <2>5. q.epochs = {Len(g)}
    <3>1. IsFiniteSet(q.epochs)
      <4>1. IsFiniteSet(1..Len(g))
        BY FS_Interval
      <4> QED BY <2>4, <4>1, FS_Subset
    <3>2. PICK e : q.epochs = {e}
      BY <2>3, <3>1, FS_Singleton
    <3>3. Rq!AuthorizationEpoch(r) = e /\ e \in Int
      BY <1>1, <2>4, <3>2 DEF Rq!AuthorizationEpoch
    <3> QED BY <2>1, <2>2, <3>2, <3>3
  <2>6. PICK m : m = [state |-> "committed", expires |-> Rq!Expiry, epoch |-> a,
                      databaseEpoch |-> Len(g)]
    OBVIOUS
  <2>7. m \in QueryLease /\ Len(g) \in 1..Len(g)
    BY <1>1, <2>2, <2>6 DEF QueryLease, Rq!Expiry, QueryInv, QueryDatabase, Rq!Epoch, Rq!QueryAssumption
  <2>8. PICK p : p = IF lost THEN [q EXCEPT !.at = "done", !.response = "QUERY_CONTEXT_CHANGED"]
                            ELSE [q EXCEPT !.at = "leased"]
    OBVIOUS
  <2>9. p \in QueryRequest
    BY <2>8 DEF QueryRequest, QueryStages, QueryResponses
  <2>10. QuerySound(p, m, g)
    BY ONLY <1>2, <2>2, <2>5, <2>6, <2>7, <2>8, q \in QueryRequest
       DEF QuerySound, QueryDecided, QueryEnds, QueryLeased, QueryAsking, QueryRequest
  <2>11. requests' = [requests EXCEPT ![r] = p]
    BY <1>1, <1>8, <2>8 DEF Rq!CommitLease, Rq!Respond, QueryInv
  <2>12. leases' = [leases EXCEPT ![r] = m] /\ UNCHANGED Rq!database
    BY <1>1, <1>8, <2>1, <2>6 DEF Rq!CommitLease, Rq!Epoch
  <2> QED BY <1>1, <2>7, <2>9, <2>10, <2>11, <2>12, QueryOneRequest
<1>9. ASSUME NEW o \in {"data", "OBJECT_NOT_ACCESSIBLE", "QUERY_EXECUTION_FAILED"}, Rq!Execute(r, o)
      PROVE  QueryInv'
  <2>1. PICK p : p = [q EXCEPT !.at = "releasing", !.response = o]
    OBVIOUS
  <2>2. q.at = "leased"
    BY <1>1, <1>9 DEF Rq!Execute
  <2>3. p \in QueryRequest
    BY <2>1 DEF QueryRequest, QueryStages, QueryResponses
  <2>4. QuerySound(p, l, g)
    BY ONLY <1>2, <2>1, <2>2, q \in QueryRequest
       DEF QuerySound, QueryDecided, QueryEnds, QueryLeased, QueryAsking, QueryRequest
  <2>5. requests' = [requests EXCEPT ![r] = p] /\ UNCHANGED <<Rq!database, leases>>
    BY <1>1, <1>9, <2>1 DEF Rq!Execute, QueryInv
  <2> QED BY <1>3, <2>3, <2>4, <2>5
<1>10. ASSUME NEW released \in BOOLEAN, Rq!Release(r, released) PROVE QueryInv'
  <2>1. PICK m \in QueryLease : m = [l EXCEPT !.state = IF released THEN "released" ELSE l.state]
    BY DEF QueryLease
  <2>2. PICK p : p = [q EXCEPT !.at = "done",
                        !.response = IF released THEN q.response ELSE "QUERY_EXECUTION_FAILED"]
    OBVIOUS
  <2>3. p \in QueryRequest
    BY <2>2 DEF QueryRequest, QueryStages, QueryResponses
  <2>4. q.at = "releasing"
    BY <1>1, <1>10 DEF Rq!Release
  <2>5. QuerySound(p, m, g)
    BY ONLY <1>2, <2>1, <2>2, <2>4, q \in QueryRequest, l \in QueryLease
       DEF QuerySound, QueryDecided, QueryEnds, QueryLeased, QueryAsking, QueryRequest, QueryLease
  <2>6. requests' = [requests EXCEPT ![r] = p]
    BY <1>1, <1>10, <2>2 DEF Rq!Release, Rq!Respond, Rq!ReleaseAnswer, QueryInv
  <2>7. leases' = [leases EXCEPT ![r] = m] /\ UNCHANGED Rq!database
    BY <1>1, <1>10, <2>1 DEF Rq!Release, QueryInv
  <2> QED BY <1>1, <2>3, <2>5, <2>6, <2>7, QueryOneRequest
<1> QED BY <1>4, <1>5, <1>6, <1>7, <1>8, <1>9, <1>10

LEMMA QueryPreserved == ASSUME Rq!QueryAssumption, QueryInv, [Rq!Next]_(Rq!vars) PROVE QueryInv'
<1>1. CASE UNCHANGED Rq!vars
  BY <1>1 DEF Rq!vars, QueryInv, QueryDatabase, Rq!Epoch
<1>2. ASSUME NEW r \in Requests,
             Rq!ResolveFails(r) \/ Rq!AuthorizationUnavailable(r) \/ Rq!Refused(r) \/ Rq!ContextChanged(r)
      PROVE  QueryInv'
  BY <1>2, QueryRespondent
     DEF Rq!ResolveFails, Rq!AuthorizationUnavailable, Rq!Refused, Rq!ContextChanged, QueryResponses
<1> QED BY <1>1, <1>2, QueryLogGrows, QueryOthersMove, QueryRequestStep DEF Rq!Next

\* The inductive invariant of queries: what a request may show, the epochs it
\* was decided at and its lease fit the log of authorization facts.
THEOREM QueryInvariance == ASSUME Rq!QueryAssumption PROVE Rq!Spec => []QueryInv
<1>1. Rq!Init => QueryInv
  BY QueryStart
<1>2. QueryInv /\ [Rq!Next]_(Rq!vars) => QueryInv'
  BY QueryPreserved
<1> QED BY <1>1, <1>2, PTL DEF Rq!Spec

\* Requests, leases and the context keep to their types.
THEOREM QueryTyped == ASSUME Rq!QueryAssumption PROVE Rq!Spec => []Rq!TypeOK
<1>1. QueryInv => Rq!TypeOK
  BY DEF QueryInv, QueryDatabase, Rq!TypeOK, QuerySound, QueryDecided, QueryRequest, QueryLease,
     Rq!Epoch, QueryStages
<1> QED BY <1>1, QueryInvariance, PTL

\* Every resource a response shows was allowed when its lease was committed
\* (commit_query_lease, #commitLease).
THEOREM ShownAllowed == ASSUME Rq!QueryAssumption PROVE Rq!Spec => []Rq!ShownWasAllowed
<1>1. QueryInv => Rq!ShownWasAllowed
  BY DEF QueryInv, Rq!ShownWasAllowed, QuerySound, QueryLeased
<1> QED BY <1>1, QueryInvariance, PTL

\* Data is answered only after its lease was released: the finally blocks of
\* objectGet and metadata (#release).
THEOREM DataReleased == ASSUME Rq!QueryAssumption PROVE Rq!Spec => []Rq!DataMeansReleased
<1>1. QueryInv => Rq!DataMeansReleased
  BY DEF QueryInv, Rq!DataMeansReleased, QuerySound, QueryLeased
<1> QED BY <1>1, QueryInvariance, PTL

\* A link is shown only with the object types it joins (visibleLinks).
THEOREM LinksEnd == ASSUME Rq!QueryAssumption PROVE Rq!Spec => []Rq!LinksShownWithTheirEnds
<1>1. QueryInv => Rq!LinksShownWithTheirEnds
  BY DEF QueryInv, Rq!LinksShownWithTheirEnds, QuerySound, QueryEnds
<1> QED BY <1>1, QueryInvariance, PTL

-----------------------------------------------------------------------------
(* Identities.                                                              *)
(*                                                                          *)
(* The principals found dead when a request arrived stay dead, so the       *)
(* snapshot refuses it whenever it is read.  The fingerprint of a           *)
(* delegation is on record from the step that establishes it until its      *)
(* token has expired, after which nobody establishes it: a second request   *)
(* with that fingerprint finds the one or the other.                        *)

IdPhases == {"new", "verified", "resolved", "established", "decided", "refused"}
IdRequest == [phase : IdPhases, token : Tokens \cup {None}, proof : Proofs \cup {None},
              op : Operations \cup {None}, dead : SUBSET Principals, at : Int,
              asked : Permissions \cup {None}, decision : {None, "ALLOW", "DENY"}]

\* What holds of a request by itself, of the facts it was resolved against,
\* and of the fingerprints that are kept.
PossessionShown(q) ==
  q.phase \in {"verified", "resolved", "established", "decided"} =>
    /\ q.token \in Tokens
    /\ Id!Delegated(q.token) => q.proof # None /\ q.proof.token = q.token.id
    /\ ~Id!Delegated(q.token) => q.proof = None
DeadKnown(q) ==
  q.phase = "verified" => q.dead \subseteq Id!ChainOf(q.token) /\ \A p \in q.dead : ~Id!Live(p)
ChainChecked(q) ==
  q.phase \in {"resolved", "established", "decided"} =>
    /\ q.dead = {}
    /\ \A p \in Id!ChainOf(q.token) \ Humans : q.token.caps \subseteq CapabilitiesOf[p]
FingerprintOf(q) == <<q.token.id, q.proof.id, q.proof.key>>
IsEstablished(q) == q.phase \in {"established", "decided"}
Consumed(q) ==
  IsEstablished(q) /\ Id!Delegated(q.token) =>
    /\ q.at < q.token.exp
    /\ q.token.exp > clock => [fp |-> FingerprintOf(q), exp |-> q.token.exp] \in replay
Intersected(q) ==
  q.decision = "ALLOW" =>
    q.phase = "decided" /\ \A p \in Id!ChainOf(q.token) : q.asked \in GrantsOf[p]
GoodRequest(q) ==
  PossessionShown(q) /\ DeadKnown(q) /\ ChainChecked(q) /\ Consumed(q) /\ Intersected(q)

Unlike(p, q) ==
  IsEstablished(p) /\ IsEstablished(q) /\ Id!Delegated(p.token) /\ Id!Delegated(q.token) =>
    FingerprintOf(p) # FingerprintOf(q)

IdTypes ==
  /\ clock \in 0..MaxClock
  /\ active \subseteq Principals /\ bound \subseteq Principals /\ profiles \subseteq Id!Services
  /\ req \in [Requests -> IdRequest]
IdInv ==
  /\ IdTypes
  /\ \A r \in Requests : GoodRequest(req[r])
  /\ \A r, s \in Requests : r # s => Unlike(req[r], req[s])

\* Time passes, rights are only taken away, and only expired fingerprints go.
Declines ==
  /\ clock' \in 0..MaxClock /\ clock' >= clock
  /\ active' \subseteq active /\ bound' \subseteq bound /\ profiles' \subseteq profiles
  /\ \A rec \in replay : rec.exp > clock' => rec \in replay'

LEMMA IdStart == ASSUME Id!IdentityAssumption, Id!Init PROVE IdInv
<1>1. Id!Fresh \in IdRequest
  BY DEF Id!Fresh, IdRequest, IdPhases
<1>2. IdTypes
  BY <1>1 DEF Id!Init, IdTypes, Id!IdentityAssumption, Id!Services
<1>3. GoodRequest(Id!Fresh)
  BY DEF GoodRequest, PossessionShown, DeadKnown, ChainChecked, Consumed, Intersected,
         IsEstablished, Id!Fresh, Id!IdentityAssumption
<1>4. Unlike(Id!Fresh, Id!Fresh)
  BY DEF Unlike, IsEstablished, Id!Fresh
<1> QED BY <1>2, <1>3, <1>4 DEF Id!Init, IdInv

LEMMA RequestStays ==
  ASSUME Id!IdentityAssumption, IdTypes, Declines, NEW q \in IdRequest, GoodRequest(q)
  PROVE  GoodRequest(q)'
<1>1. DeadKnown(q)'
  BY DEF GoodRequest, DeadKnown, Id!Live, Declines
<1>2. Consumed(q)'
  <2>1. SUFFICES ASSUME IsEstablished(q), Id!Delegated(q.token)
                 PROVE  /\ q.at < q.token.exp
                        /\ q.token.exp > clock' =>
                             [fp |-> FingerprintOf(q), exp |-> q.token.exp] \in replay'
    BY DEF Consumed
  <2>2. q.token.exp \in Int
    BY <2>1 DEF GoodRequest, PossessionShown, IsEstablished, Id!IdentityAssumption
  <2>3. PICK rec : rec = [fp |-> FingerprintOf(q), exp |-> q.token.exp]
    OBVIOUS
  <2>4. rec.exp = q.token.exp
    BY <2>3
  <2>5. q.at < q.token.exp /\ (q.token.exp > clock => rec \in replay)
    BY <2>1, <2>3 DEF GoodRequest, Consumed
  <2>6. clock \in Int /\ clock' \in Int /\ clock' >= clock
    BY DEF IdTypes, Declines
  <2>7. q.token.exp > clock' => rec \in replay'
    BY <2>2, <2>4, <2>5, <2>6 DEF Declines
  <2> QED BY <2>3, <2>5, <2>7
<1> QED BY <1>1, <1>2 DEF GoodRequest, PossessionShown, ChainChecked, Intersected

LEMMA IdOthersMove ==
  ASSUME Id!IdentityAssumption, IdInv, Declines, UNCHANGED req
  PROVE  IdInv'
<1>1. IdTypes'
  BY DEF IdInv, IdTypes, Declines
<1>2. ASSUME NEW r \in Requests PROVE GoodRequest(req[r])'
  <2>1. PICK q \in IdRequest : q = req[r]
    BY DEF IdInv, IdTypes
  <2>2. GoodRequest(q)'
    BY <2>1, RequestStays DEF IdInv
  <2>3. req'[r] = q
    BY <2>1
  <2> QED BY <2>2, <2>3 DEF GoodRequest, PossessionShown, DeadKnown, ChainChecked, Consumed,
        Intersected
<1> QED BY <1>1, <1>2 DEF IdInv, Unlike

LEMMA IdOneRequest ==
  ASSUME Id!IdentityAssumption, IdInv, Declines, NEW r \in Requests, NEW q \in IdRequest,
         req' = [req EXCEPT ![r] = q], GoodRequest(q)',
         \A s \in Requests \ {r} : Unlike(q, req[s]) /\ Unlike(req[s], q)
  PROVE  IdInv'
<1>1. IdTypes'
  BY DEF IdInv, IdTypes, Declines
<1>2. ASSUME NEW s \in Requests PROVE GoodRequest(req[s])'
  <2>1. PICK p \in IdRequest : p = IF s = r THEN q ELSE req[s]
    BY DEF IdInv, IdTypes
  <2>2. GoodRequest(p)'
    <3>1. CASE s = r
      <4>1. p = q
        BY <2>1, <3>1
      <4> QED BY <4>1
    <3>2. CASE s # r
      <4>1. GoodRequest(p)
        BY <2>1, <3>2 DEF IdInv
      <4> QED BY <4>1, RequestStays DEF IdInv
    <3> QED BY <3>1, <3>2
  <2>3. req'[s] = p
    BY <2>1 DEF IdInv, IdTypes
  <2> QED BY <2>2, <2>3 DEF GoodRequest, PossessionShown, DeadKnown, ChainChecked, Consumed,
        Intersected
<1>3. ASSUME NEW a \in Requests, NEW b \in Requests, a # b PROVE Unlike(req[a], req[b])'
  <2>1. PICK p, t : p = req'[a] /\ t = req'[b]
    OBVIOUS
  <2>2. Unlike(p, t)
    BY <1>3, <2>1 DEF IdInv, IdTypes
  <2>3. Unlike(req'[a], req'[b])
    BY <2>1, <2>2
  <2> QED BY <2>3 DEF Unlike
<1> QED BY <1>1, <1>2, <1>3 DEF IdInv

\* A step that establishes nothing.
LEMMA IdQuietStep ==
  ASSUME Id!IdentityAssumption, IdInv, Declines, NEW r \in Requests, NEW q \in IdRequest,
         req' = [req EXCEPT ![r] = q], ~IsEstablished(q),
         PossessionShown(q), DeadKnown(q), ChainChecked(q), q.decision # "ALLOW"
  PROVE  IdInv'
<1>1. Consumed(q) /\ Intersected(q)
  BY DEF Consumed, Intersected
<1>2. GoodRequest(q)'
  BY <1>1, RequestStays DEF GoodRequest, IdInv
<1>3. \A s \in Requests \ {r} : Unlike(q, req[s]) /\ Unlike(req[s], q)
  BY DEF Unlike
<1> QED BY <1>2, <1>3, IdOneRequest

LEMMA AuthenticateKeeps ==
  ASSUME Id!IdentityAssumption, IdInv, NEW r \in Requests, NEW t \in Tokens,
         NEW d \in Proofs \cup {None}, NEW op \in Operations, Id!Authenticate(r, t, d, op)
  PROVE  IdInv'
<1>1. PICK ok \in BOOLEAN : ok = (Id!VerifiedToken(t) /\ Id!CredentialShape(d, t, op))
  BY DEF Id!VerifiedToken, Id!ParseActorChain, Id!CredentialShape, Id!VerifyDpopProof
<1>2. PICK gone : gone = {p \in Id!ChainOf(t) \cap Principals : ~Id!Live(p)}
  OBVIOUS
<1>3. PICK q : q = [Id!Fresh EXCEPT !.phase = IF ok THEN "verified" ELSE "refused",
                               !.token = t, !.proof = d, !.op = op, !.dead = gone]
  OBVIOUS
<1>4. req' = [req EXCEPT ![r] = q]
  BY <1>1, <1>2, <1>3 DEF Id!Authenticate
<1>5. /\ q \in IdRequest /\ q.phase = IF ok THEN "verified" ELSE "refused"
      /\ q.token = t /\ q.proof = d /\ q.dead = gone /\ q.decision = None
  <2>1. PICK f \in IdRequest : f = Id!Fresh /\ f.decision = None
    <3>1. Id!Fresh \in IdRequest /\ Id!Fresh.decision = None
      BY DEF Id!Fresh, IdRequest, IdPhases
    <3> QED BY <3>1
  <2>2. q = [f EXCEPT !.phase = IF ok THEN "verified" ELSE "refused",
                      !.token = t, !.proof = d, !.op = op, !.dead = gone]
    BY <1>3, <2>1
  <2>3. PICK phase \in {"verified", "refused"} : phase = IF ok THEN "verified" ELSE "refused"
    OBVIOUS
  <2>4. PICK g : g = [f EXCEPT !.phase = phase, !.token = t]
    OBVIOUS
  <2>5. g \in IdRequest /\ g.phase = phase /\ g.token = t /\ g.decision = None
    <3>1. PICK e : e = [f EXCEPT !.phase = phase]
      OBVIOUS
    <3>2. e \in IdRequest /\ e.phase = phase /\ e.decision = None
      BY <2>1, <2>3, <3>1 DEF IdRequest, IdPhases
    <3>3. g = [e EXCEPT !.token = t]
      BY <2>4, <3>1
    <3> QED BY <3>2, <3>3 DEF IdRequest
  <2>6. q = [g EXCEPT !.proof = d, !.op = op, !.dead = gone]
    BY <2>2, <2>3, <2>4
  <2>7. gone \in SUBSET Principals
    BY <1>2
  <2> QED BY <2>3, <2>5, <2>6, <2>7 DEF IdRequest
<1>6. ok => Id!CredentialShape(d, t, op)
  BY <1>1
<1>7. PossessionShown(q)
  BY <1>5, <1>6 DEF PossessionShown, Id!CredentialShape, Id!VerifyDpopProof
<1>8. DeadKnown(q) /\ ChainChecked(q) /\ ~IsEstablished(q) /\ q.decision # "ALLOW"
  BY <1>2, <1>5 DEF DeadKnown, ChainChecked, IsEstablished, Id!IdentityAssumption
<1>9. Declines
  BY DEF Id!Authenticate, Declines, IdInv, IdTypes
<1> QED BY <1>4, <1>5, <1>7, <1>8, <1>9, IdQuietStep

\* The facts of a resolved chain: nobody dead, every service able.
LEMMA SnapshotSound ==
  ASSUME Id!IdentityAssumption, NEW t \in Tokens, Id!ValidSnapshot(t)
  PROVE  /\ \A p \in Id!ChainOf(t) : Id!Live(p)
         /\ \A p \in Id!ChainOf(t) \ Humans : t.caps \subseteq CapabilitiesOf[p]
<1>1. Id!ChainOf(t) \subseteq Principals /\ Id!ChainOf(t) \subseteq active \cap bound
  BY DEF Id!ValidSnapshot
<1>2. ASSUME NEW p \in Id!ChainOf(t), p \notin Humans PROVE Id!ValidServicePrincipal(p, t)
  <2>1. CASE Id!Delegated(t)
    <3>1. Id!ValidDelegation(t)
      BY <2>1 DEF Id!ValidSnapshot
    <3>2. PICK i \in DOMAIN t.actors : p = t.actors[i]
      BY <1>2, <3>1 DEF Id!ChainOf, Id!ValidDelegation
    <3> QED BY <3>1, <3>2 DEF Id!ValidDelegation
  <2>2. CASE ~Id!Delegated(t)
    <3>1. Id!ValidDirect(t) /\ t.actors = <<>>
      BY <2>2 DEF Id!ValidSnapshot, Id!Delegated
    <3>2. p = t.sub
      BY <3>1 DEF Id!ChainOf
    <3> QED BY <1>2, <3>1, <3>2 DEF Id!ValidDirect
  <2> QED BY <2>1, <2>2
<1>3. ASSUME NEW p \in Id!ChainOf(t) PROVE Id!Live(p)
  <2>1. CASE p \in Humans
    BY <1>1, <2>1 DEF Id!Live, Id!Services
  <2>2. CASE p \notin Humans
    BY <1>1, <1>2, <2>2 DEF Id!Live, Id!ValidServicePrincipal
  <2> QED BY <2>1, <2>2
<1> QED BY <1>2, <1>3 DEF Id!ValidServicePrincipal

LEMMA ResolveKeeps ==
  ASSUME Id!IdentityAssumption, IdInv, NEW r \in Requests, Id!Resolve(r)
  PROVE  IdInv'
<1>1. PICK q \in IdRequest : q = req[r] /\ GoodRequest(q) /\ q.phase = "verified"
  BY DEF IdInv, IdTypes, Id!Resolve
<1>2. PICK ok \in BOOLEAN : ok = (Id!CredentialEnvelope(q.token) /\ Id!ValidSnapshot(q.token))
  BY DEF Id!CredentialEnvelope
<1>3. PICK p : p = [q EXCEPT !.phase = IF ok THEN "resolved" ELSE "refused"]
  OBVIOUS
<1>4. req' = [req EXCEPT ![r] = p]
  BY <1>1, <1>2, <1>3 DEF Id!Resolve
<1>5. p \in IdRequest
  BY <1>3 DEF IdRequest, IdPhases
<1>6. q.token \in Tokens
  BY <1>1 DEF GoodRequest, PossessionShown
<1>7. ok => q.dead = {} /\ \A x \in Id!ChainOf(q.token) \ Humans : q.token.caps \subseteq CapabilitiesOf[x]
  BY <1>1, <1>2, <1>6, SnapshotSound DEF GoodRequest, DeadKnown
<1>8. /\ p.token = q.token /\ p.dead = q.dead /\ p.proof = q.proof /\ p.decision = q.decision
      /\ p.phase = IF ok THEN "resolved" ELSE "refused"
  BY <1>3 DEF IdRequest
<1>9. PossessionShown(p) /\ DeadKnown(p) /\ ChainChecked(p) /\ ~IsEstablished(p)
  BY <1>1, <1>7, <1>8 DEF GoodRequest, PossessionShown, DeadKnown, ChainChecked, IsEstablished
<1>10. p.decision # "ALLOW"
  BY <1>1, <1>8 DEF GoodRequest, Intersected
<1>11. Declines
  BY DEF Id!Resolve, Declines, IdInv, IdTypes
<1> QED BY <1>4, <1>5, <1>9, <1>10, <1>11, IdQuietStep

LEMMA EstablishDirectKeeps ==
  ASSUME Id!IdentityAssumption, IdInv, NEW r \in Requests, Id!EstablishDirect(r)
  PROVE  IdInv'
<1>1. PICK q \in IdRequest : q = req[r] /\ GoodRequest(q) /\ q.phase = "resolved"
  BY DEF IdInv, IdTypes, Id!EstablishDirect
<1>2. PICK p : p = [q EXCEPT !.phase = "established", !.at = clock]
  OBVIOUS
<1>3. req' = [req EXCEPT ![r] = p] /\ ~Id!Delegated(q.token)
  BY <1>1, <1>2 DEF Id!EstablishDirect, IdInv, IdTypes
<1>4. p \in IdRequest
  <2>1. clock \in Int
    BY DEF IdInv, IdTypes
  <2> QED BY <1>2, <2>1 DEF IdRequest, IdPhases
<1>5. /\ p.token = q.token /\ p.dead = q.dead /\ p.proof = q.proof /\ p.decision = q.decision
      /\ p.phase = "established"
  BY <1>2 DEF IdRequest
<1>6. GoodRequest(p)
  BY <1>1, <1>3, <1>5 DEF GoodRequest, PossessionShown, DeadKnown, ChainChecked, Consumed,
     Intersected
<1>7. Declines
  BY DEF Id!EstablishDirect, Declines, IdInv, IdTypes
<1>8. GoodRequest(p)'
  BY <1>4, <1>6, <1>7, RequestStays DEF IdInv
<1>9. \A s \in Requests \ {r} : Unlike(p, req[s]) /\ Unlike(req[s], p)
  BY <1>3, <1>5 DEF Unlike
<1> QED BY <1>3, <1>4, <1>7, <1>8, <1>9, IdOneRequest

LEMMA ConsumeKeeps ==
  ASSUME Id!IdentityAssumption, IdInv, NEW r \in Requests, Id!ConsumeDelegationReplay(r)
  PROVE  IdInv'
<1>1. PICK q \in IdRequest : q = req[r] /\ GoodRequest(q) /\ q.phase = "resolved"
  BY DEF IdInv, IdTypes, Id!ConsumeDelegationReplay
<1>2. Id!Delegated(q.token) /\ q.token \in Tokens /\ q.token.exp \in Int
  BY <1>1 DEF Id!ConsumeDelegationReplay, GoodRequest, PossessionShown, Id!IdentityAssumption
<1>3. clock \in Int
  BY DEF IdInv, IdTypes
<1>4. CASE Id!Consumable(r)
  <2>1. PICK p : p = [q EXCEPT !.phase = "established", !.at = clock]
    OBVIOUS
  <2>2. PICK rec : rec = [fp |-> FingerprintOf(q), exp |-> q.token.exp]
    OBVIOUS
  <2>3. req' = [req EXCEPT ![r] = p] /\ UNCHANGED <<clock, active, bound, profiles>>
    BY <1>1, <1>4, <2>1 DEF Id!ConsumeDelegationReplay, IdInv, IdTypes
  <2>4. replay' = {x \in replay : x.exp > clock} \cup {rec}
    BY <1>1, <1>4, <2>2 DEF Id!ConsumeDelegationReplay, Id!Fingerprint, FingerprintOf
  <2>5. Declines
    BY <2>3, <2>4 DEF Declines, IdInv, IdTypes
  <2>6. p \in IdRequest
    BY <1>3, <2>1 DEF IdRequest, IdPhases
  <2>7. /\ p.token = q.token /\ p.dead = q.dead /\ p.proof = q.proof /\ p.decision = q.decision
        /\ p.phase = "established" /\ p.at = clock
    BY <2>1 DEF IdRequest
  <2>8. FingerprintOf(p) = FingerprintOf(q)
    BY <2>7 DEF FingerprintOf
  <2>9. Consumed(p)'
    <3>1. clock < q.token.exp
      BY <1>1, <1>2, <1>3, <1>4 DEF Id!Consumable
    <3>2. rec \in replay'
      BY <2>4
    <3> QED BY <2>2, <2>3, <2>7, <2>8, <3>1, <3>2 DEF Consumed
  <2>10. (PossessionShown(p) /\ DeadKnown(p) /\ ChainChecked(p) /\ Intersected(p))'
    BY <1>1, <2>7 DEF GoodRequest, PossessionShown, DeadKnown, ChainChecked, Intersected
  <2>11. ASSUME NEW s \in Requests \ {r} PROVE Unlike(p, req[s]) /\ Unlike(req[s], p)
    <3>1. PICK u \in IdRequest : u = req[s] /\ GoodRequest(u)
      BY DEF IdInv, IdTypes
    <3>2. SUFFICES ASSUME IsEstablished(u), Id!Delegated(u.token), FingerprintOf(u) = FingerprintOf(p)
                   PROVE  FALSE
      BY <3>1 DEF Unlike
    <3>3. u.token.id = q.token.id
      BY <2>8, <3>2 DEF FingerprintOf
    <3>4. u.token = q.token
      BY <1>2, <3>1, <3>2, <3>3 DEF GoodRequest, PossessionShown, IsEstablished, Id!IdentityAssumption
    <3>5. q.token.exp > clock
      BY <1>1, <1>4 DEF Id!Consumable
    <3>6. rec \in replay
      BY <2>2, <2>8, <3>1, <3>2, <3>4, <3>5 DEF GoodRequest, Consumed
    <3>7. rec.exp > clock /\ rec.fp = Id!Fingerprint(r)
      BY <1>1, <2>2, <3>5 DEF Id!Fingerprint, FingerprintOf
    <3> QED BY <1>4, <3>6, <3>7 DEF Id!Consumable
  <2> QED BY <2>3, <2>5, <2>6, <2>9, <2>10, <2>11, IdOneRequest DEF GoodRequest
<1>5. CASE ~Id!Consumable(r)
  <2>1. PICK p : p = [q EXCEPT !.phase = "refused"]
    OBVIOUS
  <2>2. req' = [req EXCEPT ![r] = p] /\ UNCHANGED <<clock, active, bound, profiles>>
    BY <1>1, <1>5, <2>1 DEF Id!ConsumeDelegationReplay, IdInv, IdTypes
  <2>3. replay' = {x \in replay : x.exp > clock} \/ replay' = replay
    BY <1>5 DEF Id!ConsumeDelegationReplay
  <2>4. Declines
    BY <2>2, <2>3 DEF Declines, IdInv, IdTypes
  <2>5. p \in IdRequest
    BY <2>1 DEF IdRequest, IdPhases
  <2>6. p.phase = "refused" /\ p.decision = q.decision
    BY <2>1 DEF IdRequest
  <2>7. PossessionShown(p) /\ DeadKnown(p) /\ ChainChecked(p) /\ ~IsEstablished(p)
    BY <2>6 DEF PossessionShown, DeadKnown, ChainChecked, IsEstablished
  <2>8. p.decision # "ALLOW"
    BY <1>1, <2>6 DEF GoodRequest, Intersected
  <2> QED BY <2>2, <2>4, <2>5, <2>7, <2>8, IdQuietStep
<1> QED BY <1>4, <1>5

LEMMA DecideKeeps ==
  ASSUME Id!IdentityAssumption, IdInv, NEW r \in Requests, NEW supplied \in SUBSET Principals,
         NEW p \in Permissions, Id!DecidePermission(r, supplied, p)
  PROVE  IdInv'
<1>1. PICK q \in IdRequest : q = req[r] /\ GoodRequest(q) /\ q.phase = "established"
  BY DEF IdInv, IdTypes, Id!DecidePermission
<1>2. PICK chain : chain = Id!AuthorizationPrincipals(q.token)
  OBVIOUS
<1>3. PICK decision \in {"ALLOW", "DENY"} :
        decision = IF supplied = chain /\ \A x \in chain : p \in GrantsOf[x] THEN "ALLOW" ELSE "DENY"
  OBVIOUS
<1>4. PICK n : n = [q EXCEPT !.phase = "decided", !.asked = p, !.decision = decision]
  OBVIOUS
<1>5. req' = [req EXCEPT ![r] = n]
  BY <1>1, <1>2, <1>3, <1>4 DEF Id!DecidePermission, IdInv, IdTypes
<1>6. n \in IdRequest
  BY <1>4 DEF IdRequest, IdPhases
<1>7. /\ n.token = q.token /\ n.dead = q.dead /\ n.proof = q.proof /\ n.at = q.at
      /\ n.phase = "decided" /\ n.asked = p /\ n.decision = decision
  BY <1>4 DEF IdRequest
<1>8. chain = Id!ChainOf(q.token)
  BY <1>2 DEF Id!AuthorizationPrincipals, Id!ChainOf, Id!Delegated
<1>9. Intersected(n)
  BY <1>3, <1>7, <1>8 DEF Intersected
<1>10. FingerprintOf(n) = FingerprintOf(q)
  BY <1>7 DEF FingerprintOf
<1>11. PossessionShown(n) /\ DeadKnown(n) /\ ChainChecked(n) /\ Consumed(n)
  BY <1>1, <1>7, <1>10 DEF GoodRequest, PossessionShown, DeadKnown, ChainChecked, Consumed,
     IsEstablished
<1>12. Declines
  BY DEF Id!DecidePermission, Declines, IdInv, IdTypes
<1>13. GoodRequest(n)'
  BY <1>6, <1>9, <1>11, <1>12, RequestStays DEF GoodRequest, IdInv
<1>14. \A s \in Requests \ {r} : Unlike(n, req[s]) /\ Unlike(req[s], n)
  BY <1>1, <1>7, <1>10 DEF IdInv, Unlike, IsEstablished
<1> QED BY <1>5, <1>6, <1>12, <1>13, <1>14, IdOneRequest

LEMMA IdPreserved == ASSUME Id!IdentityAssumption, IdInv, [Id!Next]_(Id!vars) PROVE IdInv'
<1>1. CASE UNCHANGED Id!vars
  BY <1>1, IdOthersMove DEF Id!vars, Declines, IdInv, IdTypes
<1>2. ASSUME NEW p \in Principals, Id!DisablePrincipal(p) \/ Id!UnbindPrincipal(p) \/ Id!RevokeProfile(p)
      PROVE  IdInv'
  BY <1>2, IdOthersMove DEF Id!DisablePrincipal, Id!UnbindPrincipal, Id!RevokeProfile, Declines,
     IdInv, IdTypes
<1>3. CASE Id!PruneDelegationReplays
  BY <1>3, IdOthersMove DEF Id!PruneDelegationReplays, Declines, IdInv, IdTypes
<1>4. CASE Id!Tick
  BY <1>4, IdOthersMove DEF Id!Tick, Declines, IdInv, IdTypes, Id!IdentityAssumption
<1> QED BY <1>1, <1>2, <1>3, <1>4, AuthenticateKeeps, ResolveKeeps, EstablishDirectKeeps,
           ConsumeKeeps, DecideKeeps DEF Id!Next

\* The inductive invariant of identities: what each request has shown, and
\* the fingerprints that are on record for it.
THEOREM IdInvariance == ASSUME Id!IdentityAssumption PROVE Id!Spec => []IdInv
<1>1. Id!Init => IdInv
  BY IdStart
<1>2. IdInv /\ [Id!Next]_(Id!vars) => IdInv'
  BY IdPreserved
<1> QED BY <1>1, <1>2, PTL DEF Id!Spec

LEMMA IdBounded ==
  ASSUME Id!IdentityAssumption, IdInv
  PROVE  Id!TypeOK /\ Id!OneUse /\ Id!OneTokenPerProof /\ Id!DeadChainRefused /\ Id!CapabilitiesHeld
         /\ Id!NeverLate /\ Id!ChainNeverWidens
<1>1. \A r \in Requests : req[r] \in IdRequest /\ GoodRequest(req[r])
  BY DEF IdInv, IdTypes
<1>2. Id!TypeOK
  BY <1>1 DEF IdInv, IdTypes, Id!TypeOK, IdRequest, IdPhases
<1>3. Id!OneUse
  BY DEF IdInv, Id!OneUse, Unlike, Id!Established, IsEstablished, Id!Fingerprint, FingerprintOf
<1>4. Id!OneTokenPerProof
  BY <1>1 DEF Id!OneTokenPerProof, GoodRequest, PossessionShown, Id!Established, Id!IdentityAssumption
<1>5. Id!DeadChainRefused /\ Id!CapabilitiesHeld
  BY <1>1 DEF Id!DeadChainRefused, Id!CapabilitiesHeld, GoodRequest, ChainChecked, Id!Established
<1>6. Id!NeverLate /\ Id!ChainNeverWidens
  BY <1>1 DEF Id!NeverLate, Id!ChainNeverWidens, GoodRequest, Consumed, Intersected, Id!Established,
              IsEstablished
<1> QED BY <1>2, <1>3, <1>4, <1>5, <1>6

\* Requests and facts about principals keep to their types.
THEOREM IdentityTyped == ASSUME Id!IdentityAssumption PROVE Id!Spec => []Id!TypeOK
<1>1. IdInv => Id!TypeOK
  BY IdBounded
<1> QED BY <1>1, IdInvariance, PTL

\* A token and a proof establish one identity, a proof serves one token, and
\* neither does so after the token has expired, however requests race and
\* expired records are pruned (consume_delegation_replay, verifyDpopProof).
THEOREM DelegationsUsedOnce ==
  ASSUME Id!IdentityAssumption
  PROVE  Id!Spec => [](Id!OneUse /\ Id!OneTokenPerProof /\ Id!NeverLate)
<1>1. IdInv => Id!OneUse /\ Id!OneTokenPerProof /\ Id!NeverLate
  BY IdBounded
<1> QED BY <1>1, IdInvariance, PTL

\* Everyone in the chain of an identity was alive when the request arrived
\* and holds the capabilities of its token, and everyone may do what the
\* chain is allowed (validateSnapshot, intersectPrincipalPermissions).
THEOREM ChainsSound ==
  ASSUME Id!IdentityAssumption
  PROVE  Id!Spec => [](Id!DeadChainRefused /\ Id!CapabilitiesHeld /\ Id!ChainNeverWidens)
<1>1. IdInv => Id!DeadChainRefused /\ Id!CapabilitiesHeld /\ Id!ChainNeverWidens
  BY IdBounded
<1> QED BY <1>1, IdInvariance, PTL
=============================================================================
