-------------------------- MODULE RuntimeIdentity --------------------------
(***************************************************************************)
(* How a runtime request becomes an identity: the access token and, for a  *)
(* delegation, its DPoP proof are verified; the facts about every          *)
(* principal of the chain are read in one repeatable-read snapshot; a      *)
(* delegation consumes its replay fingerprint; the resulting chain then    *)
(* decides permissions by intersection.  Several API processes do this at  *)
(* once while administrators disable principals, unbind them or revoke     *)
(* service profiles, and the worker prunes expired fingerprints.           *)
(*                                                                         *)
(* Source: apps/api/src/runtime-oidc.ts, packages/identity-application,    *)
(* packages/identity-domain/src/permission-intersection.ts,                *)
(* packages/identity-postgres and migration 0025.                          *)
(*                                                                         *)
(* Abstractions: signatures, header syntax and length limits hold; a       *)
(* request is a token, a proof or None, and the operation (method and      *)
(* normalised URI) it calls; seconds are clock ticks;                      *)
(* consume_delegation_replay runs within one tick, at one reading of the   *)
(* clock; how the claims of a token are mapped is left out.                *)
(***************************************************************************)
EXTENDS Integers, Sequences, FiniteSets

CONSTANTS
  Requests,        \* the requests in flight
  Operations,      \* method and normalised URI
  Tokens,          \* [id, sub, actors, caps, azp, iat, exp, cnf]
  Proofs,          \* [id, key, token, op, iat]: the DPoP proofs
  Principals,      \* known to this issuer
  Humans,          \* the principals of identity type human
  HumanClients,    \* the client ids humans sign in through
  ClientOf,        \* the client id of each service's profile
  CapabilitiesOf,  \* the capabilities of each service's profile
  MappedTypes,     \* identity types with an active claim mapping
  Permissions,
  GrantsOf,        \* the permissions granted to each principal
  MaxActors,       \* maximumDelegatingServices
  MaxTtl,          \* maximumDelegationTtlSeconds
  Tolerance,       \* clock tolerance of tokens and proofs
  MaxClock,        \* bound: ticks of the clock
  None

\* The issuer gives every token an identifier of its own and whole seconds;
\* None is no decision.
IdentityAssumption ==
  /\ \A s, t \in Tokens : s.id = t.id => s = t
  /\ \A t \in Tokens : t.exp \in Int
  /\ MaxClock \in Nat /\ Tolerance \in Nat /\ MaxTtl \in Nat
  /\ Humans \subseteq Principals
  /\ None \notin {"ALLOW", "DENY"}

VARIABLES
  clock,
  active,    \* principals in state active
  bound,     \* principals bound to the project
  profiles,  \* services whose profile is active
  replay,    \* delegation_replay_records: [fp, exp]
  req        \* one record per request

vars == <<clock, active, bound, profiles, replay, req>>

Services == Principals \ Humans
Live(p) == /\ p \in active \cap bound
           /\ p \in Services => p \in profiles
ChainOf(t) == {t.sub} \cup {t.actors[i] : i \in DOMAIN t.actors}
Delegated(t) == t.actors # <<>>

Fresh == [phase |-> "new", token |-> None, proof |-> None, op |-> None,
          dead |-> {}, at |-> 0, asked |-> None, decision |-> None]

Init == /\ clock = 0
        /\ active = Principals /\ bound = Principals /\ profiles = Services
        /\ replay = {}
        /\ req = [r \in Requests |-> Fresh]

-----------------------------------------------------------------------------
(* Authentication at the API. *)

ParseActorChain(t) ==
  /\ Len(t.actors) <= MaxActors
  /\ Cardinality(ChainOf(t)) = Len(t.actors) + 1

\* jwtVerify accepts a token for Tolerance ticks after it has expired
VerifiedToken(t) ==
  /\ t.exp > clock - Tolerance
  /\ t.iat <= clock + Tolerance
  /\ t.exp > t.iat
  /\ ParseActorChain(t)

VerifyDpopProof(d, t, op) ==
  /\ d # None
  /\ d.iat - clock \in (-Tolerance)..Tolerance
  /\ d.op = op
  /\ d.token = t.id
  /\ d.key = t.cnf

CredentialShape(d, t, op) ==
  IF Delegated(t) THEN t.cnf # None /\ VerifyDpopProof(d, t, op)
                  ELSE d = None /\ t.cnf = None

Authenticate(r, t, d, op) ==
  /\ req[r].phase = "new"
  /\ req' = [req EXCEPT ![r] =
       [Fresh EXCEPT !.phase = IF VerifiedToken(t) /\ CredentialShape(d, t, op)
                                 THEN "verified" ELSE "refused",
                     !.token = t, !.proof = d, !.op = op,
                     !.dead = {p \in ChainOf(t) \cap Principals : ~Live(p)}]]
  /\ UNCHANGED <<clock, active, bound, profiles, replay>>

-----------------------------------------------------------------------------
(* RuntimeIdentityApplicationService.establish. *)

CredentialEnvelope(t) ==
  /\ t.exp > t.iat
  /\ Len(t.actors) <= MaxActors
  /\ Delegated(t) => t.exp - t.iat <= MaxTtl

ValidServicePrincipal(p, t) ==
  /\ p \in Services /\ p \in profiles
  /\ ~Delegated(t) => ClientOf[p] = t.azp
  /\ t.caps # {}
  /\ t.caps \subseteq CapabilitiesOf[p]

ValidDirect(t) ==
  IF t.sub \in Humans
    THEN t.azp \in HumanClients /\ t.caps = {}
    ELSE ValidServicePrincipal(t.sub, t)

ValidDelegation(t) ==
  /\ t.sub \in Humans
  /\ t.caps # {}
  /\ \A i \in DOMAIN t.actors : ValidServicePrincipal(t.actors[i], t)
  /\ ClientOf[t.actors[1]] = t.azp

ValidSnapshot(t) ==
  /\ ChainOf(t) \subseteq Principals
  /\ (IF t.sub \in Humans THEN "human" ELSE "service") \in MappedTypes
  /\ ChainOf(t) \subseteq active \cap bound
  /\ IF Delegated(t) THEN ValidDelegation(t) ELSE ValidDirect(t)

Resolve(r) ==
  /\ req[r].phase = "verified"
  /\ req' = [req EXCEPT ![r].phase =
               IF CredentialEnvelope(req[r].token) /\ ValidSnapshot(req[r].token)
                 THEN "resolved" ELSE "refused"]
  /\ UNCHANGED <<clock, active, bound, profiles, replay>>

EstablishDirect(r) ==
  /\ req[r].phase = "resolved"
  /\ ~Delegated(req[r].token)
  /\ req' = [req EXCEPT ![r].phase = "established", ![r].at = clock]
  /\ UNCHANGED <<clock, active, bound, profiles, replay>>

Fingerprint(r) == <<req[r].token.id, req[r].proof.id, req[r].proof.key>>

\* Mutant of Consumable: the expiry of the token is left to the verifier
ConsumableUnexpired(r) == /\ req[r].token.exp <= clock + MaxTtl
                          /\ ~\E rec \in replay : rec.exp > clock /\ rec.fp = Fingerprint(r)

Consumable(r) == /\ req[r].token.exp > clock
                 /\ req[r].token.exp <= clock + MaxTtl
                 /\ ~\E rec \in replay : rec.exp > clock /\ rec.fp = Fingerprint(r)

\* a refused expiry returns before the sweep; a conflict keeps the sweep
ConsumeDelegationReplay(r) ==
  LET rec == [fp |-> Fingerprint(r), exp |-> req[r].token.exp]
      swept == {x \in replay : x.exp > clock}
      timely == rec.exp \in (clock + 1)..(clock + MaxTtl)
  IN /\ req[r].phase = "resolved"
     /\ Delegated(req[r].token)
     /\ IF Consumable(r)
          THEN /\ replay' = swept \cup {rec}
               /\ req' = [req EXCEPT ![r].phase = "established", ![r].at = clock]
          ELSE /\ replay' = IF timely THEN swept ELSE replay
               /\ req' = [req EXCEPT ![r].phase = "refused"]
     /\ UNCHANGED <<clock, active, bound, profiles>>

-----------------------------------------------------------------------------
(* Permissions of an established identity. *)

AuthorizationPrincipals(t) == IF Delegated(t) THEN ChainOf(t) ELSE {t.sub}

\* the grants the caller supplied must be those of exactly the chain
DecidePermission(r, supplied, p) ==
  LET chain == AuthorizationPrincipals(req[r].token)
  IN /\ req[r].phase = "established"
     /\ req' = [req EXCEPT
          ![r].phase = "decided", ![r].asked = p,
          ![r].decision = IF supplied = chain /\ \A q \in chain : p \in GrantsOf[q]
                            THEN "ALLOW" ELSE "DENY"]
     /\ UNCHANGED <<clock, active, bound, profiles, replay>>

-----------------------------------------------------------------------------
(* Administrators, the worker and time. *)

DisablePrincipal(p) == /\ p \in active
                       /\ active' = active \ {p}
                       /\ UNCHANGED <<clock, bound, profiles, replay, req>>

UnbindPrincipal(p) == /\ p \in bound
                      /\ bound' = bound \ {p}
                      /\ UNCHANGED <<clock, active, profiles, replay, req>>

RevokeProfile(p) == /\ p \in profiles
                    /\ profiles' = profiles \ {p}
                    /\ UNCHANGED <<clock, active, bound, replay, req>>

PruneDelegationReplays ==
  /\ \E rec \in replay : rec.exp <= clock
  /\ replay' = {rec \in replay : rec.exp > clock}
  /\ UNCHANGED <<clock, active, bound, profiles, req>>

Tick == /\ clock < MaxClock
        /\ clock' = clock + 1
        /\ UNCHANGED <<active, bound, profiles, replay, req>>

Next ==
  \/ \E r \in Requests, t \in Tokens, d \in Proofs \cup {None}, op \in Operations :
       Authenticate(r, t, d, op)
  \/ \E r \in Requests : Resolve(r)
  \/ \E r \in Requests : EstablishDirect(r)
  \/ \E r \in Requests : ConsumeDelegationReplay(r)
  \/ \E r \in Requests, s \in SUBSET Principals, p \in Permissions : DecidePermission(r, s, p)
  \/ \E p \in Principals : DisablePrincipal(p)
  \/ \E p \in Principals : UnbindPrincipal(p)
  \/ \E p \in Principals : RevokeProfile(p)
  \/ PruneDelegationReplays
  \/ Tick

Spec == Init /\ [][Next]_vars

-----------------------------------------------------------------------------
Established(r) == req[r].phase \in {"established", "decided"}

\* The type invariant.
TypeOK ==
  /\ clock \in 0..MaxClock
  /\ active \subseteq Principals /\ bound \subseteq Principals
  /\ profiles \subseteq Services
  /\ \A r \in Requests :
       req[r].phase \in {"new", "verified", "resolved", "established", "decided", "refused"}

\* A token and a proof together establish one identity, however many API
\* processes receive them and whenever expired fingerprints are swept: the
\* record is only removed once the token can no longer be consumed, although
\* the token verifier still tolerates it (consume_delegation_replay).
OneUse ==
  \A r, s \in Requests :
    (r # s /\ Established(r) /\ Established(s) /\ Delegated(req[r].token)
      /\ Delegated(req[s].token)) => Fingerprint(r) # Fingerprint(s)

\* A proof of possession serves one token: two established requests never
\* share a proof under different tokens (verifyDpopProof).
OneTokenPerProof ==
  \A r, s \in Requests :
    (Established(r) /\ Established(s) /\ req[r].proof # None
      /\ req[r].proof = req[s].proof) => req[r].token = req[s].token

\* A request whose chain held a disabled, unbound or revoked principal when
\* it arrived never becomes an identity, wherever in the chain that
\* principal stands (validateSnapshot).
DeadChainRefused == \A r \in Requests : Established(r) => req[r].dead = {}

\* Every service of the chain of an established identity was given every
\* capability the token asks for (validateServicePrincipal).
CapabilitiesHeld ==
  \A r \in Requests : Established(r) =>
    \A p \in ChainOf(req[r].token) \ Humans : req[r].token.caps \subseteq CapabilitiesOf[p]

\* A delegation is established before its token expires, the tolerance of
\* the verifier notwithstanding (consume_delegation_replay).
NeverLate ==
  \A r \in Requests :
    (Established(r) /\ Delegated(req[r].token)) => req[r].at < req[r].token.exp

\* What a delegation may do, the human and each of its services may do
\* (intersectPrincipalPermissions).
ChainNeverWidens ==
  \A r \in Requests : req[r].decision = "ALLOW" =>
    \A p \in ChainOf(req[r].token) : req[r].asked \in GrantsOf[p]
=============================================================================
