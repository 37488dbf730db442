---------------------------- MODULE HandlerHost ----------------------------
(***************************************************************************)
(* The trusted handler host: a coordinator keeps a pool of child processes *)
(* and hands each of them one artifact invocation at a time.  Timeouts,    *)
(* protocol errors, crashes and failed start-ups all end in the death of a *)
(* host and, while the pool is started, in a replacement.                  *)
(*                                                                         *)
(* Source: src/tools/handler-host/pool.ts (coordinator), host-entry.ts     *)
(* (child).                                                                *)
(*                                                                         *)
(* Abstractions.  A host is a slot that is reused by its replacement.      *)
(* Clocks are left out: a timer that is armed may fire.  An event of the   *)
(* coordinator's loop is one step together with the promise continuations  *)
(* it triggers.  A message still in the pipe when the process exits is     *)
(* dropped: delivered after the exit it would find no active invocation.   *)
(* Request identifiers are unique in the code; a caller's name is reused   *)
(* here only when no host still holds a message about it.                  *)
(***************************************************************************)
EXTENDS Naturals, Sequences, FiniteSets

CONSTANTS Slots,      \* places for host processes
          Size,       \* size of the pool
          Requests,   \* concurrent callers
          None, Garbage

HostAssumption ==
    /\ Size \in Nat \ {0}
    /\ IsFiniteSet(Slots) /\ Size =< Cardinality(Slots)
    /\ None \notin Requests /\ Garbage \notin Requests

VARIABLES pool,       \* "stopped", "started", "stopping"
          launching,  \* start() still awaits its first hosts
          fatal,      \* a replacement failed to start
          queue,      \* invocations waiting for a host
          hosts,      \* slot -> host process and what the coordinator knows of it
          req         \* caller -> "idle", "pending" or the outcome it was given

vars == <<pool, launching, fatal, queue, hosts, req>>

Outcomes == {"ok", "error", "refused", "HANDLER_TIMEOUT", "HOST_EXITED", "PROTOCOL_MISMATCH"}

NoHost == [st |-> "none", member |-> FALSE, initial |-> FALSE, active |-> None,
           timedOut |-> FALSE, signal |-> "none", grace |-> FALSE,
           stopping |-> FALSE, running |-> {}, mail |-> <<>>]

\* A host that has been launched and has not yet said READY.
Booting(first) == [NoHost EXCEPT !.st = "booting", !.member = TRUE, !.initial = first]

Alive(h) == hosts[h].st # "none"

\* The getter `available`: nothing in it looks at the signals sent.
Available(w) == w.member /\ w.st = "ready" /\ w.active = None /\ ~w.stopping

Signalled(w, s) == [w EXCEPT !.signal = IF @ = "kill" THEN "kill" ELSE s]

Take(w, r) == [w EXCEPT !.active = r, !.running = @ \cup {r}]

Injections(n, S) == {f \in [1..n -> S] : \A i, j \in 1..n : f[i] = f[j] => i = j}

\* #drain: the head of the queue goes to an available host, until either
\* is exhausted.
Drain(hs, q) ==
    LET free == {h \in Slots : Available(hs[h])}
        n == IF Len(q) < Cardinality(free) THEN Len(q) ELSE Cardinality(free)
    IN IF pool = "started"
       THEN \E f \in Injections(n, free) :
               /\ hosts' = [h \in Slots |->
                              IF \E i \in 1..n : f[i] = h
                              THEN Take(hs[h], q[CHOOSE i \in 1..n : f[i] = h])
                              ELSE hs[h]]
               /\ queue' = SubSeq(q, n + 1, Len(q))
       ELSE hosts' = hs /\ queue' = q

Queued(r) == \E i \in 1..Len(queue) : queue[i] = r

\* `for (const pending of this.#queue.splice(0)) pending.reject(error)`
RejectQueue(code, rs) ==
    /\ queue' = <<>>
    /\ req' = [r \in Requests |-> IF Queued(r) THEN code ELSE rs[r]]

\* stop(): every host the pool still lists is told to terminate and gets a
\* kill timer; the calls in the queue are rejected.
BeginStop(hs, rs) ==
    /\ pool' = "stopping" /\ launching' = FALSE
    /\ RejectQueue("HOST_EXITED", rs)
    /\ hosts' = [h \in Slots |->
                   IF hs[h].member
                   THEN [Signalled(hs[h], "term") EXCEPT !.stopping = TRUE, !.grace = TRUE]
                   ELSE hs[h]]

\* What the rejection of a host's ready promise leads to: the pending start()
\* stops the pool; a replacement's failure closes the pool to calls.
StartupFailed(first, hs, rs) ==
    \/ /\ first /\ launching
       /\ BeginStop(hs, rs) /\ UNCHANGED fatal
    \/ /\ first /\ ~launching
       /\ hosts' = hs /\ req' = rs
       /\ UNCHANGED <<pool, launching, fatal, queue>>
    \/ /\ ~first
       /\ fatal' = TRUE
       /\ RejectQueue("HOST_EXITED", rs)
       /\ hosts' = hs /\ UNCHANGED <<pool, launching>>

Init ==
    /\ pool = "stopped" /\ launching = FALSE /\ fatal = FALSE
    /\ queue = <<>>
    /\ hosts = [h \in Slots |-> NoHost]
    /\ req = [r \in Requests |-> "idle"]

-----------------------------------------------------------------------------
(* The coordinator's interface. *)

Start ==
    /\ pool = "stopped"
    /\ \E S \in SUBSET {h \in Slots : ~Alive(h)} :
          /\ Cardinality(S) = Size
          /\ hosts' = [h \in Slots |-> IF h \in S THEN Booting(TRUE) ELSE hosts[h]]
    /\ pool' = "started" /\ launching' = TRUE /\ fatal' = FALSE
    /\ UNCHANGED <<queue, req>>

\* invoke(): a stopped pool, a closed pool and an invalid request refuse the
\* call at once.
Refuse(r) ==
    /\ req[r] = "idle"
    /\ req' = [req EXCEPT ![r] = "refused"]
    /\ UNCHANGED <<pool, launching, fatal, queue, hosts>>

Invoke(r) ==
    /\ req[r] = "idle" /\ pool = "started" /\ ~fatal
    /\ req' = [req EXCEPT ![r] = "pending"]
    /\ Drain(hosts, Append(queue, r))
    /\ UNCHANGED <<pool, launching, fatal>>

Stop ==
    /\ pool = "started"
    /\ BeginStop(hosts, req)
    /\ UNCHANGED fatal

\* The end of stop(): every host that was listed has exited.
Stopped ==
    /\ pool = "stopping"
    /\ \A h \in Slots : ~hosts[h].member
    /\ pool' = "stopped" /\ fatal' = FALSE
    /\ UNCHANGED <<launching, queue, hosts, req>>

\* The caller is done with an answer and calls again.
CallerReturns(r) ==
    /\ req[r] \in Outcomes
    /\ \A h \in Slots : /\ r \notin hosts[h].running
                        /\ \A i \in 1..Len(hosts[h].mail) : hosts[h].mail[i] # r
    /\ req' = [req EXCEPT ![r] = "idle"]
    /\ UNCHANGED <<pool, launching, fatal, queue, hosts>>

-----------------------------------------------------------------------------
(* Events of one host. *)

\* READY: the host is usable and the queue is drained.
Ready(h) ==
    /\ hosts[h].st = "booting" /\ hosts[h].member
    /\ LET hs == [hosts EXCEPT ![h].st = "ready"]
       IN /\ launching' = (launching /\ \E g \in Slots : hs[g].initial /\ hs[g].st = "booting")
          /\ Drain(hs, queue)
    /\ UNCHANGED <<pool, fatal, req>>

\* The start-up timer: the host leaves the list at once and is killed, but
\* its exit handler is still attached.
StartupTimeout(h) ==
    /\ hosts[h].st = "booting" /\ hosts[h].member
    /\ StartupFailed(hosts[h].initial,
                     [hosts EXCEPT ![h] = Signalled([@ EXCEPT !.member = FALSE], "kill")], req)

\* Mutant of HandleTimeout: no kill timer backs up the SIGTERM.
HandleTimeoutNoKill(h) ==
    /\ hosts[h].active # None /\ ~hosts[h].timedOut
    /\ hosts' = [hosts EXCEPT ![h] = [Signalled(@, "term") EXCEPT !.timedOut = TRUE]]
    /\ UNCHANGED <<pool, launching, fatal, queue, req>>

\* #handleTimeout: the invocation stays active until a result or the exit.
HandleTimeout(h) ==
    /\ hosts[h].active # None /\ ~hosts[h].timedOut
    /\ hosts' = [hosts EXCEPT ![h] = [Signalled(@, "term") EXCEPT !.timedOut = TRUE, !.grace = TRUE]]
    /\ UNCHANGED <<pool, launching, fatal, queue, req>>

GraceExpires(h) ==
    /\ hosts[h].grace
    /\ hosts' = [hosts EXCEPT ![h] = [Signalled(@, "kill") EXCEPT !.grace = FALSE]]
    /\ UNCHANGED <<pool, launching, fatal, queue, req>>

\* The child answers an invocation it was sent (a busy child answers a second
\* one with a refusal, so answers come in any order) ...
ChildReply(h) ==
    /\ hosts[h].st = "ready"
    /\ \E r \in hosts[h].running :
          hosts' = [hosts EXCEPT ![h].running = @ \ {r}, ![h].mail = Append(@, r)]
    /\ UNCHANGED <<pool, launching, fatal, queue, req>>

\* ... or sends something that is not a valid envelope.
\* bound: only into an empty pipe.
ChildGarbage(h) ==
    /\ hosts[h].st = "ready" /\ hosts[h].mail = <<>>
    /\ hosts' = [hosts EXCEPT ![h].mail = <<Garbage>>]
    /\ UNCHANGED <<pool, launching, fatal, queue, req>>

\* #failProtocol: the active invocation is rejected, the host killed.
FailProtocol(w, rs) ==
    [host |-> [Signalled(w, "kill") EXCEPT !.active = None, !.timedOut = FALSE],
     req  |-> [r \in Requests |-> IF r = w.active THEN "PROTOCOL_MISMATCH" ELSE rs[r]]]

\* #handleMessage: a result is taken only for the active invocation; it is
\* taken also when the invocation has timed out.
HandleMessage(h) ==
    /\ Alive(h) /\ hosts[h].mail # <<>>
    /\ LET w == [hosts[h] EXCEPT !.mail = Tail(@)]
           r == Head(hosts[h].mail)
           failed == FailProtocol(w, req)
       IN \/ /\ r = Garbage \/ r # w.active
             /\ hosts' = [hosts EXCEPT ![h] = failed.host]
             /\ req' = failed.req
             /\ UNCHANGED queue
          \/ /\ r # Garbage /\ r = w.active
             /\ \E code \in {"ok", "error"} : req' = [req EXCEPT ![r] = code]
             /\ Drain([hosts EXCEPT ![h] = [w EXCEPT !.active = None, !.timedOut = FALSE]], queue)
    /\ UNCHANGED <<pool, launching, fatal>>

\* #handleExit rejects the active invocation.
SettleActive(w, rs) ==
    [r \in Requests |->
       IF r = w.active THEN (IF w.timedOut THEN "HANDLER_TIMEOUT" ELSE "HOST_EXITED") ELSE rs[r]]

\* #handleExit and #handleWorkerExit: whatever host exits, also one the pool
\* no longer lists, a started pool launches a replacement.  The exit of a
\* booting host that is still listed also rejects its ready promise.
HandleExit(h) ==
    /\ Alive(h)
    /\ LET w == hosts[h]
           hs == [hosts EXCEPT ![h] = IF pool = "started" THEN Booting(FALSE) ELSE NoHost]
           rs == SettleActive(w, req)
       IN \/ /\ w.st = "booting" /\ w.member
             /\ StartupFailed(w.initial, hs, rs)
          \/ /\ ~(w.st = "booting" /\ w.member)
             /\ hosts' = hs /\ req' = rs
             /\ UNCHANGED <<pool, launching, fatal, queue>>

\* A process that was sent SIGKILL dies.
KilledExit(h) == hosts[h].signal = "kill" /\ HandleExit(h)

Next ==
    \/ Start \/ Stop \/ Stopped
    \/ \E r \in Requests : Refuse(r) \/ Invoke(r) \/ CallerReturns(r)
    \/ \E h \in Slots :
          \/ Ready(h) \/ StartupTimeout(h) \/ HandleTimeout(h) \/ GraceExpires(h)
          \/ ChildReply(h) \/ ChildGarbage(h) \/ HandleMessage(h) \/ HandleExit(h)

Spec == Init /\ [][Next]_vars

(* Timers fire, killed processes exit and their exit is seen.  Nothing is   *)
(* assumed of the artifact: it may never answer and may survive SIGTERM.    *)
Fairness ==
    \A h \in Slots :
       /\ WF_vars(Ready(h) \/ StartupTimeout(h))
       /\ WF_vars(HandleTimeout(h))
       /\ WF_vars(GraceExpires(h))
       /\ WF_vars(KilledExit(h))

-----------------------------------------------------------------------------
Hosts ==
    [st : {"none", "booting", "ready"}, member : BOOLEAN, initial : BOOLEAN,
     active : Requests \cup {None}, timedOut : BOOLEAN,
     signal : {"none", "term", "kill"}, grace : BOOLEAN, stopping : BOOLEAN,
     running : SUBSET Requests, mail : Seq(Requests \cup {Garbage})]

\* Every variable keeps the shape the coordinator's fields have.
TypeOK ==
    /\ pool \in {"stopped", "started", "stopping"}
    /\ launching \in BOOLEAN /\ fatal \in BOOLEAN
    /\ queue \in Seq(Requests)
    /\ hosts \in [Slots -> Hosts]
    /\ req \in [Requests -> {"idle", "pending"} \cup Outcomes]

\* A call that has not been answered is in exactly one place, the queue or
\* the active field of one host, and an answered one is in none: whatever
\* timeouts, crashes and protocol errors do, no promise is lost or shared.
PendingIsSomewhere ==
    \A r \in Requests :
       Cardinality({i \in 1..Len(queue) : queue[i] = r})
         + Cardinality({h \in Slots : hosts[h].active = r})
       = IF req[r] = "pending" THEN 1 ELSE 0

\* A promise is settled once: an answer is never replaced by another one.
SettledOnce ==
    \A r \in Requests : req[r] \in Outcomes => req'[r] \in {req[r], "idle"}

\* A pool whose replacement failed is closed: no call waits in it and none is
\* handed to a host until it has been stopped and started again.
FailClosed ==
    fatal /\ fatal' =>
      /\ queue' = <<>>
      /\ \A h \in Slots : hosts'[h].active \in {hosts[h].active, None}

\* Every call is answered, even when the artifact never returns and ignores
\* SIGTERM, and whether or not the pool is stopped meanwhile.
CallsSettle == \A r \in Requests : req[r] = "pending" ~> req[r] # "pending"
=============================================================================
