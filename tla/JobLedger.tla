------------------------------ MODULE JobLedger ------------------------------
(***************************************************************************)
(* What the job queue promises, without workers, leases or time: the       *)
(* stages of a job are completed one after another, each once and for      *)
(* good; completing the last one is the point of no return, after which    *)
(* the job is done and nothing else; before it a job may be given up,      *)
(* reopened, or cancelled for good.                                        *)
(***************************************************************************)
EXTENDS Naturals, Sequences

CONSTANTS Jobs, Outputs, NStages

VARIABLES
  status,   \* per job
  outputs   \* per job: the outputs of the stages completed so far

ledger == <<status, outputs>>

Statuses == {"absent", "open", "done", "dead", "cancelled"}

LedgerInit ==
  /\ status = [j \in Jobs |-> "absent"]
  /\ outputs = [j \in Jobs |-> <<>>]

Committed(j) == Len(outputs[j]) = NStages

Move(j, from, to) ==
  /\ status[j] \in from
  /\ status' = [status EXCEPT ![j] = to]
  /\ UNCHANGED outputs

Submit(j) == Move(j, {"absent"}, "open")
Finish(j) == Committed(j) /\ Move(j, {"open"}, "done")
GiveUp(j) == ~Committed(j) /\ Move(j, {"open"}, "dead")
Reopen(j) == ~Committed(j) /\ Move(j, {"dead"}, "open")
Cancel(j) == ~Committed(j) /\ Move(j, {"open", "dead"}, "cancelled")

Advance(j, out) ==
  /\ status[j] = "open"
  /\ ~Committed(j)
  /\ outputs' = [outputs EXCEPT ![j] = Append(@, out)]
  /\ UNCHANGED status

LedgerNext ==
  \E j \in Jobs :
    \/ Submit(j) \/ Finish(j) \/ GiveUp(j) \/ Reopen(j) \/ Cancel(j)
    \/ \E out \in Outputs : Advance(j, out)

LedgerSpec == LedgerInit /\ [][LedgerNext]_ledger

=============================================================================
