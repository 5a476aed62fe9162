------------------------------ MODULE RunStore ------------------------------
(***************************************************************************)
(* The durable row of one Run and the rules every writer of it obeys: the  *)
(* transition table of runtime/state_machine.py and the revision           *)
(* compare-and-swap of runtime/repository.py.  Nothing here is a state     *)
(* variable; RunRuntime holds the rows.                                    *)
(*                                                                         *)
(* Abstractions.  current_stage is lower(status) except while a client's   *)
(* reply or retry waits for a worker ("resume_queued", "retry_queued"), so *)
(* it is the flag `queued'.  response_json is the kind of response it      *)
(* holds.  completed_at is the rank of the completion, 0 before it.        *)
(*                                                                         *)
(* A definition named as a slip of the one below it ("Unnumbered", "Skips  *)
(* Planning") is that definition with a plausible mistake; nothing uses it *)
(* but the mutation runs, which show that a property notices the mistake.  *)
(***************************************************************************)
EXTENDS Naturals

Active == {"CONTEXTUALIZING", "DISCOVERING", "PLANNING", "EXECUTING", "ANSWERING"}

Settled == {"COMPLETED", "FAILED", "CANCELLED", "BLOCKED"}

\* orchestrator.py's _TERMINAL: WAITING_USER ends a drive as well.
Terminal == Settled \cup {"WAITING_USER"}

RunStatus == {"CREATED"} \cup Active \cup Terminal

Allowed == [
    CREATED         |-> {"CONTEXTUALIZING", "CANCELLED"},
    CONTEXTUALIZING |-> {"DISCOVERING", "FAILED", "BLOCKED", "CANCELLED"},
    DISCOVERING     |-> {"PLANNING", "WAITING_USER", "FAILED", "BLOCKED", "CANCELLED"},
    PLANNING        |-> {"EXECUTING", "WAITING_USER", "FAILED", "BLOCKED", "CANCELLED"},
    EXECUTING       |-> {"ANSWERING", "WAITING_USER", "FAILED", "BLOCKED", "CANCELLED"},
    ANSWERING       |-> {"COMPLETED", "WAITING_USER", "FAILED", "BLOCKED", "CANCELLED"},
    WAITING_USER    |-> {"CONTEXTUALIZING", "CANCELLED"},
    FAILED          |-> {"CONTEXTUALIZING"},
    COMPLETED       |-> {},
    CANCELLED       |-> {},
    BLOCKED         |-> {}]

\* The stages an Ask walks through, orchestrator.py's _ORDER from DISCOVERING on.
NextStage == [DISCOVERING |-> "PLANNING", PLANNING |-> "EXECUTING", EXECUTING |-> "ANSWERING"]

Response == {"none", "question", "query", "listing"}

\* "ABSENT" stands for no row: not inserted yet, or deleted.
Row == [status: RunStatus \cup {"ABSENT"}, queued: BOOLEAN, cancel: BOOLEAN,
        retryable: BOOLEAN, revision: Nat, response: Response, completed: Nat]

NoRow == [status |-> "ABSENT", queued |-> FALSE, cancel |-> FALSE,
          retryable |-> FALSE, revision |-> 0, response |-> "none", completed |-> 0]

NewRow == [NoRow EXCEPT !.status = "CREATED"]

Present(row) == row.status # "ABSENT"

\* transition() refuses a target outside the table, and any move out of a
\* failure that is not retryable.
CanTransition(row, target) ==
    /\ target \in Allowed[row.status]
    /\ row.status = "FAILED" => row.retryable

Transition(row, target) == [row EXCEPT !.status = target, !.queued = FALSE]

\* A slip of Saved: the revision stays.
SavedUnnumbered(row) == row

\* The row as save() writes it when the expected revision is still current.
Saved(row) == [row EXCEPT !.revision = row.revision + 1]

\* A row a worker may pick up: new, or queued again by a reply or a retry.
Runnable(row) ==
    \/ row.status = "CREATED"
    \/ row.status \in {"WAITING_USER", "FAILED"} /\ row.queued

=============================================================================
