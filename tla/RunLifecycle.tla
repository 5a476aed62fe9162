---------------------------- MODULE RunLifecycle ----------------------------
(***************************************************************************)
(* What the runtime promises about a Run, without workers, revisions,      *)
(* events or restarts: a run waits for a worker, runs, and then either     *)
(* pauses for its user, fails, or is done; only an answer or a retry makes *)
(* a paused or failed run wait for a worker again; and every time it does, *)
(* one more Ask may be executed, never two.                                *)
(***************************************************************************)
EXTENDS Naturals

CONSTANT Runs

VARIABLES
    phase,      \* where each run is
    allowance,  \* Asks the user has asked for, per run
    executed    \* Asks executed, per run

lifecycle == <<phase, allowance, executed>>

Init ==
    /\ phase = [r \in Runs |-> "none"]
    /\ allowance = [r \in Runs |-> 1]
    /\ executed = [r \in Runs |-> 0]

Move(r, from, to) == phase[r] \in from /\ phase' = [phase EXCEPT ![r] = to]

Accept(r) == Move(r, {"none"}, "pending") /\ UNCHANGED <<allowance, executed>>

Start(r) == Move(r, {"pending"}, "running") /\ UNCHANGED <<allowance, executed>>

Execute(r) ==
    /\ phase[r] = "running" /\ executed[r] < allowance[r]
    /\ executed' = [executed EXCEPT ![r] = @ + 1]
    /\ UNCHANGED <<phase, allowance>>

Stop(r) ==
    /\ \E to \in {"paused", "failed", "done"} : Move(r, {"running"}, to)
    /\ UNCHANGED <<allowance, executed>>

\* An answer or a retry.
Resume(r) ==
    /\ Move(r, {"paused", "failed"}, "pending")
    /\ allowance' = [allowance EXCEPT ![r] = @ + 1]
    /\ UNCHANGED executed

\* Cancelling a run that waits for its user, answered or not.
Withdraw(r) ==
    /\ Move(r, {"paused", "pending"}, "done")
    /\ UNCHANGED <<allowance, executed>>

\* Deleting the conversation never interrupts a run.
Forget ==
    /\ \A r \in Runs : phase[r] # "running"
    /\ phase' = [r \in Runs |-> "none"]
    /\ UNCHANGED <<allowance, executed>>

Next ==
    \/ \E r \in Runs :
        Accept(r) \/ Start(r) \/ Execute(r) \/ Stop(r) \/ Resume(r) \/ Withdraw(r)
    \/ Forget

Spec == Init /\ [][Next]_lifecycle

=============================================================================
