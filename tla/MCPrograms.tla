----------------------------- MODULE MCPrograms -----------------------------
(***************************************************************************)
(* One instance for the parts of the repository that do not interact with  *)
(* one another: a behaviour picks one of them and runs it alone, so that   *)
(* the state space is the sum of theirs.                                   *)
(***************************************************************************)
EXTENDS Clients, Task, EchoServer, Spinlock

VARIABLE part

vars == <<part, client_vars, task_vars, echo_vars, spin_vars>>

Init ==
    /\ part = "none"
    /\ ClientInit /\ TaskInit /\ EchoInit /\ SpinInit

Pick ==
    /\ part = "none"
    /\ part' \in {"clients", "task", "echo", "spin"}
    /\ UNCHANGED <<client_vars, task_vars, echo_vars, spin_vars>>

Next ==
    \/ Pick
    \/ /\ part = "clients" /\ ClientNext
       /\ UNCHANGED <<part, task_vars, echo_vars, spin_vars>>
    \/ /\ part = "task" /\ TaskNext
       /\ UNCHANGED <<part, client_vars, echo_vars, spin_vars>>
    \/ /\ part = "echo" /\ EchoNext
       /\ UNCHANGED <<part, client_vars, task_vars, spin_vars>>
    \/ /\ part = "spin" /\ SpinNext
       /\ UNCHANGED <<part, client_vars, task_vars, echo_vars>>

\* None of these actions is enabled in its component's initial state, so that a component
\* that was not picked asks for nothing.
Spec ==
    /\ Init /\ [][Next]_vars
    /\ ClientFairness /\ EchoFairness
=============================================================================
