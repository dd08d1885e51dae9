---------------------------- MODULE CommandRunner ---------------------------
(***************************************************************************)
(* run_command (packages/jobs/runner.py, POSIX): start a command in a      *)
(* process group of its own, poll it, and on cancellation or at the        *)
(* deadline ask the group to end, then kill it.  The command is a leader   *)
(* process and the processes it starts; any of them may ignore SIGTERM,    *)
(* and any of them may outlive the leader.  Time is two events: the        *)
(* deadline passes, the grace period is over.                              *)
(***************************************************************************)
EXTENDS Naturals, FiniteSets

CONSTANTS
    leader,         \* the process started
    Child,          \* the processes it starts
    HasTimeout      \* whether timeout_s is given

ASSUME RunnerAssumption == leader \notin Child /\ HasTimeout \in BOOLEAN

Group == {leader} \cup Child

VARIABLES
    stage,          \* where run_command is
    alive,          \* the processes still there
    stubborn,       \* those that ignore SIGTERM
    termed,         \* sent SIGTERM
    killed,         \* sent SIGKILL
    own,            \* the leader ended by itself, nobody having signalled it
    cancelSet,      \* cancel.is_cancelled
    expired,        \* the deadline has passed
    due,            \* what `now >= deadline` gave in this round of the loop
    graceOver,      \* grace_s has passed since SIGTERM
    cancelled,      \* the locals that become the result
    timed_out

outcome == <<cancelled, timed_out>>
processes == <<alive, stubborn, termed, killed, own>>
runnerVars == <<stage, processes, cancelSet, expired, due, graceOver, outcome>>

RunnerTypeOK ==
    /\ stage \in {"poll", "check", "terminate", "grace", "kill", "wait", "done"}
    /\ alive \subseteq Group /\ stubborn \subseteq Group
    /\ termed \subseteq Group /\ killed \subseteq termed
    /\ {own, cancelSet, expired, due, graceOver, cancelled, timed_out} \subseteq BOOLEAN
-----------------------------------------------------------------------------
RunnerInit ==
    /\ stage = "poll"
    /\ alive = Group
    /\ stubborn \in SUBSET Group
    /\ termed = {} /\ killed = {} /\ own = FALSE
    /\ cancelSet \in BOOLEAN        \* a cancelled run still starts the commands it comes to
    /\ expired = FALSE /\ due = FALSE /\ graceOver = FALSE
    /\ cancelled = FALSE /\ timed_out = FALSE

\* An exit already there is seen before the token and the clock are looked at.
Poll ==
    /\ stage = "poll"
    /\ IF leader \notin alive
       THEN stage' = "wait" /\ UNCHANGED due
       ELSE stage' = "check" /\ due' = (HasTimeout /\ expired)
    /\ UNCHANGED <<processes, cancelSet, expired, graceOver, outcome>>

CheckBoth ==
    /\ stage = "check"
    /\ cancelled' = cancelSet
    /\ timed_out' = due
    /\ stage' = IF cancelSet \/ due THEN "terminate" ELSE "poll"
    /\ UNCHANGED <<processes, cancelSet, expired, due, graceOver>>

Check ==
    /\ stage = "check"
    /\ cancelled' = cancelSet
    /\ timed_out' = (due /\ ~cancelSet)
    /\ stage' = IF cancelSet \/ due THEN "terminate" ELSE "poll"
    /\ UNCHANGED <<processes, cancelSet, expired, due, graceOver>>

\* _terminate_tree does nothing to a command that has just ended.
Terminate ==
    /\ stage = "terminate"
    /\ IF leader \notin alive
       THEN stage' = "wait" /\ UNCHANGED termed
       ELSE stage' = "grace" /\ termed' = alive
    /\ UNCHANGED <<alive, stubborn, killed, own, cancelSet, expired, due, graceOver, outcome>>

\* A leader that ends within the grace period ends the whole matter.
GraceNoLimit ==
    /\ stage = "grace" /\ leader \notin alive
    /\ stage' = "wait"
    /\ UNCHANGED <<processes, cancelSet, expired, due, graceOver, outcome>>

Grace ==
    /\ stage = "grace"
    /\ \/ leader \notin alive /\ stage' = "wait"
       \/ graceOver /\ stage' = "kill"
    /\ UNCHANGED <<processes, cancelSet, expired, due, graceOver, outcome>>

Kill ==
    /\ stage = "kill"
    /\ killed' = alive
    /\ stage' = "wait"
    /\ UNCHANGED <<alive, stubborn, termed, own, cancelSet, expired, due, graceOver, outcome>>

Wait ==
    /\ stage = "wait" /\ leader \notin alive
    /\ stage' = "done"
    /\ UNCHANGED <<processes, cancelSet, expired, due, graceOver, outcome>>

(* The processes, the clock and whoever cancels.                           *)

Doomed == killed \cup (termed \ stubborn)

Exit(p) ==
    /\ p \in alive
    /\ alive' = alive \ {p}
    /\ own' = IF p = leader THEN p \notin termed \cup killed ELSE own
    /\ UNCHANGED <<stage, stubborn, termed, killed, cancelSet, expired, due, graceOver, outcome>>

CancelCommand ==
    /\ ~cancelSet
    /\ cancelSet' = TRUE
    /\ UNCHANGED <<stage, processes, expired, due, graceOver, outcome>>

Expire ==
    /\ HasTimeout /\ ~expired
    /\ expired' = TRUE
    /\ UNCHANGED <<stage, processes, cancelSet, due, graceOver, outcome>>

GraceEnds ==
    /\ stage = "grace" /\ ~graceOver
    /\ graceOver' = TRUE
    /\ UNCHANGED <<stage, processes, cancelSet, expired, due, outcome>>

RunnerStep == Poll \/ Check \/ Terminate \/ Grace \/ Kill \/ Wait

RunnerNext == RunnerStep \/ (\E p \in Group : Exit(p)) \/ CancelCommand \/ Expire \/ GraceEnds

RunnerSpec == RunnerInit /\ [][RunnerNext]_runnerVars

\* The thread polls, time passes, and a process that has been killed, or asked to end
\* and does not ignore it, ends.
RunnerFairSpec ==
    /\ RunnerSpec
    /\ WF_runnerVars(RunnerStep) /\ WF_runnerVars(Expire) /\ WF_runnerVars(GraceEnds)
    /\ \A p \in Group : WF_runnerVars(p \in Doomed /\ Exit(p))
-----------------------------------------------------------------------------
\* The result says cancelled only of a cancelled run, timed out only of a command that
\* had its time, and never both; and a command said to be neither ended by itself,
\* unsignalled, so its exit code is its own.
OutcomeHonest ==
    stage = "done" =>
        /\ ~(cancelled /\ timed_out)
        /\ cancelled => cancelSet
        /\ timed_out => HasTimeout /\ expired
        /\ ~cancelled /\ ~timed_out => own /\ termed = {} /\ killed = {}

\* Cancelling ends the command, and so does its deadline, whatever it does with signals.
StopReturns == cancelSet \/ (HasTimeout /\ expired) ~> stage = "done"

=============================================================================
