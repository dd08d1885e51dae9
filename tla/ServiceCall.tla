----------------------------- MODULE ServiceCall -----------------------------
(***************************************************************************)
(* What a service operation promises a panel: one is followed at a time,   *)
(* it ends in one outcome, and the panel that follows it is told that      *)
(* outcome.  The events, the polls and the worker's own steps are in       *)
(* ServiceRun, which implements this; the Level tab is built on it.        *)
(***************************************************************************)
EXTENDS ServiceConstants

VARIABLES
    calls,     \* slot -> what was asked and how it ended
    recorded,  \* current_<record_name>.json: the slot it names
    follow,    \* the client of the panel that is open: the slot it follows
    told       \* what the last `finished` said: the slot and the outcome

callVars == <<calls, recorded, follow, told>>

\* "silent" is a worker that died without a result.
Outcomes == {"running", "ok", "cancelled", "error", "silent"}

Asked(op, argument, outcome) == [op |-> op, argument |-> argument, outcome |-> outcome, cancel |-> FALSE]
NoCall == Asked("none", NoArgument, "silent")
NotFollowing == [run |-> NoSlot, resumed |-> FALSE]
NothingTold == [run |-> NoSlot, outcome |-> "none"]
Running == follow.run # NoSlot

\* A directory no process, record or client knows of any more.
CallForgotten(s) == calls[s].outcome # "running" /\ s \notin {recorded, follow.run, told.run}

CallStart(s, op, argument) ==
    /\ ~Running
    /\ CallForgotten(s)
    /\ calls' = [calls EXCEPT ![s] = Asked(op, argument, "running")]
    /\ follow' = [run |-> s, resumed |-> FALSE]
    /\ recorded' = s
    /\ told' = NothingTold

CallResume ==
    /\ ~Running
    /\ recorded # NoSlot
    /\ follow' = [run |-> recorded, resumed |-> TRUE]
    /\ told' = NothingTold
    /\ UNCHANGED <<calls, recorded>>

CallCancel ==
    /\ Running
    /\ calls' = [calls EXCEPT ![follow.run].cancel = TRUE]
    /\ UNCHANGED <<recorded, follow, told>>

End(s) ==
    /\ calls[s].outcome = "running"
    /\ \E outcome \in Outcomes \ {"running"} :
          /\ outcome = "cancelled" => calls[s].cancel /\ calls[s].op \in LongOps
          /\ calls' = [calls EXCEPT ![s].outcome = outcome]
    /\ UNCHANGED <<recorded, follow, told>>

\* A run that was resumed is followed by its result alone: a silent one is never told.
Tell ==
    /\ Running
    /\ calls[follow.run].outcome # "running"
    /\ follow.resumed => calls[follow.run].outcome # "silent"
    /\ told' = [run |-> follow.run, outcome |-> calls[follow.run].outcome]
    /\ follow' = NotFollowing
    /\ recorded' = NoSlot
    /\ UNCHANGED calls

PanelRestarts ==
    /\ follow' = NotFollowing
    /\ told' = NothingTold
    /\ UNCHANGED <<calls, recorded>>

CallInit ==
    /\ calls = [s \in Slots |-> NoCall]
    /\ recorded = NoSlot
    /\ follow = NotFollowing
    /\ told = NothingTold

CallNext ==
    \/ \E s \in Slots : \/ End(s)
                        \/ \E op \in Ops, argument \in Arguments \cup {NoArgument} :
                              CallStart(s, op, argument)
    \/ CallResume \/ CallCancel \/ Tell \/ PanelRestarts

CallSpec == CallInit /\ [][CallNext]_callVars
==============================================================================
