-------------------------------- MODULE Panel --------------------------------
(***************************************************************************)
(* The Level tab of the Godot panel, apps/godot/addons/gabagool_factory/   *)
(* level_panel.gd: one service client, a queue of operations, the handler  *)
(* its answer goes to, what the tab shows and which buttons are enabled;   *)
(* and a panel that restarts while the worker it started goes on.          *)
(*                                                                         *)
(* The panel is one thread: what a click or an answer sets off is over     *)
(* before the next one, so nothing of the panel runs between a finished    *)
(* operation and the start of the next (AtRest), while workers move at any *)
(* time.  Only the operations below are in it; saving, creating, choosing  *)
(* and exporting queue the same way and show their own answer.             *)
(***************************************************************************)
EXTENDS ServiceCall, Naturals, Sequences

CONSTANTS
    MayNotStart,  \* whether an operation may fail to start
    MaxClicks,    \* clicks on Open, Generate and Walk, a bound
    MaxRestarts   \* restarts of the panel, a bound

ASSUME BoundsAssumption == MayNotStart \in BOOLEAN /\ MaxClicks \in Nat /\ MaxRestarts \in Nat

VARIABLES
    queue,     \* the operations not started yet: [op, level]
    pending,   \* the operation whose handler the answer goes to, "none" for none
    level,     \* design_path
    layouts,   \* the level whose layouts are listed
    last,      \* SETTING_LAST, kept by the editor across restarts
    enabled,   \* the buttons that can be pressed
    clicks, restarts

panelVars == <<queue, pending, level, layouts, last, enabled, clicks, restarts>>
vars == <<callVars, panelVars>>

Levels == Arguments
NoLevel == NoArgument
Buttons == {"generate", "walk", "stop"}
PanelOps == {"list_templates", "list_designs", "open_design", "describe_template",
             "generate_layouts", "walk_level"}
Item(op, at) == [op |-> op, level |-> at]

\* What set_factory_root queues: the quick loads, the last level, then the re-attachment.
Loads(at) == <<Item("list_templates", NoLevel), Item("list_designs", NoLevel)>>
                \o (IF at = NoLevel THEN <<>> ELSE <<Item("open_design", at)>>)
                \o <<Item("resume", NoLevel)>>

\* Nothing is left to start, or something runs: the panel waits for a click or a poll.
AtRest == Running \/ queue = <<>>

------------------------------------------------------------------------------
(* Clicks: _call queues, and _next starts it when nothing runs.            *)

Click == AtRest /\ clicks < MaxClicks /\ clicks' = clicks + 1

Open(at) ==
    /\ Click
    /\ queue' = Append(queue, Item("open_design", at))
    /\ UNCHANGED <<callVars, pending, level, layouts, last, enabled, restarts>>

\* generate_layouts(): of the level shown now, whatever is queued before it.
Generate ==
    /\ Click
    /\ "generate" \in enabled /\ level # NoLevel
    /\ layouts' = NoLevel
    /\ enabled' = (enabled \cup {"stop"}) \ {"generate"}
    /\ queue' = Append(queue, Item("generate_layouts", level))
    /\ UNCHANGED <<callVars, pending, level, last, restarts>>

Walk ==
    /\ Click
    /\ "walk" \in enabled /\ level # NoLevel
    /\ enabled' = {"stop"}
    /\ queue' = Append(queue, Item("walk_level", level))
    /\ UNCHANGED <<callVars, pending, level, layouts, last, restarts>>

\* stop(): the run the client follows, whatever it is.
Stop ==
    /\ AtRest /\ "stop" \in enabled
    /\ CallCancel
    /\ UNCHANGED panelVars

------------------------------------------------------------------------------
(* _next, one item at a time, until something runs or nothing is left.     *)

Dispatching == ~Running /\ queue # <<>>

\* The client could not start it: said, and the next item is taken.
StartFails ==
    /\ MayNotStart
    /\ Dispatching /\ Head(queue).op # "resume"
    /\ queue' = Tail(queue)
    /\ pending' = "none"
    /\ UNCHANGED <<callVars, level, layouts, last, enabled, clicks, restarts>>

StartNext ==
    /\ Dispatching /\ Head(queue).op # "resume"
    /\ \E s \in Slots : CallStart(s, Head(queue).op, Head(queue).level)
    /\ queue' = Tail(queue)
    /\ pending' = Head(queue).op
    /\ UNCHANGED <<level, layouts, last, enabled, clicks, restarts>>

\* _resume(): the operation recorded gets its handler back, when it has one.
Handlers == {"walk_level", "generate_layouts", "export_level", "choose_layout"}

\* The operations of a level that are made of legs are those four (operations.py).
ASSUME HandlersAssumption == LongOps \subseteq Handlers

\* Mutant of Reattach: the handler is left to the panel that started it.
ReattachUnhandled ==
    /\ Dispatching /\ Head(queue).op = "resume"
    /\ CallResume
    /\ queue' = Tail(queue)
    /\ enabled' = enabled \cup {"stop"}
    /\ UNCHANGED <<pending, level, layouts, last, clicks, restarts>>

Reattach ==
    /\ Dispatching /\ Head(queue).op = "resume"
    /\ CallResume
    /\ queue' = Tail(queue)
    /\ pending' = IF calls[recorded].op \in Handlers THEN calls[recorded].op ELSE "none"
    /\ enabled' = (enabled \cup {"stop"})
            \ (IF calls[recorded].op \in {"walk_level", "generate_layouts"} THEN {"walk", "generate"} ELSE {})
    /\ UNCHANGED <<level, layouts, last, clicks, restarts>>

NothingToReattach ==
    /\ Dispatching /\ Head(queue).op = "resume"
    /\ recorded = NoSlot
    /\ queue' = Tail(queue)
    /\ UNCHANGED <<callVars, pending, level, layouts, last, enabled, clicks, restarts>>

------------------------------------------------------------------------------
(* The timer, and `finished` with the handlers it calls.                 *)

\* What the handler of an ok answer does to the tab; `at` is the level the run was of.
Handled(op, at) ==
    CASE op = "open_design" ->
            /\ level' = at /\ last' = at
            /\ layouts' \in {NoLevel, at}
            /\ queue' = queue \o <<Item("list_designs", NoLevel), Item("describe_template", at)>>
      [] op = "generate_layouts" ->
            layouts' = at /\ UNCHANGED <<level, last, queue>>
      [] OTHER -> UNCHANGED <<level, layouts, last, queue>>

Finished ==
    /\ Tell
    /\ pending' = "none"
    /\ enabled' = {"generate", "walk"}
    /\ IF calls[follow.run].outcome = "ok"
       THEN Handled(pending, calls[follow.run].argument)
       ELSE UNCHANGED <<level, layouts, last, queue>>
    /\ UNCHANGED <<clicks, restarts>>

\* The panel's process ends, its workers go on, and a panel opens on the same factory.
Restart ==
    /\ restarts < MaxRestarts
    /\ restarts' = restarts + 1
    /\ PanelRestarts
    /\ queue' = Loads(last)
    /\ pending' = "none"
    /\ level' = NoLevel /\ layouts' = NoLevel
    /\ enabled' = {"generate", "walk"}
    /\ UNCHANGED <<last, clicks>>

CallEnds == /\ \E s \in Slots : End(s)
            /\ UNCHANGED panelVars

------------------------------------------------------------------------------
Init ==
    /\ CallInit
    /\ queue = Loads(NoLevel) /\ pending = "none"
    /\ level = NoLevel /\ layouts = NoLevel /\ last = NoLevel
    /\ enabled = {"generate", "walk"}
    /\ clicks = 0 /\ restarts = 0

Next ==
    \/ CallEnds \/ Finished \/ Stop \/ Restart
    \/ \E at \in Levels : Open(at)
    \/ Generate \/ Walk
    \/ StartFails \/ StartNext \/ Reattach \/ NothingToReattach

Spec == Init /\ [][Next]_vars

------------------------------------------------------------------------------
PanelTypeOK ==
    /\ calls \in [Slots -> [op : PanelOps \cup {"none"}, argument : Arguments \cup {NoArgument},
                            outcome : Outcomes, cancel : BOOLEAN]]
    /\ {recorded, follow.run, told.run} \subseteq Slots \cup {NoSlot}
    /\ queue \in Seq([op : PanelOps \cup {"resume"}, level : Levels \cup {NoLevel}])
    /\ pending \in PanelOps \cup {"none"}
    /\ {level, layouts, last} \subseteq Levels \cup {NoLevel}
    /\ enabled \subseteq Buttons

\* An answer goes to the handler of the operation it answers, across the queue, a start
\* that failed before it, and a long run found again after a restart.
AnswersItsOperation ==
    Running /\ (~follow.resumed \/ calls[follow.run].op \in LongOps)
        => pending = calls[follow.run].op
==============================================================================
