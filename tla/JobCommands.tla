----------------------------- MODULE JobCommands ----------------------------
(***************************************************************************)
(* Scheduler._run_commands (packages/jobs/scheduler.py): the generator     *)
(* that runs one job's planned commands, and _attempt_job, the caller that *)
(* takes its results and stops at a failure.  A run of consecutive         *)
(* parallel commands goes through a pool of its own, any other command     *)
(* goes alone.  Each command writes its own part of the log; a part is     *)
(* joined into job.log when its result is handed over.                     *)
(***************************************************************************)
EXTENDS Naturals, Sequences, FiniteSets, SequencesExt

CONSTANTS
    Plans,      \* the plans a job may have: which of its commands are parallel
    Widths,     \* the class caps it may run under
    Advisory    \* the caller goes on after a nonzero exit: exit_advisory, and no retry due

ASSUME PlansAssumption ==
    /\ Plans \subseteq Seq(BOOLEAN)
    /\ Widths \subseteq Nat \ {0}
    /\ Advisory \in BOOLEAN

VARIABLES
    planned,    \* the plan: planned[n] says whether command n is parallel
    width,      \* the job's class cap
    generator,  \* where the generator is
    lo, hi,     \* the batch: commands lo .. hi - 1
    at,         \* the command whose result is due
    command,    \* what each command is doing
    seen,       \* the commands whose results the caller has had, in that order
    log,        \* the commands job.log holds, 0 for one of an earlier run
    parts,      \* the commands whose part of the log is on disk
    ended       \* how it ended

commandVars == <<planned, width, generator, lo, hi, at, command, seen, log, parts, ended>>

Commands == DOMAIN planned
Batch == {n \in Commands : lo <= n /\ n < hi}
Are(state) == {n \in Commands : command[n] = state}
Returned == {"ok", "failed", "stopped"}     \* how run_command returns
Settled == {n \in Commands : command[n] \in Returned \cup {"raised"}}
OneCommand == Len(planned) = 1
SideBySide == hi - lo > 1 /\ width > 1

CommandsTypeOK ==
    /\ planned \in Plans /\ width \in Widths
    /\ generator \in {"next", "alone", "wait", "gather", "yield", "ended"}
    /\ lo \in 1..(Len(planned) + 1) /\ hi \in lo..(Len(planned) + 1) /\ at \in lo..(Len(planned) + 1)
    /\ command \in [Commands -> Returned \cup {"waiting", "queued", "running", "raised"}]
    /\ seen \in Seq(Commands) /\ log \in Seq(Commands \cup {0})
    /\ parts \subseteq Commands
    /\ ended \in {"no", "exhausted", "stopped", "raised"}
-----------------------------------------------------------------------------
CommandsInit ==
    /\ planned \in Plans /\ width \in Widths
    /\ generator = "next" /\ lo = 1 /\ hi = 1 /\ at = 1
    /\ command = [n \in Commands |-> "waiting"]
    /\ seen = <<>>
    /\ log \in {<<>>, <<0>>}      \* attempt 1 writes where the last run's attempt 1 wrote
    /\ parts = {}
    /\ ended = "no"

BatchEndAllParallel(i) == Len(planned) + 1

\* Past the parallel commands that follow a parallel one.
BatchEnd(i) ==
    CHOOSE j \in (i + 1)..(Len(planned) + 1) :
        /\ j > i + 1 => \A n \in i..(j - 1) : planned[n]
        /\ j \in Commands => ~(planned[i] /\ planned[j])

NextBatch ==
    /\ generator = "next" /\ lo \in Commands
    /\ hi' = BatchEnd(lo)
    /\ at' = lo
    /\ IF hi' - lo = 1 \/ width <= 1
       THEN generator' = "alone" /\ UNCHANGED command
       ELSE /\ generator' = "gather"
            /\ command' = [n \in Commands |-> IF n \in lo..(hi' - 1) THEN "queued" ELSE command[n]]
    /\ UNCHANGED <<planned, width, lo, seen, log, parts, ended>>

Exhaust ==
    /\ generator = "next" /\ lo \notin Commands
    /\ generator' = "ended" /\ ended' = "exhausted"
    /\ UNCHANGED <<planned, width, lo, hi, at, command, seen, log, parts>>

\* run_command opens its log before anything else; one command alone writes job.log.
Start(n) ==
    /\ command' = [command EXCEPT ![n] = "running"]
    /\ IF OneCommand
       THEN log' = <<n>> /\ UNCHANGED parts
       ELSE parts' = parts \cup {n} /\ UNCHANGED log

RunAlone ==
    /\ generator = "alone"
    /\ Start(at)
    /\ generator' = "wait"
    /\ UNCHANGED <<planned, width, lo, hi, at, seen, ended>>

\* A pool thread takes the command submitted longest ago.
PoolStart ==
    /\ generator = "gather" /\ Are("queued") # {}
    /\ Cardinality(Are("running")) < Min({width, hi - lo})
    /\ Start(Min(Are("queued")))
    /\ UNCHANGED <<planned, width, generator, lo, hi, at, seen, ended>>

\* A command ends well, with an exit code of its own, is stopped (cancelled, or at its
\* deadline), or could not be started at all.
CommandEnd(n) ==
    /\ command[n] = "running"
    /\ \E how \in Returned \cup {"raised"} : command' = [command EXCEPT ![n] = how]
    /\ UNCHANGED <<planned, width, generator, lo, hi, at, seen, log, parts, ended>>

HaveResultsEarly ==
    /\ \/ generator = "wait" /\ command[at] \in Returned
       \/ generator = "gather" /\ command[lo] \in Returned
    /\ generator' = "yield"
    /\ UNCHANGED <<planned, width, lo, hi, at, command, seen, log, parts, ended>>

\* The results are in, or the first exception is out, when the pool has drained.
HaveResults ==
    /\ \/ generator = "wait" /\ command[at] \in Returned
       \/ generator = "gather" /\ Batch \subseteq Settled /\ Batch \cap Are("raised") = {}
    /\ generator' = "yield"
    /\ UNCHANGED <<planned, width, lo, hi, at, command, seen, log, parts, ended>>

Raise ==
    /\ \/ generator = "wait" /\ command[at] = "raised"
       \/ generator = "gather" /\ Batch \subseteq Settled /\ Batch \cap Are("raised") # {}
    /\ generator' = "ended" /\ ended' = "raised"
    /\ UNCHANGED <<planned, width, lo, hi, at, command, seen, log, parts>>

\* joined(): the first part starts job.log anew, the others are appended.
JoinAppendsAlways(n) ==
    /\ log' = Append(log, n)
    /\ parts' = parts \ {n}

Join(n) ==
    IF OneCommand THEN UNCHANGED <<log, parts>>
    ELSE /\ log' = IF n = 1 THEN <<n>> ELSE Append(log, n)
         /\ parts' = parts \ {n}

\* An advisory exit code stops nobody; a cancellation or a timeout always does.
CallerStops(n) == command[n] = "stopped" \/ (command[n] = "failed" /\ ~Advisory)

HandOver ==
    /\ generator = "yield"
    /\ Join(at)
    /\ seen' = Append(seen, at)
    /\ IF CallerStops(at)
       THEN generator' = "ended" /\ ended' = "stopped" /\ UNCHANGED <<lo, at>>
       ELSE /\ at' = at + 1
            /\ IF at + 1 = hi THEN generator' = "next" /\ lo' = hi
               ELSE generator' = (IF SideBySide THEN "yield" ELSE "alone") /\ UNCHANGED lo
            /\ UNCHANGED ended
    /\ UNCHANGED <<planned, width, hi, command>>

GeneratorStep == NextBatch \/ Exhaust \/ RunAlone \/ PoolStart \/ HaveResults \/ Raise \/ HandOver

Done == generator = "ended" /\ UNCHANGED commandVars

CommandsNext == GeneratorStep \/ (\E n \in Commands : CommandEnd(n)) \/ Done

CommandsSpec == CommandsInit /\ [][CommandsNext]_commandVars
-----------------------------------------------------------------------------
\* job.log holds the commands the caller has had, in plan order and whole; until the
\* first one is over it may still show an earlier run, never a mixture of both.
LogInPlanOrder ==
    IF OneCommand THEN 1 \in Settled => log = <<1>>
    ELSE seen # <<>> => log = [n \in 1..Len(seen) |-> n] /\ log = seen

\* A command that is not parallel finds everything before it over and nothing after it
\* begun: what it clears or reads nobody else is writing.
AloneIsAlone ==
    \A n \in Are("running") : ~planned[n] =>
        \A k \in Commands \ {n} : k \in (IF k < n THEN Settled ELSE Are("waiting"))

\* The generator never leaves a command of its own running behind it, and starts nothing
\* of a later batch, however it ends.
NothingLeftRunning ==
    generator = "ended" =>
        /\ Are("running") \cup Are("queued") = {}
        /\ ended # "exhausted" => \A n \in Commands : n >= hi => command[n] = "waiting"

=============================================================================
