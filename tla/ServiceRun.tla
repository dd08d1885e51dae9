----------------------------- MODULE ServiceRun ------------------------------
(***************************************************************************)
(* One service operation, from both sides of its run directory: the        *)
(* worker of packages/service/worker.py, a process of its own, and the     *)
(* client of apps/godot/addons/gabagool_factory/service_client.gd, which   *)
(* polls the directory from a timer.  They share files only: the events    *)
(* (appended), the result (renamed into place, last), the cancel file, and *)
(* the client's own record of the run it follows.                          *)
(*                                                                         *)
(* The events file is counted in half lines, so that a poll may see the    *)
(* last line torn.  A run directory nobody can reach any more is reused:   *)
(* the code makes a fresh one each time and never looks at an old one.     *)
(***************************************************************************)
EXTENDS ServiceConstants, Naturals

CONSTANT MaxLines   \* events an operation emits, a bound

ASSUME LinesAssumption == MaxLines \in Nat

VARIABLES
    runs,      \* slot -> the run directory and its worker
    record,    \* current_<record_name>.json: the slot it names
    client,    \* the client node of the panel that is open
    answer     \* what the last `finished` carried, the run's state with it

runVars == <<runs, record, client, answer>>

Results == {"none", "ok", "cancelled", "error"}
Stages == {"launched", "working", "returned", "finished", "wrote", "dead"}
Alive(s) == runs[s].stage # "dead"

Fresh(op, argument, stage) == [op |-> op, argument |-> argument, stage |-> stage, half |-> 0,
                               cancel |-> FALSE, result |-> "none"]
EmptyRun == Fresh("none", NoArgument, "dead")
IdleClient == [running |-> FALSE, run |-> NoSlot, resumed |-> FALSE, at |-> 0,
               lines |-> 0, exited |-> FALSE, pc |-> "wait"]
NoAnswer == [run |-> NoSlot, kind |-> "none", lines |-> 0]

------------------------------------------------------------------------------
(* The worker.                                                             *)

Step(s, changed) == /\ runs' = [runs EXCEPT ![s] = changed]
                    /\ UNCHANGED <<record, client, answer>>

Whole(s) == runs[s].half % 2 = 0

\* The first half of a line reaches the file: at the start, of progress, at the finish.
EmitHalf(s) ==
    /\ Whole(s)
    /\ \/ runs[s].stage \in {"launched", "returned"}
       \/ /\ runs[s].stage = "working" /\ runs[s].op \in LongOps
          /\ runs[s].half < 2 * MaxLines
    /\ Step(s, [runs[s] EXCEPT !.half = @ + 1])

AfterEmit(stage) == CASE stage = "launched" -> "working"
                      [] stage = "returned" -> "finished"
                      [] OTHER -> stage

EmitRest(s) ==
    /\ ~Whole(s) /\ Alive(s)
    /\ Step(s, [runs[s] EXCEPT !.half = @ + 1, !.stage = AfterEmit(@)])

\* The request cannot run as written: an error result and no event.
Refuse(s) ==
    /\ runs[s].stage = "launched" /\ runs[s].half = 0
    /\ Step(s, [runs[s] EXCEPT !.result = "error", !.stage = "wrote"])

\* Mutant of SeeCancel: the operation says it was stopped and carries on.
SeeCancelGoesOn(s) ==
    /\ runs[s].stage = "working" /\ Whole(s)
    /\ runs[s].op \in LongOps /\ runs[s].cancel
    /\ Step(s, [runs[s] EXCEPT !.result = "cancelled"])

\* A leg sees the cancel file at a poll, ends its process tree and raises.
SeeCancel(s) ==
    /\ runs[s].stage = "working" /\ Whole(s)
    /\ runs[s].op \in LongOps /\ runs[s].cancel
    /\ Step(s, [runs[s] EXCEPT !.result = "cancelled", !.stage = "wrote"])

OperationFails(s) ==
    /\ runs[s].stage = "working" /\ Whole(s)
    /\ Step(s, [runs[s] EXCEPT !.result = "error", !.stage = "wrote"])

\* The last leg ended before any poll saw a cancel file.
Return(s) ==
    /\ runs[s].stage = "working" /\ Whole(s)
    /\ Step(s, [runs[s] EXCEPT !.stage = "returned"])

\* The answer, or an error when its schema refuses the answer.
WriteResult(s) ==
    /\ runs[s].stage = "finished"
    /\ \E result \in {"ok", "error"} :
          Step(s, [runs[s] EXCEPT !.result = result, !.stage = "wrote"])

Exit(s) ==
    /\ runs[s].stage = "wrote"
    /\ Step(s, [runs[s] EXCEPT !.stage = "dead"])

\* The worker dies where it stands.
KillWorker(s) ==
    /\ Alive(s)
    /\ Step(s, [runs[s] EXCEPT !.stage = "dead"])

\* What the worker does of itself once asked; progress and death are up to others.
WorkerEnds(s) ==
    \/ Alive(s) /\ runs[s].stage # "working" /\ EmitHalf(s)
    \/ EmitRest(s) \/ SeeCancel(s) \/ Return(s) \/ WriteResult(s) \/ Exit(s)

Worker(s) == EmitHalf(s) \/ EmitRest(s) \/ Refuse(s) \/ SeeCancel(s) \/ OperationFails(s)
                \/ Return(s) \/ WriteResult(s) \/ Exit(s) \/ KillWorker(s)

------------------------------------------------------------------------------
(* The client.                                                             *)

\* A directory no process, record or client knows of any more.
Forgotten(s) == ~Alive(s) /\ record # s /\ client.run # s /\ answer.run # s

Follow(s, resumed) == [IdleClient EXCEPT !.running = TRUE, !.run = s, !.resumed = resumed]

\* start(): a fresh directory, the request, the process, the record.
Start(s, op, argument) ==
    /\ ~client.running
    /\ Forgotten(s)
    /\ runs' = [runs EXCEPT ![s] = Fresh(op, argument, "launched")]
    /\ client' = Follow(s, FALSE)
    /\ record' = s
    /\ answer' = NoAnswer

\* resume(): follow the recorded run from its first event.
Resume ==
    /\ ~client.running
    /\ record # NoSlot
    /\ client' = Follow(record, TRUE)
    /\ answer' = NoAnswer
    /\ UNCHANGED <<runs, record>>

\* cancel(): the cancel file, in the directory followed.
Cancel ==
    /\ client.running
    /\ runs' = [runs EXCEPT ![client.run].cancel = TRUE]
    /\ UNCHANGED <<record, client, answer>>

\* _read_events: what the file has grown by, a torn last line kept for the next read.
ReadEvents == [client EXCEPT !.at = runs[client.run].half,
                        !.lines = @ + runs[client.run].half \div 2 - client.at \div 2]

\* Mutant of Finish: the events are not read again.
FinishUnread(kind) ==
    /\ answer' = [run |-> client.run, kind |-> kind, lines |-> client.lines]
    /\ client' = IdleClient
    /\ record' = NoSlot
    /\ UNCHANGED runs

\* _finish: the events are read once more, the record goes, `finished` is emitted.
Finish(kind) ==
    /\ answer' = [run |-> client.run, kind |-> kind, lines |-> ReadEvents.lines]
    /\ client' = IdleClient
    /\ record' = NoSlot
    /\ UNCHANGED runs

\* _poll looks three times, and the worker moves between the looks.
PollEvents ==
    /\ client.running /\ client.pc = "wait"
    /\ client' = [ReadEvents EXCEPT !.pc = "result"]
    /\ UNCHANGED <<runs, record, answer>>

PollResult ==
    /\ client.pc = "result"
    /\ IF runs[client.run].result # "none"
       THEN Finish("worker")
       ELSE /\ client' = [client EXCEPT !.pc = IF client.resumed THEN "wait" ELSE "process"]
            /\ UNCHANGED <<runs, record, answer>>

\* Mutant of PollProcess: a process seen dead once is given up at once.
PollProcessAtOnce ==
    /\ client.pc = "process"
    /\ IF Alive(client.run)
       THEN /\ client' = [client EXCEPT !.pc = "wait"]
            /\ UNCHANGED <<runs, record, answer>>
       ELSE Finish("worker_no_result")

\* Mutant of PollProcess: the process is never asked after.
PollProcessNever ==
    /\ client.pc = "process"
    /\ client' = [client EXCEPT !.pc = "wait"]
    /\ UNCHANGED <<runs, record, answer>>

\* The process is gone: a later poll that still finds no result gives up.  The polls
\* within EXIT_GRACE_S find the same dead worker and are not told apart.
PollProcess ==
    /\ client.pc = "process"
    /\ IF ~Alive(client.run) /\ client.exited
       THEN Finish("worker_no_result")
       ELSE /\ client' = [client EXCEPT !.pc = "wait", !.exited = @ \/ ~Alive(client.run)]
            /\ UNCHANGED <<runs, record, answer>>

Poll == PollEvents \/ PollResult \/ PollProcess

\* The panel's process ends and another starts: its client follows nothing.
ClientRestarts ==
    /\ client' = IdleClient
    /\ answer' = NoAnswer
    /\ UNCHANGED <<runs, record>>

------------------------------------------------------------------------------
RunInit ==
    /\ runs = [s \in Slots |-> EmptyRun]
    /\ record = NoSlot
    /\ client = IdleClient
    /\ answer = NoAnswer

RunNext ==
    \/ \E s \in Slots : Worker(s) \/ \E op \in Ops, argument \in Arguments \cup {NoArgument} : Start(s, op, argument)
    \/ Resume \/ Cancel \/ Poll \/ ClientRestarts

\* The timer fires while the panel is open, and a worker ends by itself: its legs end,
\* or the timeouts of their commands end them.  Nobody has to click or to die.
Fairness == WF_runVars(Poll) /\ \A s \in Slots : WF_runVars(WorkerEnds(s))

RunSpec == RunInit /\ [][RunNext]_runVars /\ Fairness

------------------------------------------------------------------------------
RunType == [op : Ops \cup {"none"}, argument : Arguments \cup {NoArgument}, stage : Stages, half : Nat, cancel : BOOLEAN, result : Results]
ClientType == [running : BOOLEAN, run : Slots \cup {NoSlot}, resumed : BOOLEAN, at : Nat,
               lines : Nat, exited : BOOLEAN, pc : {"wait", "result", "process"}]
AnswerType == [run : Slots \cup {NoSlot}, kind : {"none", "worker", "worker_no_result"}, lines : Nat]

\* The state keeps the shapes of the files and of the client's fields.
RunTypeOK ==
    /\ runs \in [Slots -> RunType]
    /\ record \in Slots \cup {NoSlot}
    /\ client \in ClientType
    /\ answer \in AnswerType

\* An operation is answered after every one of its events: the client shows all the
\* whole lines of a run before `finished`, once each, a torn line and a resumed run
\* included (worker.py writes the result last, _finish reads the events again).
EventsBeforeTheAnswer ==
    answer.kind = "worker" => answer.lines = runs[answer.run].half \div 2

\* "the factory exited without writing a result" is said of a run that has none and
\* never will: no worker's answer is thrown away by the check of its process.
NoResultIsFinal ==
    answer.kind = "worker_no_result" => runs[answer.run].result = "none" /\ ~Alive(answer.run)

\* What the panel is told of a run it started comes: its worker's death is noticed.
\* A resumed run whose worker died silently is polled for ever.
StartedIsAnswered ==
    \A s \in Slots : (client.run = s /\ ~client.resumed) ~> (client.run # s)

\* The abstract promise: one outcome a run, told once, a stop only where one was asked.
Outcome(s) == IF runs[s].result # "none" THEN runs[s].result
              ELSE IF Alive(s) THEN "running" ELSE "silent"
Calls == [s \in Slots |-> [op |-> runs[s].op, argument |-> runs[s].argument,
                          outcome |-> Outcome(s), cancel |-> runs[s].cancel]]
Followed == [run |-> client.run, resumed |-> client.resumed]
Told == [run |-> answer.run,
         outcome |-> CASE answer.kind = "none" -> "none"
                       [] answer.kind = "worker" -> runs[answer.run].result
                       [] answer.kind = "worker_no_result" -> "silent"]
Call == INSTANCE ServiceCall WITH calls <- Calls, recorded <- record, follow <- Followed, told <- Told

\* Every step of the worker and of the polling client is a step of ServiceCall or none.
ImplementsServiceCall == Call!CallSpec
==============================================================================
