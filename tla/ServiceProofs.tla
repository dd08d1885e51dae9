---------------------------- MODULE ServiceProofs -----------------------------
(***************************************************************************)
(* What one service operation promises, for any run directories,           *)
(* operations and numbers of events: the answer comes after every event,   *)
(* a run said to have ended without a result has none and never will, and  *)
(* the worker and the polling client together implement ServiceCall.       *)
(*                                                                         *)
(* The two promises are not inductive: they rest on the order in which a   *)
(* worker writes (a result only after the last whole line, then nothing),  *)
(* and on a dead worker staying dead while its run is followed.            *)
(*                                                                         *)
(* And what the Level tab, built on ServiceCall, does with an answer: for  *)
(* any levels, clicks, restarts and run directories it goes to the handler *)
(* of the operation it answers.                                            *)
(***************************************************************************)
EXTENDS ServiceRun, Panel, TLAPS

------------------------------------------------------------------------------
(* The invariant.                                                          *)

\* A worker writes its result after its last whole line, and nothing after it.
ResultLast ==
    \A s \in Slots :
        /\ runs[s].stage \in {"finished", "wrote"} => Whole(s)
        /\ runs[s].result # "none" => runs[s].stage \in {"wrote", "dead"} /\ Whole(s)
        /\ runs[s].stage = "wrote" => runs[s].result # "none"

\* The client counts the whole lines it has read, and follows a run while it polls.
ClientInv ==
    /\ client.running <=> client.run # NoSlot
    /\ ~client.running => client.pc = "wait" /\ ~client.exited
    /\ client.lines = client.at \div 2

\* A worker seen dead is dead, and once it is asked after again without a result it has none.
ExitedInv ==
    /\ client.pc = "process" => ~client.resumed
    /\ client.exited => ~Alive(client.run)
    /\ client.exited /\ client.pc = "process" => runs[client.run].result = "none"

\* What was answered is still what the run directory says.
AnswerInv ==
    /\ answer.kind = "none" <=> answer.run = NoSlot
    /\ answer.kind = "worker" => runs[answer.run].result # "none"
    /\ EventsBeforeTheAnswer
    /\ NoResultIsFinal

RunInv == RunTypeOK /\ ResultLast /\ ClientInv /\ ExitedInv /\ AnswerInv

LEMMA RunInvInitially == RunInit => RunInv
BY SlotsAssumption
   DEF RunInit, RunInv, RunTypeOK, RunType, ClientType, AnswerType, Results, Stages, EmptyRun,
       Fresh, IdleClient, NoAnswer, ResultLast, ClientInv, ExitedInv, AnswerInv, Alive, Whole,
       EventsBeforeTheAnswer, NoResultIsFinal

------------------------------------------------------------------------------
(* The steps.                                                              *)

\* A step of a living worker that changes its own directory, keeps what it has promised
\* of its result and writes no result after one.
LEMMA WorkerKeeps ==
    ASSUME RunInv, NEW s \in Slots, NEW changed \in RunType, Step(s, changed), Alive(s),
           changed.op = runs[s].op, 
           changed.stage \in {"finished", "wrote"} => changed.half % 2 = 0,
           changed.result # "none" => changed.stage \in {"wrote", "dead"} /\ changed.half % 2 = 0,
           changed.stage = "wrote" => changed.result # "none",
           runs[s].result # "none" => changed.result = runs[s].result /\ changed.half = runs[s].half
    PROVE  RunInv'
<1>1. /\ runs' = [runs EXCEPT ![s] = changed]
      /\ UNCHANGED <<record, client, answer>>
    BY DEF Step
<1>2. runs \in [Slots -> RunType]
    BY DEF RunInv, RunTypeOK
<1>3. runs' \in [Slots -> RunType] /\ runs'[s] = changed
      /\ \A t \in Slots \ {s} : runs'[t] = runs[t]
    BY <1>1, <1>2
<1>4. RunTypeOK'
    BY <1>1, <1>3 DEF RunInv, RunTypeOK
<1>5. ResultLast'
    BY <1>3 DEF RunInv, ResultLast, Whole
<1>6. ClientInv'
    BY <1>1 DEF RunInv, ClientInv
<1>7. ExitedInv'
    BY <1>1, <1>3, SlotsAssumption DEF RunInv, ExitedInv, ClientInv, Alive, RunTypeOK, ClientType
<1>8. AnswerInv'
    BY <1>1, <1>3
    DEF RunInv, AnswerInv, EventsBeforeTheAnswer, NoResultIsFinal, Alive, RunTypeOK, AnswerType
<1>9. QED
    BY <1>4, <1>5, <1>6, <1>7, <1>8 DEF RunInv

\* One more half line written keeps the shape of a directory.
LEMMA HalfMore ==
    ASSUME NEW run \in RunType, NEW stage \in Stages
    PROVE  [run EXCEPT !.half = @ + 1, !.stage = stage] \in RunType
<1> DEFINE written == [run EXCEPT !.half = @ + 1]
<1>1. written \in RunType
    BY DEF RunType
<1>2. [run EXCEPT !.half = @ + 1, !.stage = stage] = [written EXCEPT !.stage = stage]
    OBVIOUS
<1> HIDE DEF written
<1>3. [written EXCEPT !.stage = stage] \in RunType
    BY <1>1 DEF RunType
<1>4. QED
    BY <1>2, <1>3

LEMMA WorkerPreserves ==
    ASSUME RunInv, NEW s \in Slots, Worker(s)
    PROVE  RunInv'
<1> DEFINE run == runs[s]
<1>0. run \in RunType
    BY DEF RunInv, RunTypeOK
<1>1. run.half \in Nat
    BY <1>0 DEF RunType
<1>r. ResultLast
    BY DEF RunInv
<1>2. CASE EmitHalf(s)
  <2>1. [run EXCEPT !.half = @ + 1] \in RunType
    BY <1>0 DEF RunType
  <2>2. Alive(s) /\ run.result = "none" /\ run.stage \in {"launched", "returned", "working"}
    BY <1>2, <1>r DEF EmitHalf, Alive, ResultLast
  <2> HIDE DEF run
  <2>3. Step(s, [run EXCEPT !.half = @ + 1])
    BY <1>2 DEF EmitHalf, run
  <2>4. /\ [run EXCEPT !.half = @ + 1].op = run.op
        /\ [run EXCEPT !.half = @ + 1].stage = run.stage
        /\ [run EXCEPT !.half = @ + 1].result = run.result
    BY <1>0 DEF RunType
  <2>5. QED
    BY <2>1, <2>2, <2>3, <2>4, WorkerKeeps DEF run
<1>3. CASE EmitRest(s)
  <2> DEFINE changed == [run EXCEPT !.half = @ + 1, !.stage = AfterEmit(@)]
  <2>1. run.result = "none" /\ Alive(s) /\ ~Whole(s)
    BY <1>3, <1>r DEF EmitRest, ResultLast
  <2>2. AfterEmit(run.stage) \in Stages /\ AfterEmit(run.stage) # "wrote"
    BY <1>0, <1>r, <2>1 DEF RunType, Stages, AfterEmit, ResultLast
  <2>3. changed \in RunType
    BY <1>0, <2>2, HalfMore
  <2>4. changed.half % 2 = 0
    BY <1>0, <1>1, <2>1 DEF Whole, RunType
  <2>5. changed.op = run.op /\ changed.stage = AfterEmit(run.stage) /\ changed.result = run.result
    BY <1>0 DEF RunType
  <2>6. Step(s, changed)
    BY <1>3 DEF EmitRest
  <2> HIDE DEF changed
  <2>7. QED
    BY <2>1, <2>2, <2>3, <2>4, <2>5, <2>6, WorkerKeeps
<1>4. ASSUME NEW result \in Results \ {"none"}, run.stage \in {"launched", "working", "finished"},
             Whole(s), Step(s, [run EXCEPT !.result = result, !.stage = "wrote"])
      PROVE  RunInv'
  <2> DEFINE changed == [run EXCEPT !.result = result, !.stage = "wrote"]
  <2>1. changed \in RunType
    BY <1>0 DEF RunType, Stages
  <2>2. changed.op = run.op /\ changed.stage = "wrote" /\ changed.result = result
        /\ changed.half = run.half
    BY <1>0 DEF RunType
  <2>3. run.result = "none" /\ Alive(s) /\ run.half % 2 = 0
    BY <1>4, <1>r DEF ResultLast, Alive, Whole
  <2>4. Step(s, changed)
    BY <1>4
  <2> HIDE DEF changed
  <2>5. QED
    BY <2>1, <2>2, <2>3, <2>4, WorkerKeeps
<1>5. CASE Refuse(s)
  <2>1. run.half % 2 = 0
    BY <1>5 DEF Refuse
  <2>2. QED
    BY <1>4, <1>5, <2>1 DEF Refuse, Results, Whole
<1>6. CASE SeeCancel(s)
    BY <1>4, <1>6 DEF SeeCancel, Results
<1>7. CASE OperationFails(s)
    BY <1>4, <1>7 DEF OperationFails, Results
<1>8. CASE WriteResult(s)
    BY <1>4, <1>8, <1>r DEF WriteResult, Results, ResultLast
<1>9. ASSUME NEW stage \in {"returned", "dead"}, Alive(s), stage = "returned" => run.result = "none",
             Step(s, [run EXCEPT !.stage = stage])
      PROVE  RunInv'
  <2> DEFINE changed == [run EXCEPT !.stage = stage]
  <2>1. changed \in RunType
    BY <1>0 DEF RunType, Stages
  <2>2. changed.op = run.op /\ changed.stage = stage /\ changed.result = run.result
        /\ changed.half = run.half
    BY <1>0 DEF RunType
  <2>3. run.result # "none" => stage = "dead" /\ run.half % 2 = 0
    BY <1>9, <1>r DEF ResultLast, Whole
  <2>4. Step(s, changed)
    BY <1>9
  <2> HIDE DEF changed
  <2>5. QED
    BY <1>9, <2>1, <2>2, <2>3, <2>4, WorkerKeeps
<1>10. CASE Return(s)
    BY <1>9, <1>10, <1>r DEF Return, Alive, ResultLast
<1>11. CASE Exit(s)
    BY <1>9, <1>11 DEF Exit, Alive
<1>12. CASE KillWorker(s)
    BY <1>9, <1>12 DEF KillWorker
<1>13. QED
    BY <1>2, <1>3, <1>5, <1>6, <1>7, <1>8, <1>10, <1>11, <1>12 DEF Worker

\* The client follows runs: those of the steps that leave the directories alone but for
\* a fresh one or a cancel file.
LEMMA ClientFacts ==
    ASSUME RunInv
    PROVE  /\ client = [running |-> client.running, run |-> client.run, resumed |-> client.resumed,
                        at |-> client.at, lines |-> client.lines, exited |-> client.exited,
                        pc |-> client.pc]
           /\ client.run \in Slots \cup {NoSlot} /\ client.at \in Nat /\ client.lines \in Nat
           /\ client.pc # "wait" => client.run \in Slots
           /\ client.running => client.run \in Slots
           /\ \A s \in Slots : runs[s] \in RunType /\ runs[s].half \in Nat
BY DEF RunInv, RunTypeOK, ClientType, ClientInv, RunType

LEMMA StartPreserves ==
    ASSUME RunInv, NEW s \in Slots, NEW op \in Ops, NEW argument \in Arguments \cup {NoArgument},
           Start(s, op, argument)
    PROVE  RunInv'
<1> DEFINE fresh == Fresh(op, argument, "launched")
<1>1. /\ runs' = [runs EXCEPT ![s] = fresh]
      /\ client' = Follow(s, FALSE) /\ record' = s /\ answer' = NoAnswer
    BY DEF Start
<1>2. fresh.stage = "launched" /\ fresh.half = 0 /\ fresh.result = "none"
    BY DEF Fresh
<1>3. fresh \in RunType
    BY DEF Fresh, RunType, Ops, Stages, Results
<1> HIDE DEF fresh
<1>4. runs' \in [Slots -> RunType] /\ runs'[s] = fresh /\ \A t \in Slots \ {s} : runs'[t] = runs[t]
    BY <1>1, <1>3 DEF RunInv, RunTypeOK
<1>5. client' = [running |-> TRUE, run |-> s, resumed |-> FALSE, at |-> 0, lines |-> 0,
                 exited |-> FALSE, pc |-> "wait"]
    BY <1>1 DEF Follow, IdleClient
<1>6. RunTypeOK'
  <2>1. client' \in ClientType
    BY <1>5 DEF ClientType
  <2>2. answer' \in AnswerType
    BY <1>1 DEF AnswerType, NoAnswer
  <2>3. QED
    BY <1>1, <1>4, <2>1, <2>2 DEF RunTypeOK
<1>7. ResultLast'
    BY <1>2, <1>4 DEF RunInv, ResultLast, Whole
<1>8. ClientInv' /\ ExitedInv'
    BY <1>5, SlotsAssumption DEF ClientInv, ExitedInv
<1>9. AnswerInv'
    BY <1>1 DEF AnswerInv, NoAnswer, EventsBeforeTheAnswer, NoResultIsFinal
<1>10. QED
    BY <1>6, <1>7, <1>8, <1>9 DEF RunInv

LEMMA ResumePreserves == RunInv /\ Resume => RunInv'
<1> SUFFICES ASSUME RunInv, Resume PROVE RunInv'
    OBVIOUS
<1>1. /\ record \in Slots /\ runs' = runs /\ record' = record /\ answer' = NoAnswer
      /\ client' = [running |-> TRUE, run |-> record, resumed |-> TRUE, at |-> 0, lines |-> 0,
                    exited |-> FALSE, pc |-> "wait"]
    BY DEF Resume, Follow, IdleClient, RunInv, RunTypeOK
<1>2. RunTypeOK'
    BY <1>1 DEF RunInv, RunTypeOK, ClientType, AnswerType, NoAnswer
<1>3. ResultLast'
    BY <1>1 DEF RunInv, ResultLast, Whole
<1>4. ClientInv' /\ ExitedInv'
    BY <1>1, SlotsAssumption DEF ClientInv, ExitedInv
<1>5. AnswerInv'
    BY <1>1 DEF AnswerInv, NoAnswer, EventsBeforeTheAnswer, NoResultIsFinal
<1>6. QED
    BY <1>2, <1>3, <1>4, <1>5 DEF RunInv

LEMMA CancelPreserves == RunInv /\ Cancel => RunInv'
<1> SUFFICES ASSUME RunInv, Cancel PROVE RunInv'
    OBVIOUS
<1> DEFINE asked == [runs[client.run] EXCEPT !.cancel = TRUE]
<1>1. /\ client.run \in Slots /\ runs' = [runs EXCEPT ![client.run] = asked]
      /\ UNCHANGED <<record, client, answer>>
    BY ClientFacts DEF Cancel
<1>2. asked \in RunType
    BY <1>1, ClientFacts DEF RunType
<1>3. /\ asked.stage = runs[client.run].stage /\ asked.half = runs[client.run].half
      /\ asked.result = runs[client.run].result
    BY <1>1, ClientFacts DEF RunType
<1> HIDE DEF asked
<1>4. runs' \in [Slots -> RunType]
    BY <1>1, <1>2 DEF RunInv, RunTypeOK
<1>5. \A t \in Slots : /\ runs'[t].stage = runs[t].stage /\ runs'[t].half = runs[t].half
                       /\ runs'[t].result = runs[t].result
    BY <1>1, <1>3 DEF RunInv, RunTypeOK
<1>6. RunTypeOK'
    BY <1>1, <1>4 DEF RunInv, RunTypeOK
<1>7. ResultLast'
    BY <1>5 DEF RunInv, ResultLast, Whole
<1>8. ClientInv' /\ ExitedInv'
    BY <1>1, <1>5, ClientFacts DEF RunInv, ClientInv, ExitedInv, Alive
<1>9. AnswerInv'
    BY <1>1, <1>5 DEF RunInv, AnswerInv, EventsBeforeTheAnswer, NoResultIsFinal, Alive,
                      RunTypeOK, AnswerType
<1>10. QED
    BY <1>6, <1>7, <1>8, <1>9 DEF RunInv

\* What a read of the events leaves the client with.
LEMMA ReadFacts ==
    ASSUME RunInv, client.run \in Slots
    PROVE  /\ ReadEvents.lines = runs[client.run].half \div 2
           /\ ReadEvents.at = runs[client.run].half
           /\ ReadEvents \in ClientType
           /\ ReadEvents.running = client.running /\ ReadEvents.run = client.run
           /\ ReadEvents.resumed = client.resumed /\ ReadEvents.exited = client.exited
<1> DEFINE half == runs[client.run].half
           read == client.lines + half \div 2 - client.at \div 2
<1>1. half \in Nat /\ client.at \in Nat /\ client.lines \in Nat
    BY ClientFacts
<1>2. client.lines = client.at \div 2
    BY DEF RunInv, ClientInv
<1>3. read = half \div 2 /\ read \in Nat
  <2>1. half \div 2 \in Nat /\ client.at \div 2 \in Nat
    BY <1>1
  <2>2. QED
    BY <1>2, <2>1
<1>4. client \in ClientType
    BY DEF RunInv, RunTypeOK
<1> DEFINE counted == [client EXCEPT !.at = half]
<1>5. counted \in ClientType /\ [counted EXCEPT !.lines = read] \in ClientType
    BY <1>1, <1>3, <1>4 DEF ClientType
<1>6. ReadEvents = [counted EXCEPT !.lines = read]
    BY DEF ReadEvents
<1>7. /\ ReadEvents.lines = read /\ ReadEvents.at = half
      /\ ReadEvents.running = client.running /\ ReadEvents.run = client.run
      /\ ReadEvents.resumed = client.resumed /\ ReadEvents.exited = client.exited
    BY <1>4, <1>6 DEF ClientType
<1>8. QED
    BY <1>3, <1>5, <1>6, <1>7

\* The last read of the events, and the answer told with it.
LEMMA FinishPreserves ==
    ASSUME RunInv, client.run \in Slots, NEW kind \in {"worker", "worker_no_result"}, Finish(kind),
           kind = "worker" => runs[client.run].result # "none",
           kind = "worker_no_result" => ~Alive(client.run) /\ runs[client.run].result = "none"
    PROVE  RunInv'
<1>1. /\ answer' = [run |-> client.run, kind |-> kind, lines |-> runs[client.run].half \div 2]
      /\ client' = IdleClient /\ record' = NoSlot /\ runs' = runs
    BY ReadFacts DEF Finish
<1>2. runs[client.run].half \div 2 \in Nat
    BY ClientFacts
<1>3. RunTypeOK'
    BY <1>1, <1>2 DEF RunInv, RunTypeOK, ClientType, AnswerType, IdleClient
<1>4. ResultLast'
    BY <1>1 DEF RunInv, ResultLast, Whole
<1>5. ClientInv' /\ ExitedInv'
    BY <1>1 DEF ClientInv, ExitedInv, IdleClient
<1>6. AnswerInv'
    BY <1>1, SlotsAssumption DEF AnswerInv, EventsBeforeTheAnswer, NoResultIsFinal, Alive
<1>7. QED
    BY <1>3, <1>4, <1>5, <1>6 DEF RunInv

\* A look that changes only what the client knows.
LEMMA LookPreserves ==
    ASSUME RunInv, UNCHANGED <<runs, record, answer>>, client' \in ClientType,
           client.run \in Slots, client'.run = client.run, client'.running, client.running,
           client'.lines = client'.at \div 2,
           ExitedInv'
    PROVE  RunInv'
<1>1. RunTypeOK' /\ ResultLast'
    BY DEF RunInv, RunTypeOK, ResultLast, Whole
<1>2. ClientInv'
    BY SlotsAssumption DEF ClientInv
<1>3. AnswerInv'
    BY DEF RunInv, AnswerInv, EventsBeforeTheAnswer, NoResultIsFinal, Alive
<1>4. QED
    BY <1>1, <1>2, <1>3 DEF RunInv

LEMMA PollEventsPreserves == RunInv /\ PollEvents => RunInv'
<1> SUFFICES ASSUME RunInv, PollEvents PROVE RunInv'
    OBVIOUS
<1>1. client.running /\ client.run \in Slots /\ UNCHANGED <<runs, record, answer>>
    BY ClientFacts DEF PollEvents
<1> DEFINE read == ReadEvents
<1>2. client' = [read EXCEPT !.pc = "result"]
    BY DEF PollEvents
<1>3. /\ read.lines = read.at \div 2 /\ read \in ClientType /\ read.running = client.running
      /\ read.run = client.run /\ read.resumed = client.resumed /\ read.exited = client.exited
    BY <1>1, ReadFacts
<1> HIDE DEF read
<1>4. /\ client' \in ClientType /\ client'.run = client.run /\ client'.running
      /\ client'.lines = client'.at \div 2 /\ client'.exited = client.exited
      /\ client'.pc = "result"
    BY <1>1, <1>2, <1>3 DEF ClientType
<1>5. ExitedInv'
    BY <1>1, <1>4 DEF RunInv, ExitedInv, Alive
<1>6. QED
    BY <1>1, <1>4, <1>5, LookPreserves

LEMMA PollResultPreserves == RunInv /\ PollResult => RunInv'
<1> SUFFICES ASSUME RunInv, PollResult PROVE RunInv'
    OBVIOUS
<1>1. client.run \in Slots /\ client.running
    BY ClientFacts DEF PollResult, RunInv, ClientInv
<1>2. CASE runs[client.run].result # "none"
    BY <1>1, <1>2, FinishPreserves DEF PollResult
<1>3. CASE runs[client.run].result = "none"
  <2> DEFINE next == IF client.resumed THEN "wait" ELSE "process"
  <2>1. client' = [client EXCEPT !.pc = next] /\ UNCHANGED <<runs, record, answer>>
    BY <1>3 DEF PollResult
  <2>2. next \in {"wait", "process"} /\ (next = "process" => ~client.resumed)
    OBVIOUS
  <2> HIDE DEF next
  <2>3. /\ client' \in ClientType /\ client'.run = client.run /\ client'.running
        /\ client'.at = client.at /\ client'.lines = client.lines
        /\ client'.exited = client.exited /\ client'.pc = next /\ client'.resumed = client.resumed
    BY <1>1, <2>1, <2>2 DEF RunInv, RunTypeOK, ClientType
  <2>4. ExitedInv'
    BY <1>3, <2>1, <2>2, <2>3 DEF RunInv, ExitedInv, Alive
  <2>5. client'.lines = client'.at \div 2
    BY <2>3 DEF RunInv, ClientInv
  <2>6. QED
    BY <1>1, <2>1, <2>3, <2>4, <2>5, LookPreserves
<1>4. QED
    BY <1>2, <1>3

LEMMA PollProcessPreserves == RunInv /\ PollProcess => RunInv'
<1> SUFFICES ASSUME RunInv, PollProcess PROVE RunInv'
    OBVIOUS
<1>1. client.run \in Slots /\ client.running /\ client.pc = "process"
    BY ClientFacts DEF PollProcess, RunInv, ClientInv
<1>2. CASE ~Alive(client.run) /\ client.exited
    BY <1>1, <1>2, FinishPreserves DEF PollProcess, RunInv, ExitedInv
<1>3. CASE ~(~Alive(client.run) /\ client.exited)
  <2> DEFINE seen == client.exited \/ ~Alive(client.run)
  <2>1. client' = [client EXCEPT !.pc = "wait", !.exited = seen] /\ UNCHANGED <<runs, record, answer>>
    BY <1>3 DEF PollProcess
  <2>2. seen \in BOOLEAN /\ (seen => ~Alive(client.run))
    BY DEF RunInv, ExitedInv
  <2> HIDE DEF seen
  <2>3. /\ client' \in ClientType /\ client'.run = client.run /\ client'.running
        /\ client'.at = client.at /\ client'.lines = client.lines
        /\ client'.exited = seen /\ client'.pc = "wait"
    BY <1>1, <2>1, <2>2 DEF RunInv, RunTypeOK, ClientType
  <2>4. ExitedInv'
    BY <2>1, <2>2, <2>3 DEF ExitedInv, Alive
  <2>5. client'.lines = client'.at \div 2
    BY <2>3 DEF RunInv, ClientInv
  <2>6. QED
    BY <1>1, <2>1, <2>3, <2>4, <2>5, LookPreserves
<1>4. QED
    BY <1>2, <1>3

LEMMA ClientRestartsPreserves == RunInv /\ ClientRestarts => RunInv'
<1> SUFFICES ASSUME RunInv, ClientRestarts PROVE RunInv'
    OBVIOUS
<1>1. client' = IdleClient /\ answer' = NoAnswer /\ UNCHANGED <<runs, record>>
    BY DEF ClientRestarts
<1>2. RunTypeOK' /\ ResultLast'
    BY <1>1 DEF RunInv, RunTypeOK, ClientType, AnswerType, IdleClient, NoAnswer, ResultLast, Whole
<1>3. ClientInv' /\ ExitedInv' /\ AnswerInv'
    BY <1>1 DEF ClientInv, ExitedInv, AnswerInv, IdleClient, NoAnswer, EventsBeforeTheAnswer,
                NoResultIsFinal
<1>4. QED
    BY <1>2, <1>3 DEF RunInv

LEMMA StutterPreserves == RunInv /\ UNCHANGED runVars => RunInv'
BY DEF runVars, RunInv, RunTypeOK, ResultLast, Whole, ClientInv, ExitedInv, Alive, AnswerInv,
       EventsBeforeTheAnswer, NoResultIsFinal

LEMMA RunInvPreserved == RunInv /\ [RunNext]_runVars => RunInv'
BY WorkerPreserves, StartPreserves, ResumePreserves, CancelPreserves, PollEventsPreserves,
   PollResultPreserves, PollProcessPreserves, ClientRestartsPreserves, StutterPreserves
   DEF RunNext, Poll

\* The invariant holds in every state of every run of the worker and its client.
THEOREM RunInvariant == RunSpec => []RunInv
<1>1. RunInit => RunInv
    BY RunInvInitially
<1>2. RunInv /\ [RunNext]_runVars => RunInv'
    BY RunInvPreserved
<1>3. QED
    BY <1>1, <1>2, PTL DEF RunSpec

\* The answer of a worker comes after every event it wrote, for any number of events,
\* polls, restarts and runs (worker.py's order of writing, _finish's last read).
THEOREM AnswersComeLast == RunSpec => []EventsBeforeTheAnswer
<1>1. RunInv => EventsBeforeTheAnswer
    BY DEF RunInv, AnswerInv
<1>2. QED
    BY <1>1, RunInvariant, PTL

\* A run said to have ended without a result has none and is over: the grace period of
\* _poll throws no answer away.
THEOREM SilenceIsFinal == RunSpec => []NoResultIsFinal
<1>1. RunInv => NoResultIsFinal
    BY DEF RunInv, AnswerInv
<1>2. QED
    BY <1>1, RunInvariant, PTL

------------------------------------------------------------------------------
(* The refinement: a run directory and its client are a service call.      *)

\* What the abstract call makes of the directories, one at a time.
LEMMA CallsFacts ==
    /\ \A s \in Slots : Calls[s] = [op |-> runs[s].op, argument |-> runs[s].argument,
                                    outcome |-> Outcome(s), cancel |-> runs[s].cancel]
    /\ \A s \in Slots : Calls'[s] = [op |-> runs'[s].op, argument |-> runs'[s].argument,
                                     outcome |-> Outcome(s)', cancel |-> runs'[s].cancel]
    /\ DOMAIN Calls = Slots /\ DOMAIN Calls' = Slots
BY DEF Calls

LEMMA CallBegins == RunInit => Call!CallInit
BY DEF RunInit, EmptyRun, Fresh, IdleClient, NoAnswer, Call!CallInit, Call!NoCall, Call!Asked,
       Call!NotFollowing, Call!NothingTold, Calls, Followed, Told, Outcome, Alive

\* What a step of a worker does to its directory, as far as the call shows it.
WorkerMove(s, changed) ==
    /\ Alive(s) /\ Step(s, changed)
    /\ changed.op = runs[s].op /\ changed.argument = runs[s].argument
    /\ changed.cancel = runs[s].cancel
    /\ runs[s].result # "none" => changed.result = runs[s].result
    /\ changed.result = "cancelled" /\ runs[s].result # "cancelled"
            => runs[s].cancel /\ runs[s].op \in LongOps

\* A step of a worker gives its call an outcome, or the call does not show it.
LEMMA WorkerIsCall ==
    ASSUME RunInv, RunInv', NEW s \in Slots, Worker(s)
    PROVE  Call!End(s) \/ UNCHANGED Call!callVars
<1> DEFINE run == runs[s]
<1>1. \E changed : WorkerMove(s, changed)
  <2>0. run \in RunType /\ ResultLast
    BY DEF RunInv, RunTypeOK
  <2>1. CASE EmitHalf(s)
    <3>1. /\ [run EXCEPT !.half = @ + 1].op = run.op
          /\ [run EXCEPT !.half = @ + 1].argument = run.argument
          /\ [run EXCEPT !.half = @ + 1].cancel = run.cancel
          /\ [run EXCEPT !.half = @ + 1].result = run.result
      BY <2>0 DEF RunType
    <3>2. Step(s, [run EXCEPT !.half = @ + 1]) /\ Alive(s)
      BY <2>1 DEF EmitHalf, Alive
    <3>3. QED
      BY <3>1, <3>2 DEF WorkerMove
  <2>2. CASE EmitRest(s)
    <3> DEFINE changed == [run EXCEPT !.half = @ + 1, !.stage = AfterEmit(@)]
    <3>1. /\ changed.op = run.op /\ changed.argument = run.argument
          /\ changed.cancel = run.cancel /\ changed.result = run.result
      BY <2>0 DEF RunType
    <3>2. Step(s, changed) /\ Alive(s)
      BY <2>2 DEF EmitRest
    <3>3. QED
      BY <3>1, <3>2 DEF WorkerMove
  <2>3. ASSUME NEW result \in Results, run.stage \in {"launched", "working", "finished"},
               result = "cancelled" => run.cancel /\ run.op \in LongOps,
               Step(s, [run EXCEPT !.result = result, !.stage = "wrote"])
        PROVE  \E changed : WorkerMove(s, changed)
    <3> DEFINE changed == [run EXCEPT !.result = result, !.stage = "wrote"]
    <3>1. /\ changed.op = run.op /\ changed.argument = run.argument
          /\ changed.cancel = run.cancel /\ changed.result = result
      BY <2>0 DEF RunType
    <3>2. Step(s, changed) /\ Alive(s) /\ run.result = "none"
      BY <2>0, <2>3 DEF ResultLast, Alive
    <3> HIDE DEF changed
    <3>3. QED
      BY <2>3, <3>1, <3>2 DEF WorkerMove
  <2>4. CASE Refuse(s)
    BY <2>3, <2>4 DEF Refuse, Results
  <2>5. CASE SeeCancel(s)
    BY <2>3, <2>5 DEF SeeCancel, Results
  <2>6. CASE OperationFails(s)
    BY <2>3, <2>6 DEF OperationFails, Results
  <2>7. CASE WriteResult(s)
    BY <2>3, <2>7 DEF WriteResult, Results
  <2>8. ASSUME NEW stage \in {"returned", "dead"}, Alive(s), Step(s, [run EXCEPT !.stage = stage])
        PROVE  \E changed : WorkerMove(s, changed)
    <3> DEFINE changed == [run EXCEPT !.stage = stage]
    <3>1. /\ changed.op = run.op /\ changed.argument = run.argument
          /\ changed.cancel = run.cancel /\ changed.result = run.result
      BY <2>0 DEF RunType
    <3>2. Step(s, changed)
      BY <2>8
    <3> HIDE DEF changed
    <3>3. QED
      BY <2>8, <3>1, <3>2 DEF WorkerMove
  <2>9. CASE Return(s)
    BY <2>8, <2>9 DEF Return, Alive
  <2>10. CASE Exit(s)
    BY <2>8, <2>10 DEF Exit, Alive
  <2>11. CASE KillWorker(s)
    BY <2>8, <2>11 DEF KillWorker
  <2>12. QED
    BY <2>1, <2>2, <2>4, <2>5, <2>6, <2>7, <2>9, <2>10, <2>11 DEF Worker
<1> PICK changed : WorkerMove(s, changed)
    BY <1>1
<1>2. /\ UNCHANGED <<record, client, answer>> /\ runs \in [Slots -> RunType]
      /\ runs'[s] = changed /\ \A t \in Slots \ {s} : runs'[t] = runs[t]
    BY DEF WorkerMove, Step, RunInv, RunTypeOK
<1>3. Followed' = Followed
    BY <1>2 DEF Followed
<1>4. Told' = Told
    BY <1>2 DEF WorkerMove, Told, RunInv, AnswerInv, RunTypeOK, AnswerType
<1>5. \A t \in Slots \ {s} : Calls'[t] = Calls[t]
    BY <1>2, CallsFacts DEF Outcome, Alive
<1>6. CASE Outcome(s)' = Outcome(s)
  <2>1. Calls' = Calls
    BY <1>2, <1>5, <1>6 DEF WorkerMove, Calls, Outcome, Alive
  <2>2. QED
    BY <1>2, <1>3, <1>4, <2>1 DEF Call!callVars
<1>7. CASE Outcome(s)' # Outcome(s)
  <2>1. Outcome(s) = "running" /\ run.result = "none"
    BY <1>2, <1>7 DEF WorkerMove, Outcome, Alive
  <2>2. Outcome(s)' \in Call!Outcomes \ {"running"}
    BY <1>7, <2>1 DEF Outcome, Call!Outcomes, RunInv, RunTypeOK, RunType, Results
  <2>3. Outcome(s)' = "cancelled" => run.cancel /\ run.op \in LongOps
    BY <1>2, <2>1 DEF WorkerMove, Outcome
  <2>4. Calls' = [Calls EXCEPT ![s].outcome = Outcome(s)']
    BY <1>2, <1>5 DEF WorkerMove, Calls
  <2>5. Calls[s].outcome = "running" /\ Calls[s].cancel = run.cancel /\ Calls[s].op = run.op
    BY <2>1, CallsFacts
  <2>6. QED
    BY <1>2, <1>3, <1>4, <2>2, <2>3, <2>4, <2>5 DEF Call!End
<1>8. QED
    BY <1>6, <1>7

\* A finished poll tells the outcome of the run followed.
LEMMA FinishIsTell ==
    ASSUME RunInv, client.run \in Slots, NEW kind \in {"worker", "worker_no_result"}, Finish(kind),
           kind = "worker" => runs[client.run].result # "none",
           kind = "worker_no_result" => /\ ~Alive(client.run) /\ runs[client.run].result = "none"
                                        /\ ~client.resumed
    PROVE  Call!Tell
<1> DEFINE run == client.run
<1>1. /\ answer' = [run |-> run, kind |-> kind, lines |-> ReadEvents.lines]
      /\ client' = IdleClient /\ record' = NoSlot /\ runs' = runs
    BY DEF Finish
<1>2. runs[run].result \in Results
    BY DEF RunInv, RunTypeOK, RunType
<1>3. Outcome(run) = IF kind = "worker" THEN runs[run].result ELSE "silent"
    BY DEF Outcome
<1>4. Outcome(run) # "running" /\ (client.resumed => Outcome(run) # "silent")
    BY <1>2, <1>3 DEF Results
<1>5. Calls[run].outcome = Outcome(run)
    BY CallsFacts
<1>6. Calls' = Calls
    BY <1>1 DEF Calls, Outcome, Alive
<1>7. Followed' = Call!NotFollowing
    BY <1>1 DEF Followed, IdleClient, Call!NotFollowing
<1>8. Told' = [run |-> run, outcome |-> Outcome(run)]
    BY <1>1, <1>3 DEF Told
<1>9. Followed.run = run /\ Followed.resumed = client.resumed
    BY DEF Followed
<1>10. Call!Running
    BY <1>9, SlotsAssumption DEF Call!Running
<1>11. QED
    BY <1>1, <1>4, <1>5, <1>6, <1>7, <1>8, <1>9, <1>10 DEF Call!Tell

\* A look at the files that finishes nothing is nothing to the call.
LEMMA LookIsNothing ==
    ASSUME UNCHANGED <<runs, record, answer>>, client'.run = client.run,
           client'.resumed = client.resumed
    PROVE  UNCHANGED Call!callVars
BY DEF Call!callVars, Calls, Outcome, Alive, Followed, Told

LEMMA PollIsCall == RunInv /\ Poll => Call!Tell \/ UNCHANGED Call!callVars
<1> SUFFICES ASSUME RunInv, Poll PROVE Call!Tell \/ UNCHANGED Call!callVars
    OBVIOUS
<1>0. client \in ClientType
    BY DEF RunInv, RunTypeOK
<1>1. CASE PollEvents
  <2>1. client.run \in Slots /\ UNCHANGED <<runs, record, answer>>
    BY <1>1, ClientFacts DEF PollEvents
  <2> DEFINE read == ReadEvents
  <2>2. client' = [read EXCEPT !.pc = "result"]
    BY <1>1 DEF PollEvents
  <2>3. read \in ClientType /\ read.run = client.run /\ read.resumed = client.resumed
    BY <2>1, ReadFacts
  <2> HIDE DEF read
  <2>4. client'.run = client.run /\ client'.resumed = client.resumed
    BY <2>2, <2>3 DEF ClientType
  <2>5. QED
    BY <2>1, <2>4, LookIsNothing
<1>2. CASE PollResult
  <2>1. client.run \in Slots
    BY <1>2, ClientFacts DEF PollResult
  <2>2. CASE runs[client.run].result # "none"
    BY <1>2, <2>1, <2>2, FinishIsTell DEF PollResult
  <2>3. CASE runs[client.run].result = "none"
    <3> DEFINE next == IF client.resumed THEN "wait" ELSE "process"
    <3>1. client' = [client EXCEPT !.pc = next] /\ UNCHANGED <<runs, record, answer>>
      BY <1>2, <2>3 DEF PollResult
    <3> HIDE DEF next
    <3>2. client'.run = client.run /\ client'.resumed = client.resumed
      BY <1>0, <3>1 DEF ClientType
    <3>3. QED
      BY <3>1, <3>2, LookIsNothing
  <2>4. QED
    BY <2>2, <2>3
<1>3. CASE PollProcess
  <2>1. client.run \in Slots /\ ~client.resumed
    BY <1>3, ClientFacts DEF PollProcess, RunInv, ExitedInv
  <2>2. CASE ~Alive(client.run) /\ client.exited
    <3>1. runs[client.run].result = "none" /\ Finish("worker_no_result")
      BY <1>3, <2>2 DEF PollProcess, RunInv, ExitedInv
    <3>2. QED
      BY <2>1, <2>2, <3>1, FinishIsTell
  <2>3. CASE ~(~Alive(client.run) /\ client.exited)
    <3> DEFINE seen == client.exited \/ ~Alive(client.run)
    <3>1. client' = [client EXCEPT !.pc = "wait", !.exited = seen] /\ UNCHANGED <<runs, record, answer>>
      BY <1>3, <2>3 DEF PollProcess
    <3> HIDE DEF seen
    <3>2. client'.run = client.run /\ client'.resumed = client.resumed
      BY <1>0, <3>1 DEF ClientType
    <3>3. QED
      BY <3>1, <3>2, LookIsNothing
  <2>4. QED
    BY <2>2, <2>3
<1>4. QED
    BY <1>1, <1>2, <1>3 DEF Poll

LEMMA StartIsCall ==
    ASSUME RunInv, NEW s \in Slots, NEW op \in Ops, NEW argument \in Arguments \cup {NoArgument},
           Start(s, op, argument)
    PROVE  Call!CallStart(s, op, argument)
<1>1. /\ ~client.running /\ Forgotten(s) /\ record' = s
      /\ client' = Follow(s, FALSE) /\ answer' = NoAnswer
      /\ runs' = [runs EXCEPT ![s] = Fresh(op, argument, "launched")]
      /\ runs \in [Slots -> RunType]
    BY DEF Start, RunInv, RunTypeOK
<1>2. client.run = NoSlot
    BY <1>1 DEF RunInv, ClientInv
<1>3. ~Call!Running
    BY <1>2 DEF Call!Running, Followed
<1>4. Calls[s].outcome # "running"
  <2>1. ~Alive(s) /\ runs[s].result \in Results
    BY <1>1 DEF Forgotten, RunType
  <2>2. Outcome(s) # "running"
    BY <2>1 DEF Outcome, Results
  <2>3. QED
    BY <2>2, CallsFacts
<1>5. Call!CallForgotten(s)
    BY <1>1, <1>4 DEF Call!CallForgotten, Forgotten, Followed, Told
<1>6. runs'[s] = Fresh(op, argument, "launched") /\ \A t \in Slots \ {s} : runs'[t] = runs[t]
    BY <1>1
<1>7. Outcome(s)' = "running"
    BY <1>6 DEF Outcome, Alive, Fresh
<1>8. Calls' = [Calls EXCEPT ![s] = Call!Asked(op, argument, "running")]
  <2>1. Calls'[s] = Call!Asked(op, argument, "running")
    BY <1>6, <1>7, CallsFacts DEF Fresh, Call!Asked
  <2>2. \A t \in Slots \ {s} : Calls'[t] = Calls[t]
    BY <1>6, CallsFacts DEF Outcome, Alive
  <2>3. QED
    BY <2>1, <2>2, CallsFacts DEF Calls
<1>9. Followed' = [run |-> s, resumed |-> FALSE] /\ Told' = Call!NothingTold
    BY <1>1 DEF Followed, Follow, IdleClient, Told, NoAnswer, Call!NothingTold
<1>10. QED
    BY <1>1, <1>3, <1>5, <1>8, <1>9 DEF Call!CallStart

LEMMA ResumeIsCall == RunInv /\ Resume => Call!CallResume
BY DEF RunInv, ClientInv, Resume, Follow, IdleClient, NoAnswer, Call!CallResume, Call!Running,
       Call!NothingTold, Calls, Outcome, Alive, Followed, Told

\* A cancel file changes that field of a call and no other.
LEMMA CancelField ==
    ASSUME NEW op, NEW argument, NEW outcome, NEW cancel \in BOOLEAN,
           NEW call, call = [op |-> op, argument |-> argument, outcome |-> outcome, cancel |-> cancel]
    PROVE  [call EXCEPT !.cancel = TRUE]
            = [op |-> op, argument |-> argument, outcome |-> outcome, cancel |-> TRUE]
<1> DEFINE left == [call EXCEPT !.cancel = TRUE]
           right == [op |-> op, argument |-> argument, outcome |-> outcome, cancel |-> TRUE]
<1>1. DOMAIN left = {"op", "argument", "outcome", "cancel"} /\ left = [x \in DOMAIN left |-> left[x]]
    OBVIOUS
<1>2. DOMAIN right = {"op", "argument", "outcome", "cancel"} /\ right = [x \in DOMAIN right |-> right[x]]
    OBVIOUS
<1>3. /\ left["op"] = right["op"] /\ left["argument"] = right["argument"]
      /\ left["outcome"] = right["outcome"]
    OBVIOUS
<1>4. left["cancel"] = TRUE
    OBVIOUS
<1>5. right["cancel"] = TRUE
    OBVIOUS
<1> HIDE DEF left, right
<1>6. left = right
    BY <1>1, <1>2, <1>3, <1>4, <1>5
<1>7. QED
    BY <1>6 DEF left, right

LEMMA CancelIsCall == RunInv /\ Cancel => Call!CallCancel
<1> SUFFICES ASSUME RunInv, Cancel PROVE Call!CallCancel
    OBVIOUS
<1> DEFINE run == client.run
           asked == [runs[run] EXCEPT !.cancel = TRUE]
<1>1. /\ run \in Slots /\ runs[run] \in RunType /\ runs' = [runs EXCEPT ![run] = asked]
      /\ UNCHANGED <<record, client, answer>> /\ runs \in [Slots -> RunType]
    BY ClientFacts DEF Cancel, RunInv, RunTypeOK
<1>2. /\ asked.op = runs[run].op /\ asked.argument = runs[run].argument /\ asked.cancel = TRUE
      /\ asked.stage = runs[run].stage /\ asked.result = runs[run].result
    BY <1>1 DEF RunType
<1> HIDE DEF asked
<1>3. runs'[run] = asked /\ \A t \in Slots \ {run} : runs'[t] = runs[t]
    BY <1>1
<1>4. \A t \in Slots : Outcome(t)' = Outcome(t)
    BY <1>2, <1>3 DEF Outcome, Alive
<1>5. Calls' = [Calls EXCEPT ![run].cancel = TRUE]
  <2>1. Calls'[run] = [Calls[run] EXCEPT !.cancel = TRUE]
    <3>1. Calls[run] = [op |-> runs[run].op, argument |-> runs[run].argument,
                        outcome |-> Outcome(run), cancel |-> runs[run].cancel]
      BY <1>1, CallsFacts
    <3>2. Calls'[run] = [op |-> runs[run].op, argument |-> runs[run].argument,
                         outcome |-> Outcome(run), cancel |-> TRUE]
      BY <1>1, <1>2, <1>3, <1>4, CallsFacts
    <3>3. runs[run].cancel \in BOOLEAN
      BY <1>1 DEF RunType
    <3>4. QED
      BY <3>1, <3>2, <3>3, CancelField
  <2>2. \A t \in Slots \ {run} : Calls'[t] = Calls[t]
    BY <1>3, <1>4, CallsFacts
  <2>3. QED
    BY <2>1, <2>2, CallsFacts DEF Calls
<1>6. Followed.run = run /\ Followed' = Followed
    BY <1>1 DEF Followed
<1>7. Told' = Told
  <2>1. answer.run \in Slots => runs'[answer.run].result = runs[answer.run].result
    BY <1>2, <1>3
  <2>2. QED
    BY <1>1, <2>1 DEF Told, RunInv, AnswerInv, RunTypeOK, AnswerType
<1>8. QED
    BY <1>1, <1>5, <1>6, <1>7, SlotsAssumption DEF Call!CallCancel, Call!Running

LEMMA RestartIsCall == ClientRestarts => Call!PanelRestarts
BY DEF ClientRestarts, IdleClient, NoAnswer, Call!PanelRestarts, Call!NotFollowing,
       Call!NothingTold, Calls, Outcome, Alive, Followed, Told

\* A step of the worker or of its client is a step of the call, or none.
LEMMA StepIsCall ==
    RunInv /\ RunInv' /\ [RunNext]_runVars => [Call!CallNext]_Call!callVars
<1> SUFFICES ASSUME RunInv, RunInv', [RunNext]_runVars PROVE [Call!CallNext]_Call!callVars
    OBVIOUS
<1>1. ASSUME NEW s \in Slots, Worker(s) PROVE [Call!CallNext]_Call!callVars
    BY <1>1, WorkerIsCall DEF Call!CallNext
<1>2. ASSUME NEW s \in Slots, NEW op \in Ops, NEW argument \in Arguments \cup {NoArgument},
             Start(s, op, argument)
      PROVE  [Call!CallNext]_Call!callVars
    BY <1>2, StartIsCall DEF Call!CallNext, Ops, Call!Ops
<1>3. CASE Resume
    BY <1>3, ResumeIsCall DEF Call!CallNext
<1>4. CASE Cancel
    BY <1>4, CancelIsCall DEF Call!CallNext
<1>5. CASE Poll
    BY <1>5, PollIsCall DEF Call!CallNext
<1>6. CASE ClientRestarts
    BY <1>6, RestartIsCall DEF Call!CallNext
<1>7. CASE UNCHANGED runVars
    BY <1>7 DEF runVars, Call!callVars, Calls, Outcome, Alive, Followed, Told
<1>8. QED
    BY <1>1, <1>2, <1>3, <1>4, <1>5, <1>6, <1>7 DEF RunNext

\* The worker and the polling client implement the call, for any directories, operations
\* and lengths: the panel's model may use the call in their place.
THEOREM ServiceRunRefines == RunSpec => ImplementsServiceCall
<1>1. RunInit => Call!CallInit
    BY CallBegins
<1>2. RunInv /\ RunInv' /\ [RunNext]_runVars => [Call!CallNext]_Call!callVars
    BY StepIsCall
<1>3. QED
    BY <1>1, <1>2, RunInvariant, PTL DEF RunSpec, ImplementsServiceCall, Call!CallSpec

------------------------------------------------------------------------------
(* The Level tab.                                                          *)

PanelInv == PanelTypeOK /\ AnswersItsOperation

CallType == [op : PanelOps \cup {"none"}, argument : Arguments \cup {NoArgument},
             outcome : Outcomes, cancel : BOOLEAN]
ItemType == [op : PanelOps \cup {"resume"}, level : Levels \cup {NoLevel}]

LEMMA PanelBegins == Init => PanelInv
<1> SUFFICES ASSUME Init PROVE PanelInv
  OBVIOUS
<1>1. calls \in [Slots -> CallType] /\ recorded = NoSlot /\ follow.run = NoSlot /\ told.run = NoSlot
  BY DEF Init, CallInit, NoCall, Asked, CallType, Outcomes, NotFollowing, NothingTold
<1>2. queue \in Seq(ItemType)
  BY DEF Init, Loads, Item, ItemType, PanelOps
<1>3. pending = "none" /\ level = NoLevel /\ layouts = NoLevel /\ last = NoLevel /\ enabled \subseteq Buttons
  BY DEF Init, Buttons
<1> QED
  BY <1>1, <1>2, <1>3 DEF PanelInv, PanelTypeOK, CallType, ItemType, AnswersItsOperation, Running

\* A click queues something and starts nothing; neither does a start that fails.
LEMMA ClickKeeps ==
    ASSUME PanelInv, Generate \/ Walk \/ \E at \in Levels : Open(at)
    PROVE  PanelInv'
<1>1. UNCHANGED callVars /\ pending' = pending /\ last' = last
  BY DEF Generate, Walk, Open, Click
<1>2. queue' \in Seq(ItemType)
  <2>1. queue \in Seq(ItemType) /\ level \in Levels \cup {NoLevel}
    BY DEF PanelInv, PanelTypeOK, ItemType
  <2>2. \E item \in ItemType : queue' = Append(queue, item)
    BY <2>1 DEF Generate, Walk, Open, Click, Item, ItemType, PanelOps
  <2> QED BY <2>1, <2>2
<1>3. {level', layouts', last'} \subseteq Levels \cup {NoLevel} /\ enabled' \subseteq Buttons
  BY DEF PanelInv, PanelTypeOK, Generate, Walk, Open, Click, Buttons
<1> QED
  BY <1>1, <1>2, <1>3 DEF PanelInv, PanelTypeOK, ItemType, AnswersItsOperation, Running, callVars

\* What is stopped or ends stays the operation it is.
LEMMA CallKeeps ==
    ASSUME PanelInv, Stop \/ CallEnds
    PROVE  PanelInv'
<1>1. UNCHANGED panelVars /\ UNCHANGED <<recorded, follow, told>>
  BY DEF Stop, CallEnds, CallCancel, End
<1>2. calls \in [Slots -> CallType]
  BY DEF PanelInv, PanelTypeOK, CallType
<1>3. calls' \in [Slots -> CallType] /\ \A s \in Slots : calls'[s].op = calls[s].op
  <2>1. CASE Stop
    <3>1. PICK s : s \in Slots /\ calls' = [calls EXCEPT ![s].cancel = TRUE]
      BY <2>1 DEF Stop, CallCancel, Running, PanelInv, PanelTypeOK
    <3> QED BY <1>2, <3>1 DEF CallType
  <2>2. CASE CallEnds
    <3>1. PICK s \in Slots : End(s)
      BY <2>2 DEF CallEnds
    <3>2. PICK end \in Outcomes : calls' = [calls EXCEPT ![s].outcome = end]
      BY <3>1 DEF End
    <3> QED BY <1>2, <3>2 DEF CallType
  <2> QED BY <2>1, <2>2
<1>4. Running => follow.run \in Slots
  BY DEF Running, PanelInv, PanelTypeOK
<1> QED
  BY <1>1, <1>3, <1>4 DEF PanelInv, PanelTypeOK, CallType, AnswersItsOperation, Running, panelVars

\* What the panel starts next, it gets the handler of.
LEMMA NextKeeps ==
    ASSUME PanelInv, StartFails \/ StartNext \/ Reattach \/ NothingToReattach
    PROVE  PanelInv'
<1>1. ~Running /\ queue # <<>> /\ queue' = Tail(queue) /\ UNCHANGED <<level, layouts, last>>
  BY DEF StartFails, StartNext, Reattach, NothingToReattach, Dispatching
<1>2. queue \in Seq(ItemType) /\ queue' \in Seq(ItemType) /\ Head(queue) \in ItemType
  <2>1. queue \in Seq(ItemType)
    BY DEF PanelInv, PanelTypeOK, ItemType
  <2> QED BY <1>1, <2>1
<1>3. calls \in [Slots -> CallType] /\ PanelInv
  BY DEF PanelInv, PanelTypeOK, CallType
<1>4. CASE StartFails \/ NothingToReattach
  <2>1. UNCHANGED callVars /\ pending' \in {"none", pending} /\ enabled' = enabled
    BY <1>4 DEF StartFails, NothingToReattach
  <2> QED BY <1>1, <1>2, <2>1 DEF PanelInv, PanelTypeOK, ItemType, AnswersItsOperation, Running, callVars
<1>5. CASE StartNext
  <2> DEFINE op == Head(queue).op
             at == Head(queue).level
  <2>1. op \in PanelOps /\ at \in Arguments \cup {NoArgument}
    BY <1>2, <1>5 DEF StartNext, ItemType, Levels, NoLevel
  <2>2. PICK s \in Slots : CallStart(s, op, at)
    BY <1>5 DEF StartNext
  <2>3. /\ calls' = [calls EXCEPT ![s] = Asked(op, at, "running")]
        /\ follow' = [run |-> s, resumed |-> FALSE] /\ recorded' = s /\ told'.run = NoSlot
        /\ pending' = op /\ enabled' = enabled
    BY <1>5, <2>2 DEF StartNext, CallStart, NothingTold
  <2>4. Asked(op, at, "running") \in CallType /\ Asked(op, at, "running").op = op
    BY <2>1 DEF Asked, CallType, Outcomes
  <2> HIDE DEF op, at
  <2>5. calls' \in [Slots -> CallType] /\ calls'[s].op = op
    BY <1>3, <2>3, <2>4
  <2> QED BY <1>1, <1>2, <2>1, <2>3, <2>5
          DEF PanelInv, PanelTypeOK, CallType, ItemType, AnswersItsOperation, Running
<1>6. CASE Reattach
  <2>1. /\ recorded \in Slots /\ UNCHANGED <<calls, recorded>>
        /\ follow' = [run |-> recorded, resumed |-> TRUE] /\ told'.run = NoSlot
    BY <1>6 DEF Reattach, CallResume, NothingTold, PanelInv, PanelTypeOK
  <2>2. pending' = IF calls[recorded].op \in Handlers THEN calls[recorded].op ELSE "none"
    BY <1>6 DEF Reattach
  <2>3. enabled' \subseteq Buttons
    BY <1>6 DEF Reattach, PanelInv, PanelTypeOK, Buttons
  <2>4. calls[recorded].op \in LongOps => pending' = calls[recorded].op
    BY <2>2, HandlersAssumption
  <2>5. pending' \in PanelOps \cup {"none"}
    BY <1>3, <2>1, <2>2 DEF CallType
  <2> QED BY <1>1, <1>2, <2>1, <2>3, <2>4, <2>5
          DEF PanelInv, PanelTypeOK, ItemType, AnswersItsOperation, Running
<1> QED
  BY <1>4, <1>5, <1>6

\* What an answer does to the tab; the one who waited for it no longer does.
LEMMA HandledKeeps ==
    ASSUME PanelInv, NEW op, NEW at \in Levels \cup {NoLevel}, Handled(op, at)
    PROVE  queue' \in Seq(ItemType) /\ {level', layouts', last'} \subseteq Levels \cup {NoLevel}
<1>1. queue \in Seq(ItemType) /\ {level, layouts, last} \subseteq Levels \cup {NoLevel}
  BY DEF PanelInv, PanelTypeOK, ItemType
<1>2. CASE op = "open_design"
  <2>1. /\ level' = at /\ last' = at /\ layouts' \in {NoLevel, at}
        /\ queue' = queue \o <<Item("list_designs", NoLevel), Item("describe_template", at)>>
    BY <1>2 DEF Handled
  <2>2. <<Item("list_designs", NoLevel), Item("describe_template", at)>> \in Seq(ItemType)
    BY DEF Item, ItemType, PanelOps
  <2> QED BY <1>1, <2>1, <2>2
<1>3. CASE op = "generate_layouts"
  BY <1>1, <1>3 DEF Handled
<1>4. CASE op \notin {"open_design", "generate_layouts"}
  BY <1>1, <1>4 DEF Handled
<1> QED
  BY <1>2, <1>3, <1>4

LEMMA FinishedKeeps ==
    ASSUME PanelInv, Finished
    PROVE  PanelInv'
<1>1. /\ UNCHANGED calls /\ recorded' = NoSlot /\ follow' = NotFollowing
      /\ told' = [run |-> follow.run, outcome |-> calls[follow.run].outcome]
      /\ pending' = "none" /\ enabled' = {"generate", "walk"} /\ follow.run \in Slots
  BY DEF Finished, Tell, Running, PanelInv, PanelTypeOK
<1>2. calls[follow.run].argument \in Levels \cup {NoLevel}
  BY <1>1 DEF PanelInv, PanelTypeOK, Levels, NoLevel
<1>3. queue' \in Seq(ItemType) /\ {level', layouts', last'} \subseteq Levels \cup {NoLevel}
  <2>1. CASE calls[follow.run].outcome = "ok"
    BY <1>2, <2>1, HandledKeeps DEF Finished
  <2>2. CASE calls[follow.run].outcome # "ok"
    BY <2>2 DEF Finished, PanelInv, PanelTypeOK, ItemType
  <2> QED BY <2>1, <2>2
<1>4. follow'.run = NoSlot /\ told'.run \in Slots
  BY <1>1 DEF NotFollowing
<1> QED
  BY <1>1, <1>3, <1>4 DEF PanelInv, PanelTypeOK, ItemType, AnswersItsOperation, Running, Buttons

LEMMA RestartKeeps ==
    ASSUME PanelInv, Restart
    PROVE  PanelInv'
<1>1. /\ UNCHANGED <<calls, recorded, last>> /\ follow'.run = NoSlot /\ told'.run = NoSlot
      /\ pending' = "none" /\ level' = NoLevel /\ layouts' = NoLevel
      /\ enabled' = {"generate", "walk"} /\ queue' = Loads(last)
  BY DEF Restart, PanelRestarts, NotFollowing, NothingTold
<1>2. Loads(last) \in Seq(ItemType)
  <2>1. /\ Item("list_templates", NoLevel) \in ItemType /\ Item("list_designs", NoLevel) \in ItemType
        /\ Item("open_design", last) \in ItemType /\ Item("resume", NoLevel) \in ItemType
    BY DEF Item, ItemType, PanelOps, PanelInv, PanelTypeOK
  <2> QED BY <2>1 DEF Loads
<1> QED
  BY <1>1, <1>2 DEF PanelInv, PanelTypeOK, ItemType, AnswersItsOperation, Running, Buttons

LEMMA PanelAlways == Spec => []PanelInv
<1>1. PanelInv /\ UNCHANGED vars => PanelInv'
  BY DEF PanelInv, PanelTypeOK, AnswersItsOperation, Running, vars, callVars, panelVars
<1>2. PanelInv /\ [Next]_vars => PanelInv'
  BY <1>1, ClickKeeps, CallKeeps, NextKeeps, FinishedKeeps, RestartKeeps DEF Next
<1> QED
  BY <1>2, PanelBegins, PTL DEF Spec

\* What the tab shows, queues and follows keeps its type: nothing is ever started that the
\* tab does not ask for, whatever a panel that closed has left behind (level_panel.gd _next).
THEOREM PanelType == Spec => []PanelTypeOK
<1>1. PanelInv => PanelTypeOK
  BY DEF PanelInv
<1> QED
  BY <1>1, PanelAlways, PTL

\* An answer reaches the handler of the operation it answers, for any levels, clicks, starts
\* that fail and restarts, a long run another panel started included (level_panel.gd _next,
\* _resume, _on_finished).
THEOREM AnswersReachTheirHandler == Spec => []AnswersItsOperation
<1>1. PanelInv => AnswersItsOperation
  BY DEF PanelInv
<1> QED
  BY <1>1, PanelAlways, PTL
==============================================================================
