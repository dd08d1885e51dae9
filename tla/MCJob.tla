-------------------------------- MODULE MCJob --------------------------------
(***************************************************************************)
(* A job's attempts, its commands and one command, each on its own: every  *)
(* behaviour is of one of the three, and the other two stay as they began. *)
(*                                                                         *)
(* The attempts are of two states of the inputs.  One has two commands:    *)
(* the first writes an index and a mesh and declares the index, as the zoo *)
(* kit does, the second writes and declares a report.  The other has a     *)
(* command that writes the mesh and declares nothing, as the habitat does. *)
(* A report without the mesh carries a blocker.                            *)
(*                                                                         *)
(* The plans are a lone command, a shell followed by its buildings (what   *)
(* the presentation adapter plans), batches around a command that is not   *)
(* parallel, one at a time and two at a time, and no command.  The one     *)
(* command has two children, which makes the groups that obey, that do     *)
(* not, and the mixed ones.                                                *)
(***************************************************************************)
EXTENDS JobAttempt, JobCommands, CommandRunner, TLC

CONSTANTS wide, slim, index_json, mesh, report, c1, c2

FingerprintMC == {wide, slim}
FileMC == {index_json, mesh, report}
Writing(writes, declares) == [writes |-> writes, declares |-> declares]
PlanMC ==
    wide :> <<Writing({index_json, mesh}, {index_json}), Writing({report}, {report})>>
    @@ slim :> <<Writing({mesh}, {})>>
BlockingMC == {d \in [FileMC -> FingerprintMC \cup {None}] : d[report] # None /\ d[mesh] = None}
JobSpecsMC == [transient_ok : BOOLEAN, exit_advisory : BOOLEAN]

PlansMC ==
    {<<FALSE>>, <<FALSE, TRUE, TRUE, TRUE>>, <<TRUE, TRUE, FALSE, FALSE, TRUE>>, <<>>}
WidthsMC == {1, 2}

ChildMC == {c1, c2}

VARIABLE of   \* what this behaviour is of

attemptVars == vars
jobVars == <<attemptVars, commandVars, runnerVars, of>>

NoAttempt == input = slim /\ job_spec = [transient_ok |-> FALSE, exit_advisory |-> FALSE]
NoCommands == planned = <<>> /\ width = 1 /\ log = <<>>
NoCommand == stubborn = {} /\ ~cancelSet

JobInit ==
    /\ of \in {"attempt", "commands", "command"}
    /\ Init /\ CommandsInit /\ RunnerInit
    /\ of # "attempt" => NoAttempt
    /\ of # "commands" => NoCommands
    /\ of # "command" => NoCommand

\* A step of one of them.  The attempts and the one command may stop, the generator not.
AttemptMoves(step) == of = "attempt" /\ step /\ UNCHANGED <<commandVars, runnerVars, of>>
CommandsMove(step) == of = "commands" /\ step /\ UNCHANGED <<attemptVars, runnerVars, of>>
CommandMoves(step) == of = "command" /\ step /\ UNCHANGED <<attemptVars, commandVars, of>>
Over == of # "commands" /\ UNCHANGED jobVars

JobNext == AttemptMoves(Next) \/ CommandsMove(CommandsNext) \/ CommandMoves(RunnerNext) \/ Over

\* The fairness of JobAttempt and of CommandRunner.
JobFairSpec ==
    /\ JobInit /\ [][JobNext]_jobVars
    /\ WF_jobVars(AttemptMoves(AttemptStep /\ UNCHANGED job_spec))
    /\ WF_jobVars(CommandMoves(RunnerStep))
    /\ WF_jobVars(CommandMoves(Expire)) /\ WF_jobVars(CommandMoves(GraceEnds))
    /\ \A p \in Group : WF_jobVars(CommandMoves(p \in Doomed /\ Exit(p)))
==============================================================================
