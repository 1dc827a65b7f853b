----------------------------- MODULE SolveLocal -----------------------------
(***************************************************************************)
(* cli.py solve_local: one process that starts the orchestrator, the gate   *)
(* and one specialist on an in-memory bus, publishes one challenge, and     *)
(* answers from what it reads of ctf.flags and ctf.traces, beside a         *)
(* recorder that appends every trace to a file.  The answer cancels all the *)
(* loops, so the runtime stops wherever it stands.                         *)
(***************************************************************************)
EXTENDS CtfRuntimeProps

CONSTANTS
    Name,        \* the challenge: its id is the --name argument
    MaxPolls,    \* how often a solved answer looks for its traces (100)
    EarlierRuns  \* what runs of the same name may have left in the trace file

ASSUME SolveLocalAssumption ==
    /\ Challenges = {Name}
    /\ MaxPolls \in Nat \ {0}
    /\ EarlierRuns \subseteq SUBSET TraceKind
    /\ Traced = TraceKind /\ ~Durable

VARIABLES
    cli,      \* the command: where it stands, what it read, what it answered
    filed,    \* traces of this run the recorder has written
    earlier   \* the kinds of trace the file held before

cliVars == <<cli, filed, earlier>>
solveVars == <<vars, cliVars>>

\* The answers: solved, the gate's rejection, a terminal trace, the timer.
Answer == {"none", "solved", "rejected", "no candidate", "timeout"}

SolveInit ==
    /\ Init
    /\ cli = [stage |-> "start", answer |-> "none", traceAt |-> 0, polls |-> 0]
    /\ filed = 0
    /\ earlier \in EarlierRuns

Running == cli.stage # "done"

\* The command and the recorder run when no handler is in the middle of one.
CliRuns ==
    /\ Running
    /\ \A s \in Services : Suspended(hand[s])
    /\ \A k \in Categories : Suspended(spec[k])

Publish ==
    /\ CliRuns /\ cli.stage = "start"
    /\ Submit(Name)
    /\ cli' = [cli EXCEPT !.stage = "waiting"]
    /\ UNCHANGED <<filed, earlier>>

RecordTrace ==
    /\ CliRuns /\ filed < Len(log.traces)
    /\ filed' = filed + 1
    /\ UNCHANGED <<vars, cli, earlier>>

\* asyncio.wait returns with the flag, with a trace, or with both; a flag is
\* looked at first, and the first one decides.
Waits ==
    /\ CliRuns /\ cli.stage = "waiting"
    /\ UNCHANGED <<vars, filed, earlier>>

TakeFlag ==
    /\ Waits /\ log.flags # <<>>
    /\ cli' = IF log.flags[1].status = "solved"
              THEN [cli EXCEPT !.stage = "polling"]
              ELSE [cli EXCEPT !.stage = "done", !.answer = "rejected"]

\* A slip: an engine that fails is not taken for the end.
TakeTraceOfNoCandidate ==
    /\ Waits /\ cli.traceAt < Len(log.traces)
    /\ cli' = IF log.traces[cli.traceAt + 1].kind = "engine_no_candidate"
              THEN [cli EXCEPT !.stage = "done", !.answer = "no candidate"]
              ELSE [cli EXCEPT !.traceAt = @ + 1]

TakeTrace ==
    /\ Waits /\ cli.traceAt < Len(log.traces)
    /\ cli' = IF log.traces[cli.traceAt + 1].kind \in {"engine_error", "engine_no_candidate"}
              THEN [cli EXCEPT !.stage = "done", !.answer = "no candidate"]
              ELSE [cli EXCEPT !.traceAt = @ + 1]

\* The kinds of trace of this run that are in the file, in order.
Filed == [i \in 1..filed |-> log.traces[i].kind]
InFile == earlier \cup Range(Filed)

\* A slip: the poll is content before the challenge is told solved.
PollWithoutSolved ==
    LET told == "routed" \in InFile /\ {"candidate_accepted", "gate_verdict"} \cap InFile # {}
        last == cli.polls + 1 = MaxPolls IN
    /\ CliRuns /\ cli.stage = "polling"
    /\ cli' = IF told THEN [cli EXCEPT !.stage = "done", !.answer = "solved"]
              ELSE [cli EXCEPT !.polls = @ + 1,
                               !.stage = IF last THEN "done" ELSE @,
                               !.answer = IF last THEN "solved" ELSE @]
    /\ UNCHANGED <<vars, filed, earlier>>

\* The solved answer waits until the file tells the whole story, but not for
\* ever.
Poll ==
    LET told == /\ {"routed", "solved"} \subseteq InFile
                /\ {"candidate_accepted", "gate_verdict"} \cap InFile # {}
        last == cli.polls + 1 = MaxPolls IN
    /\ CliRuns /\ cli.stage = "polling"
    /\ cli' = IF told THEN [cli EXCEPT !.stage = "done", !.answer = "solved"]
              ELSE [cli EXCEPT !.polls = @ + 1,
                               !.stage = IF last THEN "done" ELSE @,
                               !.answer = IF last THEN "solved" ELSE @]
    /\ UNCHANGED <<vars, filed, earlier>>

\* asyncio.timeout covers the polls as well as the wait.
TimeOut ==
    /\ CliRuns /\ cli.stage \in {"waiting", "polling"}
    /\ cli' = [cli EXCEPT !.stage = "done", !.answer = "timeout"]
    /\ UNCHANGED <<vars, filed, earlier>>

-----------------------------------------------------------------------------
Loops(A) == Running /\ A /\ UNCHANGED cliVars

SolveNext ==
    \/ Publish \/ RecordTrace \/ TakeFlag \/ TakeTrace \/ Poll \/ TimeOut
    \/ Loops(OrchestratorStep)
    \/ Loops(GateStep)
    \/ \E k \in Categories : Loops(SpecialistStep(k))

\* The loops and the command are tasks of one event loop.  The timer is left
\* out: what is answered without it is the question.
SolveFairness ==
    /\ WF_solveVars(Loops(OnChallenge \/ StoreBoard \/ DispatchTask))
    /\ WF_solveVars(Loops(OnHandoff \/ RouteHandoff))
    /\ WF_solveVars(Loops(OnFlag \/ WriteSolved \/ AnnounceSolved))
    /\ WF_solveVars(Loops(OnTrace \/ WriteOutcome))
    /\ WF_solveVars(Loops(GateStep))
    /\ \A k \in Categories : WF_solveVars(Loops(SpecialistStep(k)))
    /\ WF_solveVars(RecordTrace)
    /\ WF_solveVars(Publish \/ TakeFlag \/ TakeTrace \/ Poll)

SolveSpec == SolveInit /\ [][SolveNext]_solveVars /\ SolveFairness

-----------------------------------------------------------------------------
(* trace_recorder.py: validate_trace_events, on the kinds of a trace file.  *)
(* A solved trace always names its source, so that rule never speaks.       *)

EngineEnds == {"candidate_emitted", "engine_no_candidate", "engine_error", "handoff"}

ValidateTrace(t) ==
    LET kinds == Range(t) IN
    {e \in {"trace is empty"} : t = <<>>}
    \cup {e \in {"missing routed"} : "routed" \notin kinds}
    \cup {e \in {"missing task_started"} : "task_started" \notin kinds}
    \cup {e \in {"missing terminal engine event"} :
            \E i \in DOMAIN t : /\ t[i] = "needs_engine"
                                /\ \E j \in 1..(i - 1) : t[j] = "task_started"
                                /\ \A j \in (i + 1)..Len(t) : t[j] \notin EngineEnds}
    \cup {e \in {"missing solved"} : "candidate_accepted" \in kinds /\ "solved" \notin kinds}
    \cup {e \in {"missing candidate_accepted"} :
            "solved" \in kinds /\ "candidate_accepted" \notin kinds}
    \cup {e \in {"trace ends at needs_engine"} :
            "needs_engine" \in kinds /\ kinds \subseteq {"routed", "task_started", "needs_engine"}}

\* mission_trace_summary: the verdicts it counts, and the status it reads from
\* the last event alone.
Summary(t) ==
    LET told(kind) == Cardinality({i \in DOMAIN t : t[i] = kind}) IN
    [ status   |-> IF t = <<>> THEN "unknown" ELSE t[Len(t)],
      emitted  |-> told("candidate_emitted"),
      accepted |-> told("candidate_accepted"),
      rejected |-> told("candidate_rejected") ]

\* What the validate-trace command says of the file's events: not found when
\* there is none, otherwise whether a rule speaks.
ValidateCommand(t) ==
    IF t = <<>> THEN "trace not found"
    ELSE IF ValidateTrace(t) = {} THEN "valid" ELSE "invalid"

-----------------------------------------------------------------------------
(* Properties                                                              *)

\* An answer given without the timer is the gate's answer and its last: solved
\* only for an approved text, and not solved only when no work is left that
\* could still be approved (the orchestrator may not have read the verdict).
AnswerIsFinal ==
    /\ cli.answer = "solved" => Approved(Name) # {}
    /\ cli.answer \in {"rejected", "no candidate"} =>
         /\ Approved(Name) = {}
         /\ \A item \in WorkItems(Name) : item[1] = "flag"

\* The trace a solved run leaves passes validate-trace, unless it stopped
\* looking, or was content with what an earlier run had left in the file.
SolvedTraceIsValid ==
    cli.answer = "solved" /\ cli.polls < MaxPolls /\ earlier = {}
        => /\ ValidateCommand(Filed) = "valid"
           /\ Summary(Filed).accepted = 1
           /\ Summary(Filed).emitted = Summary(Filed).accepted + Summary(Filed).rejected
           /\ Summary(Filed).status = "solved"

\* The ends of a challenge the command does not listen to.
SilentEnds == {"challenge_rejected", "needs_engine", "error", "handoff_depth_exceeded"}

\* Apart from those, and from a task for a specialist that does not run, the
\* command answers without its timer.
AnswersWithoutTimer ==
    (cli.stage = "waiting") ~>
        \/ cli.stage = "done"
        \/ Kinds(Name) \cap SilentEnds # {}
        \/ \E k \in Categories \ Specialists : log.tasks[k] # <<>>
=============================================================================
