----------------------------- MODULE CtfRuntime -----------------------------
(***************************************************************************)
(* The solving runtime of runtime/ctfrt: the orchestrator's loops, the gate *)
(* and one specialist per category, joined by the topics of the bus and by  *)
(* the board in working memory.                                            *)
(*                                                                         *)
(* A topic is the sequence of everything published on it; each consumer     *)
(* group has the number of messages it was handed so far.  Two deployments: *)
(*   Durable = FALSE  InMemoryBus and InMemoryWorkingMemory.  Their awaits  *)
(*     never suspend, so between two real suspensions (the triage's lookup  *)
(*     in long-term memory, the engine) one handler runs alone.             *)
(*   Durable = TRUE   KafkaBus and RedisWorkingMemory.  Every publish and   *)
(*     board access suspends.  Offsets are auto-committed in the            *)
(*     background, per group, at whatever was handed out by then, so a      *)
(*     restarted process resumes each group anywhere between its last       *)
(*     resume point and the message it was working on: messages are lost or *)
(*     repeated, group by group.                                           *)
(* The runtime is built without a verifier, by run.py as by cli.py.        *)
(* Where a handler publishes twice with nothing in between, both messages   *)
(* go out in one action (DispatchTask, AnnounceVerdict, StaticHit, ...): a  *)
(* crash that parts them is left out.                                      *)
(***************************************************************************)
EXTENDS Gate, Routing, Functions

CONSTANTS
    Categories,        \* the categories whose task topics are used
    Specialists,       \* the categories whose specialist runs
    Engines,           \* the specialists with a SolveEngine attached
    Worlds,            \* what a challenge may be
    Results,           \* what an engine may claim: see Claim
    MaxHandoffDepth,   \* _MAX_HANDOFF_DEPTH
    MaxBarren,         \* _MAX_BARREN
    MaxToolSteps,      \* SpecialistAgent._max_tool_steps
    Traced,            \* the kinds of trace event a model keeps
    Durable,
    Deployed,          \* the components run as processes: see Components
    MaxCrashes,        \* bound on the crashes of one behaviour
    MaxRewind          \* bound on the messages a group repeats after one

\* A world is what orchestrator and specialists find when they look at a
\* challenge: hint, artifacts and text, which Routing reads; valid, whether its
\* paths pass _validated_workspace; flag_format; and static, the flag-shaped
\* text its artifacts contain, if any.
NoFlag == "no flag"

\* The part of an EngineResult with a candidate that the gate looks at.
Claim == [ candidate : Flags, reproduced : BOOLEAN, evidence : BOOLEAN,
           method : {"none", "reencode_xor", "sandbox_exec", "other"} ]

\* run.py --component: one process for everything, or one for each part.
Components == {"all", "orchestrator", "gate", "specialists"}

-----------------------------------------------------------------------------
(* contracts.py: what travels on the topics                                *)

Task == [ challenge_id : Challenges, flag_format : {"none", "declared"},
          handoff_depth : Nat ]

Handoff == [ challenge_id : Challenges, target : Categories, handoff_depth : Nat ]

\* The kinds that end the work on a challenge, and the others that on_trace or
\* the command line reads.
EndKind == { "challenge_rejected", "needs_engine", "engine_error", "error",
             "engine_no_candidate", "handoff_depth_exceeded",
             "candidate_rejected", "solved" }
TraceKind == EndKind \cup { "routed", "task_started", "candidate_emitted", "handoff",
                            "candidate_accepted", "gate_verdict" }
TraceEvent == [ challenge_id : Challenges, kind : TraceKind ]

BoardStatus == {"running", "solved", "timed_out", "failed"}

\* The board_status on_trace gives a challenge for a trace, if any.
Outcome(kind) == CASE kind = "engine_no_candidate" -> "timed_out"
                   [] kind = "engine_error"        -> "failed"
                   [] OTHER                        -> "none"

\* status is the legacy field, flags the texts accepted so far.  get_board
\* returns the empty dict, here NoBoard, for a challenge it does not hold.
Board == [ board_status : BoardStatus, status : {"in_progress", "solved"},
           flags : Seq(Flags) ]
NoBoard == [ board_status |-> "none", status |-> "none", flags |-> <<>> ]

ASSUME RuntimeAssumption ==
    /\ Specialists \subseteq Categories /\ Engines \subseteq Specialists
    /\ Categories \subseteq Category
    /\ \A w \in Worlds : /\ w.valid \in BOOLEAN
                         /\ w.flag_format \in {"none", "declared"}
                         /\ w.static \in Flags \cup {NoFlag}
                         /\ Route(w) \in Categories
    /\ Results \subseteq Claim
    /\ MaxHandoffDepth \in Nat
    /\ MaxBarren \in Nat \ {0} /\ MaxToolSteps \in Nat \ {0}
    /\ Traced \subseteq TraceKind
    /\ Durable \in BOOLEAN
    /\ Deployed \subseteq Components
    /\ MaxCrashes \in Nat /\ MaxRewind \in Nat
    /\ ~Durable => MaxCrashes = 0

-----------------------------------------------------------------------------
VARIABLES
    world,    \* what each challenge is; never changes
    log,      \* the topics
    read,     \* messages handed to each service's consumer group so far
    taken,    \* tasks handed to each specialist's consumer group so far
    resumed,  \* where each group stood when the process last started
    hand,     \* the handler each service is in, with its local variables
    spec,     \* the same for each specialist
    board,    \* the boards in working memory
    crashes   \* crashes so far

vars == <<world, log, read, taken, resumed, hand, spec, board, crashes>>

Services == {"challenge", "handoff", "flag", "trace", "gate"}
Idle == [stage |-> "idle"]

\* The topic a service consumes.
Inbox(s) == CASE s = "challenge" -> log.challenges
              [] s = "handoff"   -> log.handoffs
              [] s = "flag"      -> log.flags
              [] s = "trace"     -> log.traces
              [] s = "gate"      -> log.candidates

Topics == [ challenges : Seq(Challenges), tasks : [Categories -> Seq(Task)],
            handoffs : Seq(Handoff), candidates : Seq(Candidate),
            flags : Seq(Candidate), traces : Seq(TraceEvent) ]

\* A handler's local variables: the message and, for the two that write a
\* board back, the board as they read it.
Handlers ==
    [ challenge : {Idle} \cup [stage : {"store", "dispatch"}, msg : Challenges],
      handoff   : {Idle} \cup [stage : {"route"}, msg : Handoff],
      flag      : {Idle} \cup [ stage : {"write", "announce"}, msg : Candidate,
                                board : Board \cup {NoBoard} ],
      trace     : {Idle} \cup [ stage : {"write"}, board : Board,
                                msg : {t \in TraceEvent : Outcome(t.kind) # "none"} ],
      gate      : {Idle} \cup [stage : {"trace", "publish"}, msg : Candidate] ]
Specialist == {Idle} \cup [stage : {"scan", "engine"}, task : Task, barren : Nat]

TypeOK ==
    /\ world \in [Challenges -> Worlds]
    /\ log \in Topics
    /\ read \in [Services -> Nat] /\ \A s \in Services : read[s] <= Len(Inbox(s))
    /\ taken \in [Categories -> Nat]
    /\ \A k \in Categories : taken[k] <= Len(log.tasks[k])
    /\ resumed \in [read : [Services -> Nat], taken : [Categories -> Nat]]
    /\ hand \in Handlers
    /\ spec \in [Categories -> Specialist]
    /\ board \in [Challenges -> Board \cup {NoBoard}]
    /\ crashes \in 0..MaxCrashes

Init ==
    /\ world \in [Challenges -> Worlds]
    /\ log = [ challenges |-> <<>>, tasks |-> [k \in Categories |-> <<>>],
               handoffs |-> <<>>, candidates |-> <<>>, flags |-> <<>>, traces |-> <<>> ]
    /\ read = [s \in Services |-> 0]
    /\ taken = [k \in Categories |-> 0]
    /\ resumed = [read |-> read, taken |-> taken]
    /\ hand = [s \in Services |-> Idle]
    /\ spec = [k \in Categories |-> Idle]
    /\ board = [c \in Challenges |-> NoBoard]
    /\ crashes = 0

-----------------------------------------------------------------------------
(* Scheduling                                                              *)

\* Handlers that stand at an await which suspends in either deployment.
Suspended(h) == h.stage \in {"idle", "store", "engine"}

\* Service s, or specialist k, may take a step: in one process with in-memory
\* bus and memory nobody else is in the middle of a handler.
ServiceRuns(s) ==
    \/ Durable
    \/ /\ \A t \in Services \ {s} : Suspended(hand[t])
       /\ \A k \in Categories : Suspended(spec[k])
SpecialistRuns(k) ==
    \/ Durable
    \/ /\ \A s \in Services : Suspended(hand[s])
       /\ \A j \in Categories \ {k} : Suspended(spec[j])

\* Service s is handed the message m of its topic.
Receives(s, m) ==
    /\ ServiceRuns(s)
    /\ hand[s] = Idle
    /\ read[s] < Len(Inbox(s))
    /\ m = Inbox(s)[read[s] + 1]
    /\ read' = [read EXCEPT ![s] = @ + 1]

\* The topics l with one more trace event on ctf.traces.
Trace(c, kind) == [challenge_id |-> c, kind |-> kind]
WithTrace(l, c, kind) ==
    IF kind \in Traced THEN [l EXCEPT !.traces = Append(@, Trace(c, kind))] ELSE l

-----------------------------------------------------------------------------
(* cli.py submit: a fresh challenge id is published                        *)

Submit(c) ==
    /\ c \notin Range(log.challenges)
    /\ log' = [log EXCEPT !.challenges = Append(@, c)]
    /\ UNCHANGED <<world, read, taken, resumed, hand, spec, board, crashes>>

-----------------------------------------------------------------------------
(* orchestrator.py, loop orch-ch: on_challenge                             *)

\* An invalid workspace is traced and dropped; otherwise triage starts.
OnChallenge ==
    \E c \in Challenges :
        /\ Receives("challenge", c)
        /\ IF world[c].valid
           THEN /\ hand' = [hand EXCEPT !.challenge = [stage |-> "store", msg |-> c]]
                /\ UNCHANGED log
           ELSE /\ log' = WithTrace(log, c, "challenge_rejected")
                /\ UNCHANGED hand
        /\ UNCHANGED <<world, taken, resumed, spec, board, crashes>>

\* A slip: the task is published before the board is there.
DispatchBeforeStore ==
    LET h == hand.challenge
        k == Route(world[h.msg]) IN
    /\ ServiceRuns("challenge") /\ h.stage = "store"
    /\ log' = [log EXCEPT !.tasks[k] = Append(@, [ challenge_id |-> h.msg,
                  flag_format |-> world[h.msg].flag_format, handoff_depth |-> 0 ])]
    /\ hand' = [hand EXCEPT !.challenge.stage = "dispatch"]
    /\ UNCHANGED <<world, read, taken, resumed, spec, board, crashes>>

\* set_board writes a fresh board whatever is there.
StoreBoard ==
    LET h == hand.challenge IN
    /\ ServiceRuns("challenge") /\ h.stage = "store"
    /\ board' = [board EXCEPT ![h.msg] =
                    [board_status |-> "running", status |-> "in_progress", flags |-> <<>>]]
    /\ hand' = [hand EXCEPT !.challenge.stage = "dispatch"]
    /\ UNCHANGED <<world, log, read, taken, resumed, spec, crashes>>

DispatchTask ==
    LET h == hand.challenge
        k == Route(world[h.msg]) IN
    /\ ServiceRuns("challenge") /\ h.stage = "dispatch"
    /\ log' = WithTrace([log EXCEPT !.tasks[k] = Append(@, [ challenge_id |-> h.msg,
                            flag_format |-> world[h.msg].flag_format, handoff_depth |-> 0 ])],
                        h.msg, "routed")
    /\ hand' = [hand EXCEPT !.challenge = Idle]
    /\ UNCHANGED <<world, read, taken, resumed, spec, board, crashes>>

-----------------------------------------------------------------------------
(* orchestrator.py, loop orch-ho: on_handoff.  No code calls reject_path, so *)
(* is_rejected never stops a handoff.                                      *)

OnHandoff ==
    \E h \in Range(log.handoffs) :
        /\ Receives("handoff", h)
        /\ hand' = [hand EXCEPT !.handoff = [stage |-> "route", msg |-> h]]
        /\ UNCHANGED <<world, log, taken, resumed, spec, board, crashes>>

\* A slip: a task at the limit is handed over once more.
RouteOnceMore ==
    LET h == hand.handoff.msg IN
    /\ ServiceRuns("handoff") /\ hand.handoff.stage = "route"
    /\ log' = IF h.handoff_depth > MaxHandoffDepth
              THEN WithTrace(log, h.challenge_id, "handoff_depth_exceeded")
              ELSE [log EXCEPT !.tasks[h.target] = Append(@,
                       [ challenge_id |-> h.challenge_id, flag_format |-> "none",
                         handoff_depth |-> h.handoff_depth + 1 ])]
    /\ hand' = [hand EXCEPT !.handoff = Idle]
    /\ UNCHANGED <<world, read, taken, resumed, spec, board, crashes>>

\* A slip: a handoff beyond the depth limit is dropped without a trace.
RouteOrForget ==
    LET h == hand.handoff.msg IN
    /\ ServiceRuns("handoff") /\ hand.handoff.stage = "route"
    /\ log' = IF h.handoff_depth >= MaxHandoffDepth
              THEN log
              ELSE [log EXCEPT !.tasks[h.target] = Append(@,
                       [ challenge_id |-> h.challenge_id, flag_format |-> "none",
                         handoff_depth |-> h.handoff_depth + 1 ])]
    /\ hand' = [hand EXCEPT !.handoff = Idle]
    /\ UNCHANGED <<world, read, taken, resumed, spec, board, crashes>>

\* Beyond the depth limit the handoff is traced and dropped.  The new task
\* carries no flag_format.
RouteHandoff ==
    LET h == hand.handoff.msg IN
    /\ ServiceRuns("handoff") /\ hand.handoff.stage = "route"
    /\ log' = IF h.handoff_depth >= MaxHandoffDepth
              THEN WithTrace(log, h.challenge_id, "handoff_depth_exceeded")
              ELSE [log EXCEPT !.tasks[h.target] = Append(@,
                       [ challenge_id |-> h.challenge_id, flag_format |-> "none",
                         handoff_depth |-> h.handoff_depth + 1 ])]
    /\ hand' = [hand EXCEPT !.handoff = Idle]
    /\ UNCHANGED <<world, read, taken, resumed, spec, board, crashes>>

-----------------------------------------------------------------------------
(* orchestrator.py, loop orch-fl: on_flag                                  *)

\* A slip: a verdict counts only when the text has the declared format, which a
\* task that was handed over no longer carries.
OnFormattedFlag ==
    \E f \in Range(log.flags) :
        /\ Receives("flag", f)
        /\ hand' = IF f.status = "solved" /\ FormatMatch(f) = "match"
                   THEN [hand EXCEPT !.flag = [ stage |-> "write", msg |-> f,
                                               board |-> board[f.challenge_id] ]]
                   ELSE hand
        /\ UNCHANGED <<world, log, taken, resumed, spec, board, crashes>>

\* get_board; a verdict that is not solved changes nothing.
OnFlag ==
    \E f \in Range(log.flags) :
        /\ Receives("flag", f)
        /\ hand' = IF f.status = "solved"
                   THEN [hand EXCEPT !.flag = [ stage |-> "write", msg |-> f,
                                               board |-> board[f.challenge_id] ]]
                   ELSE hand
        /\ UNCHANGED <<world, log, taken, resumed, spec, board, crashes>>

\* A slip: the whole board is replaced, and the accepted text forgotten.
WriteStatusOnly ==
    LET h == hand.flag
        c == h.msg.challenge_id IN
    /\ ServiceRuns("flag") /\ h.stage = "write"
    /\ board' = [board EXCEPT ![c] =
                    [h.board EXCEPT !.board_status = "solved", !.status = "solved"]]
    /\ hand' = [hand EXCEPT !.flag.stage = "announce"]
    /\ UNCHANGED <<world, log, read, taken, resumed, spec, crashes>>

\* set_board writes back the whole board as it was read, with the flag added.
WriteSolved ==
    LET h == hand.flag
        c == h.msg.challenge_id IN
    /\ ServiceRuns("flag") /\ h.stage = "write"
    /\ board' = [board EXCEPT ![c] =
                    [ board_status |-> "solved", status |-> "solved",
                      flags |-> Append(h.board.flags, h.msg.candidate) ]]
    /\ hand' = [hand EXCEPT !.flag.stage = "announce"]
    /\ UNCHANGED <<world, log, read, taken, resumed, spec, crashes>>

\* The lesson that on_flag stores last (ltm.consolidate) is left out: only triage
\* reads lessons, and it routes without them.
AnnounceSolved ==
    /\ ServiceRuns("flag") /\ hand.flag.stage = "announce"
    /\ log' = WithTrace(log, hand.flag.msg.challenge_id, "solved")
    /\ hand' = [hand EXCEPT !.flag = Idle]
    /\ UNCHANGED <<world, read, taken, resumed, spec, board, crashes>>

-----------------------------------------------------------------------------
(* orchestrator.py, loop orch-tr: on_trace                                 *)

\* A slip: any trace of a running challenge sets its status.
OnAnyTrace ==
    \E t \in Range(log.traces) :
        /\ Receives("trace", t)
        /\ hand' = IF board[t.challenge_id].board_status = "running"
                   THEN [hand EXCEPT !.trace = [ stage |-> "write", msg |-> t,
                                                board |-> board[t.challenge_id] ]]
                   ELSE hand
        /\ UNCHANGED <<world, log, taken, resumed, spec, board, crashes>>

\* A slip: a trace of an engine error is passed over like the rest.
OnTraceOfNoCandidate ==
    \E t \in Range(log.traces) :
        /\ Receives("trace", t)
        /\ hand' = IF /\ Outcome(t.kind) = "timed_out"
                      /\ board[t.challenge_id].board_status = "running"
                   THEN [hand EXCEPT !.trace = [ stage |-> "write", msg |-> t,
                                                board |-> board[t.challenge_id] ]]
                   ELSE hand
        /\ UNCHANGED <<world, log, taken, resumed, spec, board, crashes>>

\* get_board; only a running board is written back.
OnTrace ==
    \E t \in Range(log.traces) :
        /\ Receives("trace", t)
        /\ hand' = IF /\ Outcome(t.kind) # "none"
                      /\ board[t.challenge_id].board_status = "running"
                   THEN [hand EXCEPT !.trace = [ stage |-> "write", msg |-> t,
                                                board |-> board[t.challenge_id] ]]
                   ELSE hand
        /\ UNCHANGED <<world, log, taken, resumed, spec, board, crashes>>

WriteOutcome ==
    LET h == hand.trace IN
    /\ ServiceRuns("trace") /\ h.stage = "write"
    /\ board' = [board EXCEPT ![h.msg.challenge_id] =
                    [h.board EXCEPT !.board_status = Outcome(h.msg.kind)]]
    /\ hand' = [hand EXCEPT !.trace = Idle]
    /\ UNCHANGED <<world, log, read, taken, resumed, spec, crashes>>

-----------------------------------------------------------------------------
(* gate.py: Gate.run without a verifier                                    *)

OnCandidate ==
    \E c \in Range(log.candidates) :
        /\ Receives("gate", c)
        /\ hand' = [hand EXCEPT !.gate = [stage |-> "trace", msg |-> Judge(c)]]
        /\ UNCHANGED <<world, log, taken, resumed, spec, board, crashes>>

AnnounceVerdict ==
    LET c == hand.gate.msg IN
    /\ ServiceRuns("gate") /\ hand.gate.stage = "trace"
    /\ log' = IF c.status = "solved"
              THEN WithTrace(log, c.challenge_id, "candidate_accepted")
              ELSE WithTrace(WithTrace(log, c.challenge_id, "candidate_rejected"),
                             c.challenge_id, "gate_verdict")
    /\ hand' = [hand EXCEPT !.gate.stage = "publish"]
    /\ UNCHANGED <<world, read, taken, resumed, spec, board, crashes>>

\* A slip: what is published is taken for accepted.
PublishAsSolved ==
    LET c == hand.gate.msg IN
    /\ ServiceRuns("gate") /\ hand.gate.stage = "publish"
    /\ log' = [log EXCEPT !.flags = Append(@, [c EXCEPT !.status = "solved"])]
    /\ hand' = [hand EXCEPT !.gate = Idle]
    /\ UNCHANGED <<world, read, taken, resumed, spec, board, crashes>>

\* Rejected verdicts are published as well.
PublishFlag ==
    LET c == hand.gate.msg IN
    /\ ServiceRuns("gate") /\ hand.gate.stage = "publish"
    /\ log' = [log EXCEPT !.flags = Append(@, c)]
    /\ hand' = [hand EXCEPT !.gate = Idle]
    /\ UNCHANGED <<world, read, taken, resumed, spec, board, crashes>>

-----------------------------------------------------------------------------
(* agent.py: SpecialistAgent.run and handle                                *)

TakeTask(k) ==
    /\ SpecialistRuns(k)
    /\ k \in Specialists
    /\ spec[k] = Idle /\ taken[k] < Len(log.tasks[k])
    /\ taken' = [taken EXCEPT ![k] = @ + 1]
    /\ LET t == log.tasks[k][taken[k] + 1] IN
         /\ spec' = [spec EXCEPT ![k] = [stage |-> "scan", barren |-> 0, task |-> t]]
         /\ log' = WithTrace(log, t.challenge_id, "task_started")
    /\ UNCHANGED <<world, read, resumed, hand, board, crashes>>

\* The static scan's candidate vouches for itself: reproduced and passed.
StaticCandidate(t) ==
    [ challenge_id |-> t.challenge_id, candidate |-> world[t.challenge_id].static,
      flag_format |-> t.flag_format, validation_level |-> "reproduced",
      local_validation |-> "passed", oracle_validation |-> "not_available",
      status |-> "raw", evidence |-> TRUE, patched |-> FALSE, method |-> "none",
      expect_exit |-> "accept" ]

EngineCandidate(t, r) ==
    [ challenge_id |-> t.challenge_id, candidate |-> r.candidate,
      flag_format |-> t.flag_format,
      validation_level |-> IF r.reproduced THEN "reproduced" ELSE "observed",
      local_validation |-> IF r.reproduced THEN "passed" ELSE "not_attempted",
      oracle_validation |-> "not_available",
      status |-> "raw", evidence |-> r.evidence, patched |-> FALSE,
      method |-> r.method, expect_exit |-> "accept" ]

Scanning(k) ==
    /\ SpecialistRuns(k) /\ spec[k].stage = "scan"
    /\ UNCHANGED <<world, read, taken, resumed, hand, board, crashes>>

StaticHit(k) ==
    LET t == spec[k].task IN
    /\ Scanning(k)
    /\ world[t.challenge_id].static # NoFlag
    /\ log' = WithTrace([log EXCEPT !.candidates = Append(@, StaticCandidate(t))],
                        t.challenge_id, "candidate_emitted")
    /\ spec' = [spec EXCEPT ![k] = Idle]

NeedsEngine(k) ==
    LET c == spec[k].task.challenge_id IN
    /\ Scanning(k)
    /\ world[c].static = NoFlag /\ k \notin Engines
    /\ log' = WithTrace(log, c, "needs_engine")
    /\ spec' = [spec EXCEPT ![k] = Idle]

DispatchEngine(k) ==
    /\ Scanning(k)
    /\ world[spec[k].task.challenge_id].static = NoFlag /\ k \in Engines
    /\ spec' = [spec EXCEPT ![k].stage = "engine"]
    /\ UNCHANGED log

\* The engine's answer arrives: one action for each thing it may be.
EngineAnswers(k) ==
    /\ SpecialistRuns(k) /\ spec[k].stage = "engine"
    /\ UNCHANGED <<world, read, taken, resumed, hand, board, crashes>>

EngineRaises(k) ==
    /\ EngineAnswers(k)
    /\ log' = WithTrace(log, spec[k].task.challenge_id, "engine_error")
    /\ spec' = [spec EXCEPT ![k] = Idle]

\* An exception after the answer is caught by run and only traced.
HandleRaises(k) ==
    /\ EngineAnswers(k)
    /\ log' = WithTrace(log, spec[k].task.challenge_id, "error")
    /\ spec' = [spec EXCEPT ![k] = Idle]

EngineHandsOff(k, target) ==
    LET t == spec[k].task IN
    /\ EngineAnswers(k)
    /\ log' = WithTrace([log EXCEPT !.handoffs = Append(@,
                            [ challenge_id |-> t.challenge_id, target |-> target,
                              handoff_depth |-> t.handoff_depth ])],
                        t.challenge_id, "handoff")
    /\ spec' = [spec EXCEPT ![k] = Idle]

\* A slip: the handler goes on after it has published the candidate, and
\* reports the challenge as one without a candidate.
ClaimsAndGoesOn(k, r) ==
    LET t == spec[k].task IN
    /\ EngineAnswers(k)
    /\ log' = WithTrace([log EXCEPT !.candidates = Append(@, EngineCandidate(t, r))],
                        t.challenge_id, "engine_no_candidate")
    /\ spec' = [spec EXCEPT ![k] = Idle]

EngineClaims(k, r) ==
    LET t == spec[k].task IN
    /\ EngineAnswers(k)
    /\ log' = WithTrace([log EXCEPT !.candidates = Append(@, EngineCandidate(t, r))],
                        t.challenge_id, "candidate_emitted")
    /\ spec' = [spec EXCEPT ![k] = Idle]

\* A slip: the barren counter is not tested against the step budget.
BarrenForever(k) ==
    /\ EngineAnswers(k)
    /\ spec' = [spec EXCEPT ![k].barren = (@ + 1) % MaxBarren]
    /\ UNCHANGED log

\* Every step that does not return is barren, so barren also counts the steps.
EngineBarren(k) ==
    LET n == spec[k].barren + 1 IN
    /\ EngineAnswers(k)
    /\ IF n >= MaxBarren \/ n >= MaxToolSteps
       THEN /\ log' = WithTrace(log, spec[k].task.challenge_id, "engine_no_candidate")
            /\ spec' = [spec EXCEPT ![k] = Idle]
       ELSE /\ spec' = [spec EXCEPT ![k].barren = n]
            /\ UNCHANGED log

-----------------------------------------------------------------------------
(* Crash and restart of some of the processes (run.py --component)         *)

ServicesOf(p) == CASE p = "all" -> Services
                   [] p = "orchestrator" -> Services \ {"gate"}
                   [] p = "gate" -> {"gate"}
                   [] p = "specialists" -> {}
SpecialistsOf(p) == IF p \in {"all", "specialists"} THEN Categories ELSE {}

\* The handlers of the crashed process and their local variables are gone, and
\* each of its groups resumes at an offset auto-committed since it last
\* started: back[s] messages before the last one it was handed.  Topics and
\* boards stay, in Kafka and Redis.
Crash(p) ==
    /\ Durable /\ crashes < MaxCrashes
    /\ crashes' = crashes + 1
    /\ \E back \in [ServicesOf(p) -> 0..MaxRewind],
          sback \in [SpecialistsOf(p) -> 0..MaxRewind] :
         /\ \A s \in ServicesOf(p) : back[s] <= read[s] - resumed.read[s]
         /\ \A k \in SpecialistsOf(p) : sback[k] <= taken[k] - resumed.taken[k]
         /\ read' = [s \in Services |->
                       IF s \in ServicesOf(p) THEN read[s] - back[s] ELSE read[s]]
         /\ taken' = [k \in Categories |->
                       IF k \in SpecialistsOf(p) THEN taken[k] - sback[k] ELSE taken[k]]
    /\ resumed' = [ read  |-> [s \in Services |->
                       IF s \in ServicesOf(p) THEN read'[s] ELSE resumed.read[s]],
                    taken |-> [k \in Categories |->
                       IF k \in SpecialistsOf(p) THEN taken'[k] ELSE resumed.taken[k]] ]
    /\ hand' = [s \in Services |-> IF s \in ServicesOf(p) THEN Idle ELSE hand[s]]
    /\ spec' = [k \in Categories |-> IF k \in SpecialistsOf(p) THEN Idle ELSE spec[k]]
    /\ UNCHANGED <<world, log, board>>

-----------------------------------------------------------------------------
OrchestratorStep ==
    \/ OnChallenge \/ StoreBoard \/ DispatchTask
    \/ OnHandoff \/ RouteHandoff
    \/ OnFlag \/ WriteSolved \/ AnnounceSolved
    \/ OnTrace \/ WriteOutcome

GateStep == OnCandidate \/ AnnounceVerdict \/ PublishFlag

SpecialistStep(k) ==
    \/ TakeTask(k) \/ StaticHit(k) \/ NeedsEngine(k) \/ DispatchEngine(k)
    \/ EngineRaises(k) \/ HandleRaises(k) \/ EngineBarren(k)
    \/ \E target \in Categories : EngineHandsOff(k, target)
    \/ \E r \in Results : EngineClaims(k, r)

Next ==
    \/ \E c \in Challenges : Submit(c)
    \/ OrchestratorStep
    \/ GateStep
    \/ \E k \in Categories : SpecialistStep(k)
    \/ \E p \in Deployed : Crash(p)

\* Every loop is an asyncio task of its own, a message in a queue wakes its
\* reader, and an engine call ends, by its own timeout if nothing else.
\* Nothing obliges anyone to submit, or a process to crash.
Fairness ==
    /\ WF_vars(OnChallenge \/ StoreBoard \/ DispatchTask)
    /\ WF_vars(OnHandoff \/ RouteHandoff)
    /\ WF_vars(OnFlag \/ WriteSolved \/ AnnounceSolved)
    /\ WF_vars(OnTrace \/ WriteOutcome)
    /\ WF_vars(GateStep)
    /\ \A k \in Categories : WF_vars(SpecialistStep(k))

Spec == Init /\ [][Next]_vars
FairSpec == Spec /\ Fairness
=============================================================================
