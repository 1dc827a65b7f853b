# Verification of the CTF skill pack

This directory holds TLA+ models of the code in this repository, the TLC
configurations that check them on small instances, and proofs for TLAPS. The
code is the reference: every definition names the lines it models in the `map`
of `PROJECT.json`, and comments quote the code's own words.

## 1. The system

The repository is a set of packages around one runtime.

| Part | State it keeps | Operations | Works with |
| --- | --- | --- | --- |
| **Bus** `runtime/ctfrt/bus.py` | topics; queues and round-robin index per consumer group, a backlog (in memory) or offsets (Kafka) | publish, subscribe | everything below |
| **Working memory** `memory.py` | a board, hypotheses, rejected paths and candidates per challenge | get/set board, record, upsert | orchestrator, gate |
| **Orchestrator** `orchestrator.py` | none of its own | on_challenge (triage, route), on_handoff, on_trace, on_flag, on_hypothesis, each in a loop of its own | `ctf.challenges`, `ctf.handoffs`, `ctf.traces`, `ctf.flags` to `ctf.tasks.*` and boards |
| **Specialists** `agent.py` | the task in hand | static scan, engine steps, handoff, candidate, stop | `ctf.tasks.<category>` to `ctf.candidates`, `ctf.handoffs`, `ctf.traces` |
| **Solve engines** `engines.py`, `*_decision.py`, `reverse_tools.py` | a shared BioBrain pipeline and its threads | read files, decide on tools, solve, ask the pipeline with a time limit | called by specialists |
| **Gate** `gate.py`, `verify.py`, `sandbox.py` | the candidate in hand | verify by running again, override, checks, promotion | `ctf.candidates` to `ctf.flags`, `ctf.traces` |
| **Trace recorder, command line** `trace_recorder.py`, `cli.py` | a trace file per challenge | record, validate, summarise; submit, solve-local, board | `ctf.traces`, `ctf.flags` |
| **Launcher** `run.py` | the tasks of a process | start, wait, shut down | all loops |
| **CMS** `cms_runtime/`, `cms_cag.py` | observations (L1), episodes (L2), evidence and beliefs (L3) in SQLite | ingest, update and flush episodes, file rules, revise beliefs, process_turn, end_session, show the state | traces of finished missions |
| **BioBrain** `biobrain2/` | mode and its history, episodic memory, health counters, sessions with approvals, a run | one cycle from input to feedback, approve, deny, set the mode, run a plan | an engine of ctfrt, an operator |
| **Bibi** `bibi/` | a conversation and its CMS | one turn | CMS |
| Advice, integrations, skills, prompts | none | wrappers, documents | - |

What makes it hard:

- *Concurrency.* Every consumer is an asyncio task; on Kafka and Redis every
  await suspends, and boards are read and written back whole. The BioBrain
  pipeline works in threads that outlive the time limit of the call that
  started them.
- *Failure.* A crashed process resumes each consumer group from an offset that
  was committed in the background: messages are lost or repeated, group by
  group, while boards stay as they were. A turn of the CMS commits row by row.
- *Ordering.* The outcome of a challenge is told three times: on its board, on
  `ctf.flags` and in its trace file, by different loops.
- *Trust.* Producers state how far a candidate is verified; the gate must not
  believe them, and is the only path to `solved`.
- *Spread decisions.* Whether a tool may run is decided in four stages of a
  cycle, none of which sees what another one objected to.
- *Termination.* Specialists may send a challenge round; engines may answer
  nothing useful; a plan grows by a step for each step that fails; `solve-local`
  answers on whatever it reads first.

What makes each part correct:

- *gate*: solved means proven; a producer's word does not count where a
  verifier is attached; every candidate gets a verdict, recorded first;
- *orchestrator*: a board moves as documented and its fields agree; work follows
  the board; handoffs are bounded; an approved flag reaches the board;
- *runtime*: work on a challenge is neither lost nor doubled, and ends;
- *engines*: what is claimed solves the challenge, one unreadable file does not
  hide another, an answer belongs to the task that asked;
- *bus*: fan-out over groups, sharing within one;
- *solve-local*: its answer is final, and given without the timer where it can be;
- *CMS*: an observation lies in one episode, evidence can be traced to what it is
  of, ledgers tell the history of the evidence, a turn that fails half-way breaks
  none of that, and a view shows the latest that was asked for;
- *BioBrain*: no tool runs without the licence its mode asks for; session, run and
  health monitor agree on what happened; a run follows its plan within its budget.

`PROJECT.json` lists every hazard at its line.

## 2. Modules

| Module | Models | Role |
| --- | --- | --- |
| `Gate` | `gate.py`, `verify.py`, `sandbox.py run_sandboxed` | one candidate's judgement, constant operators |
| `GateService` | `Gate.run` | the consumer loop, every await a step; extends `Gate` |
| `GateService_proofs` | | its types and safety theorems |
| `Routing` | triage and route | constant operators |
| `CtfRuntime` | `orchestrator.py`, `agent.py`, gate, topics, boards, crashes | the whole runtime; extends `Gate`, `Routing` |
| `BoardLifecycle` | `shared/schemas.md` | abstract: how a board_status may move |
| `CtfRuntimeProps` | | properties of `CtfRuntime`, the refinement of `BoardLifecycle`, the status `cli.py board` prints |
| `CtfRuntime_proofs` | | types, safety, conservation of work, the documented lifecycle, traces against boards |
| `SolveLocal` | `cli.py solve_local`, `trace_recorder.py` | composes the command and the trace file with `CtfRuntime` |
| `SolveLocal_proofs` | | the command runs the runtime, its answers are final, a solved run's trace is valid |
| `SelfXor` | `engines.py _solve_self_xor_compare` | the arithmetic of the solver, constant operators |
| `ReverseStatic` | `engines.py`, `reverse_decision.py`, `reverse_tools.py` | what the reverse engine reads from a listing; extends `SelfXor` |
| `Engines` | `engines.py`, `*_decision.py`, the calls of `agent.py` | one specialist with its engine, files and pipeline threads; extends `ReverseStatic` |
| `Engines_proofs` | | exactness of the solver and of the answers to plain tasks, files that do not matter, theorems on threads and answers |
| `GroupDelivery` | | abstract: what a topic promises its groups |
| `InMemoryBus` | `bus.py InMemoryBus` | one topic; refines `GroupDelivery` |
| `InMemoryBus_proofs` | | sharing by the round-robin index, the refinement of `GroupDelivery` |
| `EvidenceRules` | `cms/l3/rules.py`, `belief.py` | the rule pack and the dimensions, constant operators |
| `BeliefService`, `BeliefProps` | `cms/l3/service.py`, `belief_service.py` | evidence and beliefs of one user, row by row; extends `EvidenceRules` |
| `BeliefProps_proofs` | | types, ledgers and the history they tell, what an active belief rests on, what events tell, what a view shows |
| `StateView` | `cms/runtime/retrieval.py`, `assembler.py` | the view of the state; extends `BeliefProps` |
| `CmsEngine`, `CmsEngineProps` | `cms/runtime/engine.py`, `l1/`, `l2/` | whole turns: observations, episodes, filing; extends `EvidenceRules` |
| `CmsEngine_proofs` | | types, regimes, completeness, provenance |
| `MissionMemory` | `cms_cag.py`, `run.py main` | composes an instance of `CmsEngine` with the consumer of traces and the supervision of tasks |
| `BrainPolicy` | `biobrain/{safety,identity,executive,perception,...}` | the decisions of one cycle, constant operators |
| `BioBrain` | `runtime/pipeline.py`, `modulation`, `memory`, `action`, `ops` | one cycle, stage by stage; extends `BrainPolicy` |
| `BrainSession`, `BrainProps` | `runtime/session.py`, `runtime/orchestrator.py`, `repl.py` | the session at its prompt and a run of a plan; extends `BioBrain` |
| `BrainProps_proofs` | | the licence of tools, RISK mode, the books, budget and order of a run |
| `MC...` | | instances for TLC: `MCGateService`, `MCCtfRuntime`, `MCSolveLocal`, `MCInMemoryBus`, `MCEngines`, `MCBeliefService`, `MCCmsEngine`, `MCBrain` |

### How state and actions correspond to the code

**Candidates.** A text is a member of `Flags`; the subsets `GenuineFlags` and
`FormattedFlags` say what it *is* (what the artifact accepts, what the declared
format matches), apart from what anyone claims. A candidate keeps the fields
the gate branches on; `evidence`, `patched`, `method` and `expect_exit` stand
for the evidence list, the source text and the reproduction recipe.

**`GateService`.** `topic` is what producers publish on `ctf.candidates` and `taken`
how far the loop has come in it; `stage` is the await at which `Gate.evaluate` stands:
the verifier, the traces, `record_candidate`, the publication. `Verify` gives the
ends of `Verifier.verify`: the sandbox's refusal of a path, a missing container, a
timeout (refuted), an exit code with or without the recipe's `success_marker` in the
output, and the exceptions that leave it, such as the one `bytes(...)` raises in
`_verify_reencode_xor` outside its `try`, which end the loop (`dead`). `Judged(n)` says
that the n-th message of `ctf.flags` is a verdict on the n-th candidate of the topic;
`LostFrom(m)` that the loop ended on the m-th, whose own verification can raise.

**`CtfRuntime`.** A topic is the sequence of everything published on it, `read`
and `taken` count what each consumer group was handed. A loop's handler and its
local variables are a record in `hand` (the orchestrator's loops and the gate)
or `spec` (the specialists). `world` is what a challenge is (artifacts, hint, a
flag in plain sight) and never changes. There are two deployments:

- `Durable = FALSE`: `InMemoryBus` and `InMemoryWorkingMemory`. Their awaits never
  suspend; a handler runs alone except at two points, the triage's memory
  lookup and the engine. `ServiceRuns` and `SpecialistRuns` say so.
- `Durable = TRUE`: `KafkaBus` and `RedisWorkingMemory`. Every await is a point
  where others run. `Crash(p)` loses the handlers of one process (run.py
  `--component`) and takes each of its groups back to some offset since it last
  started; a message in hand is lost when its offset was already committed.

An engine's answer is any of `Results`, a handoff to any category, an
exception, or nothing; `HandleRaises` is an exception after the answer, which
`run` only traces. Traces outside `Traced` are not kept, which no handler
notices: a run keeps the kinds its properties and handlers read.

**`Engines`** looks into that answer. A file is what the engine can tell of it:
its fate (readable, missing, outside the workspace), the description of a xor
crackme, the signals of its text, what its decodings show, and a program with its
listing and constant data. `phase` is where `solve_step` stands: idle, at the call,
or waiting for a thread. `workers` are the threads ever started; a thread finds
or builds the shared pipeline, solves, answers or is late. Files keep their number in
the task when others are passed over (`ReadableIn`, `Programs`), which is all that the
code's loops with `continue` tell apart. `hides` is the truth
that no action reads. `Crackme` in `MCEngines` is the layout that the solver looks
for; the other programs deviate from it. A task marked `plain` is one that `IsPlain`
(`PlainAssumption`, evaluated by TLC on every plain task of the instance): the engine
comes to the helper, and the helper's lines, read one by one as the code does
(`ReconstructByLine`), leave what the file hides; the run states in `hides` what that
is from the way the program was built.

**`SolveLocal`.** `cli` is the position of the command: publishing, waiting on a
flag and a trace at once, polling the trace file, done. `earlier` is what runs of
the same name left in the trace file. The answer cancels all loops. `Summary` and
`ValidateCommand` are what the commands say of such a file.

**`InMemoryBus`.** `publish` and the first part of `subscribe` do not suspend and
are one action each; `members`, `turn`, `backlog` are `_groups`, `_rr`, `_backlog`.
`share` is a history variable: messages put into a queue since its group last
changed. **`GroupDelivery`** knows neither queues nor indices: a message published is
owed to exactly one member of *every* group that has one (`FanOut`), or kept while no
group has come, and then exactly the newest `BacklogLimit`; a group is handed a message
once, and what is owed goes only with a member that leaves. That is what the code
keeps. The docstring of `bus.py` promises more, see the observations.

**`BeliefService`.** `evidence` is the table in the order of insertion, so that a
memory_id is a position; `beliefs` the table by lane. `job` is what is left to do of
the call in progress: records to file, beliefs to drop, records to process. One
action is one committed row, and `Crash` may fall between any two. Scores and
coordinates are hundredths and time is in days. `value` and `stability` are left
out because no status depends on them: a direction is the sign of the summed
supports, the confidence a count.

**`StateView`** is a function of that state: the store cuts to a pool, the service
ranks and cuts again, the assembler picks. Both orders are by a key ending in the
record's number, so that the first n of a set are defined by counting what precedes
each member (`Best`). With a clock of days only evidence has
an age; `pinned` is written by nothing and left out; a view is asked for between
calls, since all of it is one thread.

**`CmsEngine`.** `observations` and `episodes` are tables by id with `INSERT OR REPLACE`
(`Put`); `open` and, for CMSMemory, the id counter live in the process. `turn`
numbers the utterances and stands for their text and time. Beliefs only consume
(`fed`): the two modules meet in the records handed to `process_new_evidence`.

**`MissionMemory`.** The engine is instantiated the way `CMSMemory.__init__` wires it:
one policy, no evidence, ids that restart. `task` is what became of main's tasks.

**`BioBrain`, `BrainSession`.** A text is what the patterns of its class match; risk
is in thousandths, confidence in hundredths. `call` is the cycle under way with its
trace; the stages up to the reflexes, the thinking from identity policy to decision,
each action, and the end with feedback and memory are steps. `mode` and `modeLog`
are the mode manager, `metrics` the health monitor, which counts what the bus
delivers in the same call. `session` holds the counters and approvals, `run` the
orchestrator's plan, steps and budget. `LoadIdentity` reads the
identity configuration with what it drops of it. `Recall` is what the searches of the
palace return: it is on disk and may hold what earlier brains wrote, and each search
may fail on its own and return nothing. A reasoner is its outcome: a
registered one of `Raising` raises, and a language model of `ModelBacked`, which
catches its own failures, quotes what it was shown or does not (`Quotes`); in audit
mode an answer without evidence is a mismatch. Left out: the ring of traces, the
tracer and audit log, failures to write to the palace, what the thread of a timed-out
tool does later, the model router, `/tool` of the REPL: what `ToolsRunOnlyWithLicence`
says is about the pipeline.

## 3. Runs

| Run | Instance | Shows |
| --- | --- | --- |
| `gate` | every raw candidate there is over 4 texts (genuine or not, formatted or not), all levels, claims, recipes and evidence; and two of 24 telling ones behind one another; with and without a verifier and its sandbox | what a verdict means, that it is recorded and traced before it is published, and that each candidate gets its own, in its place, but for what an exception out of the verifier takes with it |
| `runtime_local` | 2 challenges of 4 kinds, 2 specialists, 1 with an engine, limit 1 on handoffs | conservation and end of work, agreement of board and traces, the documented lifecycle, flags reach boards |
| `runtime_crash` | 1 challenge, 3 processes, 1 crash, 1 repeated message per group | types, approval, consistency, board before work, depth |
| `solve_local` | 1 challenge, crypto specialist, 2 polls, empty or stale trace file | answers are final, traces valid, the timer needed only where named |
| `bus` | 2 groups, 3 subscribers, 3 messages, a backlog of 2 | sharing; refinement of `GroupDelivery`: to every group that is there, once, lost only with a member that leaves; what is queued is handed out |
| `engines` | bytes of 3 bits, buffers of 1 to 3 bytes, chunks and words of 2, all categories, up to 2 tasks in sequence | exactness of the solver, unreadable files, whose answer a task gets, overlap of threads, ends |
| `beliefs` | 2 contexts, 3 kinds of turn, 3 turns over 3 days, 1 crash, 1 other call (file again, process again, rebuild, sweep), 3 questions | counted once, in its lane; ledgers tell the history; what active means and who knows; what a view shows |
| `episodes` | 2 sessions, 4 turns, window 3 and surprise after 1, one failing call, reset or restart | regimes, completeness, provenance of evidence |
| `brain` | 4 texts for turns, 4 plans, modes normal and risk at first, 3 modes the operator sets, 2 cycles begun at the prompt, 2 mode switches, 3 steps and 2 tool calls a run | licence of tools, agreement of the books, the run's order, budget and end, who leaves RISK mode |
| `missions_overwritten` | CMSMemory, 3 missions, 1 restart | **violation**: missions of the next process replace those on file |
| `memory_stops_runtime` | as above, with main | **violation**: a rejected candidate takes the runtime down |
| `brain_approval` | as `brain` | **violation**: what was approved is held for approval again |

*Why the bounds are enough.* The gate judges candidates one by one and keeps
nothing between them but the loop itself: what a verdict says is seen with every
candidate alone, and what one leaves to the next with two, one of each way in which a
candidate's handling ends (solved, rejected, raised). Challenges share
only the loops: two of them show every interference of boards, traces and
handlers; with several the loops interleave more but touch other boards. One
crash with one repeated message reaches a repeat or a loss at every await of
every process. A limit of one handoff has a task below, at and beyond the limit;
2 barren steps are the code's own `_MAX_BARREN`. Three messages overflow a
backlog of two and go round a group of two. Two polls (100 in the code) have a
last one and one before it. The solver's cases turn on the parity of the length, on
what is printable and on how chunks overlap: lengths of 1 to 3 with chunks of 2 meet
them all, and `SelfXorExact` is proved for any length and byte. Two
tasks in sequence let a thread of the first come back during the second; limits of
windows and lines (`MaxWindows`, `BodyLines`, ...) are scaled so that the listings
stay below and exceed them, or are the code's own. For beliefs the thresholds and
windows are scaled down together, so that three turns pass from fresh to active to
outweighed and records age, are superseded and turn stale within three days; one
other call or crash at any point meets every state of a ledger; limits of one and two
make a view cut. Four turns over a window of three close two episodes by window
and more by surprise, in two sessions that alternate. For the brain two cycles show
what the first leaves to the second (an approval, a mode, a memory); plans of two
and three texts with a limit of three steps are completed, stopped by the limit and
stopped by a tool, with and without diagnostic steps; `MaxCycles` and `MaxSwitches`
only bound what the operator does.

*Fairness.* Each loop is an asyncio task woken by its queue, and an engine call
ends at the latest by its own timeout, so each loop is weakly fair
(`Fairness`). The gate is one loop, likewise. A subscriber of the bus keeps asking
(`WF_vars(Get(s))`). In `Engines` only the specialist is fair, because `wait_for` ends
its wait; nothing is assumed of the threads, and `EveryTaskEnds` holds although they
may never answer. In `BrainSession` the thread of the prompt goes on by itself once a
line was entered, since tool calls are bounded by their timeout (`WF_vars(Machine)`);
the operator owes nothing. Nothing is assumed of users, crashes or the command's
timer: `AnswersWithoutTimer` is about what happens without it. The crash runs have
no fairness and check safety only: with messages lost a challenge may well stay
unfinished. `beliefs` and `episodes` only check safety.

*Deadlock* is not an error in any run: every model may come to rest with nothing
left to do.

### What the violations say

1. `memory_stops_runtime`: `run.py` calls the CMS memory an extension that stays "off
   the critical path". The trace of a rejected candidate names no category, the
   observation made of it is refused for its empty session, nothing catches the
   `ValueError`, and `main` cancels every other component.
2. `missions_overwritten`: `cms_cag.py` draws ids from a counter of the process and
   stores with `INSERT OR REPLACE` in a file that outlives it. The "persistent"
   store begins to overwrite itself with the first mission after a restart.
3. `brain_approval`: a request is "a pending action waiting for human
   confirmation" and `USAGE.md` shows how to approve it. All an approval does is to
   confirm the turns of the next minute; asked again, the executive still puts an
   escalation first, the cycle ends there and files another request.

### Observations that no run states

*Gate and runtime.* `run.py` and `cli.py` build the gate without a verifier, so a
producer's `reproduced` is taken at its word there, while the README speaks of
independent reproduction; a recipe names its own accepting exit code
(`VerifiedSolveIsGenuine` has to assume it is right); `oracle_accepted` claims are never
verified. A sandbox request without a workdir can never run: a relative path
fails to resolve and an absolute one is refused. A recipe whose artifact is missing,
or whose workdir is unsafe, raises out of `run_sandboxed`, which catches `ValueError`
only, and ends the gate's loop. Rejected, engine-less and over-deep challenges
leave their board `running`; `barren` is never reset, so the step budget of 4 is out
of reach behind the barren limit of 2; boards expire in Redis after a week.
`on_challenge` writes a fresh board whatever is there, so a challenge that is
delivered again takes its board out of a final status, and `DocumentedLifecycle` is
only checked where nothing is repeated. `route` finds `pe` in `jail-escape` and
routes to reverse, while `solve-local` starts only the specialist of the hint;
`on_handoff` rebuilds the task without its flag format. A recipe that raises ends the
gate's loop and with it every candidate behind that one; `EveryCandidateIsJudged` names
this loss as the only one there is. The read and the write of a board in `on_flag` and
`on_trace` may interleave on Redis, and the later write undoes the earlier: no property
excludes that, and those of `runtime_local` are about the in-memory board, where it
cannot happen.

*Bus.* The docstring of `InMemoryBus` (`bus.py:72`) says "Different groups each receive
a copy of every message" and "A small backlog is retained until the first subscriber
for a group appears". The code keeps a backlog only while the topic has no group at all
(`bus.py:93`): a group that subscribes after another one misses what was published in
between, and a group whose last member has left is skipped (`bus.py:98`) and gets
nothing of that time when a member comes back. A message in the queue of a member that
leaves goes to no other member of its group. `GroupDelivery` states what is kept and
says so in its header. The loops of `run.py` subscribe once, when
they start, and stay: for them the difference shows at startup. `_run_in_sandbox`, which
would come and go, is called by nothing.

*Engines.* No engine sets `handoff`, and answers of the pipeline are never
`reproduced`. The shared pipeline's RISK mode stays for the challenges after. A
missing file raises in `_reverse_preanalysis`, which ends the step, where the other
engines pass it over. A file that is no program, coming first, hides the one
behind it. The helper that is taken is the first one seen called, not the last
before the comparison as the reasoning says; its scan of 40 lines runs into the next
function (`SelfXorIsExact` excepts both). Of several inputs that fit the first is
claimed as reproduced. A refined decision never changes the control; rules with
unknown keys, or an empty `imports_any`, never match; an upper-case blob counts as
not reproduced, a key above 255 raises. Recipes of crypto and search engines are
unknown to the verifier, and a broken flag format raises there.

*CMS.* A contradiction can make a stale belief active again, since `_compute_status`
looks at its support of the last 30 days and not at what it was; a belief that is
tentative again after being stale or invalidated is announced by no event
(`ActiveIsAnnounced` holds all the same); `rule_ep_pragmatic_sustained_density` reads a
signature nobody writes; with the default window of 10 no episode is long enough
for `sustained_regime`; a turn cut short between filing and beliefs leaves records
that only `recompute_for_user` brings in. A pinned record older than the pool would be
missed by retrieval. In `bibi/app.py` an idle session is given up without flushing its
open episode, a restart loses the cached sessions, and two sessions of a user begun
in the same second share an id.

*BioBrain.* `/tool` calls a tool past every guard. Any approval confirms every turn
of the next minute. `session.mode_transitions` takes over the whole history each
turn; `mode_at_processing` of a trace is the mutable state itself. A diagnostic step
is perceived as a task to create something and calls the tool again. Oversized input
is sanitised before the escalating reflexes look, and not looked at again. A
forbidden operation is compared with the perceived one, not with the tool's. One
unknown operation in the identity configuration silently drops the fields after it.
The automatic low-confidence mode, the
orchestrator's low-confidence guard and the replanner's halt branch cannot be reached
with the defaults; the retrieval branch for episodic memories only when the second of
two equal searches fails. The monitor counts a reasoning twice and knows no error
category. A completed run may hold failed steps. A REPL turn names no tool, so that
its tool calls end as unknown.

## 4. Proofs

The eight proof modules hold for all values of the constants: any challenges,
texts, categories, files, turns, rules, thresholds, limits and numbers of crashes.
Each safety argument has the same form. An inductive invariant says of everything
under way what the property says of the outcome; one lemma per action shows that the
step keeps it; the last step is temporal.

**`CtfRuntime_proofs`** proves `TypeCorrect`, `Spec => []TypeOK`. Lemmas on topics
(`WithTrace`, appending, what lies in a topic) are shared. `JudgeSolvesOnProof` shows of
the gate's operators that whatever is solved is `Proven`. Then, for every deployment
and any number of crashes, four properties of `runtime_crash`.
`DepthStaysBounded`: a handoff carries the depth of the task it came from, so the
strengthening bounds the depths in topics, handlers and tasks in hand.
`BoardStaysConsistent`: handlers hold boards they read earlier, so those are
consistent too, and `on_trace` only holds running ones. `FlagsStayApproved`: a flag
reaches a board from a handler and that from `ctf.flags`; approval only grows, because
topics do. `BoardsPrecedeWork`: boards are never removed; handlers and topics that
stand for work belong to challenges that have one.

The rest of the module is about the in-memory deployment. Its three theorems assume
`~Durable`, since a crash on Kafka loses or repeats work, and `EndKind \subseteq Traced`,
since what ends without a flag is known by its trace alone; both runs without crashes
satisfy them. `WorkStaysConserved`: the work under way on a challenge is a set of
*stations*, a place in a topic not yet taken (`Line`) or a handler at work (`Held`);
what was taken is `Past`. Each disjunct of `Next` is shown to be one of six station
steps (`Enters`, `Takes`, `Drops`, `Passes`, `Ends`, `Keeps`; its `...Flow` lemma), and
each of those keeps `Accounts`: a submitted challenge has exactly one station, or none
and a trace of its end.
`ToldVerdicts` ties the gate's verdicts to the traces that tell them. `Stories` adds
what the end of a challenge was and what board and handlers know of it, and `Steady`
is the conjunction of all four. `LifecycleIsDocumented` is the refinement
`Spec => DocumentedLifecycle`: the boards start as `BoardLifecycle` says and every step
maps to one of its steps or a stutter; a fresh board is written only over none, as a
challenge is submitted once and work never enters twice.
`TracesStayWithBoard` needs that `on_trace` has followed every trace before its offset
(`AllFollowed`), and what `cli.py board` reads from traces: `CliStatus` is a recursive
function over the trace file, and `NatSetInduction` gives its value where the last
trace that says anything is the terminal one.

**`SolveLocal_proofs`** first shows `SolveLocalRunsRuntime`, `SolveSpec => Spec`: the
command and its recorder do nothing to the runtime but submit, so `Steady` holds there
as well (`SolveLocalAssumption` has the in-memory deployment and all traces).
`AnswersAreFinal` adds that there is at most one verdict (`OneVerdict`) and what the
command has seen when it stands somewhere or answered (`AnswerInv`).
`SolvedTracesAreValid` follows the trace file: where the challenge's one station is
says how the trace of this run ends, and after an approval its last events are a
candidate, its acceptance and `solved`, behind events that end nothing (`Tale`,
`Chronicle`). A file that holds `solved` is therefore whole, since the recorder writes in
order, and what the commands say of it can be computed.

**`InMemoryBus_proofs`** proves `WorkStaysShared`: the round-robin index splits a group in
those whose turn has passed and the rest; each side is in the order of the list, the
first at most one message ahead of the second (`Rotation`). The index is taken modulo
the size of the group, which a join or a leave changes, and with it the shares start
afresh.
`TopicDelivers` is the refinement of `GroupDelivery`. `DeliveryInv` says that a message
is in at most one queue of a group, and there and in the backlog at most once (`Once`),
that no queue holds what its group was handed before (`HandedOnce`), and that the backlog
is exactly the newest messages (`BacklogIsNewest`). The queues whose turn it is are one
member of every group that has one (`ReceiversAreOneOfEach`), so that `PublishToGroups`
is a `FanOut`; joining and leaving are `SubscribeComes` and `UnsubscribeLeaves`, and every
other step maps to a step of `GroupDelivery` or a stutter.

**`GateService_proofs`** proves the safety properties of `gate`. `GateInv` follows the
candidate through the stages: what was announced and recorded at which stage (`Told`,
`Recorded`), and that a candidate was examined when it is judged and is worthy of its
verdict from then on, as whatever was published is (`Earned`). `Follows` adds that the
n-th verdict answers the n-th candidate and that the one in hand, once judged, is what
`evaluate` gives for its own; from it `VerdictsAlwaysFollow`, which no run checks: with any
number of candidates none is skipped, judged twice or answered with another's verdict.
That each is reached in the end stays with the run.

**`Engines_proofs`** proves `SelfXorExact` and `EvenIsUnique`: for buffers of any
length over any bytes the solver's answers are exactly the printable inputs that
the compare accepts. The argument is by counting modulo 2 what a bit contributes
to the xor of all bytes. `ReconstructIsByLine` says that the model's `Reconstruct`,
which looks for the last load before a store and the last copy over a byte, gives the
buffer of the code's loop over the helper's lines: `ReadUpTo` describes the loop's
variables after any line, and holds after one line more (`OneLineMore`). With both,
`SelfXorIsAlwaysExact` follows for every task that is plain.
`AnswersStayCurrent` and `OverlapNeedsTimeout` rest on one invariant: threads
are heard in the order they were started (`Heard`), the thread waited for is the newest
(`Awaited`), and threads and pipelines are counted against timeouts (`Counted`).
`UnreadableFilesNeverMatter` follows what taking one file from a list does to the
numbers of the others (`Shift`, `ClosesGap`): the first of those with an answer stays
the first, the listing and the dump are of the same program as before, and the actions
chosen are the same.

**`BrainProps_proofs`** proves the five safety properties of `brain`. For
`LicensedAlways` the invariant carries through the cycle what each stage has
established for the tool calls its decision still holds; `RiskModeLeftByOperator`
follows from it. `AccountsAlwaysAgree`: three sets of books, kept at different stages,
agree between cycles because during one they differ by what the stages passed have
counted and the others have not (`BooksInv`); what a run's steps add up to is a
recursive function, unfolded by `NatSetInduction`. `RunAlwaysInBudget` bounds
steps and tool calls, with the one that may be under way, and adds the calls up over
the steps. `RunAlwaysFollowsPlan` (`FollowInv`): what is done, what is in hand and what
is to do (`Left`, `ToDo`) make up the plan in its order (`InOrder`), with a diagnosis directly
behind each failure that left something to do.

**`CmsEngine_proofs`** assumes `~IdsRestart`, that ids are not given twice; with ids that
restart the properties fail, which is what `missions_overwritten` shows. `EngineInv`
joins the types, where evidence comes from (`Provenance`), that what is on file came
before what is under way (`Arrival`), how episodes and open stretches of a session
follow one another (`Regimes`) and what a call still has to do for completeness
(`Complete`). From it: the four properties of `episodes` and
`ObservationsAreImmutable`, which no run checks.

**`BeliefProps_proofs`** has two invariants. `BeliefInv` says of each lane that its
ledgers hold distinct records of that lane (`Ledgers`) and that an active belief is
backed (`Backed`), and that a sweep only has active ones before it (`Sweeping`); it gives
`TypeCorrect`, `CountedOnceInItsLane` and `ActiveIsSupported`. `ToldInv` adds what a
rebuild, which announces nothing until its end, still has to read
(`Rebuilding`), and gives `ActiveIsAnnounced`. `HistoryInv` says how far the ledgers
tell the history during a call (`Tells`): to the record that is processed next, while
a turn's new records or a rebuild's old ones are still to come, and to the end when all
were processed before. It gives `LedgersAlwaysTellHistory`. The side of a record is
decided in the code by the sign of a running sum, in the property by the first record
that points anywhere: the two agree because all that was counted as supporting so far
has that sign (`MassIsSum` unfolds the fold, and the lemmas after it tell its sign).
`ViewAlwaysShowsTheLatest`: the store's order and the service's are strict and total on
records (`Orders`), so that counting predecessors numbers them without gaps
(`PlacesAreTaken`), a cut keeps the first places (`FirstPlaces`), and a pool no smaller
than the limit holds whatever is shown (`ShownFirst`).

The assumptions are those named in the modules (`FlagsAssumption`,
`RuntimeAssumption`, `TopicsAssumption`, `BeliefAssumption`, `QueuesAssumption`, ...), which
TLC evaluates on every instance. Only model-checked: what has to happen
(`EveryChallengeEnds`, `ApprovalReachesBoard`, `EveryCandidateIsJudged`,
`AnswersWithoutTimer`, `QueuedIsHandedOut`, `EveryTaskEnds`, `RunEnds`), since liveness and
`ENABLED` are out of the prover's reach. Every safety property of a passing run is
stated by a theorem. `MissionMemory` has violations to show and no theorem.

*Induction over data.* The library's induction theorems take an operator and cannot be
used. Where a sum, a scan or a run's steps are recursive functions, induction goes
through a set instead: the least number that is not in it (`LeastNat`, from
`WFMin`) shows that a set which holds 0 and every successor is all of `Nat`
(`NatClosed`, `NatSetInduction`). Folds of sequences and `SelectSeq` stay opaque: the
proofs say nothing of which windows `CheckPath` collects or which helpers `HelperCalls` lists, and
treat both as any function of the listing. That the engine comes to the helper is
therefore part of `IsPlain` and no theorem; the run shows it for the layouts of
`MCEngines`.

## 5. Not modelled, and what is left

`PROJECT.json` names each part with its status. External tools, model servers, the
sandbox's command line, prompts, skills, configuration, logging and the reporting
commands are input and output or text; advice and research only reach the payload of
traces. Left out of what is modelled: the value of a belief, hypotheses (stored,
never read back by the runtime), tool and memory traces, expiry of Redis keys,
malformed messages, the decision tables of engines that only choose a text for a
trace, and what `BioBrain` leaves out (section 2).

Steps that are coarser than the code's awaits or commits:

- A handler of `CtfRuntime` that publishes twice with nothing in between (`DispatchTask`,
  `AnnounceVerdict`, `EngineClaims`, `EngineHandsOff`, `StaticHit`) does it in one action, on
  Kafka too: a crash that parts a task from its `routed` trace, or a candidate from its
  trace, is not shown.
- `AnnounceSolved` ends `on_flag`. The lesson stored last, `ltm.consolidate`
  (`orchestrator.py:211`), is left out; triage alone reads it, and routes without it.
- `BeliefService.Turn` stores the observation and the episode it closes at once and files
  afterwards; `engine.py:171` files the observation's evidence before the episode is
  closed. The order of the filings is the code's, and a failure between is in
  `CmsEngine`, where a turn goes row by row. What `end_session` files of a flushed episode
  is in `CmsEngine`; `BeliefService` approximates it by `Refile`.
- `BeliefService.UpdateNext` writes a belief and emits its event in one step
  (`belief_service.py:166`). `ActiveIsAnnounced` excepts whatever a crash cut short (`lost`),
  which covers the crash between the two.

What would add most next: the sessions of Bibi around `CmsEngine`; the serving of the
sandbox over the bus, once something asks it; a theorem that the check path of every
listing with the layout of `Crackme` leads to its helper, from a characterisation of
what its fold keeps.
