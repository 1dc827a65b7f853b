---------------------------- MODULE MissionMemory ----------------------------
(***************************************************************************)
(* The institutional memory of the CTF runtime: ctfrt/cms_cag.py files the  *)
(* outcome of missions in a CMS engine without evidence and beliefs, fed    *)
(* from ctf.traces by a consumer that ctfrt/run.py starts beside the core   *)
(* components and supervises with them.                                    *)
(***************************************************************************)
EXTENDS Integers, Sequences

CONSTANTS
    Categories,       \* the categories of challenges: the sessions of the engine
    Core,             \* the components main starts beside the consumer
    EpisodeWindow,    \* CMSMemory: episode_window
    MaxTraces, MaxMissions, MaxFaults    \* bounds

VARIABLES
    observations, episodes, evidence, fed, open, nextId, job, turns, faults,
    inbox,      \* what ctf.traces holds for the group "memory"
    published,  \* the number of traces published
    task,       \* what became of the tasks of main
    stop,       \* a signal asked the process to stop
    main        \* main itself

engineVars == <<observations, episodes, evidence, fed, open, nextId, job, turns, faults>>
vars == <<engineVars, inbox, published, task, stop, main>>

\* What a summary says plays no part: _CTFExtractor answers the same for every text.
Summary == [ratio |-> 60, certainty |-> 70, intent |-> 50]

\* CMSMemory.__init__
Engine == INSTANCE CmsEngine WITH
    Sessions <- Categories, Utterances <- {Summary},
    Policies <- {"window_full"}, MaxSize <- EpisodeWindow, MinHistory <- 1,
    WithEvidence <- FALSE, IdsRestart <- TRUE,
    MaxTurns <- MaxMissions, MaxFaults <- MaxFaults

NoCategory == ""
Trace == [kind : {"solved", "candidate_rejected"}, category : Categories \cup {NoCategory}]
Tasks == Core \cup {"memory"}

Init ==
    /\ Engine!Init
    /\ inbox = <<>> /\ published = 0
    /\ task = [t \in Tasks |-> "running"]
    /\ stop = FALSE
    /\ main = "waiting"

Running(t) == main = "waiting" /\ task[t] = "running"

-----------------------------------------------------------------------------
(* What the core components publish.                                       *)

Publish(trace) ==
    /\ published < MaxTraces
    /\ inbox' = Append(inbox, trace)
    /\ published' = published + 1
    /\ UNCHANGED <<engineVars, task, stop, main>>

\* Orchestrator.on_flag: the payload names the category of the board.
PublishSolved(c) ==
    /\ Running("orchestrator")
    /\ Publish([kind |-> "solved", category |-> c])

\* Gate.evaluate: neither the payload nor the event names a category.
PublishRejection ==
    /\ Running("gate")
    /\ Publish([kind |-> "candidate_rejected", category |-> NoCategory])

-----------------------------------------------------------------------------
(* MemoryConsumer.run and CMSMemory.record_mission                          *)

Arrived == Running("memory") /\ job = Engine!Idle /\ inbox # <<>>

\* record_mission of a category.  Nothing is awaited before it returns, and its
\* steps are those of process_turn.
Record ==
    /\ Arrived
    /\ Head(inbox).category # NoCategory
    /\ Engine!Ingest(Head(inbox).category, Summary)
    /\ inbox' = Tail(inbox)
    /\ UNCHANGED <<published, task, stop, main>>

RecordOn ==
    /\ Running("memory")
    /\ Engine!UpdateEpisode \/ Engine!Feed
    /\ UNCHANGED <<inbox, published, task, stop, main>>

\* L1Observation refuses an empty session_id, and nobody catches the ValueError.
RecordRefused ==
    /\ Arrived
    /\ Head(inbox).category = NoCategory
    /\ nextId' = nextId + 1
    /\ inbox' = Tail(inbox)
    /\ task' = [task EXCEPT !["memory"] = "failed"]
    /\ UNCHANGED <<observations, episodes, evidence, fed, open, job, turns, faults>>
    /\ UNCHANGED <<published, stop, main>>

-----------------------------------------------------------------------------
(* run.py: main                                                            *)

Signal ==
    /\ main = "waiting" /\ ~stop
    /\ stop' = TRUE
    /\ UNCHANGED <<engineVars, inbox, published, task, main>>

\* A handler of a core component raises.
CoreFails(c) ==
    /\ Running(c)
    /\ task' = [task EXCEPT ![c] = "failed"]
    /\ UNCHANGED <<engineVars, inbox, published, stop, main>>

\* asyncio.wait returns on the signal or the first task that fails, whichever task
\* that is; all others are cancelled and the process ends.
Shutdown ==
    /\ main = "waiting"
    /\ job = Engine!Idle
    /\ stop \/ \E t \in Tasks : task[t] = "failed"
    /\ task' = [t \in Tasks |-> IF task[t] = "running" THEN "cancelled" ELSE task[t]]
    /\ main' = "down"
    /\ UNCHANGED <<engineVars, inbox, published, stop>>

\* The process is started again, after a shutdown or a crash, over the same
\* database.  A bus in memory is empty then, a Kafka topic is not.
Restart ==
    /\ Engine!Restart
    /\ inbox' \in {inbox, <<>>}
    /\ task' = [t \in Tasks |-> "running"]
    /\ stop' = FALSE
    /\ main' = "waiting"
    /\ UNCHANGED published

Next ==
    \/ \E c \in Categories : PublishSolved(c)
    \/ PublishRejection
    \/ Record \/ RecordOn \/ RecordRefused
    \/ Signal \/ Shutdown \/ Restart
    \/ \E c \in Core : CoreFails(c)

Spec == Init /\ [][Next]_vars

-----------------------------------------------------------------------------
\* run.py: the memory is one of the "best-effort runtime extensions that stay off
\* the critical path".  The process only goes down when it is asked to, or when
\* one of its core components failed.
OffCriticalPath ==
    main = "down" => stop \/ \E c \in Core : task[c] = "failed"

\* cms_cag.py: the memory is "a persistent, session-scoped store" that "improves as
\* missions accumulate".  What is on file of a mission is never replaced.
MissionsAccumulate ==
    [][\A o \in DOMAIN observations :
          o \in DOMAIN observations' /\ observations'[o] = observations[o]]_vars
=============================================================================
