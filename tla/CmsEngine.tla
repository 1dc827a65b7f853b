------------------------------ MODULE CmsEngine ------------------------------
(***************************************************************************)
(* One turn of the CMS runtime from end to end, for one user:               *)
(* cms/runtime/engine.py calls cms/l1/service.py, which stores an           *)
(* observation, cms/l2/service.py, which groups observations into episodes  *)
(* and stores those, and cms/l3/service.py, which files evidence of both.   *)
(*                                                                         *)
(* Everything runs in one thread and each row is committed by itself.  The  *)
(* tables outlive the process; the open episodes, the id counter of         *)
(* CMSMemory and the call in progress do not.  What the beliefs make of the *)
(* evidence is the subject of BeliefService: here they only consume it.     *)
(***************************************************************************)
EXTENDS EvidenceRules, SequencesExt

CONSTANTS
    Sessions,       \* the session_ids
    Utterances,     \* what may be said: the coordinates the rules look at
    Policies,       \* the closure policies that are combined
    MaxSize,        \* WindowedClosurePolicy.max_size
    MinHistory,     \* SurpriseClosurePolicy.min_history
    WithEvidence,   \* whether the evidence and belief services are wired
    IdsRestart,     \* whether ids count from 0 in every process, as CMSMemory's do
    MaxTurns, MaxFaults    \* bounds

ASSUME EngineAssumption ==
    /\ Policies \subseteq {"window_full", "surprise_spike"} /\ Policies # {}
    /\ \A u \in Utterances :
          u.ratio \in Nat /\ u.certainty \in 0..100 /\ u.intent \in 0..100
    /\ MaxSize \in Nat \ {0} /\ MinHistory \in Nat \ {0}
    /\ WithEvidence \in BOOLEAN /\ IdsRestart \in BOOLEAN
    /\ MaxTurns \in Nat /\ MaxFaults \in Nat

VARIABLES
    observations,   \* the table of observations, by obs_id
    episodes,       \* the table of episodes, by episode_id
    evidence,       \* memory_evidence
    fed,            \* the evidence that process_new_evidence was given
    open,           \* EpisodeService._open
    nextId,         \* the next id a factory gives out
    job,            \* the call in progress
    turns, faults   \* turns ingested, and calls that did not return or lost turns

vars == <<observations, episodes, evidence, fed, open, nextId, job, turns, faults>>

\* turn tells one utterance from another; it stands for turn_id, text and time.
Observation == [session : Sessions, turn : 1..MaxTurns, said : Utterances]
Episode == [session : Sessions, obs_ids : Seq(Nat), reason : SUBSET (Policies \cup {"flush"})]
Evidence == [kind : {"observation", "episode"}, id : Nat, rule : Rules]

Idle == [call |-> "idle"]
Job == {Idle}
    \cup [call : {"observed", "closed"}, obs : Nat, filings : Seq(Evidence), new : SUBSET Evidence]

\* INSERT OR REPLACE, and an assignment to a dictionary.
Put(table, key, row) == [k \in DOMAIN table \cup {key} |-> IF k = key THEN row ELSE table[k]]

TypeOK ==
    /\ observations \in [DOMAIN observations -> Observation]
    /\ episodes \in [DOMAIN episodes -> Episode]
    /\ DOMAIN observations \cup DOMAIN episodes \subseteq Nat
    /\ evidence \subseteq Evidence /\ fed \subseteq evidence
    /\ open \in [Sessions -> Seq(Nat)]
    /\ "window_full" \in Policies =>
          \A s \in Sessions : Len(open[s]) = 0 \/ Len(open[s]) = 1 \/ Len(open[s]) < MaxSize
    /\ nextId \in Nat
    /\ job \in Job
    /\ turns \in 0..MaxTurns /\ faults \in 0..MaxFaults

Init ==
    /\ observations = <<>> /\ episodes = <<>>
    /\ evidence = {} /\ fed = {}
    /\ open = [s \in Sessions |-> <<>>]
    /\ nextId = 0
    /\ job = Idle
    /\ turns = 0 /\ faults = 0

-----------------------------------------------------------------------------
(* What the rules would file of an object.                                 *)

FilingsOf(kind, id, firings) ==
    IF WithEvidence
    THEN [i \in DOMAIN firings |-> [kind |-> kind, id |-> id, rule |-> firings[i].rule]]
    ELSE <<>>

ObservationFilings(id, o) == FilingsOf("observation", id, ObservationFirings(o.said))
EpisodeFilings(id, e) ==
    FilingsOf("episode", id,
        EpisodeFirings([length |-> Len(e.obs_ids), surprise |-> "surprise_spike" \in e.reason]))

\* The call that goes on with these filings.
Observed(id, filings) == [call |-> "observed", obs |-> id, filings |-> filings, new |-> {}]
Closed(j, filings) == [j EXCEPT !.call = "closed", !.filings = filings]

-----------------------------------------------------------------------------
(* l1/service.py: ingest, the first step of process_turn                    *)

Ingest(s, u) ==
    /\ job = Idle /\ turns < MaxTurns
    /\ LET o == [session |-> s, turn |-> turns + 1, said |-> u] IN
         /\ observations' = Put(observations, nextId, o)
         /\ job' = Observed(nextId, ObservationFilings(nextId, o))
    /\ nextId' = nextId + 1
    /\ turns' = turns + 1
    /\ UNCHANGED <<episodes, evidence, fed, open, faults>>

\* The turn is refused: the id is drawn before the observation is built, or saved,
\* and the exception leaves process_turn.
IngestFails ==
    /\ job = Idle /\ faults < MaxFaults
    /\ nextId' = nextId + 1
    /\ faults' = faults + 1
    /\ UNCHANGED <<observations, episodes, evidence, fed, open, job, turns>>

-----------------------------------------------------------------------------
(* l3/service.py: _file_rules, one round of its loop                        *)

FileNext ==
    /\ job # Idle /\ job.filings # <<>>
    /\ LET r == Head(job.filings) IN
         /\ evidence' = evidence \cup {r}
         /\ job' = [job EXCEPT !.filings = Tail(@),
                               !.new = IF r \in evidence THEN @ ELSE @ \cup {r}]
    /\ UNCHANGED <<observations, episodes, fed, open, nextId, turns, faults>>

-----------------------------------------------------------------------------
(* l2/policies.py and l2/service.py                                         *)

\* CompositeClosurePolicy.should_close; whether the scorer finds the observation
\* surprising is left open.
Reasons(seen, surprising) ==
    {p \in Policies : \/ p = "window_full" /\ Len(seen) + 1 >= MaxSize
                      \/ p = "surprise_spike" /\ Len(seen) >= MinHistory /\ surprising}

\* A slip: the episode is handed on, but not saved.
CloseUnsaved(j, s, obs_ids, reason) ==
    /\ job' = Closed(j, EpisodeFilings(nextId,
                    [session |-> s, obs_ids |-> obs_ids, reason |-> reason]))
    /\ nextId' = nextId + 1
    /\ UNCHANGED episodes

\* _build_episode and save.  Call j goes on with what the rules will file of it.
Close(j, s, obs_ids, reason) ==
    LET e == [session |-> s, obs_ids |-> obs_ids, reason |-> reason] IN
    /\ episodes' = Put(episodes, nextId, e)
    /\ job' = Closed(j, EpisodeFilings(nextId, e))
    /\ nextId' = nextId + 1

Updating == job # Idle /\ job.call = "observed" /\ job.filings = <<>>

\* EpisodeService.update, when an episode that is closed gets the observations
\* closing and the next one begins with the observations next.
UpdateTo(closing, next) ==
    /\ Updating
    /\ LET s == observations[job.obs].session IN
       \E surprising \in BOOLEAN :
         LET reason == Reasons(open[s], surprising) IN
         IF reason # {} /\ open[s] # <<>>
         THEN /\ Close(job, s, open[s] \o closing, reason)
              /\ open' = [open EXCEPT ![s] = next]
         ELSE /\ open' = [open EXCEPT ![s] = Append(@, job.obs)]
              /\ job' = Closed(job, <<>>)
              /\ UNCHANGED <<episodes, nextId>>
    /\ UNCHANGED <<observations, evidence, fed, turns, faults>>

\* Slips: the observation that ends an episode is counted to it, too, or opens none.
UpdateKeepingTrigger == UpdateTo(<<job.obs>>, <<job.obs>>)
UpdateForgettingTrigger == UpdateTo(<<>>, <<>>)

\* The observation that ends an episode belongs to the next one.
UpdateEpisode == UpdateTo(<<>>, <<job.obs>>)

\* end_session, which flushes.
EndSession(s) ==
    /\ job = Idle /\ open[s] # <<>>
    /\ Close(Observed(nextId, <<>>), s, open[s], {"flush"})
    /\ open' = [open EXCEPT ![s] = <<>>]
    /\ UNCHANGED <<observations, evidence, fed, turns, faults>>

\* reset drops the open episode.
Reset(s) ==
    /\ job = Idle /\ open[s] # <<>> /\ faults < MaxFaults
    /\ open' = [open EXCEPT ![s] = <<>>]
    /\ faults' = faults + 1
    /\ UNCHANGED <<observations, episodes, evidence, fed, nextId, job, turns>>

-----------------------------------------------------------------------------
Ending == job # Idle /\ job.call = "closed" /\ job.filings = <<>>

\* A slip: the beliefs are given the evidence of the episode, when there is one.
FeedLatest ==
    /\ Ending
    /\ fed' = fed \cup (IF \E r \in job.new : r.kind = "episode"
                        THEN {r \in job.new : r.kind = "episode"} ELSE job.new)
    /\ job' = Idle
    /\ UNCHANGED <<observations, episodes, evidence, open, nextId, turns, faults>>

\* The last step of either call: the beliefs are given all it filed.
Feed ==
    /\ Ending
    /\ fed' = fed \cup job.new
    /\ job' = Idle
    /\ UNCHANGED <<observations, episodes, evidence, open, nextId, turns, faults>>

\* A write fails, or a rule raises, and the exception leaves the call.  An
\* episode that is not saved stays open; its id is used up.
CallFails ==
    /\ job # Idle /\ faults < MaxFaults
    /\ nextId' = IF Updating THEN nextId + 1 ELSE nextId
    /\ job' = Idle
    /\ faults' = faults + 1
    /\ UNCHANGED <<observations, episodes, evidence, fed, open, turns>>

\* The process ends, anywhere, and is started again.
Restart ==
    /\ faults < MaxFaults
    /\ open' = [s \in Sessions |-> <<>>]
    /\ nextId' = IF IdsRestart THEN 0 ELSE nextId
    /\ job' = Idle
    /\ faults' = faults + 1
    /\ UNCHANGED <<observations, episodes, evidence, fed, turns>>

Next ==
    \/ \E s \in Sessions, u \in Utterances : Ingest(s, u)
    \/ IngestFails
    \/ FileNext \/ UpdateEpisode \/ Feed
    \/ \E s \in Sessions : EndSession(s) \/ Reset(s)
    \/ CallFails \/ Restart

Spec == Init /\ [][Next]_vars
=============================================================================
