---------------------------- MODULE BeliefService ----------------------------
(***************************************************************************)
(* L3 of the CMS runtime for one user: cms/l3/service.py files evidence,    *)
(* cms/l3/belief_service.py folds it into beliefs, in the order in which    *)
(* cms/runtime/engine.py calls them.  Everything runs in one thread, but    *)
(* each row is committed by itself, so that a crash may fall between any    *)
(* two of them; the tables stay, the call in progress is gone.             *)
(*                                                                         *)
(* memory_ids are positions in evidence, which is append-only.  The value   *)
(* and the stability of a belief are left out: its status depends on the    *)
(* ledgers, the confidence computed from them, and the clock.              *)
(***************************************************************************)
EXTENDS EvidenceRules, SequencesExt

CONSTANTS
    Contexts,              \* the context_keys, "global" for None among them
    Turns,                 \* what a turn may be: see TurnInput
    \* BeliefThresholds, scores and confidences in hundredths, windows in days
    MinStrength, TentativeMinSupport, ActiveMinSupport, ActiveMinConfidence,
    ActiveWindow, StaleWindow, BurstCount, BurstWindow,
    PerSupport, PerContradiction,
    SupersessionWindow,    \* EvidenceService.supersession_window_days
    MaxTurns, MaxDays, MaxCrashes, MaxCalls   \* bounds

\* A turn as L3 sees it: the coordinates of the utterance, and the episode it
\* closed: <<>> or <<episode>>.
TurnInput(t) ==
    /\ t.observation.ratio \in Nat
    /\ t.observation.certainty \in 0..100 /\ t.observation.intent \in 0..100
    /\ t.closed \in Seq([length : Nat \ {0}, surprise : BOOLEAN]) /\ Len(t.closed) <= 1

ASSUME BeliefAssumption ==
    /\ \A t \in Turns : TurnInput(t)
    /\ MinStrength \in 0..100 /\ ActiveMinConfidence \in 0..100
    /\ TentativeMinSupport \in Nat \ {0} /\ ActiveMinSupport \in Nat
    /\ ActiveMinSupport >= TentativeMinSupport
    /\ ActiveWindow \in Nat \ {0} /\ StaleWindow \in Nat \ {0}
    /\ BurstCount \in Nat \ {0} /\ BurstWindow \in Nat
    /\ PerSupport \in Nat /\ PerContradiction \in Nat
    /\ SupersessionWindow \in Nat
    /\ MaxTurns \in Nat /\ MaxDays \in Nat /\ MaxCrashes \in Nat /\ MaxCalls \in Nat

VARIABLES
    turns,      \* the turns whose observations and episodes are stored
    evidence,   \* memory_evidence, in the order of insertion
    beliefs,    \* profile_beliefs, by lane
    told,       \* the status the last event announced for each lane
    job,        \* the call in progress
    day,        \* the clock
    lost,       \* history: a crash cut a call short since the last rebuild
    crashes, calls   \* crashes, and calls other than turns, so far

vars == <<turns, evidence, beliefs, told, job, day, lost, crashes, calls>>

\* A lane is (dimension, context_key): Block 6 uniqueness.
Lanes == [dimension : Dimensions, context : Contexts]
Status == {"tentative", "active", "stale", "invalidated"}
NoBelief == [status |-> "none", supports |-> <<>>, contras |-> <<>>]

Ids == DOMAIN evidence
Source == [turn : 1..MaxTurns, kind : {"observation", "episode"}]
Record == [ source : Source, rule : Rules, context : Contexts, score : 0..100,
            day : 0..MaxDays, supersedes : SUBSET Nat ]
Belief == [status : Status, supports : Seq(Nat), contras : Seq(Nat)]

Idle == [call |-> "idle"]
Filing == [source : Source, rule : Rules, score : 0..100, context : Contexts]
\* What is left to do of a call: the records to file, the beliefs to drop, the
\* records to process; or the beliefs to look at.
Job == {Idle}
    \cup [ call : {"process", "rebuild"}, filings : Seq(Filing), drop : SUBSET Lanes,
           new : Seq(Nat) ]
    \cup [call : {"sweep"}, lanes : SUBSET Lanes]

Process(filings, new) ==
    [call |-> "process", filings |-> filings, drop |-> {}, new |-> new]

TypeOK ==
    /\ turns \in Seq(Turns) /\ Len(turns) <= MaxTurns
    /\ evidence \in Seq(Record)
    /\ beliefs \in [Lanes -> Belief \cup {NoBelief}]
    /\ \A l \in Lanes : ToSet(beliefs[l].supports \o beliefs[l].contras) \subseteq Ids
    /\ told \in [Lanes -> Status \cup {"none"}]
    /\ job \in Job
    /\ job.call \in {"process", "rebuild"} => ToSet(job.new) \subseteq Ids
    /\ day \in 0..MaxDays
    /\ lost \in BOOLEAN
    /\ crashes \in 0..MaxCrashes /\ calls \in 0..MaxCalls

Init ==
    /\ turns = <<>> /\ evidence = <<>>
    /\ beliefs = [l \in Lanes |-> NoBelief]
    /\ told = [l \in Lanes |-> "none"]
    /\ job = Idle
    /\ day = 0
    /\ lost = FALSE
    /\ crashes = 0 /\ calls = 0

-----------------------------------------------------------------------------
(* service.py: filing                                                      *)

Filings(t, turn, context) ==
    LET of(kind, firings) ==
            [i \in DOMAIN firings |->
                [ source |-> [turn |-> turn, kind |-> kind], rule |-> firings[i].rule,
                  score |-> firings[i].score, context |-> context ]]
    IN  of("observation", ObservationFirings(t.observation))
        \o (IF t.closed = <<>> THEN <<>> ELSE of("episode", EpisodeFirings(t.closed[1])))

\* process_turn: the rules run over the new observation, then over the episode
\* it closed; then the records they filed are processed.
\* The code closes the episode after it filed the observation's records; here both
\* objects are there at once.  A crash between is in CmsEngine.  What end_session
\* files of a flushed episode is approximated by Refile.
Turn(t, context) ==
    /\ job = Idle /\ Len(turns) < MaxTurns
    /\ turns' = Append(turns, t)
    /\ job' = Process(Filings(t, Len(turns) + 1, context), <<>>)
    /\ UNCHANGED <<evidence, beliefs, told, day, lost, crashes, calls>>

\* Any other call: it leaves everything else as it is.
Start(j) ==
    /\ job = Idle /\ calls < MaxCalls
    /\ job' = j
    /\ calls' = calls + 1
    /\ UNCHANGED <<turns, evidence, beliefs, told, day, lost, crashes>>

\* The rules run again over the objects of an earlier turn, for another context
\* perhaps.
Refile(turn, context) ==
    Start(Process(Filings(turns[turn], turn, context), <<>>))

\* The idempotency key leaves the context out.
AlreadyFiled(f) ==
    \E i \in Ids : evidence[i].source = f.source /\ evidence[i].rule = f.rule

\* _find_lane_supersession
Superseded(f) ==
    {i \in Ids : /\ evidence[i].rule = f.rule /\ evidence[i].context = f.context
                 /\ SupersessionWindow > 0 /\ evidence[i].day < day - SupersessionWindow}

\* One round of the loop in _file_rules.
FileNext ==
    /\ job.call = "process" /\ job.filings # <<>>
    /\ LET f == Head(job.filings) IN
         IF AlreadyFiled(f)
         THEN /\ job' = [job EXCEPT !.filings = Tail(@)]
              /\ UNCHANGED evidence
         ELSE /\ evidence' = Append(evidence,
                    [ source |-> f.source, rule |-> f.rule, context |-> f.context,
                      score |-> f.score, day |-> day, supersedes |-> Superseded(f) ])
              /\ job' = [job EXCEPT !.filings = Tail(@), !.new = Append(@, Len(evidence) + 1)]
    /\ UNCHANGED <<turns, beliefs, told, day, lost, crashes, calls>>

-----------------------------------------------------------------------------
(* belief_service.py: what one record does to the belief of its lane        *)

Contribution(i) == Feeds[evidence[i].rule].direction * evidence[i].score
Mass(ids) == MapThenSumSet(Contribution, ids)
LaneOf(i) == [dimension |-> Feeds[evidence[i].rule].dimension, context |-> evidence[i].context]

\* _integrate_evidence: whether record i supports belief b.  The sign of the
\* supporting ledger's mean is that of its sum.  A contribution of zero opposes
\* any direction.
Supports(b, i) ==
    LET direction == Mass(ToSet(b.supports)) IN
    \/ b.supports = <<>> /\ b.contras = <<>>
    \/ Polarity(LaneOf(i).dimension) = "magnitude"
    \/ direction = 0
    \/ direction > 0 /\ Contribution(i) > 0
    \/ direction < 0 /\ Contribution(i) < 0

Integrate(b, i) ==
    IF Supports(b, i) THEN [b EXCEPT !.supports = Append(@, i)]
                      ELSE [b EXCEPT !.contras = Append(@, i)]

\* The ids in s that no record of the belief's ledgers supersedes.
Live(b, s) ==
    ToSet(s) \ UNION {evidence[i].supersedes : i \in ToSet(b.supports) \cup ToSet(b.contras)}

Confidence(b) ==
    Clip(Cardinality(Live(b, b.supports)) * PerSupport
           - Cardinality(Live(b, b.contras)) * PerContradiction)

Since(ids, window) == {i \in ids : evidence[i].day >= day - window}
Strong(ids) == {i \in ids : evidence[i].score >= MinStrength}

\* is_belief_stale of the latest of these supports.
IsStale(ids) == \A i \in ids : day - evidence[i].day > StaleWindow

Outweighed(b) ==
    \/ Cardinality(Live(b, b.contras)) > Cardinality(Live(b, b.supports))
    \/ Cardinality(Since(Live(b, b.contras), BurstWindow)) >= BurstCount

\* A slip: weak supports count as well.
ActivatedByAny(b) ==
    /\ Cardinality(Since(Live(b, b.supports), ActiveWindow)) >= ActiveMinSupport
    /\ Confidence(b) >= ActiveMinConfidence

Activated(b) ==
    /\ Cardinality(Strong(Since(Live(b, b.supports), ActiveWindow))) >= ActiveMinSupport
    /\ Confidence(b) >= ActiveMinConfidence

Qualified(b) == Cardinality(Strong(Live(b, b.supports))) >= TentativeMinSupport

\* A slip: an active belief that falls short is tentative again.
StatusFallingBack(b) ==
    CASE Outweighed(b) -> "invalidated"
      [] ~Outweighed(b) /\ Activated(b) -> "active"
      [] ~Outweighed(b) /\ ~Activated(b) /\ Qualified(b) -> "tentative"
      [] OTHER -> IF b.status = "active" THEN "stale" ELSE b.status

\* _compute_status.  An active belief that has fallen below the thresholds stays
\* active until it is stale; without strong support any other keeps its status.
StatusOf(b) ==
    CASE Outweighed(b) -> "invalidated"
      [] ~Outweighed(b) /\ Activated(b) -> "active"
      [] ~Outweighed(b) /\ ~Activated(b) /\ Qualified(b) ->
           IF b.status # "active" THEN "tentative"
           ELSE IF IsStale(Live(b, b.supports)) THEN "stale" ELSE "active"
      [] OTHER -> IF b.status = "active" THEN "stale" ELSE b.status

\* _make_fresh_belief
Existing(b) == IF b = NoBelief THEN [b EXCEPT !.status = "tentative"] ELSE b

\* _emit_transition_events: no event tells that a belief that was stale or
\* invalidated is tentative again.
Announced(before, after, announced) ==
    CASE before = after -> announced
      [] after = "tentative" /\ before # "none" -> announced
      [] OTHER -> after

-----------------------------------------------------------------------------
(* belief_service.py: process_new_evidence                                 *)

Processing ==
    /\ job.call \in {"process", "rebuild"}
    /\ job.filings = <<>> /\ job.drop = {}

\* A slip: only the supporting ledger is searched for the record.
UpdateUnlessSupporting ==
    /\ Processing /\ job.new # <<>>
    /\ LET i == Head(job.new)
           l == LaneOf(i)
           b == Integrate(Existing(beliefs[l]), i)
       IN  IF i \in ToSet(beliefs[l].supports)
           THEN UNCHANGED <<beliefs, told>>
           ELSE /\ beliefs' = [beliefs EXCEPT ![l] = [b EXCEPT !.status = StatusOf(b)]]
                /\ told' = [told EXCEPT ![l] = Announced(beliefs[l].status, StatusOf(b), @)]
    /\ job' = [job EXCEPT !.new = Tail(@)]
    /\ UNCHANGED <<turns, evidence, day, lost, crashes, calls>>

\* A record that is in either ledger of its belief is passed over.  The belief is
\* written and its event emitted in one step; `lost` stands for what a crash
\* between the two keeps from being told.
UpdateNext ==
    /\ Processing /\ job.new # <<>>
    /\ LET i == Head(job.new)
           l == LaneOf(i)
           b == Integrate(Existing(beliefs[l]), i)
       IN  IF i \in ToSet(beliefs[l].supports) \cup ToSet(beliefs[l].contras)
           THEN UNCHANGED <<beliefs, told>>
           ELSE /\ beliefs' = [beliefs EXCEPT ![l] = [b EXCEPT !.status = StatusOf(b)]]
                /\ told' = [told EXCEPT ![l] = Announced(beliefs[l].status, StatusOf(b), @)]
    /\ job' = [job EXCEPT !.new = Tail(@)]
    /\ UNCHANGED <<turns, evidence, day, lost, crashes, calls>>

\* A rebuild ends with an event for every belief there is.
UpdateDone ==
    /\ Processing /\ job.new = <<>>
    /\ IF job.call = "rebuild"
       THEN /\ told' = [l \in Lanes |-> IF beliefs[l] = NoBelief THEN told[l]
                                                                 ELSE beliefs[l].status]
            /\ lost' = FALSE
       ELSE UNCHANGED <<told, lost>>
    /\ job' = Idle
    /\ UNCHANGED <<turns, evidence, beliefs, day, crashes, calls>>

\* Records are processed once more.
Reprocess(i) == Start(Process(<<>>, <<i>>))

-----------------------------------------------------------------------------
(* belief_service.py: recompute_for_user                                   *)

Rebuild(new) == [ call |-> "rebuild", filings |-> <<>>, new |-> new,
                  drop |-> {l \in Lanes : beliefs[l] # NoBelief} ]

\* A slip: the history is read newest first.
RecomputeNewestFirst == Start(Rebuild(Reverse([i \in Ids |-> i])))

\* The whole history, ordered by created_at and then by insertion: with a clock
\* that never goes back, by insertion.
Recompute == Start(Rebuild([i \in Ids |-> i]))

\* One delete for each belief; the order among them tells nothing apart.
Drop(l) ==
    /\ job.call = "rebuild" /\ l \in job.drop
    /\ beliefs' = [beliefs EXCEPT ![l] = NoBelief]
    /\ job' = [job EXCEPT !.drop = @ \ {l}]
    /\ UNCHANGED <<turns, evidence, told, day, lost, crashes, calls>>

-----------------------------------------------------------------------------
(* belief_service.py: sweep_staleness                                      *)

Sweep == Start([call |-> "sweep", lanes |-> {l \in Lanes : beliefs[l].status = "active"}])

\* The latest support counts even if it is superseded.
SweepLane(l) ==
    /\ job.call = "sweep" /\ l \in job.lanes
    /\ job' = [job EXCEPT !.lanes = @ \ {l}]
    /\ IF IsStale(ToSet(beliefs[l].supports))
       THEN /\ beliefs' = [beliefs EXCEPT ![l].status = "stale"]
            /\ told' = [told EXCEPT ![l] = "stale"]
       ELSE UNCHANGED <<beliefs, told>>
    /\ UNCHANGED <<turns, evidence, day, lost, crashes, calls>>

Swept ==
    /\ job.call = "sweep" /\ job.lanes = {}
    /\ job' = Idle
    /\ UNCHANGED <<turns, evidence, beliefs, told, day, lost, crashes, calls>>

-----------------------------------------------------------------------------
NewDay ==
    /\ job = Idle /\ day < MaxDays
    /\ day' = day + 1
    /\ UNCHANGED <<turns, evidence, beliefs, told, job, lost, crashes, calls>>

\* The process ends in the middle of a call, or a write to the database fails
\* and the exception leaves the call.
Crash ==
    /\ job # Idle /\ crashes < MaxCrashes
    /\ job' = Idle
    /\ lost' = TRUE
    /\ crashes' = crashes + 1
    /\ UNCHANGED <<turns, evidence, beliefs, told, day, calls>>

Next ==
    \/ \E t \in Turns, c \in Contexts : Turn(t, c)
    \/ \E n \in DOMAIN turns, c \in Contexts : Refile(n, c)
    \/ FileNext \/ UpdateNext \/ UpdateDone
    \/ \E i \in Ids : Reprocess(i)
    \/ Recompute \/ Sweep \/ Swept
    \/ \E l \in Lanes : Drop(l) \/ SweepLane(l)
    \/ NewDay \/ Crash

Spec == Init /\ [][Next]_vars
=============================================================================
