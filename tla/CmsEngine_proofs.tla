-------------------------- MODULE CmsEngine_proofs --------------------------
(***************************************************************************)
(* What the tables of the CMS hold after any number of turns in any number  *)
(* of sessions, with calls that fail, resets and restarts between any two   *)
(* writes, provided ids are not used again (~IdsRestart).                   *)
(***************************************************************************)
EXTENDS CmsEngineProps, SequencesExt, TLAPS

-----------------------------------------------------------------------------
(* Sequences.                                                              *)

LEMMA ToSetAppend ==
    ASSUME NEW S, NEW q \in Seq(S), NEW x \in S
    PROVE  ToSet(Append(q, x)) = ToSet(q) \cup {x}
<1>1. /\ DOMAIN Append(q, x) = 1..(Len(q) + 1) /\ DOMAIN q = 1..Len(q) /\ Len(q) \in Nat
      /\ Append(q, x)[Len(q) + 1] = x
      /\ \A i \in 1..Len(q) : Append(q, x)[i] = q[i]
  OBVIOUS
<1>2. ASSUME NEW i \in DOMAIN Append(q, x) PROVE Append(q, x)[i] \in ToSet(q) \cup {x}
  BY <1>1 DEF ToSet
<1>3. ASSUME NEW y \in ToSet(q) PROVE \E i \in DOMAIN Append(q, x) : Append(q, x)[i] = y
  <2>1. PICK i \in DOMAIN q : q[i] = y
    BY DEF ToSet
  <2> QED
    BY <1>1, <2>1
<1> QED
  BY <1>1, <1>2, <1>3 DEF ToSet

LEMMA AppendFacts ==
    ASSUME NEW S, NEW p \in Seq(S), NEW x \in S
    PROVE  /\ Append(p, x) \in Seq(S) /\ Len(p) \in Nat /\ Len(Append(p, x)) = Len(p) + 1
           /\ DOMAIN p = 1..Len(p) /\ DOMAIN Append(p, x) = 1..(Len(p) + 1)
           /\ Append(p, x)[Len(p) + 1] = x
           /\ \A i \in 1..Len(p) : Append(p, x)[i] = p[i]
  OBVIOUS

LEMMA ToSetTail ==
    ASSUME NEW S, NEW q \in Seq(S), q # <<>>
    PROVE  /\ Tail(q) \in Seq(S) /\ Head(q) \in S
           /\ ToSet(q) = {Head(q)} \cup ToSet(Tail(q))
<1>1. /\ Len(q) \in Nat \ {0} /\ DOMAIN q = 1..Len(q) /\ DOMAIN Tail(q) = 1..(Len(q) - 1)
      /\ q[1] = Head(q) /\ \A i \in 1..(Len(q) - 1) : Tail(q)[i] = q[i + 1]
  OBVIOUS
<1>2. ASSUME NEW i \in DOMAIN q PROVE q[i] \in {Head(q)} \cup ToSet(Tail(q))
  <2>1. CASE i = 1
    BY <1>1, <2>1
  <2>2. CASE i # 1
    <3>1. i - 1 \in DOMAIN Tail(q) /\ Tail(q)[i - 1] = q[i]
      BY <1>1, <2>2
    <3> QED
      BY <3>1 DEF ToSet
  <2> QED
    BY <2>1, <2>2
<1>3. ASSUME NEW y \in ToSet(Tail(q)) PROVE \E i \in DOMAIN q : q[i] = y
  <2>1. PICK i \in DOMAIN Tail(q) : Tail(q)[i] = y
    BY DEF ToSet
  <2>2. i + 1 \in DOMAIN q /\ q[i + 1] = y
    BY <1>1, <2>1
  <2> QED
    BY <2>2
<1>4. ToSet(q) = {Head(q)} \cup ToSet(Tail(q))
  BY <1>1, <1>2, <1>3 DEF ToSet
<1> QED
  BY <1>4

LEMMA ToSetOne == ASSUME NEW x PROVE ToSet(<<x>>) = {x}
  BY DEF ToSet

LEMMA ToSetNone == ToSet(<<>>) = {}
  BY DEF ToSet

-----------------------------------------------------------------------------
(* The firings of the rules have a rule and a score within 0..100.          *)

Firing == [rule : Rules, score : 0..100]

LEMMA ClipTyped == \A x \in Int : Clip(x) \in 0..100
  BY DEF Clip

LEMMA OneFiring ==
    ASSUME NEW r \in Rules, NEW x \in Int
    PROVE  <<[rule |-> r, score |-> Clip(x)]>> \in Seq(Firing)
<1> DEFINE f == [rule |-> r, score |-> Clip(x)]
<1>1. f \in Firing
  BY ClipTyped DEF Firing
<1> HIDE DEF f
<1>2. <<f>> \in Seq(Firing)
  BY <1>1
<1> QED
  BY <1>2 DEF f

LEMMA NoFiring == <<>> \in Seq(Firing)
  OBVIOUS

LEMMA ObservationFiringsTyped ==
    ASSUME NEW o, o.ratio \in Int, o.certainty \in Int, o.intent \in Int
    PROVE  ObservationFirings(o) \in Seq(Firing)
<1>1. /\ o.ratio \in Int /\ o.certainty \in Int /\ o.intent \in Int
  OBVIOUS
<1>2. /\ "obs_pragmatic_high_ratio" \in Rules /\ "obs_epistemic_certainty" \in Rules
      /\ "obs_epistemic_hedging" \in Rules /\ "obs_social_self_reference" \in Rules
      /\ "obs_social_other_reference" \in Rules
  BY DEF Rules, Feeds
<1>3. /\ ((o.ratio - 150) * 100) \div 150 \in Int
      /\ (o.certainty - 75) * 4 \in Int
      /\ ((35 - o.certainty) * 100) \div 35 \in Int
      /\ ((35 - o.intent) * 100) \div 35 \in Int
      /\ (o.intent - 75) * 4 \in Int
  BY <1>1
<1> DEFINE f1 == Fired(o.ratio >= 150, "obs_pragmatic_high_ratio", ((o.ratio - 150) * 100) \div 150)
           f2 == Fired(o.certainty >= 75, "obs_epistemic_certainty", (o.certainty - 75) * 4)
           f3 == Fired(o.certainty <= 35, "obs_epistemic_hedging", ((35 - o.certainty) * 100) \div 35)
           f4 == Fired(o.intent <= 35, "obs_social_self_reference", ((35 - o.intent) * 100) \div 35)
           f5 == Fired(o.intent >= 75, "obs_social_other_reference", (o.intent - 75) * 4)
<1>4. f1 \in Seq(Firing)
  BY <1>2, <1>3, OneFiring, NoFiring DEF Fired
<1>5. f2 \in Seq(Firing)
  BY <1>2, <1>3, OneFiring, NoFiring DEF Fired
<1>6. f3 \in Seq(Firing)
  BY <1>2, <1>3, OneFiring, NoFiring DEF Fired
<1>7. f4 \in Seq(Firing)
  BY <1>2, <1>3, OneFiring, NoFiring DEF Fired
<1>8. f5 \in Seq(Firing)
  BY <1>2, <1>3, OneFiring, NoFiring DEF Fired
<1>9. ObservationFirings(o) = f1 \o f2 \o f3 \o f4 \o f5
  BY DEF ObservationFirings
<1> HIDE DEF f1, f2, f3, f4, f5
<1> QED
  BY <1>4, <1>5, <1>6, <1>7, <1>8, <1>9

LEMMA EpisodeFiringsTyped ==
    ASSUME NEW e, e.length \in Int
    PROVE  EpisodeFirings(e) \in Seq(Firing)
<1>1. "ep_dynamics_rupture" \in Rules /\ "ep_dynamics_sustained" \in Rules
  BY DEF Rules, Feeds
<1>2. 100 - (e.length - 1) * 25 \in Int /\ (e.length - 10) * 5 \in Int
  OBVIOUS
<1> DEFINE f1 == Fired(e.length <= 5 /\ e.surprise, "ep_dynamics_rupture", 100 - (e.length - 1) * 25)
           f2 == Fired(e.length >= 10 /\ ~e.surprise, "ep_dynamics_sustained", (e.length - 10) * 5)
<1>3. f1 \in Seq(Firing)
  BY <1>1, <1>2, OneFiring, NoFiring DEF Fired
<1>4. f2 \in Seq(Firing)
  BY <1>1, <1>2, OneFiring, NoFiring DEF Fired
<1>5. EpisodeFirings(e) = f1 \o f2
  BY DEF EpisodeFirings
<1> HIDE DEF f1, f2
<1> QED
  BY <1>3, <1>4, <1>5

-----------------------------------------------------------------------------
(* Tables.                                                                 *)

LEMMA PutTyped ==
    ASSUME NEW S, NEW table, NEW key, NEW row \in S, table \in [DOMAIN table -> S]
    PROVE  Put(table, key, row) \in [DOMAIN Put(table, key, row) -> S]
  BY DEF Put

-----------------------------------------------------------------------------
(* The rules file records of their object.                                 *)

LEMMA FilingsOfTyped ==
    ASSUME NEW kind \in {"observation", "episode"}, NEW id \in Nat, NEW firings \in Seq(Firing)
    PROVE  /\ FilingsOf(kind, id, firings) \in Seq(Evidence)
           /\ \A r \in ToSet(FilingsOf(kind, id, firings)) : r.kind = kind /\ r.id = id
<1>1. DOMAIN firings = 1..Len(firings) /\ Len(firings) \in Nat
  OBVIOUS
<1>2. ASSUME NEW i \in DOMAIN firings PROVE firings[i].rule \in Rules
  <2>1. firings[i] \in Firing
    OBVIOUS
  <2> QED
    BY <2>1 DEF Firing
<1> DEFINE filed == [i \in DOMAIN firings |-> [kind |-> kind, id |-> id, rule |-> firings[i].rule]]
<1>3. \A i \in DOMAIN firings : filed[i] \in Evidence /\ filed[i].kind = kind /\ filed[i].id = id
  BY <1>2 DEF Evidence
<1>4. filed \in Seq(Evidence) /\ DOMAIN filed = DOMAIN firings
  BY <1>1, <1>3
<1>5. \A r \in ToSet(filed) : r.kind = kind /\ r.id = id
  BY <1>3, <1>4 DEF ToSet
<1>6. FilingsOf(kind, id, firings) = IF WithEvidence THEN filed ELSE <<>>
  BY DEF FilingsOf
<1> HIDE DEF filed
<1> QED
  BY <1>4, <1>5, <1>6, ToSetNone

LEMMA FilingsTyped ==
    ASSUME NEW id \in Nat
    PROVE  /\ \A o \in Observation :
                 /\ ObservationFilings(id, o) \in Seq(Evidence)
                 /\ \A r \in ToSet(ObservationFilings(id, o)) : r.kind = "observation" /\ r.id = id
           /\ \A e \in Episode :
                 /\ EpisodeFilings(id, e) \in Seq(Evidence)
                 /\ \A r \in ToSet(EpisodeFilings(id, e)) : r.kind = "episode" /\ r.id = id
<1>1. ASSUME NEW o \in Observation PROVE ObservationFirings(o.said) \in Seq(Firing)
  <2>1. o.said \in Utterances
    BY DEF Observation
  <2>2. o.said.ratio \in Int /\ o.said.certainty \in Int /\ o.said.intent \in Int
    BY <2>1, EngineAssumption
  <2> QED
    BY <2>2, ObservationFiringsTyped
<1>2. ASSUME NEW e \in Episode
      PROVE  EpisodeFirings([length |-> Len(e.obs_ids),
                             surprise |-> "surprise_spike" \in e.reason]) \in Seq(Firing)
  <2> DEFINE d == [length |-> Len(e.obs_ids), surprise |-> "surprise_spike" \in e.reason]
  <2>1. d.length = Len(e.obs_ids)
    OBVIOUS
  <2>2. Len(e.obs_ids) \in Int
    BY DEF Episode
  <2>3. d.length \in Int
    BY <2>1, <2>2
  <2> HIDE DEF d
  <2>4. EpisodeFirings(d) \in Seq(Firing)
    BY <2>3, EpisodeFiringsTyped
  <2> QED
    BY <2>4 DEF d
<1>3. ASSUME NEW o \in Observation
      PROVE  /\ ObservationFilings(id, o) \in Seq(Evidence)
             /\ \A r \in ToSet(ObservationFilings(id, o)) : r.kind = "observation" /\ r.id = id
  BY <1>1, FilingsOfTyped DEF ObservationFilings
<1>4. ASSUME NEW e \in Episode
      PROVE  /\ EpisodeFilings(id, e) \in Seq(Evidence)
             /\ \A r \in ToSet(EpisodeFilings(id, e)) : r.kind = "episode" /\ r.id = id
  BY <1>2, FilingsOfTyped DEF EpisodeFilings
<1> QED
  BY <1>3, <1>4

-----------------------------------------------------------------------------
(* The invariant.                                                          *)

Filing == IF job = Idle THEN {} ELSE ToSet(job.filings)   \* still to be filed
New    == IF job = Idle THEN {} ELSE job.new              \* filed by this call
Observing == job # Idle /\ job.call = "observed"

\* Ids are used once, and the call in progress knows what it filed.
Typed ==
    /\ TypeOK
    /\ \A k \in DOMAIN observations \cup DOMAIN episodes : k < nextId
    /\ New \subseteq evidence

Traceable(r) ==
    \/ /\ r.kind = "observation" /\ r.id \in DOMAIN observations
       /\ r \in ToSet(ObservationFilings(r.id, observations[r.id]))
    \/ /\ r.kind = "episode" /\ r.id \in DOMAIN episodes
       /\ r \in ToSet(EpisodeFilings(r.id, episodes[r.id]))

\* What is on file can be traced, and so can what is about to be filed.
Provenance == \A r \in evidence \cup Filing : Traceable(r)

\* An observation of session s that lies in an episode or is open; the one that is
\* being observed came after it.
Placed(o, s) ==
    /\ o \in DOMAIN observations /\ observations[o].session = s
    /\ Observing => Turn(o) < turns

Arrival ==
    /\ \A o \in DOMAIN observations : Turn(o) <= turns
    /\ Observing => job.obs \in DOMAIN observations /\ Turn(job.obs) = turns
    /\ \A s \in Sessions : \A o \in ToSet(open[s]) : Placed(o, s)
    /\ \A k \in DOMAIN episodes :
          \A o \in ToSet(episodes[k].obs_ids) : Placed(o, episodes[k].session)

Apart(p, q) == Before(p, q) \/ Before(q, p)

\* Stretches of one session do not overlap, and what is open comes last.
Regimes ==
    /\ \A s \in Sessions : InOrder(open[s])
    /\ \A k \in DOMAIN episodes :
          /\ InOrder(episodes[k].obs_ids)
          /\ Before(episodes[k].obs_ids, open[episodes[k].session])
    /\ \A k, l \in DOMAIN episodes :
          k # l /\ episodes[k].session = episodes[l].session
              => Apart(episodes[k].obs_ids, episodes[l].obs_ids)

Kept(o) ==
    \/ o \in ToSet(open[observations[o].session])
    \/ \E k \in DOMAIN episodes : o \in ToSet(episodes[k].obs_ids)
    \/ Observing /\ o = job.obs

\* As long as nothing fails nothing is left out.
Complete ==
    faults = 0 =>
        /\ \A o \in DOMAIN observations : Kept(o)
        /\ evidence = fed \cup New
        /\ \A o \in DOMAIN observations :
              ToSet(ObservationFilings(o, observations[o])) \subseteq evidence \cup Filing
        /\ \A e \in DOMAIN episodes :
              ToSet(EpisodeFilings(e, episodes[e])) \subseteq evidence \cup Filing

EngineInv == Typed /\ Provenance /\ Arrival /\ Regimes /\ Complete

LEMMA JobFields ==
    ASSUME job \in Job, job # Idle
    PROVE  /\ job \in [call : {"observed", "closed"}, obs : Nat, filings : Seq(Evidence),
                       new : SUBSET Evidence]
           /\ job.call \in {"observed", "closed"} /\ job.obs \in Nat
           /\ job.filings \in Seq(Evidence) /\ job.new \subseteq Evidence
  BY DEF Job

LEMMA EngineInit == Init => EngineInv
<1> SUFFICES ASSUME Init PROVE EngineInv
  OBVIOUS
<1>1. /\ DOMAIN observations = {} /\ DOMAIN episodes = {} /\ evidence = {} /\ fed = {}
      /\ open = [s \in Sessions |-> <<>>] /\ nextId = 0 /\ job = Idle
      /\ turns = 0 /\ faults = 0
      /\ observations \in [DOMAIN observations -> Observation]
      /\ episodes \in [DOMAIN episodes -> Episode]
  BY DEF Init
<1>2. Typed
  BY <1>1, EngineAssumption DEF Typed, TypeOK, Job, New
<1>3. Provenance
  BY <1>1 DEF Provenance, Filing
<1>4. Arrival
  BY <1>1, ToSetNone DEF Arrival, Observing
<1>5. Regimes
  BY <1>1 DEF Regimes, InOrder
<1>6. Complete
  BY <1>1 DEF Complete, New
<1> QED
  BY <1>2, <1>3, <1>4, <1>5, <1>6 DEF EngineInv

\* The call in progress ends, or is given up: nothing else of the tables changes.
\* What was open stays open, or is dropped.
LEMMA GivenUp ==
    ASSUME EngineInv, job' = Idle, faults' = faults + 1, faults < MaxFaults,
           nextId' \in Nat, nextId' >= nextId,
           \/ open' = open
           \/ open' = [s \in Sessions |-> <<>>]
           \/ \E s \in Sessions : open' = [open EXCEPT ![s] = <<>>],
           UNCHANGED <<observations, episodes, evidence, fed, turns>>
    PROVE  EngineInv'
<1>1. \A s \in Sessions : open'[s] = open[s] \/ open'[s] = <<>>
  BY DEF EngineInv, Typed, TypeOK
<1>2. open' \in [Sessions -> Seq(Nat)]
  <2>1. open \in [Sessions -> Seq(Nat)] /\ <<>> \in Seq(Nat)
    BY DEF EngineInv, Typed, TypeOK
  <2>2. CASE open' = open
    BY <2>1, <2>2
  <2>3. CASE open' = [s \in Sessions |-> <<>>]
    BY <2>1, <2>3
  <2>4. CASE \E s \in Sessions : open' = [open EXCEPT ![s] = <<>>]
    BY <2>1, <2>4
  <2> QED
    BY <2>2, <2>3, <2>4
<1>3. faults' \in 0..MaxFaults /\ faults' # 0
  BY EngineAssumption DEF EngineInv, Typed, TypeOK
<1>4. TypeOK'
  <2>1. "window_full" \in Policies =>
          \A s \in Sessions : Len(open'[s]) = 0 \/ Len(open'[s]) = 1 \/ Len(open'[s]) < MaxSize
    BY <1>1 DEF EngineInv, Typed, TypeOK
  <2>2. job' \in Job
    BY DEF Job
  <2> QED
    BY <1>2, <1>3, <2>1, <2>2 DEF EngineInv, Typed, TypeOK
<1>5. Typed'
  BY <1>4 DEF EngineInv, Typed, TypeOK, New
<1>6. Provenance'
  BY DEF EngineInv, Provenance, Filing, Traceable
<1>7. Arrival'
  <2>1. \A s \in Sessions : \A o \in ToSet(open'[s]) : o \in ToSet(open[s])
    BY <1>1, ToSetNone
  <2> QED
    BY <2>1 DEF EngineInv, Arrival, Placed, Observing, Turn
<1>8. Regimes'
  <2>1. \A s \in Sessions : InOrder(open[s])'
    BY <1>1 DEF EngineInv, Regimes, InOrder, Turn
  <2>2. \A k \in DOMAIN episodes : episodes[k].session \in Sessions
    BY DEF EngineInv, Typed, TypeOK, Episode
  <2>3. \A k \in DOMAIN episodes : Before(episodes[k].obs_ids, open[episodes[k].session])'
    BY <1>1, <2>2, ToSetNone DEF EngineInv, Regimes, Before, Turn
  <2> QED
    BY <2>1, <2>3 DEF EngineInv, Regimes, InOrder, Before, Apart, Turn
<1>9. Complete'
  BY <1>3 DEF Complete
<1> QED
  BY <1>5, <1>6, <1>7, <1>8, <1>9 DEF EngineInv

LEMMA FailureKeeps ==
    ASSUME EngineInv, ~IdsRestart,
           IngestFails \/ CallFails \/ Restart \/ \E s \in Sessions : Reset(s)
    PROVE  EngineInv'
<1>1. /\ job' = Idle /\ faults' = faults + 1 /\ faults < MaxFaults
      /\ UNCHANGED <<observations, episodes, evidence, fed, turns>>
  BY DEF IngestFails, CallFails, Restart, Reset
<1>2. nextId' \in Nat /\ nextId' >= nextId
  BY DEF IngestFails, CallFails, Restart, Reset, EngineInv, Typed, TypeOK
<1>3. \/ open' = open
      \/ open' = [s \in Sessions |-> <<>>]
      \/ \E s \in Sessions : open' = [open EXCEPT ![s] = <<>>]
  BY DEF IngestFails, CallFails, Restart, Reset
<1> QED
  BY <1>1, <1>2, <1>3, GivenUp

LEMMA IngestKeeps ==
    ASSUME EngineInv, NEW s \in Sessions, NEW u \in Utterances, Ingest(s, u)
    PROVE  EngineInv'
<1> DEFINE o == [session |-> s, turn |-> turns + 1, said |-> u]
           f == ObservationFilings(nextId, o)
<1>1. /\ job = Idle /\ turns < MaxTurns
      /\ observations' = Put(observations, nextId, o)
      /\ job' = Observed(nextId, f)
      /\ nextId' = nextId + 1 /\ turns' = turns + 1
      /\ UNCHANGED <<episodes, evidence, fed, open, faults>>
  BY DEF Ingest
<1>2. turns \in 0..MaxTurns /\ MaxTurns \in Nat /\ nextId \in Nat
  BY EngineAssumption DEF EngineInv, Typed, TypeOK
<1>3. o \in Observation /\ o.turn = turns + 1 /\ o.session = s
  BY <1>1, <1>2 DEF Observation
<1> HIDE DEF o
<1>4. /\ DOMAIN observations' = DOMAIN observations \cup {nextId}
      /\ observations'[nextId] = o
      /\ \A k \in DOMAIN observations : observations'[k] = observations[k]
      /\ nextId \notin DOMAIN observations
  <2>1. nextId \notin DOMAIN observations
    BY <1>2 DEF EngineInv, Typed
  <2>2. observations' = [k \in DOMAIN observations \cup {nextId} |->
                            IF k = nextId THEN o ELSE observations[k]]
    BY <1>1 DEF Put
  <2> QED
    BY <2>1, <2>2
<1>5. f \in Seq(Evidence) /\ \A r \in ToSet(f) : r.kind = "observation" /\ r.id = nextId
  BY <1>2, <1>3, FilingsTyped
<1>6. f = ObservationFilings(nextId, observations'[nextId])
  BY <1>4
<1> HIDE DEF f
<1>7. /\ job' # Idle /\ job' \in Job /\ Filing' = ToSet(f) /\ New' = {}
      /\ Observing' /\ job'.obs = nextId
  <2>1. job' = [call |-> "observed", obs |-> nextId, filings |-> f, new |-> {}]
    BY <1>1 DEF Observed
  <2>2. job'.call = "observed" /\ job'.obs = nextId /\ job'.filings = f /\ job'.new = {}
    BY <2>1
  <2>3. job' # Idle
    BY <2>2 DEF Idle
  <2>4. job' \in Job
    BY <1>2, <1>5, <2>1 DEF Job
  <2> QED
    BY <2>2, <2>3, <2>4 DEF Filing, New, Observing
<1>8. Filing = {} /\ New = {} /\ ~Observing
  BY <1>1 DEF Filing, New, Observing
<1>9. Typed'
  <2>1. observations' \in [DOMAIN observations' -> Observation]
    <3>1. observations \in [DOMAIN observations -> Observation]
      BY DEF EngineInv, Typed, TypeOK
    <3> QED
      BY <1>1, <1>3, <3>1, PutTyped
  <2>2. TypeOK'
    BY <1>1, <1>2, <1>4, <1>7, <2>1 DEF EngineInv, Typed, TypeOK
  <2>3. \A k \in DOMAIN observations' \cup DOMAIN episodes' : k < nextId'
    BY <1>1, <1>2, <1>4 DEF EngineInv, Typed, TypeOK
  <2> QED
    BY <1>7, <2>2, <2>3 DEF Typed
<1>10. Provenance'
  <2>1. \A r \in evidence : Traceable(r)'
    BY <1>1, <1>4 DEF EngineInv, Provenance, Traceable
  <2>2. \A r \in ToSet(f) : Traceable(r)'
    BY <1>4, <1>5, <1>6 DEF Traceable
  <2> QED
    BY <1>1, <1>7, <2>1, <2>2 DEF Provenance
<1>11. \A k \in DOMAIN observations :
          /\ Turn(k)' = Turn(k) /\ Turn(k) <= turns /\ Turn(k) \in Nat
          /\ observations'[k].session = observations[k].session
  <2>1. \A k \in DOMAIN observations : observations[k].turn \in Nat
    BY EngineAssumption DEF EngineInv, Typed, TypeOK, Observation
  <2> QED
    BY <1>4, <2>1 DEF EngineInv, Arrival, Turn
<1>12. Arrival'
  <2>1. observations'[nextId].turn = turns'
    BY <1>1, <1>3, <1>4
  <2>2. \A k \in DOMAIN observations' : Turn(k)' <= turns'
    BY <1>1, <1>2, <1>4, <1>11, <2>1 DEF Turn
  <2>3. ASSUME NEW k, NEW t, Placed(k, t) PROVE Placed(k, t)'
    <3>1. k \in DOMAIN observations' /\ observations'[k].session = t
      BY <1>4, <1>11, <2>3 DEF Placed
    <3>2. Turn(k)' < turns'
      BY <1>1, <1>2, <1>11, <2>3 DEF Placed
    <3> QED
      BY <3>1, <3>2 DEF Placed
  <2>4. Observing' => job'.obs \in DOMAIN observations' /\ Turn(job.obs)' = turns'
    BY <1>4, <1>7, <2>1 DEF Turn
  <2> QED
    BY <1>1, <2>2, <2>3, <2>4 DEF EngineInv, Arrival
<1>13. Regimes'
  <2>1. \A t \in Sessions : \A k \in ToSet(open[t]) : Turn(k)' = Turn(k)
    BY <1>11 DEF EngineInv, Arrival, Placed
  <2>2. \A e \in DOMAIN episodes : \A k \in ToSet(episodes[e].obs_ids) : Turn(k)' = Turn(k)
    BY <1>11 DEF EngineInv, Arrival, Placed
  <2>3. \A e \in DOMAIN episodes : episodes[e].session \in Sessions
    BY DEF EngineInv, Typed, TypeOK, Episode
  <2>4. \A t \in Sessions : InOrder(open[t])'
    BY <1>1, <2>1 DEF EngineInv, Regimes, InOrder, ToSet
  <2>5. \A e \in DOMAIN episodes : InOrder(episodes[e].obs_ids)'
    BY <1>1, <2>2 DEF EngineInv, Regimes, InOrder, ToSet
  <2>6. \A e \in DOMAIN episodes : Before(episodes[e].obs_ids, open[episodes[e].session])'
    BY <1>1, <2>1, <2>2, <2>3 DEF EngineInv, Regimes, Before
  <2>7. \A e, d \in DOMAIN episodes :
           Apart(episodes[e].obs_ids, episodes[d].obs_ids)
             => Apart(episodes[e].obs_ids, episodes[d].obs_ids)'
    BY <1>1, <2>2 DEF Apart, Before
  <2> QED
    BY <1>1, <2>4, <2>5, <2>6, <2>7 DEF EngineInv, Regimes
<1>14. Complete'
  <2> SUFFICES ASSUME faults = 0 PROVE Complete'
    BY <1>1 DEF Complete
  <2>1. \A k \in DOMAIN observations' : Kept(k)'
    BY <1>1, <1>4, <1>7, <1>8 DEF EngineInv, Complete, Kept
  <2>2. evidence' = fed' \cup New'
    BY <1>1, <1>7, <1>8 DEF EngineInv, Complete
  <2>3. \A k \in DOMAIN observations' :
          ToSet(ObservationFilings(k, observations[k]))' \subseteq evidence' \cup Filing'
    BY <1>1, <1>4, <1>6, <1>7, <1>8 DEF EngineInv, Complete
  <2>4. \A e \in DOMAIN episodes :
          ToSet(EpisodeFilings(e, episodes[e])) \subseteq evidence' \cup Filing'
    BY <1>1, <1>8 DEF EngineInv, Complete
  <2> QED
    BY <1>1, <2>1, <2>2, <2>3, <2>4 DEF Complete
<1> QED
  BY <1>9, <1>10, <1>12, <1>13, <1>14 DEF EngineInv

\* Steps of the rules and of the beliefs leave observations, episodes and what is
\* open alone.
LEMMA PlacesStay ==
    ASSUME EngineInv, Observing' => Observing /\ job'.obs = job.obs,
           UNCHANGED <<observations, episodes, open, turns>>
    PROVE  Arrival' /\ Regimes'
<1>1. Arrival'
  BY DEF EngineInv, Arrival, Placed, Turn
<1>2. Regimes'
  BY DEF EngineInv, Regimes, InOrder, Before, Apart, Turn
<1> QED
  BY <1>1, <1>2

LEMMA FileNextKeeps ==
    ASSUME EngineInv, FileNext PROVE EngineInv'
<1> DEFINE r == Head(job.filings)
<1>1. /\ job # Idle /\ job.filings # <<>>
      /\ evidence' = evidence \cup {r}
      /\ job' = [job EXCEPT !.filings = Tail(@),
                            !.new = IF r \in evidence THEN @ ELSE @ \cup {r}]
      /\ UNCHANGED <<observations, episodes, fed, open, nextId, turns, faults>>
  BY DEF FileNext
<1>2. /\ job \in [call : {"observed", "closed"}, obs : Nat, filings : Seq(Evidence),
                  new : SUBSET Evidence]
      /\ job.filings \in Seq(Evidence) /\ job.new \subseteq Evidence
  BY <1>1, JobFields DEF EngineInv, Typed, TypeOK
<1>3. /\ Tail(job.filings) \in Seq(Evidence) /\ r \in Evidence
      /\ ToSet(job.filings) = {r} \cup ToSet(Tail(job.filings))
  BY <1>1, <1>2, ToSetTail
<1> HIDE DEF r
<1>4. /\ job'.call = job.call /\ job'.obs = job.obs /\ job'.filings = Tail(job.filings)
      /\ job'.new = IF r \in evidence THEN job.new ELSE job.new \cup {r}
  BY <1>1, <1>2
<1>5. job' \in Job /\ job' # Idle
  <2>1. job' \in [call : {"observed", "closed"}, obs : Nat, filings : Seq(Evidence),
                  new : SUBSET Evidence]
    BY <1>1, <1>2, <1>3
  <2>2. job'.call # "idle"
    BY <1>2, <1>4
  <2> QED
    BY <2>1, <2>2 DEF Job, Idle
<1>6. /\ Filing = {r} \cup Filing'
      /\ New = job.new /\ New' = IF r \in evidence THEN New ELSE New \cup {r}
      /\ Observing' = Observing
  BY <1>1, <1>3, <1>4, <1>5 DEF Filing, New, Observing
<1>7. Typed'
  <2>1. TypeOK'
    BY <1>1, <1>3, <1>5 DEF EngineInv, Typed, TypeOK
  <2> QED
    BY <1>1, <1>6, <2>1 DEF EngineInv, Typed
<1>8. Provenance'
  <2>1. \A x : Traceable(x)' = Traceable(x)
    BY <1>1 DEF Traceable
  <2> QED
    BY <1>1, <1>6, <2>1 DEF EngineInv, Provenance
<1>9. Arrival' /\ Regimes'
  BY <1>1, <1>4, <1>6, PlacesStay
<1>10. Complete'
  <2>1. \A k \in DOMAIN observations : Kept(k)' = Kept(k)
    BY <1>1, <1>4, <1>6 DEF Kept
  <2>2. faults = 0 => evidence' = fed \cup New'
    BY <1>1, <1>6 DEF EngineInv, Complete
  <2>3. evidence' \cup Filing' = evidence \cup Filing
    BY <1>1, <1>6
  <2> QED
    BY <1>1, <2>1, <2>2, <2>3 DEF EngineInv, Complete
<1> QED
  BY <1>7, <1>8, <1>9, <1>10 DEF EngineInv

LEMMA FeedKeeps ==
    ASSUME EngineInv, Feed PROVE EngineInv'
<1>1. /\ job # Idle /\ job.call = "closed" /\ job.filings = <<>>
      /\ fed' = fed \cup job.new /\ job' = Idle
      /\ UNCHANGED <<observations, episodes, evidence, open, nextId, turns, faults>>
  BY DEF Feed, Ending
<1>2. /\ Filing = {} /\ Filing' = {} /\ New = job.new /\ New' = {}
      /\ ~Observing /\ ~Observing'
  BY <1>1, ToSetNone DEF Filing, New, Observing
<1>3. Typed'
  <2>1. fed' \subseteq evidence
    BY <1>1, <1>2 DEF EngineInv, Typed, TypeOK
  <2>2. TypeOK'
    BY <1>1, <2>1 DEF EngineInv, Typed, TypeOK, Job
  <2> QED
    BY <1>1, <1>2, <2>2 DEF EngineInv, Typed
<1>4. Provenance'
  BY <1>1, <1>2 DEF EngineInv, Provenance, Traceable
<1>5. Arrival' /\ Regimes'
  BY <1>1, <1>2, PlacesStay
<1>6. Complete'
  BY <1>1, <1>2 DEF EngineInv, Complete, Kept
<1> QED
  BY <1>3, <1>4, <1>5, <1>6 DEF EngineInv

\* An observation joins the stretch that is open.
LEMMA JoinKeeps ==
    ASSUME EngineInv, Updating, NEW s \in Sessions, s = observations[job.obs].session,
           open[s] = <<>> \/ \E surprising \in BOOLEAN : Reasons(open[s], surprising) = {},
           open' = [open EXCEPT ![s] = Append(@, job.obs)],
           job' = Closed(job, <<>>),
           UNCHANGED <<observations, episodes, evidence, fed, nextId, turns, faults>>
    PROVE  EngineInv'
<1>1. /\ Observing /\ job # Idle /\ job.filings = <<>>
      /\ job \in [call : {"observed", "closed"}, obs : Nat, filings : Seq(Evidence),
                  new : SUBSET Evidence]
  BY JobFields DEF Updating, Observing, EngineInv, Typed, TypeOK
<1>2. /\ job'.call = "closed" /\ job'.filings = <<>> /\ job'.new = job.new
      /\ job' \in Job /\ job' # Idle
  <2>1. job' = [job EXCEPT !.call = "closed", !.filings = <<>>]
    BY DEF Closed
  <2>2. /\ job' \in [call : {"observed", "closed"}, obs : Nat, filings : Seq(Evidence),
                     new : SUBSET Evidence]
        /\ job'.call = "closed" /\ job'.filings = <<>> /\ job'.new = job.new
    BY <1>1, <2>1
  <2> QED
    BY <2>2 DEF Job, Idle
<1>3. /\ Filing = {} /\ Filing' = {} /\ New' = New /\ ~Observing'
  BY <1>1, <1>2, ToSetNone DEF Filing, New, Observing
<1>4. /\ open \in [Sessions -> Seq(Nat)] /\ job.obs \in Nat /\ open[s] \in Seq(Nat)
  BY <1>1 DEF EngineInv, Typed, TypeOK
<1> DEFINE p == open[s]
           q == Append(p, job.obs)
<1>a. /\ p \in Seq(Nat) /\ q \in Seq(Nat) /\ Len(p) \in Nat /\ Len(q) = Len(p) + 1
      /\ DOMAIN p = 1..Len(p) /\ DOMAIN q = 1..(Len(p) + 1)
      /\ q[Len(p) + 1] = job.obs
      /\ \A i \in 1..Len(p) : q[i] = p[i]
  <2> HIDE DEF p
  <2>1. p \in Seq(Nat) /\ job.obs \in Nat
    BY <1>4 DEF p
  <2> QED
    BY <2>1, AppendFacts
<1>b. ToSet(q) = ToSet(p) \cup {job.obs}
  BY <1>4, ToSetAppend
<1>c. open' = [open EXCEPT ![s] = q]
  OBVIOUS
<1>d. p = open[s]
  OBVIOUS
<1> HIDE DEF p, q
<1>5. /\ open'[s] = q
      /\ \A t \in Sessions \ {s} : open'[t] = open[t]
      /\ open' \in [Sessions -> Seq(Nat)]
  BY <1>4, <1>a, <1>c
<1>6. ToSet(open'[s]) = ToSet(open[s]) \cup {job.obs}
  BY <1>5, <1>b, <1>d
<1>7. Typed'
  <2>1. "window_full" \in Policies => Len(open'[s]) = 1 \/ Len(open'[s]) < MaxSize
    <3>1. CASE open[s] = <<>>
      BY <1>5, <1>a, <1>d, <3>1
    <3>2. CASE \E surprising \in BOOLEAN : Reasons(open[s], surprising) = {}
      <4>1. "window_full" \in Policies => ~(Len(open[s]) + 1 >= MaxSize)
        BY <3>2 DEF Reasons
      <4>2. MaxSize \in Nat
        BY EngineAssumption
      <4>3. Len(open'[s]) = Len(open[s]) + 1 /\ Len(open[s]) \in Nat
        BY <1>5, <1>a, <1>d
      <4> QED
        BY <4>1, <4>2, <4>3
    <3> QED
      BY <3>1, <3>2
  <2>2. TypeOK'
    BY <1>2, <1>5, <2>1 DEF EngineInv, Typed, TypeOK
  <2> QED
    BY <1>3, <2>2 DEF EngineInv, Typed
<1>8. Provenance'
  BY <1>3 DEF EngineInv, Provenance, Traceable
<1>9. /\ job.obs \in DOMAIN observations /\ Turn(job.obs) = turns
      /\ observations[job.obs].session = s
  BY <1>1 DEF EngineInv, Arrival
<1>10. Arrival'
  <2>1. \A k \in DOMAIN observations : Turn(k)' <= turns'
    BY DEF EngineInv, Arrival, Turn
  <2>2. \A t \in Sessions : \A k \in ToSet(open'[t]) : Placed(k, t)'
    BY <1>3, <1>5, <1>6, <1>9 DEF EngineInv, Arrival, Placed
  <2>3. \A e \in DOMAIN episodes :
           \A k \in ToSet(episodes[e].obs_ids) : Placed(k, episodes[e].session)'
    BY <1>3 DEF EngineInv, Arrival, Placed
  <2> QED
    BY <1>3, <2>1, <2>2, <2>3 DEF Arrival
<1>11. Regimes'
  <2>1. InOrder(open[s])'
    <3>1. \A k \in ToSet(open[s]) : Turn(k) < turns
      BY <1>1 DEF EngineInv, Arrival, Placed
    <3>2. \A i \in DOMAIN p : Turn(p[i]) < turns
      BY <1>d, <3>1 DEF ToSet
    <3>3. \A i, j \in DOMAIN p : i < j => Turn(p[i]) < Turn(p[j])
      BY <1>d DEF EngineInv, Regimes, InOrder
    <3>4. ASSUME NEW i \in DOMAIN q, NEW j \in DOMAIN q, i < j
          PROVE  Turn(q[i]) < Turn(q[j])
      <4>1. CASE j = Len(p) + 1
        <5>1. i \in DOMAIN p /\ q[i] = p[i] /\ q[j] = job.obs
          BY <1>a, <3>4, <4>1
        <5> QED
          BY <1>9, <3>2, <5>1
      <4>2. CASE j # Len(p) + 1
        <5>1. /\ i \in DOMAIN p /\ j \in DOMAIN p
              /\ q[i] = p[i] /\ q[j] = p[j]
          BY <1>a, <3>4, <4>2
        <5> QED
          BY <3>3, <3>4, <5>1
      <4> QED
        BY <4>1, <4>2
    <3>5. \A i, j \in DOMAIN q : i < j => observations'[q[i]].turn < observations'[q[j]].turn
      BY <3>4 DEF Turn
    <3>6. open'[s] = q
      BY <1>5
    <3>7. InOrder(open[s])' = (\A i, j \in DOMAIN open'[s] :
             i < j => observations'[open'[s][i]].turn < observations'[open'[s][j]].turn)
      BY DEF InOrder, Turn
    <3>8. \A i, j \in DOMAIN open'[s] :
             i < j => observations'[open'[s][i]].turn < observations'[open'[s][j]].turn
      BY <3>5, <3>6, Zenon
    <3> QED
      BY <3>7, <3>8, Zenon
  <2>2. \A t \in Sessions : InOrder(open[t])'
    <3>1. ASSUME NEW t \in Sessions, t # s PROVE InOrder(open[t])'
      BY <1>5, <3>1 DEF EngineInv, Regimes, InOrder, Turn
    <3> QED
      BY <2>1, <3>1
  <2>3. \A e \in DOMAIN episodes : episodes[e].session \in Sessions
    BY DEF EngineInv, Typed, TypeOK, Episode
  <2>4. ASSUME NEW e \in DOMAIN episodes
        PROVE  Before(episodes[e].obs_ids, open[episodes[e].session])'
    <3>1. \A k \in ToSet(episodes[e].obs_ids) : Turn(k) < turns
      BY <1>1 DEF EngineInv, Arrival, Placed
    <3>2. \A k \in ToSet(episodes[e].obs_ids), j \in ToSet(open'[episodes[e].session]) :
             Turn(k) < Turn(j)
      <4>1. Before(episodes[e].obs_ids, open[episodes[e].session])
        BY DEF EngineInv, Regimes
      <4>2. CASE episodes[e].session = s
        BY <1>6, <1>9, <3>1, <4>1, <4>2 DEF Before
      <4>3. CASE episodes[e].session # s
        BY <1>5, <2>3, <4>1, <4>3 DEF Before
      <4> QED
        BY <4>2, <4>3
    <3> QED
      BY <3>2 DEF Before, Turn
  <2>5. /\ \A e \in DOMAIN episodes : InOrder(episodes[e].obs_ids)'
        /\ \A e, d \in DOMAIN episodes :
              Apart(episodes[e].obs_ids, episodes[d].obs_ids)
                => Apart(episodes[e].obs_ids, episodes[d].obs_ids)'
    BY DEF EngineInv, Regimes, InOrder, Before, Apart, Turn
  <2> QED
    BY <2>2, <2>4, <2>5 DEF EngineInv, Regimes
<1>12. Complete'
  <2>1. \A k \in DOMAIN observations : observations[k].session \in Sessions
    BY DEF EngineInv, Typed, TypeOK, Observation
  <2>2. \A k \in DOMAIN observations : Kept(k) => Kept(k)'
    BY <1>5, <1>6, <1>9, <2>1 DEF Kept
  <2> QED
    BY <1>3, <2>2 DEF EngineInv, Complete
<1> QED
  BY <1>7, <1>8, <1>10, <1>11, <1>12 DEF EngineInv

\* The stretch that is open becomes an episode, and the next one begins with the
\* observation that ended it, or with none.
LEMMA CloseKeeps ==
    ASSUME EngineInv, NEW s \in Sessions, NEW j, NEW next,
           NEW reason \in SUBSET (Policies \cup {"flush"}),
           Close(j, s, open[s], reason),
           open' = [open EXCEPT ![s] = next],
           \/ Updating /\ j = job /\ s = observations[job.obs].session /\ next = <<job.obs>>
           \/ job = Idle /\ j = Observed(nextId, <<>>) /\ next = <<>>,
           UNCHANGED <<observations, evidence, fed, turns, faults>>
    PROVE  EngineInv'
<1> DEFINE e == [session |-> s, obs_ids |-> open[s], reason |-> reason]
           f == EpisodeFilings(nextId, e)
<1>1. /\ episodes' = Put(episodes, nextId, e)
      /\ job' = Closed(j, f)
      /\ nextId' = nextId + 1
  BY DEF Close
<1>2. /\ open \in [Sessions -> Seq(Nat)] /\ open[s] \in Seq(Nat) /\ nextId \in Nat
      /\ nextId \notin DOMAIN episodes
      /\ episodes \in [DOMAIN episodes -> Episode]
  BY DEF EngineInv, Typed, TypeOK
<1>3. /\ e \in Episode /\ e.session = s /\ e.obs_ids = open[s]
  BY <1>2 DEF Episode
<1> HIDE DEF e
<1>4. /\ DOMAIN episodes' = DOMAIN episodes \cup {nextId}
      /\ episodes'[nextId] = e
      /\ \A k \in DOMAIN episodes : episodes'[k] = episodes[k]
  BY <1>1, <1>2 DEF Put
<1>5. f \in Seq(Evidence) /\ \A r \in ToSet(f) : r.kind = "episode" /\ r.id = nextId
  BY <1>2, <1>3, FilingsTyped
<1>6. f = EpisodeFilings(nextId, episodes'[nextId])
  BY <1>4
<1> HIDE DEF f
<1>7. /\ j \in [call : {"observed", "closed"}, obs : Nat, filings : Seq(Evidence),
                new : SUBSET Evidence]
      /\ j.new = New /\ Filing = {}
  <2>1. CASE Updating /\ j = job
    BY <2>1, JobFields, ToSetNone DEF EngineInv, Typed, TypeOK, Updating, New, Filing
  <2>2. CASE job = Idle /\ j = Observed(nextId, <<>>)
    BY <1>2, <2>2 DEF Observed, New, Filing
  <2> QED
    BY <2>1, <2>2
<1>8. /\ job' \in Job /\ job' # Idle /\ Filing' = ToSet(f) /\ New' = New /\ ~Observing'
  <2>1. job' = [j EXCEPT !.call = "closed", !.filings = f]
    BY <1>1 DEF Closed
  <2>2. /\ job' \in [call : {"observed", "closed"}, obs : Nat, filings : Seq(Evidence),
                     new : SUBSET Evidence]
        /\ job'.call = "closed" /\ job'.filings = f /\ job'.new = j.new
    BY <1>5, <1>7, <2>1
  <2>3. job' \in Job /\ job' # Idle
    BY <2>2 DEF Job, Idle
  <2> QED
    BY <1>7, <2>2, <2>3 DEF Filing, New, Observing
\* What the next stretch begins with.
<1>9. /\ next \in Seq(Nat) /\ Len(next) \in {0, 1}
      /\ \A o \in ToSet(next) : Observing /\ o = job.obs /\ observations[o].session = s
      /\ Observing => job.obs \in ToSet(next)
  <2>1. CASE Updating /\ s = observations[job.obs].session /\ next = <<job.obs>>
    <3>1. Observing /\ job.obs \in Nat
      BY <2>1, JobFields DEF EngineInv, Typed, TypeOK, Updating, Observing
    <3>2. <<job.obs>> \in Seq(Nat) /\ Len(<<job.obs>>) = 1
      BY <3>1
    <3>3. ToSet(next) = {job.obs}
      BY <2>1, ToSetOne
    <3> QED
      BY <2>1, <3>1, <3>2, <3>3
  <2>2. CASE job = Idle /\ next = <<>>
    <3>1. next \in Seq(Nat) /\ Len(next) = 0
      BY <2>2
    <3> QED
      BY <2>2, <3>1, ToSetNone DEF Observing
  <2> QED
    BY <2>1, <2>2
<1>10. /\ open'[s] = next /\ open' \in [Sessions -> Seq(Nat)]
       /\ \A t \in Sessions \ {s} : open'[t] = open[t]
  BY <1>2, <1>9
<1>11. Typed'
  <2>1. \A t \in Sessions :
          open'[t] = open[t] \/ Len(open'[t]) = 0 \/ Len(open'[t]) = 1
    BY <1>9, <1>10
  <2>2. episodes' \in [DOMAIN episodes' -> Episode]
    BY <1>1, <1>2, <1>3, PutTyped
  <2>3. TypeOK'
    BY <1>1, <1>2, <1>4, <1>8, <1>10, <2>1, <2>2 DEF EngineInv, Typed, TypeOK
  <2>4. \A k \in DOMAIN observations' \cup DOMAIN episodes' : k < nextId'
    BY <1>1, <1>2, <1>4 DEF EngineInv, Typed, TypeOK
  <2> QED
    BY <1>8, <2>3, <2>4 DEF EngineInv, Typed
<1>12. Provenance'
  <2>1. \A r \in evidence : Traceable(r)'
    BY <1>4 DEF EngineInv, Provenance, Traceable
  <2>2. \A r \in ToSet(f) : Traceable(r)'
    BY <1>4, <1>5, <1>6 DEF Traceable
  <2> QED
    BY <1>8, <2>1, <2>2 DEF Provenance
<1>13. /\ Observing => job.obs \in DOMAIN observations /\ Turn(job.obs) = turns
       /\ \A t \in Sessions : \A o \in ToSet(open[t]) : Placed(o, t)
       /\ \A k \in DOMAIN episodes :
             \A o \in ToSet(episodes[k].obs_ids) : Placed(o, episodes[k].session)
  BY DEF EngineInv, Arrival
<1>14. Arrival'
  <2>1. \A k \in DOMAIN observations' : Turn(k)' <= turns'
    BY DEF EngineInv, Arrival, Turn
  <2>2. \A t \in Sessions : \A o \in ToSet(open'[t]) : Placed(o, t)'
    BY <1>8, <1>9, <1>10, <1>13 DEF Placed
  <2>3. \A k \in DOMAIN episodes' :
           \A o \in ToSet(episodes'[k].obs_ids) : Placed(o, episodes[k].session)'
    BY <1>3, <1>4, <1>8, <1>13 DEF Placed
  <2> QED
    BY <1>8, <2>1, <2>2, <2>3 DEF Arrival
<1>15. Regimes'
  <2>1. \A q, r : Before(q, r) => Before(q, r)'
    BY DEF Before, Turn
  <2>2. \A q : InOrder(q) => InOrder(q)'
    BY DEF InOrder, Turn
  <2>3. \A k \in DOMAIN episodes : episodes[k].session \in Sessions
    BY <1>2 DEF Episode
  <2>4. InOrder(next)
    BY <1>9 DEF InOrder
  <2>5. Before(open[s], next)
    BY <1>9, <1>13 DEF Before, Placed
  <2>6. \A k \in DOMAIN episodes : episodes[k].session = s => Before(episodes[k].obs_ids, next)
    BY <1>9, <1>13 DEF Before, Placed
  <2>7. \A t \in Sessions : InOrder(open'[t])
    BY <1>10, <2>4 DEF EngineInv, Regimes
  <2>8. ASSUME NEW k \in DOMAIN episodes'
        PROVE  /\ InOrder(episodes'[k].obs_ids)
               /\ Before(episodes'[k].obs_ids, open'[episodes'[k].session])
    <3>1. CASE k = nextId
      BY <1>3, <1>4, <1>10, <2>5, <3>1 DEF EngineInv, Regimes
    <3>2. CASE k \in DOMAIN episodes
      BY <1>4, <1>10, <2>3, <2>6, <3>2 DEF EngineInv, Regimes
    <3> QED
      BY <1>4, <3>1, <3>2
  <2>9. ASSUME NEW k \in DOMAIN episodes', NEW l \in DOMAIN episodes', k # l,
               episodes'[k].session = episodes'[l].session
        PROVE  Apart(episodes'[k].obs_ids, episodes'[l].obs_ids)
    <3>1. \A m \in DOMAIN episodes : Before(episodes[m].obs_ids, open[episodes[m].session])
      BY DEF EngineInv, Regimes
    <3>2. CASE k = nextId
      BY <1>3, <1>4, <2>9, <3>1, <3>2 DEF Apart
    <3>3. CASE l = nextId
      BY <1>3, <1>4, <2>9, <3>1, <3>3 DEF Apart
    <3>4. CASE k \in DOMAIN episodes /\ l \in DOMAIN episodes
      BY <1>4, <2>9, <3>4 DEF EngineInv, Regimes
    <3> QED
      BY <1>4, <3>2, <3>3, <3>4
  <2>10. \A k, l \in DOMAIN episodes' :
            Apart(episodes'[k].obs_ids, episodes'[l].obs_ids)
              => Apart(episodes[k].obs_ids, episodes[l].obs_ids)'
    BY <2>1 DEF Apart
  <2>11. \A t \in Sessions : InOrder(open[t])'
    BY <2>2, <2>7
  <2>12. \A k \in DOMAIN episodes' :
            /\ InOrder(episodes[k].obs_ids)'
            /\ Before(episodes[k].obs_ids, open[episodes[k].session])'
    BY <2>1, <2>2, <2>8
  <2> QED
    BY <2>9, <2>10, <2>11, <2>12 DEF Regimes
<1>16. Complete'
  <2> SUFFICES ASSUME faults = 0 PROVE Complete'
    BY DEF Complete
  <2>1. \A o \in DOMAIN observations : observations[o].session \in Sessions
    BY DEF EngineInv, Typed, TypeOK, Observation
  <2>2. ASSUME NEW o \in DOMAIN observations PROVE Kept(o)'
    <3>1. Kept(o)
      BY DEF EngineInv, Complete
    <3>2. CASE o \in ToSet(open[observations[o].session])
      BY <1>3, <1>4, <1>10, <2>1, <3>2 DEF Kept
    <3>3. CASE \E k \in DOMAIN episodes : o \in ToSet(episodes[k].obs_ids)
      BY <1>4, <3>3 DEF Kept
    <3>4. CASE Observing /\ o = job.obs
      BY <1>9, <1>10, <3>4 DEF Kept
    <3> QED
      BY <3>1, <3>2, <3>3, <3>4 DEF Kept
  <2>3. evidence' = fed' \cup New'
    BY <1>8 DEF EngineInv, Complete
  <2>4. \A k \in DOMAIN observations :
           ToSet(ObservationFilings(k, observations[k])) \subseteq evidence' \cup Filing'
    BY <1>7 DEF EngineInv, Complete
  <2>5. \A k \in DOMAIN episodes' :
           ToSet(EpisodeFilings(k, episodes'[k])) \subseteq evidence' \cup Filing'
    BY <1>4, <1>6, <1>7, <1>8 DEF EngineInv, Complete
  <2> QED
    BY <2>2, <2>3, <2>4, <2>5 DEF Complete
<1> QED
  BY <1>11, <1>12, <1>14, <1>15, <1>16 DEF EngineInv

LEMMA ConcatNone == \A q \in Seq(Nat) : q \o <<>> = q
  OBVIOUS

LEMMA UpdateKeeps ==
    ASSUME EngineInv, UpdateEpisode PROVE EngineInv'
<1> DEFINE s == observations[job.obs].session
<1>1. /\ Updating
      /\ UNCHANGED <<observations, evidence, fed, turns, faults>>
  BY DEF UpdateEpisode, UpdateTo
<1>2. PICK surprising \in BOOLEAN :
         LET reason == Reasons(open[s], surprising) IN
         IF reason # {} /\ open[s] # <<>>
         THEN /\ Close(job, s, open[s] \o <<>>, reason)
              /\ open' = [open EXCEPT ![s] = <<job.obs>>]
         ELSE /\ open' = [open EXCEPT ![s] = Append(@, job.obs)]
              /\ job' = Closed(job, <<>>)
              /\ UNCHANGED <<episodes, nextId>>
  BY DEF UpdateEpisode, UpdateTo
<1>3. s \in Sessions
  <2>1. Observing
    BY <1>1 DEF Updating, Observing
  <2>2. job.obs \in DOMAIN observations
    BY <2>1 DEF EngineInv, Arrival
  <2> QED
    BY <2>2 DEF EngineInv, Typed, TypeOK, Observation
<1>4. open[s] \o <<>> = open[s]
  <2>1. open[s] \in Seq(Nat)
    BY <1>3 DEF EngineInv, Typed, TypeOK
  <2> QED
    BY <2>1, ConcatNone
<1> DEFINE reason == Reasons(open[s], surprising)
<1>5. reason \in SUBSET (Policies \cup {"flush"})
  BY DEF Reasons
<1>6. CASE reason # {} /\ open[s] # <<>>
  <2>1. Close(job, s, open[s], reason) /\ open' = [open EXCEPT ![s] = <<job.obs>>]
    BY <1>2, <1>4, <1>6
  <2> HIDE DEF reason
  <2> QED
    BY <1>1, <1>3, <1>5, <2>1, CloseKeeps
<1>7. CASE ~(reason # {} /\ open[s] # <<>>)
  <2>1. /\ open' = [open EXCEPT ![s] = Append(@, job.obs)]
        /\ job' = Closed(job, <<>>)
        /\ UNCHANGED <<episodes, nextId>>
    BY <1>2, <1>7
  <2>2. open[s] = <<>> \/ \E b \in BOOLEAN : Reasons(open[s], b) = {}
    BY <1>7
  <2> QED
    BY <1>1, <1>3, <2>1, <2>2, JoinKeeps
<1> QED
  BY <1>6, <1>7

LEMMA EndSessionKeeps ==
    ASSUME EngineInv, NEW s \in Sessions, EndSession(s) PROVE EngineInv'
<1>1. /\ job = Idle
      /\ Close(Observed(nextId, <<>>), s, open[s], {"flush"})
      /\ open' = [open EXCEPT ![s] = <<>>]
      /\ UNCHANGED <<observations, evidence, fed, turns, faults>>
  BY DEF EndSession
<1> QED
  BY <1>1, CloseKeeps

LEMMA EngineStep ==
    ASSUME ~IdsRestart, EngineInv, [Next]_vars PROVE EngineInv'
<1>1. ASSUME NEW s \in Sessions, NEW u \in Utterances, Ingest(s, u) PROVE EngineInv'
  BY <1>1, IngestKeeps
<1>2. CASE FileNext
  BY <1>2, FileNextKeeps
<1>3. CASE UpdateEpisode
  BY <1>3, UpdateKeeps
<1>4. CASE Feed
  BY <1>4, FeedKeeps
<1>5. ASSUME NEW s \in Sessions, EndSession(s) PROVE EngineInv'
  BY <1>5, EndSessionKeeps
<1>6. CASE IngestFails \/ CallFails \/ Restart \/ \E s \in Sessions : Reset(s)
  BY <1>6, FailureKeeps
<1>7. CASE UNCHANGED vars
  BY <1>7 DEF vars, EngineInv, Typed, TypeOK, Provenance, Traceable, Arrival, Placed, Regimes,
     InOrder, Before, Apart, Complete, Kept, Filing, New, Observing, Turn
<1> QED
  BY <1>1, <1>2, <1>3, <1>4, <1>5, <1>6, <1>7 DEF Next

THEOREM EngineAlways ==
    ASSUME ~IdsRestart PROVE Spec => []EngineInv
<1>1. EngineInv /\ [Next]_vars => EngineInv'
  BY EngineStep
<1> QED
  BY EngineInit, <1>1, PTL DEF Spec

-----------------------------------------------------------------------------
(* What follows of the invariant.                                          *)

\* Every state is well-formed: no id is drawn twice, and a stretch never grows
\* past the window (CmsEngine!TypeOK; l2/policies.py WindowedClosurePolicy).
THEOREM TypeCorrect ==
    ASSUME ~IdsRestart PROVE Spec => []TypeOK
<1>1. EngineInv => TypeOK
  BY DEF EngineInv, Typed
<1> QED
  BY EngineAlways, <1>1, PTL

LEMMA RowsAreKeyed ==
    ASSUME NEW e \in ToSet(episodes)
    PROVE  \E k \in DOMAIN episodes : episodes[k] = e
  BY DEF ToSet

LEMMA KeysAreRows ==
    ASSUME NEW k \in DOMAIN episodes
    PROVE  episodes[k] \in ToSet(episodes)
  BY DEF ToSet

\* l2/episode.py: episodes are coherent stretches of one conversation, one after
\* the other, whatever failed on the way.
THEOREM EpisodesAreRegimesAlways ==
    ASSUME ~IdsRestart PROVE Spec => []EpisodesAreRegimes
<1>1. ASSUME EngineInv PROVE EpisodesAreRegimes
  <2>1. ASSUME NEW e \in ToSet(episodes)
        PROVE  /\ \A o \in ToSet(e.obs_ids) :
                     o \in DOMAIN observations /\ observations[o].session = e.session
               /\ InOrder(e.obs_ids)
               /\ Before(e.obs_ids, open[e.session])
    <3>1. PICK k \in DOMAIN episodes : episodes[k] = e
      BY RowsAreKeyed
    <3> QED
      BY <1>1, <3>1 DEF EngineInv, Arrival, Placed, Regimes
  <2> QED
    BY <1>1, <2>1 DEF EpisodesAreRegimes, EngineInv, Regimes, Apart
<1>2. EngineInv => EpisodesAreRegimes
  BY <1>1
<1> QED
  BY EngineAlways, <1>2, PTL

\* l2/service.py: "the triggering observation belongs to the NEW episode", so that
\* no observation is lost as long as nothing fails.
THEOREM NothingIsLeftOutAlways ==
    ASSUME ~IdsRestart PROVE Spec => []NothingIsLeftOut
<1>1. EngineInv => NothingIsLeftOut
  BY KeysAreRows DEF EngineInv, Complete, Kept, Observing, NothingIsLeftOut
<1> QED
  BY EngineAlways, <1>1, PTL

\* README.md, "Provenance is mandatory": what a record names is on file, and the
\* rule it names fires on it, even if a crash came between any two writes.
THEOREM EvidenceIsTraceableAlways ==
    ASSUME ~IdsRestart PROVE Spec => []EvidenceIsTraceable
<1>1. EngineInv => EvidenceIsTraceable
  BY DEF EngineInv, Provenance, Traceable, EvidenceIsTraceable
<1> QED
  BY EngineAlways, <1>1, PTL

\* engine.py, process_turn and end_session: between two calls, as long as nothing
\* fails, the beliefs know every record the rules could file.
THEOREM EverythingIsFedAlways ==
    ASSUME ~IdsRestart PROVE Spec => []EverythingIsFed
<1>1. EngineInv => EverythingIsFed
  BY DEF EngineInv, Complete, New, Filing, EverythingIsFed
<1> QED
  BY EngineAlways, <1>1, PTL

\* l1/observation.py: an observation is "the immutable record of one utterance's
\* interpretation": what is on file is never replaced.
THEOREM ObservationsAreImmutableAlways ==
    ASSUME ~IdsRestart PROVE Spec => ObservationsAreImmutable
<1> DEFINE Stored == \A o \in DOMAIN observations :
                       o \in DOMAIN observations' /\ observations'[o] = observations[o]
<1>1. ASSUME EngineInv, Next PROVE Stored
  <2>1. ASSUME NEW s \in Sessions, NEW u \in Utterances, Ingest(s, u) PROVE Stored
    <3>1. nextId \notin DOMAIN observations
      BY <1>1 DEF EngineInv, Typed, TypeOK
    <3>2. PICK o : observations' = Put(observations, nextId, o)
      BY <2>1 DEF Ingest
    <3> QED
      BY <3>1, <3>2 DEF Put
  <2>2. UNCHANGED observations => Stored
    OBVIOUS
  <2>3. CASE IngestFails \/ FileNext \/ Feed \/ CallFails \/ Restart
    BY <2>2, <2>3 DEF IngestFails, FileNext, Feed, CallFails, Restart
  <2>4. CASE UpdateEpisode
    BY <2>2, <2>4 DEF UpdateEpisode, UpdateTo
  <2>5. ASSUME NEW s \in Sessions, EndSession(s) \/ Reset(s) PROVE Stored
    BY <2>2, <2>5 DEF EndSession, Reset
  <2> HIDE DEF Stored
  <2> QED
    BY <1>1, <2>1, <2>3, <2>4, <2>5 DEF Next
<1>2. EngineInv /\ [Next]_vars => [Stored]_vars
  BY <1>1
<1> QED
  BY EngineAlways, <1>2, PTL DEF Spec, ObservationsAreImmutable
=============================================================================
