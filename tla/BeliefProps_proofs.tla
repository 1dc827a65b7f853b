------------------------- MODULE BeliefProps_proofs -------------------------
(***************************************************************************)
(* What the ledgers of the beliefs hold, when a belief is active, that the  *)
(* ledgers tell the belief's whole history, and what the view shows, for    *)
(* any turns, contexts, thresholds and windows, with crashes, repeated      *)
(* calls and rebuilds between any two writes.                              *)
(***************************************************************************)
EXTENDS StateView, SequencesExt, FiniteSetTheorems, SequenceTheorems,
        WellFoundedInduction, TLAPS

-----------------------------------------------------------------------------
(* Sequences.                                                              *)

LEMMA ToSetAppend ==
    ASSUME NEW S, NEW q \in Seq(S), NEW x \in S
    PROVE  ToSet(Append(q, x)) = ToSet(q) \cup {x}
<1>1. /\ DOMAIN Append(q, x) = 1..(Len(q) + 1) /\ DOMAIN q = 1..Len(q) /\ Len(q) \in Nat
      /\ Append(q, x)[Len(q) + 1] = x
      /\ \A i \in 1..Len(q) : Append(q, x)[i] = q[i]
  OBVIOUS
<1>2. ASSUME NEW i \in DOMAIN Append(q, x) PROVE Append(q, x)[i] \in ToSet(q) \cup {x}
  BY <1>1 DEF ToSet
<1>3. ASSUME NEW y \in ToSet(q) PROVE \E i \in DOMAIN Append(q, x) : Append(q, x)[i] = y
  <2>1. PICK i \in DOMAIN q : q[i] = y
    BY DEF ToSet
  <2> QED
    BY <1>1, <2>1
<1> QED
  BY <1>1, <1>2, <1>3 DEF ToSet

LEMMA AppendFacts ==
    ASSUME NEW S, NEW p \in Seq(S), NEW x \in S
    PROVE  /\ Append(p, x) \in Seq(S) /\ Len(p) \in Nat /\ Len(Append(p, x)) = Len(p) + 1
           /\ DOMAIN p = 1..Len(p) /\ DOMAIN Append(p, x) = 1..(Len(p) + 1)
           /\ Append(p, x)[Len(p) + 1] = x
           /\ \A i \in 1..Len(p) : Append(p, x)[i] = p[i]
  OBVIOUS

LEMMA ToSetTail ==
    ASSUME NEW S, NEW q \in Seq(S), q # <<>>
    PROVE  /\ Tail(q) \in Seq(S) /\ Head(q) \in S
           /\ ToSet(q) = {Head(q)} \cup ToSet(Tail(q))
<1>1. /\ Len(q) \in Nat \ {0} /\ DOMAIN q = 1..Len(q) /\ DOMAIN Tail(q) = 1..(Len(q) - 1)
      /\ q[1] = Head(q) /\ \A i \in 1..(Len(q) - 1) : Tail(q)[i] = q[i + 1]
  OBVIOUS
<1>2. ASSUME NEW i \in DOMAIN q PROVE q[i] \in {Head(q)} \cup ToSet(Tail(q))
  <2>1. CASE i = 1
    BY <1>1, <2>1
  <2>2. CASE i # 1
    <3>1. i - 1 \in DOMAIN Tail(q) /\ Tail(q)[i - 1] = q[i]
      BY <1>1, <2>2
    <3> QED
      BY <3>1 DEF ToSet
  <2> QED
    BY <2>1, <2>2
<1>3. ASSUME NEW y \in ToSet(Tail(q)) PROVE \E i \in DOMAIN q : q[i] = y
  <2>1. PICK i \in DOMAIN Tail(q) : Tail(q)[i] = y
    BY DEF ToSet
  <2>2. i + 1 \in DOMAIN q /\ q[i + 1] = y
    BY <1>1, <2>1
  <2> QED
    BY <2>2
<1>4. ToSet(q) = {Head(q)} \cup ToSet(Tail(q))
  BY <1>1, <1>2, <1>3 DEF ToSet
<1> QED
  BY <1>4

LEMMA ToSetOne == ASSUME NEW x PROVE ToSet(<<x>>) = {x}
  BY DEF ToSet

LEMMA ToSetNone == ToSet(<<>>) = {}
  BY DEF ToSet

-----------------------------------------------------------------------------
(* The firings of the rules have a rule and a score within 0..100.          *)

Firing == [rule : Rules, score : 0..100]

LEMMA ClipTyped == \A x \in Int : Clip(x) \in 0..100
  BY DEF Clip

LEMMA OneFiring ==
    ASSUME NEW r \in Rules, NEW x \in Int
    PROVE  <<[rule |-> r, score |-> Clip(x)]>> \in Seq(Firing)
<1> DEFINE f == [rule |-> r, score |-> Clip(x)]
<1>1. f \in Firing
  BY ClipTyped DEF Firing
<1> HIDE DEF f
<1>2. <<f>> \in Seq(Firing)
  BY <1>1
<1> QED
  BY <1>2 DEF f

LEMMA NoFiring == <<>> \in Seq(Firing)
  OBVIOUS

LEMMA ObservationFiringsTyped ==
    ASSUME NEW o, o.ratio \in Int, o.certainty \in Int, o.intent \in Int
    PROVE  ObservationFirings(o) \in Seq(Firing)
<1>1. /\ o.ratio \in Int /\ o.certainty \in Int /\ o.intent \in Int
  OBVIOUS
<1>2. /\ "obs_pragmatic_high_ratio" \in Rules /\ "obs_epistemic_certainty" \in Rules
      /\ "obs_epistemic_hedging" \in Rules /\ "obs_social_self_reference" \in Rules
      /\ "obs_social_other_reference" \in Rules
  BY DEF Rules, Feeds
<1>3. /\ ((o.ratio - 150) * 100) \div 150 \in Int
      /\ (o.certainty - 75) * 4 \in Int
      /\ ((35 - o.certainty) * 100) \div 35 \in Int
      /\ ((35 - o.intent) * 100) \div 35 \in Int
      /\ (o.intent - 75) * 4 \in Int
  BY <1>1
<1> DEFINE f1 == Fired(o.ratio >= 150, "obs_pragmatic_high_ratio", ((o.ratio - 150) * 100) \div 150)
           f2 == Fired(o.certainty >= 75, "obs_epistemic_certainty", (o.certainty - 75) * 4)
           f3 == Fired(o.certainty <= 35, "obs_epistemic_hedging", ((35 - o.certainty) * 100) \div 35)
           f4 == Fired(o.intent <= 35, "obs_social_self_reference", ((35 - o.intent) * 100) \div 35)
           f5 == Fired(o.intent >= 75, "obs_social_other_reference", (o.intent - 75) * 4)
<1>4. f1 \in Seq(Firing)
  BY <1>2, <1>3, OneFiring, NoFiring DEF Fired
<1>5. f2 \in Seq(Firing)
  BY <1>2, <1>3, OneFiring, NoFiring DEF Fired
<1>6. f3 \in Seq(Firing)
  BY <1>2, <1>3, OneFiring, NoFiring DEF Fired
<1>7. f4 \in Seq(Firing)
  BY <1>2, <1>3, OneFiring, NoFiring DEF Fired
<1>8. f5 \in Seq(Firing)
  BY <1>2, <1>3, OneFiring, NoFiring DEF Fired
<1>9. ObservationFirings(o) = f1 \o f2 \o f3 \o f4 \o f5
  BY DEF ObservationFirings
<1> HIDE DEF f1, f2, f3, f4, f5
<1> QED
  BY <1>4, <1>5, <1>6, <1>7, <1>8, <1>9

LEMMA EpisodeFiringsTyped ==
    ASSUME NEW e, e.length \in Int
    PROVE  EpisodeFirings(e) \in Seq(Firing)
<1>1. "ep_dynamics_rupture" \in Rules /\ "ep_dynamics_sustained" \in Rules
  BY DEF Rules, Feeds
<1>2. 100 - (e.length - 1) * 25 \in Int /\ (e.length - 10) * 5 \in Int
  OBVIOUS
<1> DEFINE f1 == Fired(e.length <= 5 /\ e.surprise, "ep_dynamics_rupture", 100 - (e.length - 1) * 25)
           f2 == Fired(e.length >= 10 /\ ~e.surprise, "ep_dynamics_sustained", (e.length - 10) * 5)
<1>3. f1 \in Seq(Firing)
  BY <1>1, <1>2, OneFiring, NoFiring DEF Fired
<1>4. f2 \in Seq(Firing)
  BY <1>1, <1>2, OneFiring, NoFiring DEF Fired
<1>5. EpisodeFirings(e) = f1 \o f2
  BY DEF EpisodeFirings
<1> HIDE DEF f1, f2
<1> QED
  BY <1>3, <1>4, <1>5

-----------------------------------------------------------------------------
(* Sequences.                                                              *)

LEMMA ConcatFacts ==
    ASSUME NEW S, NEW p \in Seq(S), NEW q \in Seq(S)
    PROVE  /\ p \o q \in Seq(S) /\ Len(p) \in Nat /\ Len(q) \in Nat
           /\ DOMAIN p = 1..Len(p) /\ DOMAIN q = 1..Len(q)
           /\ DOMAIN (p \o q) = 1..(Len(p) + Len(q))
           /\ \A i \in 1..(Len(p) + Len(q)) :
                 (p \o q)[i] = IF i <= Len(p) THEN p[i] ELSE q[i - Len(p)]
  OBVIOUS

LEMMA ToSetConcat ==
    ASSUME NEW S, NEW p \in Seq(S), NEW q \in Seq(S)
    PROVE  ToSet(p \o q) = ToSet(p) \cup ToSet(q)
<1>1. ASSUME NEW x \in ToSet(p \o q) PROVE x \in ToSet(p) \cup ToSet(q)
  <2>1. PICK i \in DOMAIN (p \o q) : (p \o q)[i] = x
    BY DEF ToSet
  <2>2. CASE i <= Len(p)
    <3>1. i \in DOMAIN p /\ p[i] = x
      BY <2>1, <2>2, ConcatFacts
    <3> QED
      BY <3>1 DEF ToSet
  <2>3. CASE ~(i <= Len(p))
    <3>1. i - Len(p) \in DOMAIN q /\ q[i - Len(p)] = x
      BY <2>1, <2>3, ConcatFacts
    <3> QED
      BY <3>1 DEF ToSet
  <2> QED
    BY <2>2, <2>3
<1>2. ASSUME NEW x \in ToSet(p) PROVE x \in ToSet(p \o q)
  <2>1. PICK i \in DOMAIN p : p[i] = x
    BY DEF ToSet
  <2>2. i \in DOMAIN (p \o q) /\ (p \o q)[i] = x
    BY <2>1, ConcatFacts
  <2> QED
    BY <2>2 DEF ToSet
<1>3. ASSUME NEW x \in ToSet(q) PROVE x \in ToSet(p \o q)
  <2>1. PICK i \in DOMAIN q : q[i] = x
    BY DEF ToSet
  <2>2. i + Len(p) \in DOMAIN (p \o q) /\ (p \o q)[i + Len(p)] = x
    BY <2>1, ConcatFacts
  <2> QED
    BY <2>2 DEF ToSet
<1> QED
  BY <1>1, <1>2, <1>3

LEMMA ConcatInjective ==
    ASSUME NEW S, NEW p \in Seq(S), NEW q \in Seq(S), IsInjective(p), IsInjective(q),
           ToSet(p) \cap ToSet(q) = {}
    PROVE  IsInjective(p \o q)
<1> SUFFICES ASSUME NEW i \in DOMAIN (p \o q), NEW j \in DOMAIN (p \o q), (p \o q)[i] = (p \o q)[j]
             PROVE  i = j
  BY DEF IsInjective
<1>1. /\ i \in 1..(Len(p) + Len(q)) /\ j \in 1..(Len(p) + Len(q))
      /\ Len(p) \in Nat /\ Len(q) \in Nat
  BY ConcatFacts
<1>2. \A k \in 1..(Len(p) + Len(q)) :
         /\ k <= Len(p) => k \in DOMAIN p /\ (p \o q)[k] = p[k] /\ p[k] \in ToSet(p)
         /\ ~(k <= Len(p)) => /\ k - Len(p) \in DOMAIN q /\ (p \o q)[k] = q[k - Len(p)]
                              /\ q[k - Len(p)] \in ToSet(q)
  BY ConcatFacts DEF ToSet
<1>3. CASE i <= Len(p) /\ j <= Len(p)
  BY <1>1, <1>2, <1>3 DEF IsInjective
<1>4. CASE ~(i <= Len(p)) /\ ~(j <= Len(p))
  <2>1. i - Len(p) = j - Len(p)
    BY <1>1, <1>2, <1>4 DEF IsInjective
  <2> QED
    BY <1>1, <2>1
<1>5. CASE (i <= Len(p)) # (j <= Len(p))
  BY <1>1, <1>2, <1>5
<1> QED
  BY <1>3, <1>4, <1>5

LEMMA AppendOnce ==
    ASSUME NEW S, NEW p \in Seq(S), NEW x \in S, IsInjective(p), x \notin ToSet(p)
    PROVE  IsInjective(Append(p, x))
<1>1. \A k \in DOMAIN Append(p, x) :
         \/ k = Len(p) + 1 /\ Append(p, x)[k] = x
         \/ k \in DOMAIN p /\ Append(p, x)[k] = p[k] /\ p[k] # x
  BY AppendFacts DEF ToSet
<1>2. ASSUME NEW q, \A k \in DOMAIN q :
                       \/ k = Len(p) + 1 /\ q[k] = x
                       \/ k \in DOMAIN p /\ q[k] = p[k] /\ p[k] # x
      PROVE  IsInjective(q)
  BY <1>2 DEF IsInjective
<1> QED
  BY <1>1, <1>2

LEMMA ToSetFinite ==
    ASSUME NEW S, NEW p \in Seq(S)
    PROVE  IsFiniteSet(ToSet(p))
<1>1. DOMAIN p = 1..Len(p) /\ Len(p) \in Nat
  OBVIOUS
<1>2. IsFiniteSet(DOMAIN p)
  BY <1>1, FS_Interval
<1>3. p \in Surjection(DOMAIN p, ToSet(p))
  BY DEF ToSet, Surjection
<1> QED
  BY <1>2, <1>3, FS_Surjection

LEMMA FirstInSeq ==
    ASSUME NEW S, NEW p \in Seq(S), p # <<>>
    PROVE  p[1] \in S
  OBVIOUS

LEMMA ToSetInSeq ==
    ASSUME NEW S, NEW p \in Seq(S)
    PROVE  ToSet(p) \subseteq S
  BY DEF ToSet

-----------------------------------------------------------------------------
(* The filings of a turn are typed.                                        *)

LEMMA FilingsTyped ==
    ASSUME NEW t \in Turns, NEW n \in 1..MaxTurns, NEW c \in Contexts
    PROVE  Filings(t, n, c) \in Seq(Filing)
<1>1. TurnInput(t) /\ t.closed \in Seq([length : Nat \ {0}, surprise : BOOLEAN])
  BY BeliefAssumption DEF TurnInput
<1> DEFINE of(kind, firings) ==
              [i \in DOMAIN firings |->
                  [ source |-> [turn |-> n, kind |-> kind], rule |-> firings[i].rule,
                    score |-> firings[i].score, context |-> c ]]
<1>2. ASSUME NEW kind \in {"observation", "episode"}, NEW firings \in Seq(Firing)
      PROVE  of(kind, firings) \in Seq(Filing)
  <2>1. DOMAIN firings = 1..Len(firings) /\ Len(firings) \in Nat
    OBVIOUS
  <2>2. \A i \in DOMAIN firings : firings[i] \in Firing
    OBVIOUS
  <2>3. \A i \in DOMAIN firings :
           [ source |-> [turn |-> n, kind |-> kind], rule |-> firings[i].rule,
             score |-> firings[i].score, context |-> c ] \in Filing
    BY <2>2 DEF Firing, Filing, Source
  <2> QED
    BY <2>1, <2>3
<1>3. of("observation", ObservationFirings(t.observation)) \in Seq(Filing)
  <2>1. /\ t.observation.ratio \in Int
        /\ t.observation.certainty \in Int /\ t.observation.intent \in Int
    <3>1. /\ t.observation.ratio \in Nat
          /\ t.observation.certainty \in 0..100 /\ t.observation.intent \in 0..100
      BY <1>1, Zenon DEF TurnInput
    <3> QED
      BY <3>1
  <2>2. ObservationFirings(t.observation) \in Seq(Firing)
    BY <2>1, ObservationFiringsTyped
  <2> HIDE DEF of
  <2> QED
    BY <1>2, <2>2
<1>4. ASSUME t.closed # <<>>
      PROVE  of("episode", EpisodeFirings(t.closed[1])) \in Seq(Filing)
  <2>1. t.closed[1].length \in Int
    <3>1. t.closed[1] \in [length : Nat \ {0}, surprise : BOOLEAN]
      BY <1>1, <1>4, FirstInSeq
    <3> QED
      BY <3>1
  <2>2. EpisodeFirings(t.closed[1]) \in Seq(Firing)
    BY <2>1, EpisodeFiringsTyped
  <2> HIDE DEF of
  <2> QED
    BY <1>2, <2>2
<1>5. Filings(t, n, c) =
         of("observation", ObservationFirings(t.observation))
         \o (IF t.closed = <<>> THEN <<>> ELSE of("episode", EpisodeFirings(t.closed[1])))
  BY DEF Filings
<1> HIDE DEF of
<1>6. (IF t.closed = <<>> THEN <<>> ELSE of("episode", EpisodeFirings(t.closed[1]))) \in Seq(Filing)
  BY <1>4
<1> QED
  BY <1>3, <1>5, <1>6

-----------------------------------------------------------------------------
(* The invariant.                                                          *)

\* The ledgers of a belief: records on file, each once, all of its lane.
Ledgers(l, b) ==
    /\ b.supports \in Seq(Nat) /\ b.contras \in Seq(Nat)
    /\ ToSet(b.supports) \subseteq Ids /\ ToSet(b.contras) \subseteq Ids
    /\ IsInjective(b.supports) /\ IsInjective(b.contras)
    /\ ToSet(b.supports) \cap ToSet(b.contras) = {}
    /\ \A i \in ToSet(b.supports) \cup ToSet(b.contras) : LaneOf(i) = l

Backed(b) ==
    /\ Cardinality(Strong(ToSet(b.supports))) >= ActiveMinSupport
    /\ Cardinality(Live(b, b.contras)) <= Cardinality(Live(b, b.supports))

\* A sweep looks at beliefs that are active.
Sweeping == job.call = "sweep" => \A l \in job.lanes : beliefs[l].status = "active"

BeliefInv ==
    /\ TypeOK /\ Sweeping
    /\ \A l \in Lanes : /\ Ledgers(l, beliefs[l])
                        /\ beliefs[l].status = "active" => Backed(beliefs[l])

\* TypeOK without what it says of the call in progress.
TablesTyped ==
    /\ turns \in Seq(Turns) /\ Len(turns) <= MaxTurns
    /\ evidence \in Seq(Record)
    /\ beliefs \in [Lanes -> Belief \cup {NoBelief}]
    /\ \A l \in Lanes : ToSet(beliefs[l].supports \o beliefs[l].contras) \subseteq Ids
    /\ told \in [Lanes -> Status \cup {"none"}]
    /\ day \in 0..MaxDays /\ lost \in BOOLEAN
    /\ crashes \in 0..MaxCrashes /\ calls \in 0..MaxCalls

JobTyped ==
    /\ job \in Job
    /\ job.call \in {"process", "rebuild"} => ToSet(job.new) \subseteq Ids

LEMMA TypeParts == TypeOK <=> TablesTyped /\ JobTyped
  BY DEF TypeOK, TablesTyped, JobTyped

LEMMA JobFields ==
    ASSUME job \in Job, job.call \in {"process", "rebuild"}
    PROVE  /\ job \in [ call : {"process", "rebuild"}, filings : Seq(Filing),
                        drop : SUBSET Lanes, new : Seq(Nat) ]
           /\ job.filings \in Seq(Filing) /\ job.drop \subseteq Lanes /\ job.new \in Seq(Nat)
  BY DEF Job, Idle

\* A record that is added changes nothing about those on file.
LEMMA Growing ==
    ASSUME evidence \in Seq(Record), NEW r \in Record, evidence' = Append(evidence, r)
    PROVE  /\ evidence' \in Seq(Record)
           /\ Len(evidence) + 1 \in Ids'
           /\ Ids \subseteq Ids' /\ Ids \subseteq Nat
           /\ \A i \in Ids : evidence'[i] = evidence[i]
<1> DEFINE later == Append(evidence, r)
<1>1. /\ later \in Seq(Record) /\ Len(evidence) \in Nat
      /\ DOMAIN evidence = 1..Len(evidence) /\ DOMAIN later = 1..(Len(evidence) + 1)
      /\ \A i \in 1..Len(evidence) : later[i] = evidence[i]
  BY AppendFacts
<1> HIDE DEF later
<1>2. evidence' = later
  BY DEF later
<1> QED
  BY <1>1, <1>2 DEF Ids

LEMMA LedgersGrow ==
    ASSUME Ids \subseteq Ids', \A i \in Ids : evidence'[i] = evidence[i],
           NEW l, NEW b, Ledgers(l, b)
    PROVE  Ledgers(l, b)' /\ (Backed(b) => Backed(b)')
<1>1. ToSet(b.supports) \subseteq Ids /\ ToSet(b.contras) \subseteq Ids
  BY DEF Ledgers
<1>2. \A i \in Ids : LaneOf(i)' = LaneOf(i)
  BY DEF LaneOf
<1>3. Ledgers(l, b)'
  BY <1>1, <1>2 DEF Ledgers
<1>4. Strong(ToSet(b.supports))' = Strong(ToSet(b.supports))
  BY <1>1 DEF Strong
<1>5. /\ Live(b, b.contras)' = Live(b, b.contras)
      /\ Live(b, b.supports)' = Live(b, b.supports)
  BY <1>1 DEF Live
<1> QED
  BY <1>3, <1>4, <1>5 DEF Backed

\* Steps that change neither the evidence nor a belief.
LEMMA LedgersStay ==
    ASSUME BeliefInv, TypeOK', Sweeping', UNCHANGED <<evidence, beliefs>>
    PROVE  BeliefInv'
<1>1. Ids' = Ids /\ \A i \in Ids : evidence'[i] = evidence[i]
  BY DEF Ids
<1>2. \A l, b : Ledgers(l, b) => Ledgers(l, b)' /\ (Backed(b) => Backed(b)')
  BY <1>1, LedgersGrow
<1> QED
  BY <1>2 DEF BeliefInv

\* Steps that take beliefs away or let them become stale.
LEMMA LedgersFade ==
    ASSUME BeliefInv, TypeOK', Sweeping', UNCHANGED evidence,
           \A l \in Lanes : \/ beliefs'[l] = beliefs[l]
                            \/ beliefs'[l] = NoBelief
                            \/ beliefs'[l] = [beliefs[l] EXCEPT !.status = "stale"]
    PROVE  BeliefInv'
<1>1. Ids' = Ids /\ \A i \in Ids : evidence'[i] = evidence[i]
  BY DEF Ids
<1>2. \A l, b : Ledgers(l, b) => Ledgers(l, b)' /\ (Backed(b) => Backed(b)')
  BY <1>1, LedgersGrow
<1>3. \A l : Ledgers(l, NoBelief)
  <2>1. /\ NoBelief.supports = <<>> /\ NoBelief.contras = <<>>
        /\ <<>> \in Seq(Nat) /\ IsInjective(<<>>)
    BY DEF NoBelief, IsInjective
  <2> QED
    BY <2>1, ToSetNone DEF Ledgers
<1>4. ASSUME NEW l \in Lanes
      PROVE  /\ Ledgers(l, beliefs'[l])
             /\ beliefs'[l].status = "active" => Backed(beliefs'[l])
  <2>1. CASE beliefs'[l] = beliefs[l]
    BY <2>1 DEF BeliefInv
  <2>2. CASE beliefs'[l] = NoBelief
    <3>1. NoBelief.status # "active"
      BY DEF NoBelief
    <3> QED
      BY <1>3, <2>2, <3>1
  <2>3. CASE beliefs'[l] = [beliefs[l] EXCEPT !.status = "stale"]
    <3>1. beliefs[l] \in Belief \cup {NoBelief}
      BY DEF BeliefInv, TypeOK
    <3>2. /\ beliefs'[l].supports = beliefs[l].supports
          /\ beliefs'[l].contras = beliefs[l].contras
          /\ beliefs'[l].status = "stale"
      BY <2>3, <3>1 DEF Belief, NoBelief
    <3> QED
      BY <3>2 DEF BeliefInv, Ledgers
  <2> QED
    BY <1>4, <2>1, <2>2, <2>3
<1>5. \A l \in Lanes : /\ Ledgers(l, beliefs[l])'
                       /\ beliefs'[l].status = "active" => Backed(beliefs[l])'
  BY <1>2, <1>4
<1> QED
  BY <1>5 DEF BeliefInv

-----------------------------------------------------------------------------
(* The steps.                                                              *)

LEMMA IdleTyped == Idle \in Job /\ Idle.call = "idle"
  BY DEF Idle, Job

LEMMA BeliefInit == Init => BeliefInv
<1> SUFFICES ASSUME Init PROVE BeliefInv
  OBVIOUS
<1>1. /\ turns = <<>> /\ evidence = <<>> /\ job = Idle /\ day = 0 /\ lost = FALSE
      /\ crashes = 0 /\ calls = 0
      /\ beliefs = [l \in Lanes |-> NoBelief] /\ told = [l \in Lanes |-> "none"]
  BY DEF Init
<1>2. /\ NoBelief.supports = <<>> /\ NoBelief.contras = <<>> /\ NoBelief.status = "none"
      /\ <<>> \in Seq(Nat) /\ IsInjective(<<>>) /\ <<>> \o <<>> = <<>>
  BY DEF NoBelief, IsInjective
<1>3. /\ turns \in Seq(Turns) /\ evidence \in Seq(Record) /\ Len(turns) = 0
  BY <1>1
<1>4. \A l \in Lanes : ToSet(beliefs[l].supports \o beliefs[l].contras) = {}
  BY <1>1, <1>2, ToSetNone
<1>5. JobTyped
  <2>1. job \in Job /\ job.call = "idle"
    BY <1>1, IdleTyped
  <2> QED
    BY <2>1 DEF JobTyped
<1>6. TablesTyped
  <2>1. /\ beliefs \in [Lanes -> Belief \cup {NoBelief}]
        /\ told \in [Lanes -> Status \cup {"none"}]
    BY <1>1
  <2>2. /\ Len(turns) <= MaxTurns /\ day \in 0..MaxDays
        /\ crashes \in 0..MaxCrashes /\ calls \in 0..MaxCalls
    <3>1. MaxTurns \in Nat /\ MaxDays \in Nat /\ MaxCrashes \in Nat /\ MaxCalls \in Nat
      BY BeliefAssumption
    <3>2. /\ Len(turns) = 0 /\ day = 0 /\ crashes = 0 /\ calls = 0
      BY <1>1, <1>3
    <3> QED
      BY <3>1, <3>2
  <2>3. lost \in BOOLEAN
    BY <1>1, Zenon
  <2> QED
    BY <1>3, <1>4, <2>1, <2>2, <2>3 DEF TablesTyped
<1>7. \A l \in Lanes : Ledgers(l, beliefs[l]) /\ beliefs[l].status # "active"
  BY <1>1, <1>2, ToSetNone DEF Ledgers
<1>8. Sweeping
  BY <1>1, IdleTyped DEF Sweeping
<1> QED
  BY <1>5, <1>6, <1>7, <1>8, TypeParts DEF BeliefInv

LEMMA ProcessTyped ==
    ASSUME NEW filings \in Seq(Filing), NEW new \in Seq(Nat), ToSet(new) \subseteq Ids
    PROVE  /\ Process(filings, new) \in Job
           /\ ToSet(Process(filings, new).new) \subseteq Ids
           /\ Process(filings, new).call = "process"
<1>1. Process(filings, new) =
         [call |-> "process", filings |-> filings, drop |-> {}, new |-> new]
  BY DEF Process
<1>2. /\ Process(filings, new) \in [ call : {"process", "rebuild"}, filings : Seq(Filing),
                                     drop : SUBSET Lanes, new : Seq(Nat) ]
      /\ Process(filings, new).new = new /\ Process(filings, new).call = "process"
  BY <1>1
<1> QED
  BY <1>2 DEF Job

LEMMA TurnKeeps ==
    ASSUME BeliefInv, NEW t \in Turns, NEW c \in Contexts, Turn(t, c)
    PROVE  BeliefInv'
<1>1. /\ Len(turns) < MaxTurns /\ turns' = Append(turns, t)
      /\ job' = Process(Filings(t, Len(turns) + 1, c), <<>>)
      /\ UNCHANGED <<evidence, beliefs, told, day, lost, crashes, calls>>
  BY DEF Turn
<1>2. /\ turns' \in Seq(Turns) /\ Len(turns') <= MaxTurns /\ Len(turns) + 1 \in 1..MaxTurns
  <2>1. turns \in Seq(Turns) /\ MaxTurns \in Nat /\ Len(turns) \in Nat
    BY BeliefAssumption DEF BeliefInv, TypeOK
  <2>2. turns' \in Seq(Turns) /\ Len(turns') = Len(turns) + 1
    BY <1>1, <2>1, AppendFacts
  <2> QED
    BY <1>1, <2>1, <2>2
<1>3. Filings(t, Len(turns) + 1, c) \in Seq(Filing)
  BY <1>2, FilingsTyped
<1>4. /\ <<>> \in Seq(Nat) /\ ToSet(<<>>) \subseteq Ids
  BY ToSetNone
<1>5. /\ job' \in Job /\ ToSet(job'.new) \subseteq Ids
  BY <1>1, <1>3, <1>4, ProcessTyped
<1>6. TypeOK'
  BY <1>1, <1>2, <1>5 DEF BeliefInv, TypeOK, Ids
<1>7. Sweeping'
  BY <1>1 DEF Sweeping, Process
<1> QED
  BY <1>1, <1>6, <1>7, LedgersStay

LEMMA StartKeeps ==
    ASSUME BeliefInv, NEW j \in Job, Start(j),
           j.call \in {"process", "rebuild"} => ToSet(j.new) \subseteq Ids,
           j.call = "sweep" => \A l \in j.lanes : beliefs[l].status = "active"
    PROVE  BeliefInv'
<1>1. /\ calls < MaxCalls /\ job' = j /\ calls' = calls + 1
      /\ UNCHANGED <<turns, evidence, beliefs, told, day, lost, crashes>>
  BY DEF Start
<1>2. calls' \in 0..MaxCalls
  BY <1>1, BeliefAssumption DEF BeliefInv, TypeOK
<1>3. TypeOK'
  BY <1>1, <1>2 DEF BeliefInv, TypeOK, Ids
<1>4. Sweeping'
  BY <1>1 DEF Sweeping
<1> QED
  BY <1>1, <1>3, <1>4, LedgersStay

LEMMA CallsKeep ==
    ASSUME BeliefInv,
           \/ \E n \in DOMAIN turns, c \in Contexts : Refile(n, c)
           \/ \E i \in Ids : Reprocess(i)
           \/ Recompute \/ Sweep
    PROVE  BeliefInv'
<1>1. evidence \in Seq(Record) /\ Ids = 1..Len(evidence) /\ Len(evidence) \in Nat
  BY DEF BeliefInv, TypeOK, Ids
<1>2. ASSUME NEW n \in DOMAIN turns, NEW c \in Contexts, Refile(n, c) PROVE BeliefInv'
  <2>1. turns[n] \in Turns /\ n \in 1..MaxTurns
    BY BeliefAssumption DEF BeliefInv, TypeOK
  <2>2. Filings(turns[n], n, c) \in Seq(Filing)
    BY <2>1, FilingsTyped
  <2>3. <<>> \in Seq(Nat) /\ ToSet(<<>>) \subseteq Ids
    BY ToSetNone
  <2> QED
    BY <1>2, <2>2, <2>3, ProcessTyped, StartKeeps DEF Refile
<1>3. ASSUME NEW i \in Ids, Reprocess(i) PROVE BeliefInv'
  <2>1. <<>> \in Seq(Filing) /\ <<i>> \in Seq(Nat)
    BY <1>1
  <2>2. ToSet(<<i>>) \subseteq Ids
    BY ToSetOne
  <2> QED
    BY <1>3, <2>1, <2>2, ProcessTyped, StartKeeps DEF Reprocess
<1>4. CASE Recompute
  <2> DEFINE all == [i \in Ids |-> i]
  <2>1. all \in Seq(Nat) /\ ToSet(all) \subseteq Ids
    BY <1>1 DEF ToSet
  <2>2. Rebuild(all) = [ call |-> "rebuild", filings |-> <<>>, new |-> all,
                         drop |-> {l \in Lanes : beliefs[l] # NoBelief} ]
    BY DEF Rebuild
  <2>3. Start(Rebuild(all))
    BY <1>4 DEF Recompute
  <2> HIDE DEF all
  <2>4. <<>> \in Seq(Filing) /\ {l \in Lanes : beliefs[l] # NoBelief} \in SUBSET Lanes
    OBVIOUS
  <2>5. /\ Rebuild(all) \in [ call : {"process", "rebuild"}, filings : Seq(Filing),
                              drop : SUBSET Lanes, new : Seq(Nat) ]
        /\ Rebuild(all).new = all /\ Rebuild(all).call = "rebuild"
    BY <2>1, <2>2, <2>4
  <2>6. Rebuild(all) \in Job
    BY <2>5 DEF Job
  <2> QED
    BY <2>1, <2>3, <2>5, <2>6, StartKeeps
<1>5. CASE Sweep
  <2> DEFINE j == [call |-> "sweep", lanes |-> {l \in Lanes : beliefs[l].status = "active"}]
  <2>1. /\ j \in Job /\ j.call = "sweep"
        /\ \A l \in j.lanes : beliefs[l].status = "active"
    BY DEF Job
  <2>2. Start(j)
    BY <1>5 DEF Sweep
  <2> HIDE DEF j
  <2> QED
    BY <2>1, <2>2, StartKeeps
<1> QED
  BY <1>2, <1>3, <1>4, <1>5

LEMMA FileNextKeeps ==
    ASSUME BeliefInv, FileNext PROVE BeliefInv'
<1> DEFINE f == Head(job.filings)
<1>1. /\ job.call = "process" /\ job.filings # <<>>
      /\ UNCHANGED <<turns, beliefs, told, day, lost, crashes, calls>>
  BY DEF FileNext
<1>2. /\ job \in [ call : {"process", "rebuild"}, filings : Seq(Filing),
                   drop : SUBSET Lanes, new : Seq(Nat) ]
      /\ job.filings \in Seq(Filing) /\ job.new \in Seq(Nat) /\ ToSet(job.new) \subseteq Ids
  BY <1>1, JobFields DEF BeliefInv, TypeOK
<1>3. Tail(job.filings) \in Seq(Filing) /\ f \in Filing
  BY <1>1, <1>2, ToSetTail
<1>4. CASE AlreadyFiled(f)
  <2>1. job' = [job EXCEPT !.filings = Tail(@)] /\ UNCHANGED evidence
    BY <1>4 DEF FileNext
  <2>2. /\ job' \in [ call : {"process", "rebuild"}, filings : Seq(Filing),
                      drop : SUBSET Lanes, new : Seq(Nat) ]
        /\ job'.new = job.new
    BY <1>2, <1>3, <2>1
  <2>3. job' \in Job /\ Sweeping'
    BY <2>2 DEF Job, Sweeping
  <2>4. TypeOK'
    BY <1>1, <1>2, <2>1, <2>2, <2>3 DEF BeliefInv, TypeOK, Ids
  <2> QED
    BY <1>1, <2>1, <2>3, <2>4, LedgersStay
<1>5. CASE ~AlreadyFiled(f)
  <2> DEFINE r == [ source |-> f.source, rule |-> f.rule, context |-> f.context,
                    score |-> f.score, day |-> day, supersedes |-> Superseded(f) ]
  <2>1. /\ evidence' = Append(evidence, r)
        /\ job' = [job EXCEPT !.filings = Tail(@), !.new = Append(@, Len(evidence) + 1)]
    BY <1>5 DEF FileNext
  <2>2. evidence \in Seq(Record) /\ day \in 0..MaxDays /\ Ids \subseteq Nat
    BY DEF BeliefInv, TypeOK, Ids
  <2>3. r \in Record
    <3>1. Superseded(f) \in SUBSET Nat
      BY <2>2 DEF Superseded
    <3>2. /\ f.source \in Source /\ f.rule \in Rules /\ f.context \in Contexts
          /\ f.score \in 0..100
      BY <1>3 DEF Filing
    <3> QED
      BY <2>2, <3>1, <3>2 DEF Record
  <2> HIDE DEF f, r
  <2>4. /\ evidence' \in Seq(Record) /\ Len(evidence) + 1 \in Ids' /\ Ids \subseteq Ids'
        /\ \A i \in Ids : evidence'[i] = evidence[i]
    BY <2>1, <2>2, <2>3, Growing
  <2>5. Len(evidence) + 1 \in Nat
    BY <2>2
  <2>6. /\ Append(job.new, Len(evidence) + 1) \in Seq(Nat)
        /\ ToSet(Append(job.new, Len(evidence) + 1)) = ToSet(job.new) \cup {Len(evidence) + 1}
    BY <1>2, <2>5, AppendFacts, ToSetAppend
  <2>7. /\ job' \in [ call : {"process", "rebuild"}, filings : Seq(Filing),
                      drop : SUBSET Lanes, new : Seq(Nat) ]
        /\ job'.new = Append(job.new, Len(evidence) + 1)
    BY <1>2, <1>3, <2>1, <2>6
  <2>8. JobTyped' /\ Sweeping'
    BY <1>2, <2>4, <2>6, <2>7 DEF JobTyped, Job, Sweeping
  <2>9. TablesTyped'
    BY <1>1, <2>4 DEF BeliefInv, TypeOK, TablesTyped
  <2>10. TypeOK'
    BY <2>8, <2>9 DEF TypeOK, TablesTyped, JobTyped
  <2>11. \A l, b : Ledgers(l, b) => Ledgers(l, b)' /\ (Backed(b) => Backed(b)')
    BY <2>4, LedgersGrow
  <2> QED
    BY <1>1, <2>8, <2>10, <2>11 DEF BeliefInv
<1> QED
  BY <1>4, <1>5

\* The record goes to one of the ledgers.
LEMMA Integrated ==
    ASSUME BeliefInv, NEW l \in Lanes, NEW i \in Ids, LaneOf(i) = l,
           i \notin ToSet(beliefs[l].supports) \cup ToSet(beliefs[l].contras)
    PROVE  LET b == Integrate(Existing(beliefs[l]), i) IN
           /\ Ledgers(l, b) /\ b.status \in Status
           /\ b \in [status : Status, supports : Seq(Nat), contras : Seq(Nat)]
           /\ ToSet(beliefs[l].supports) \subseteq ToSet(b.supports)
           /\ b.status = "active" <=> beliefs[l].status = "active"
<1> DEFINE a == Existing(beliefs[l])
           b == Integrate(a, i)
<1>1. beliefs[l] \in Belief \cup {NoBelief} /\ Ledgers(l, beliefs[l])
  BY DEF BeliefInv, TypeOK
<1>2. i \in Nat
  BY DEF BeliefInv, TypeOK, Ids
<1>3. /\ a \in Belief
      /\ a.supports = beliefs[l].supports /\ a.contras = beliefs[l].contras
      /\ a.status = "active" <=> beliefs[l].status = "active"
  <2>1. CASE beliefs[l] = NoBelief
    <3>1. a = [status |-> "tentative", supports |-> <<>>, contras |-> <<>>]
      BY <2>1 DEF Existing, NoBelief
    <3>2. /\ beliefs[l].supports = <<>> /\ beliefs[l].contras = <<>>
          /\ beliefs[l].status = "none"
      BY <2>1 DEF NoBelief
    <3>3. <<>> \in Seq(Nat) /\ "tentative" \in Status
      BY DEF Status
    <3> HIDE DEF a
    <3>4. a.status = "tentative" /\ a.supports = <<>> /\ a.contras = <<>>
      BY <3>1
    <3>5. a \in Belief
      BY <3>1, <3>3 DEF Belief
    <3> QED
      BY <3>2, <3>4, <3>5
  <2>2. CASE beliefs[l] # NoBelief
    BY <1>1, <2>2 DEF Existing
  <2> QED
    BY <2>1, <2>2
<1>4. Ledgers(l, a) /\ i \notin ToSet(a.supports) /\ i \notin ToSet(a.contras)
  BY <1>1, <1>3 DEF Ledgers
<1> HIDE DEF a
<1>5. /\ Append(a.supports, i) \in Seq(Nat) /\ Append(a.contras, i) \in Seq(Nat)
      /\ ToSet(Append(a.supports, i)) = ToSet(a.supports) \cup {i}
      /\ ToSet(Append(a.contras, i)) = ToSet(a.contras) \cup {i}
      /\ IsInjective(Append(a.supports, i)) /\ IsInjective(Append(a.contras, i))
  BY <1>2, <1>4, AppendFacts, ToSetAppend, AppendOnce DEF Ledgers
<1>6. CASE Supports(a, i)
  <2>1. b = [a EXCEPT !.supports = Append(@, i)]
    BY <1>6 DEF Integrate
  <2>2. /\ b \in [status : Status, supports : Seq(Nat), contras : Seq(Nat)]
        /\ b.status = a.status /\ b.supports = Append(a.supports, i) /\ b.contras = a.contras
    BY <1>3, <1>5, <2>1 DEF Belief
  <2> HIDE DEF b
  <2>3. Ledgers(l, b)
    BY <1>4, <1>5, <2>2 DEF Ledgers
  <2>4. b.status \in Status /\ ToSet(beliefs[l].supports) \subseteq ToSet(b.supports)
        /\ (b.status = "active" <=> beliefs[l].status = "active")
    BY <1>3, <1>5, <2>2 DEF Belief
  <2> QED
    BY <2>2, <2>3, <2>4 DEF a, b
<1>7. CASE ~Supports(a, i)
  <2>1. b = [a EXCEPT !.contras = Append(@, i)]
    BY <1>7 DEF Integrate
  <2>2. /\ b \in [status : Status, supports : Seq(Nat), contras : Seq(Nat)]
        /\ b.status = a.status /\ b.supports = a.supports /\ b.contras = Append(a.contras, i)
    BY <1>3, <1>5, <2>1 DEF Belief
  <2> HIDE DEF b
  <2>3. Ledgers(l, b)
    BY <1>4, <1>5, <2>2 DEF Ledgers
  <2>4. b.status \in Status /\ ToSet(beliefs[l].supports) \subseteq ToSet(b.supports)
        /\ (b.status = "active" <=> beliefs[l].status = "active")
    BY <1>3, <2>2 DEF Belief
  <2> QED
    BY <2>2, <2>3, <2>4 DEF a, b
<1> QED
  BY <1>6, <1>7

\* The thresholds, where finite sets are counted.
LEMMA ActiveIsBacked ==
    ASSUME NEW old, NEW b, NEW l, Ledgers(l, b), StatusOf(b) = "active",
           ToSet(old.supports) \subseteq ToSet(b.supports),
           b.status = "active" => Cardinality(Strong(ToSet(old.supports))) >= ActiveMinSupport
    PROVE  Backed(b)
<1>1. /\ IsFiniteSet(ToSet(b.supports)) /\ IsFiniteSet(ToSet(b.contras))
  BY ToSetFinite DEF Ledgers
<1>2. \A s, t : IsFiniteSet(t) /\ s \subseteq t =>
         IsFiniteSet(s) /\ Cardinality(s) \in Nat /\ Cardinality(s) <= Cardinality(t)
               /\ Cardinality(t) \in Nat
  BY FS_Subset, FS_CardinalityType
<1>3. /\ Live(b, b.supports) \subseteq ToSet(b.supports)
      /\ Live(b, b.contras) \subseteq ToSet(b.contras)
  BY DEF Live
<1>4. /\ Cardinality(Live(b, b.supports)) \in Nat
      /\ Cardinality(Live(b, b.contras)) \in Nat
  BY <1>1, <1>2, <1>3
<1>5. IsFiniteSet(Strong(ToSet(b.supports))) /\ Cardinality(Strong(ToSet(b.supports))) \in Nat
  <2>1. Strong(ToSet(b.supports)) \subseteq ToSet(b.supports)
    BY DEF Strong
  <2> QED
    BY <1>1, <1>2, <2>1
<1>6. /\ ~Outweighed(b)
      /\ Activated(b) \/ b.status = "active"
  <2>1. ~Outweighed(b)
    BY DEF StatusOf
  <2>2. Activated(b) \/ b.status = "active"
    BY <2>1 DEF StatusOf
  <2> QED
    BY <2>1, <2>2
<1>7. Cardinality(Live(b, b.contras)) <= Cardinality(Live(b, b.supports))
  BY <1>4, <1>6 DEF Outweighed
<1>8. CASE Activated(b)
  <2>1. Strong(Since(Live(b, b.supports), ActiveWindow)) \subseteq Strong(ToSet(b.supports))
    BY <1>3 DEF Strong, Since
  <2>2. /\ Cardinality(Strong(Since(Live(b, b.supports), ActiveWindow)))
              <= Cardinality(Strong(ToSet(b.supports)))
        /\ Cardinality(Strong(Since(Live(b, b.supports), ActiveWindow))) \in Nat
    BY <1>2, <1>5, <2>1
  <2>3. Cardinality(Strong(Since(Live(b, b.supports), ActiveWindow))) >= ActiveMinSupport
    BY <1>8 DEF Activated
  <2> QED
    BY <1>5, <1>7, <2>2, <2>3, BeliefAssumption DEF Backed
<1>9. CASE b.status = "active"
  <2>1. Strong(ToSet(old.supports)) \subseteq Strong(ToSet(b.supports))
    BY DEF Strong
  <2>2. /\ Cardinality(Strong(ToSet(old.supports))) <= Cardinality(Strong(ToSet(b.supports)))
        /\ Cardinality(Strong(ToSet(old.supports))) \in Nat
    BY <1>2, <1>5, <2>1
  <2> QED
    BY <1>5, <1>7, <1>9, <2>2, BeliefAssumption DEF Backed
<1> QED
  BY <1>6, <1>8, <1>9

LEMMA AnnouncedTyped ==
    ASSUME NEW before \in Status \cup {"none"}, NEW after \in Status,
           NEW announced \in Status \cup {"none"}
    PROVE  Announced(before, after, announced) \in Status \cup {"none"}
  BY DEF Announced

LEMMA StatusTyped ==
    ASSUME NEW b, b.status \in Status
    PROVE  StatusOf(b) \in Status
  BY DEF StatusOf, Status

LEMMA UpdateKeeps ==
    ASSUME BeliefInv, UpdateNext PROVE BeliefInv'
<1> DEFINE i == Head(job.new)
           l == LaneOf(i)
           b == Integrate(Existing(beliefs[l]), i)
           after == [b EXCEPT !.status = StatusOf(b)]
<1>1. /\ Processing /\ job.new # <<>>
      /\ job' = [job EXCEPT !.new = Tail(@)]
      /\ UNCHANGED <<turns, evidence, day, lost, crashes, calls>>
  BY DEF UpdateNext
<1>2. /\ job \in [ call : {"process", "rebuild"}, filings : Seq(Filing),
                   drop : SUBSET Lanes, new : Seq(Nat) ]
      /\ job.new \in Seq(Nat) /\ ToSet(job.new) \subseteq Ids
  BY <1>1, JobFields DEF BeliefInv, TypeOK, Processing
<1>3. /\ Tail(job.new) \in Seq(Nat) /\ i \in Ids
      /\ ToSet(Tail(job.new)) \subseteq Ids
  BY <1>1, <1>2, ToSetTail
<1>4. JobTyped' /\ Sweeping'
  <2>1. /\ job' \in [ call : {"process", "rebuild"}, filings : Seq(Filing),
                      drop : SUBSET Lanes, new : Seq(Nat) ]
        /\ job'.new = Tail(job.new)
    BY <1>1, <1>2, <1>3
  <2>2. job' \in Job
    BY <2>1 DEF Job
  <2> QED
    BY <1>1, <1>3, <2>1, <2>2 DEF JobTyped, Ids, Sweeping
<1>5. l \in Lanes
  <2>1. evidence[i] \in Record
    BY <1>3 DEF BeliefInv, TypeOK, Ids
  <2>2. evidence[i].rule \in Rules /\ evidence[i].context \in Contexts
    BY <2>1 DEF Record
  <2>3. Feeds[evidence[i].rule].dimension \in Dimensions
    BY <2>2 DEF Dimensions
  <2> QED
    BY <2>2, <2>3 DEF LaneOf, Lanes
<1>6. CASE i \in ToSet(beliefs[l].supports) \cup ToSet(beliefs[l].contras)
  <2>1. UNCHANGED <<beliefs, told>>
    BY <1>6 DEF UpdateNext
  <2>2. TypeOK'
    BY <1>1, <1>4, <2>1, TypeParts DEF BeliefInv, TypeOK, JobTyped, Ids
  <2> QED
    BY <1>1, <1>4, <2>1, <2>2, LedgersStay
<1>7. CASE i \notin ToSet(beliefs[l].supports) \cup ToSet(beliefs[l].contras)
  <2>1. /\ beliefs' = [beliefs EXCEPT ![l] = after]
        /\ told' = [told EXCEPT ![l] = Announced(beliefs[l].status, StatusOf(b), @)]
    BY <1>7 DEF UpdateNext
  <2>2. /\ Ledgers(l, b) /\ b.status \in Status
        /\ b \in [status : Status, supports : Seq(Nat), contras : Seq(Nat)]
        /\ ToSet(beliefs[l].supports) \subseteq ToSet(b.supports)
        /\ b.status = "active" => beliefs[l].status = "active"
    BY <1>3, <1>5, <1>7, Integrated
  <2>3. /\ beliefs \in [Lanes -> Belief \cup {NoBelief}]
        /\ told \in [Lanes -> Status \cup {"none"}]
        /\ beliefs[l].status = "active" => Backed(beliefs[l])
        /\ \A m \in Lanes : Ledgers(m, beliefs[m]) /\ (beliefs[m].status = "active" => Backed(beliefs[m]))
    BY <1>5 DEF BeliefInv, TypeOK
  <2> HIDE DEF i, l, b
  <2>4. StatusOf(b) \in Status
    BY <2>2, StatusTyped
  <2>5. /\ after \in Belief /\ after.status = StatusOf(b)
        /\ after.supports = b.supports /\ after.contras = b.contras
    BY <2>2, <2>4 DEF Belief
  <2>6. StatusOf(b) = "active" => Backed(b)
    <3>1. b.status = "active" =>
             Cardinality(Strong(ToSet(beliefs[l].supports))) >= ActiveMinSupport
      BY <2>2, <2>3 DEF Backed
    <3> QED
      BY <2>2, <3>1, ActiveIsBacked
  <2> HIDE DEF after
  <2>7. /\ Ledgers(l, after)
        /\ after.status = "active" => Backed(after)
    BY <2>2, <2>5, <2>6 DEF Ledgers, Backed, Live
  <2>8. /\ beliefs' \in [Lanes -> Belief \cup {NoBelief}]
        /\ beliefs'[l] = after
        /\ \A m \in Lanes \ {l} : beliefs'[m] = beliefs[m]
    BY <1>5, <2>1, <2>3, <2>5
  <2>9. told' \in [Lanes -> Status \cup {"none"}]
    <3>1. beliefs[l].status \in Status \cup {"none"} /\ told[l] \in Status \cup {"none"}
      BY <1>5, <2>3 DEF Belief, NoBelief
    <3>2. Announced(beliefs[l].status, StatusOf(b), told[l]) \in Status \cup {"none"}
      BY <2>4, <3>1, AnnouncedTyped
    <3> QED
      BY <1>5, <2>1, <2>3, <3>2
  <2>10. \A m \in Lanes : /\ Ledgers(m, beliefs'[m])
                          /\ beliefs'[m].status = "active" => Backed(beliefs'[m])
    BY <2>3, <2>7, <2>8
  <2>11. \A m \in Lanes : ToSet(beliefs'[m].supports \o beliefs'[m].contras) \subseteq Ids
    BY <2>10, ToSetConcat DEF Ledgers
  <2>12. TablesTyped'
    BY <1>1, <2>8, <2>9, <2>11 DEF BeliefInv, TypeOK, TablesTyped, Ids
  <2>13. TypeOK'
    BY <1>4, <2>12 DEF TypeOK, TablesTyped, JobTyped
  <2>14. Ids \subseteq Ids' /\ \A k \in Ids : evidence'[k] = evidence[k]
    BY <1>1 DEF Ids
  <2>15. \A m, c : Ledgers(m, c) => Ledgers(m, c)' /\ (Backed(c) => Backed(c)')
    BY <2>14, LedgersGrow
  <2> QED
    BY <1>4, <2>10, <2>13, <2>15 DEF BeliefInv
<1> QED
  BY <1>6, <1>7

LEMMA UpdateDoneKeeps ==
    ASSUME BeliefInv, UpdateDone PROVE BeliefInv'
<1>1. job' = Idle /\ UNCHANGED <<turns, evidence, beliefs, day, crashes, calls>>
  BY DEF UpdateDone
<1>2. \/ lost' = FALSE /\ told' = [l \in Lanes |-> IF beliefs[l] = NoBelief THEN told[l]
                                                                        ELSE beliefs[l].status]
      \/ UNCHANGED <<told, lost>>
  BY DEF UpdateDone
<1>3. /\ beliefs \in [Lanes -> Belief \cup {NoBelief}]
      /\ told \in [Lanes -> Status \cup {"none"}] /\ lost \in BOOLEAN
  BY DEF BeliefInv, TypeOK
<1>4. told' \in [Lanes -> Status \cup {"none"}]
  <2>1. \A l \in Lanes : beliefs[l] # NoBelief => beliefs[l].status \in Status
    BY <1>3 DEF Belief
  <2> QED
    BY <1>2, <1>3, <2>1
<1>5. lost' \in BOOLEAN
  BY <1>2, <1>3
<1>6. job' \in Job /\ job'.call = "idle"
  BY <1>1, IdleTyped
<1>7. TypeOK' /\ Sweeping'
  BY <1>1, <1>4, <1>5, <1>6 DEF BeliefInv, TypeOK, Ids, Sweeping
<1> QED
  BY <1>1, <1>7, LedgersStay

LEMMA DropKeeps ==
    ASSUME BeliefInv, NEW l \in Lanes, Drop(l) PROVE BeliefInv'
<1>1. /\ job.call = "rebuild"
      /\ beliefs' = [beliefs EXCEPT ![l] = NoBelief]
      /\ job' = [job EXCEPT !.drop = @ \ {l}]
      /\ UNCHANGED <<turns, evidence, told, day, lost, crashes, calls>>
  BY DEF Drop
<1>2. /\ job \in [ call : {"process", "rebuild"}, filings : Seq(Filing),
                   drop : SUBSET Lanes, new : Seq(Nat) ]
      /\ ToSet(job.new) \subseteq Ids
  BY <1>1, JobFields DEF BeliefInv, TypeOK
<1>3. /\ job' \in [ call : {"process", "rebuild"}, filings : Seq(Filing),
                    drop : SUBSET Lanes, new : Seq(Nat) ]
      /\ job'.new = job.new
  BY <1>1, <1>2
<1>4. JobTyped' /\ Sweeping'
  BY <1>1, <1>2, <1>3 DEF JobTyped, Job, Ids, Sweeping
<1>5. /\ beliefs' \in [Lanes -> Belief \cup {NoBelief}]
      /\ beliefs'[l] = NoBelief /\ \A m \in Lanes \ {l} : beliefs'[m] = beliefs[m]
  BY <1>1 DEF BeliefInv, TypeOK
<1>6. \A m \in Lanes : ToSet(beliefs'[m].supports \o beliefs'[m].contras) \subseteq Ids
  <2>1. ToSet(NoBelief.supports \o NoBelief.contras) = {}
    <3>1. /\ NoBelief.supports = <<>> /\ NoBelief.contras = <<>> /\ <<>> \o <<>> = <<>>
      BY DEF NoBelief
    <3> QED
      BY <3>1, ToSetNone
  <2> QED
    BY <1>5, <2>1 DEF BeliefInv, TypeOK
<1>7. TablesTyped'
  BY <1>1, <1>5, <1>6 DEF BeliefInv, TypeOK, TablesTyped, Ids
<1>8. TypeOK'
  BY <1>4, <1>7 DEF TypeOK, TablesTyped, JobTyped
<1> QED
  BY <1>1, <1>4, <1>5, <1>8, LedgersFade

LEMMA SweepLaneKeeps ==
    ASSUME BeliefInv, NEW l \in Lanes, SweepLane(l) PROVE BeliefInv'
<1>1. /\ job.call = "sweep" /\ l \in job.lanes /\ job' = [job EXCEPT !.lanes = @ \ {l}]
      /\ UNCHANGED <<turns, evidence, day, lost, crashes, calls>>
      /\ \/ /\ beliefs' = [beliefs EXCEPT ![l].status = "stale"]
            /\ told' = [told EXCEPT ![l] = "stale"]
         \/ UNCHANGED <<beliefs, told>>
  BY DEF SweepLane
<1>2. job' \in [call : {"sweep"}, lanes : SUBSET Lanes] /\ job'.lanes = job.lanes \ {l}
  <2>1. job \in [call : {"sweep"}, lanes : SUBSET Lanes]
    BY <1>1 DEF BeliefInv, TypeOK, Job, Idle
  <2> QED
    BY <1>1, <2>1
<1>3. JobTyped'
  BY <1>2 DEF JobTyped, Job
<1>4. /\ beliefs \in [Lanes -> Belief \cup {NoBelief}]
      /\ told \in [Lanes -> Status \cup {"none"}]
      /\ \A m \in Lanes : ToSet(beliefs[m].supports \o beliefs[m].contras) \subseteq Ids
  BY DEF BeliefInv, TypeOK
<1>5. /\ told' \in [Lanes -> Status \cup {"none"}]
  BY <1>1, <1>4 DEF Status
<1>6. Sweeping'
  <2>1. \A m \in Lanes \ {l} : beliefs'[m] = beliefs[m]
    BY <1>1, <1>4
  <2> QED
    BY <1>1, <1>2, <2>1 DEF BeliefInv, Sweeping
<1>7. CASE UNCHANGED beliefs
  <2>1. TablesTyped'
    BY <1>1, <1>4, <1>5, <1>7 DEF BeliefInv, TypeOK, TablesTyped, Ids
  <2>2. TypeOK'
    BY <1>3, <2>1 DEF TypeOK, TablesTyped, JobTyped
  <2> QED
    BY <1>1, <1>6, <1>7, <2>2, LedgersStay
<1>8. CASE beliefs' = [beliefs EXCEPT ![l].status = "stale"]
  <2>1. beliefs[l] \in Belief
    <3>1. beliefs[l].status = "active"
      BY <1>1 DEF BeliefInv, Sweeping
    <3>2. beliefs[l] # NoBelief
      BY <3>1 DEF NoBelief
    <3> QED
      BY <1>4, <3>2
  <2>2. /\ beliefs' = [beliefs EXCEPT ![l] = [beliefs[l] EXCEPT !.status = "stale"]]
        /\ [beliefs[l] EXCEPT !.status = "stale"] \in Belief
    BY <1>8, <2>1 DEF Belief, Status
  <2>3. /\ beliefs'[l] = [beliefs[l] EXCEPT !.status = "stale"]
        /\ \A m \in Lanes \ {l} : beliefs'[m] = beliefs[m]
        /\ beliefs' \in [Lanes -> Belief \cup {NoBelief}]
    BY <1>4, <2>2
  <2>4. beliefs'[l].supports = beliefs[l].supports /\ beliefs'[l].contras = beliefs[l].contras
    BY <2>1, <2>3 DEF Belief
  <2>5. \A m \in Lanes : ToSet(beliefs'[m].supports \o beliefs'[m].contras) \subseteq Ids
    BY <1>4, <2>3, <2>4
  <2>6. TablesTyped'
    BY <1>1, <1>5, <2>3, <2>5 DEF BeliefInv, TypeOK, TablesTyped, Ids
  <2>7. TypeOK'
    BY <1>3, <2>6 DEF TypeOK, TablesTyped, JobTyped
  <2> QED
    BY <1>1, <1>6, <2>3, <2>7, LedgersFade
<1> QED
  BY <1>1, <1>7, <1>8

LEMMA RestKeeps ==
    ASSUME BeliefInv, Swept \/ NewDay \/ Crash PROVE BeliefInv'
<1>1. job' = Idle /\ UNCHANGED <<turns, evidence, beliefs, told, calls>>
  BY DEF Swept, NewDay, Crash
<1>2. job' \in Job /\ job'.call = "idle"
  BY <1>1, IdleTyped
<1>3. day' \in 0..MaxDays /\ crashes' \in 0..MaxCrashes
  BY BeliefAssumption DEF BeliefInv, TypeOK, Swept, NewDay, Crash
<1>4. lost' \in BOOLEAN
  BY DEF BeliefInv, TypeOK, Swept, NewDay, Crash
<1>5. TypeOK' /\ Sweeping'
  BY <1>1, <1>2, <1>3, <1>4 DEF BeliefInv, TypeOK, Ids, Sweeping
<1> QED
  BY <1>1, <1>5, LedgersStay

LEMMA BeliefStep ==
    ASSUME BeliefInv, [Next]_vars PROVE BeliefInv'
<1>1. ASSUME NEW t \in Turns, NEW c \in Contexts, Turn(t, c) PROVE BeliefInv'
  BY <1>1, TurnKeeps
<1>2. CASE \/ \E n \in DOMAIN turns, c \in Contexts : Refile(n, c)
           \/ \E i \in Ids : Reprocess(i)
           \/ Recompute \/ Sweep
  BY <1>2, CallsKeep
<1>3. CASE FileNext
  BY <1>3, FileNextKeeps
<1>4. CASE UpdateNext
  BY <1>4, UpdateKeeps
<1>5. CASE UpdateDone
  BY <1>5, UpdateDoneKeeps
<1>6. ASSUME NEW l \in Lanes, Drop(l) \/ SweepLane(l) PROVE BeliefInv'
  BY <1>6, DropKeeps, SweepLaneKeeps
<1>7. CASE Swept \/ NewDay \/ Crash
  BY <1>7, RestKeeps
<1>8. CASE UNCHANGED vars
  <2>1. UNCHANGED <<turns, evidence, beliefs, told, job, day, lost, crashes, calls>>
    BY <1>8 DEF vars
  <2>2. TypeOK' /\ Sweeping'
    BY <2>1 DEF BeliefInv, TypeOK, Ids, Sweeping
  <2> QED
    BY <2>1, <2>2, LedgersStay
<1> QED
  BY <1>1, <1>2, <1>3, <1>4, <1>5, <1>6, <1>7, <1>8 DEF Next

THEOREM BeliefAlways == Spec => []BeliefInv
<1>1. BeliefInv /\ [Next]_vars => BeliefInv'
  BY BeliefStep
<1> QED
  BY BeliefInit, <1>1, PTL DEF Spec

-----------------------------------------------------------------------------
(* What follows of the invariant.                                          *)

\* Every state is well-formed; above all, the ledgers and the work in progress name
\* records that are on file (BeliefService!TypeOK).
THEOREM TypeCorrect == Spec => []TypeOK
<1>1. BeliefInv => TypeOK
  BY DEF BeliefInv
<1> QED
  BY BeliefAlways, <1>1, PTL

\* Guardrails A and B: a record is counted once, on one side of one belief, the one
\* of its own dimension and context.
THEOREM CountedOnceInItsLaneAlways == Spec => []CountedOnceInItsLane
<1>1. ASSUME BeliefInv PROVE CountedOnceInItsLane
  <2>1. ASSUME NEW l \in Lanes
        PROVE  /\ IsInjective(beliefs[l].supports \o beliefs[l].contras)
               /\ \A i \in ToSet(beliefs[l].supports \o beliefs[l].contras) : LaneOf(i) = l
    <3>1. Ledgers(l, beliefs[l])
      BY <1>1 DEF BeliefInv
    <3> QED
      BY <3>1, ConcatInjective, ToSetConcat DEF Ledgers
  <2> QED
    BY <2>1 DEF CountedOnceInItsLane
<1>2. BeliefInv => CountedOnceInItsLane
  BY <1>1
<1> QED
  BY BeliefAlways, <1>2, PTL

\* belief.py, "Status lifecycle": an active belief has been supported often and
\* strongly enough, and what contradicts it does not outweigh what supports it.
THEOREM ActiveIsSupportedAlways == Spec => []ActiveIsSupported
<1>1. BeliefInv => ActiveIsSupported
  BY DEF BeliefInv, Backed, ActiveIsSupported
<1> QED
  BY BeliefAlways, <1>1, PTL

-----------------------------------------------------------------------------
(* What the events have told.                                              *)

\* A lane has a belief, or is told to be active, only if there is a record of it;
\* and a rebuild that has dropped its belief has yet to come to that record.
Recorded == \A l \in Lanes : beliefs[l] # NoBelief \/ told[l] = "active" => History(l) # {}

Rebuilding ==
    job.call = "rebuild" =>
        /\ job.drop # {} => ToSet(job.new) = Ids
        /\ \A l \in Lanes : told[l] = "active" =>
              beliefs[l] # NoBelief \/ \E i \in ToSet(job.new) : LaneOf(i) = l

Following ==
    job.call # "rebuild" /\ ~lost =>
        \A l \in Lanes : beliefs[l].status = "active" <=> told[l] = "active"

ToldInv == Recorded /\ Rebuilding /\ Following

LEMMA ToldInit == Init => ToldInv
<1> SUFFICES ASSUME Init PROVE ToldInv
  OBVIOUS
<1>1. /\ job = Idle /\ \A l \in Lanes : beliefs[l] = NoBelief /\ told[l] = "none"
  BY DEF Init
<1>2. NoBelief.status = "none" /\ Idle.call = "idle"
  BY DEF NoBelief, Idle
<1> QED
  BY <1>1, <1>2 DEF ToldInv, Recorded, Rebuilding, Following

\* Steps that start, end or give up another call than a rebuild, or do nothing to
\* beliefs and events.
LEMMA ToldStays ==
    ASSUME ToldInv, UNCHANGED <<beliefs, told>>, job'.call # "rebuild", lost \/ job.call # "rebuild" \/ lost',
           lost => lost',
           Ids \subseteq Ids', \A i \in Ids : evidence'[i] = evidence[i]
    PROVE  ToldInv'
<1>1. \A l : History(l) \subseteq History(l)'
  BY DEF History, LaneOf
<1>2. Recorded'
  BY <1>1 DEF ToldInv, Recorded
<1> QED
  BY <1>2 DEF ToldInv, Rebuilding, Following

LEMMA ToldFileNext ==
    ASSUME BeliefInv, ToldInv, FileNext PROVE ToldInv'
<1>1. /\ job.call = "process" /\ UNCHANGED <<beliefs, told, lost>>
  BY DEF FileNext
<1>2. job'.call = "process"
  <2>1. job \in [ call : {"process", "rebuild"}, filings : Seq(Filing),
                  drop : SUBSET Lanes, new : Seq(Nat) ]
    BY <1>1, JobFields DEF BeliefInv, TypeOK
  <2> QED
    BY <1>1, <2>1 DEF FileNext
<1>3. evidence \in Seq(Record)
  BY DEF BeliefInv, TypeOK
<1>4. Ids \subseteq Ids' /\ \A i \in Ids : evidence'[i] = evidence[i]
  <2>1. CASE UNCHANGED evidence
    BY <2>1 DEF Ids
  <2>2. CASE \E r : evidence' = Append(evidence, r)
    BY <1>3, <2>2 DEF Ids
  <2> QED
    BY <2>1, <2>2 DEF FileNext
<1> QED
  BY <1>1, <1>2, <1>4, ToldStays

LEMMA ToldStart ==
    ASSUME BeliefInv, ToldInv, NEW j, Start(j), j.call # "rebuild"
    PROVE  ToldInv'
<1>1. job = Idle /\ job' = j /\ UNCHANGED <<evidence, beliefs, told, lost>>
  BY DEF Start
<1>2. Ids \subseteq Ids' /\ \A i \in Ids : evidence'[i] = evidence[i]
  BY <1>1 DEF Ids
<1>3. job.call # "rebuild"
  BY <1>1, IdleTyped
<1> QED
  BY <1>1, <1>2, <1>3, ToldStays

LEMMA ToldRecompute ==
    ASSUME BeliefInv, ToldInv, Recompute PROVE ToldInv'
<1> DEFINE all == [i \in Ids |-> i]
<1>1. /\ job' = Rebuild(all) /\ UNCHANGED <<evidence, beliefs, told, lost>>
  BY DEF Recompute, Start
<1>2. ToSet(all) = Ids
  BY DEF ToSet
<1>3. job'.call = "rebuild" /\ job'.new = all
  BY <1>1 DEF Rebuild
<1> HIDE DEF all
<1>4. Recorded'
  BY <1>1 DEF ToldInv, Recorded, History, LaneOf, Ids
<1>5. ToSet(job'.new) = Ids' /\ Ids' = Ids
  BY <1>1, <1>2, <1>3 DEF Ids
<1>6. \A i : LaneOf(i)' = LaneOf(i)
  BY <1>1 DEF LaneOf
<1>7. ASSUME NEW l \in Lanes, told'[l] = "active"
      PROVE  \E i \in ToSet(job'.new) : LaneOf(i)' = l
  <2>1. History(l) # {}
    BY <1>1, <1>7 DEF ToldInv, Recorded
  <2> QED
    BY <1>5, <1>6, <2>1 DEF History
<1> QED
  BY <1>3, <1>4, <1>5, <1>7 DEF ToldInv, Rebuilding, Following

LEMMA ToldDrop ==
    ASSUME BeliefInv, ToldInv, NEW l \in Lanes, Drop(l) PROVE ToldInv'
<1>1. /\ job.call = "rebuild" /\ l \in job.drop
      /\ beliefs' = [beliefs EXCEPT ![l] = NoBelief]
      /\ job' = [job EXCEPT !.drop = @ \ {l}]
      /\ UNCHANGED <<evidence, told, lost>>
  BY DEF Drop
<1>2. job \in [ call : {"process", "rebuild"}, filings : Seq(Filing),
                drop : SUBSET Lanes, new : Seq(Nat) ]
  BY <1>1, JobFields DEF BeliefInv, TypeOK
<1>3. job'.call = "rebuild" /\ job'.new = job.new
  BY <1>1, <1>2
<1>4. /\ beliefs'[l] = NoBelief /\ \A m \in Lanes \ {l} : beliefs'[m] = beliefs[m]
  BY <1>1 DEF BeliefInv, TypeOK
<1>5. ToSet(job.new) = Ids
  BY <1>1 DEF ToldInv, Rebuilding
<1>6. Ids' = Ids /\ (\A i : LaneOf(i)' = LaneOf(i)) /\ \A m : History(m)' = History(m)
  BY <1>1 DEF Ids, LaneOf, History
<1>7. Recorded'
  BY <1>1, <1>4, <1>6 DEF ToldInv, Recorded
<1>8. ASSUME NEW m \in Lanes, told'[m] = "active"
      PROVE  \E i \in ToSet(job'.new) : LaneOf(i)' = m
  <2>1. History(m) # {}
    BY <1>1, <1>8 DEF ToldInv, Recorded
  <2> QED
    BY <1>3, <1>5, <1>6, <2>1 DEF History
<1> QED
  BY <1>3, <1>5, <1>6, <1>7, <1>8 DEF ToldInv, Rebuilding, Following

LEMMA AnnouncedFollows ==
    ASSUME NEW b, NEW before, NEW announced,
           b.status = "active" <=> before = "active",
           before = "active" <=> announced = "active"
    PROVE  StatusOf(b) = "active" <=> Announced(before, StatusOf(b), announced) = "active"
<1>1. before = "active" => StatusOf(b) # "tentative"
  BY DEF StatusOf
<1> QED
  BY <1>1 DEF Announced

LEMMA ToldUpdate ==
    ASSUME BeliefInv, ToldInv, UpdateNext PROVE ToldInv'
<1> DEFINE i == Head(job.new)
           l == LaneOf(i)
           b == Integrate(Existing(beliefs[l]), i)
<1>1. /\ Processing /\ job.new # <<>> /\ job.drop = {}
      /\ job' = [job EXCEPT !.new = Tail(@)]
      /\ UNCHANGED <<evidence, lost>>
  BY DEF UpdateNext, Processing
<1>2. /\ job \in [ call : {"process", "rebuild"}, filings : Seq(Filing),
                   drop : SUBSET Lanes, new : Seq(Nat) ]
      /\ job.new \in Seq(Nat) /\ ToSet(job.new) \subseteq Ids
  BY <1>1, JobFields DEF BeliefInv, TypeOK, Processing
<1>3. /\ i \in Ids /\ ToSet(job.new) = {i} \cup ToSet(Tail(job.new))
  BY <1>1, <1>2, ToSetTail
<1>4. job'.call = job.call /\ job'.drop = {} /\ job'.new = Tail(job.new)
  BY <1>1, <1>2
<1>5. l \in Lanes
  <2>1. evidence[i] \in Record
    BY <1>3 DEF BeliefInv, TypeOK, Ids
  <2>2. evidence[i].rule \in Rules /\ evidence[i].context \in Contexts
    BY <2>1 DEF Record
  <2>3. Feeds[evidence[i].rule].dimension \in Dimensions
    BY <2>2 DEF Dimensions
  <2> QED
    BY <2>2, <2>3 DEF LaneOf, Lanes
<1>6. (\A k : LaneOf(k)' = LaneOf(k)) /\ \A m : History(m)' = History(m)
  BY <1>1 DEF Ids, LaneOf, History
<1>7. l = LaneOf(i) /\ i \in History(l)
  BY <1>3 DEF History
<1>8. CASE i \in ToSet(beliefs[l].supports) \cup ToSet(beliefs[l].contras)
  <2>1. UNCHANGED <<beliefs, told>>
    BY <1>8 DEF UpdateNext
  <2>2. beliefs[l] # NoBelief
    <3>1. ToSet(NoBelief.supports) \cup ToSet(NoBelief.contras) = {}
      BY ToSetNone DEF NoBelief
    <3> QED
      BY <1>8, <3>1
  <2> HIDE DEF i, l, b
  <2>3. Recorded'
    BY <1>6, <2>1 DEF ToldInv, Recorded
  <2>4. Rebuilding'
    BY <1>3, <1>4, <1>6, <1>7, <2>1, <2>2 DEF ToldInv, Rebuilding
  <2>5. Following'
    BY <1>1, <1>4, <2>1 DEF ToldInv, Following
  <2> QED
    BY <2>3, <2>4, <2>5 DEF ToldInv
<1>9. CASE i \notin ToSet(beliefs[l].supports) \cup ToSet(beliefs[l].contras)
  <2>1. /\ beliefs' = [beliefs EXCEPT ![l] = [b EXCEPT !.status = StatusOf(b)]]
        /\ told' = [told EXCEPT ![l] = Announced(beliefs[l].status, StatusOf(b), @)]
    BY <1>9 DEF UpdateNext
  <2>2. /\ b.status \in Status
        /\ b \in [status : Status, supports : Seq(Nat), contras : Seq(Nat)]
        /\ b.status = "active" <=> beliefs[l].status = "active"
    BY <1>3, <1>5, <1>9, Integrated
  <2>3. beliefs \in [Lanes -> Belief \cup {NoBelief}] /\ told \in [Lanes -> Status \cup {"none"}]
    BY DEF BeliefInv, TypeOK
  <2> HIDE DEF i, l, b
  <2>4. /\ beliefs'[l].status = StatusOf(b) /\ StatusOf(b) \in Status
        /\ told'[l] = Announced(beliefs[l].status, StatusOf(b), told[l])
        /\ \A m \in Lanes \ {l} : beliefs'[m] = beliefs[m] /\ told'[m] = told[m]
    BY <1>5, <2>1, <2>2, <2>3, StatusTyped
  <2>5. beliefs'[l] # NoBelief
    BY <2>4 DEF NoBelief, Status
  <2>6. Recorded'
    BY <1>6, <1>7, <2>4 DEF ToldInv, Recorded
  <2>7. Rebuilding'
    BY <1>3, <1>4, <1>6, <1>7, <2>4, <2>5 DEF ToldInv, Rebuilding
  <2>8. Following'
    <3> SUFFICES ASSUME job.call # "rebuild", ~lost PROVE Following'
      BY <1>1, <1>4 DEF Following
    <3>1. beliefs[l].status = "active" <=> told[l] = "active"
      BY <1>5 DEF ToldInv, Following
    <3>2. beliefs'[l].status = "active" <=> told'[l] = "active"
      BY <2>2, <2>4, <3>1, AnnouncedFollows
    <3> QED
      BY <2>4, <3>2 DEF ToldInv, Following
  <2> QED
    BY <2>6, <2>7, <2>8 DEF ToldInv
<1> QED
  BY <1>8, <1>9

LEMMA ToldUpdateDone ==
    ASSUME BeliefInv, ToldInv, UpdateDone PROVE ToldInv'
<1>1. /\ job.new = <<>> /\ job' = Idle
      /\ UNCHANGED <<evidence, beliefs>>
  BY DEF UpdateDone
<1>2. job'.call # "rebuild"
  BY <1>1, IdleTyped
<1>3. CASE job.call # "rebuild"
  <2>1. UNCHANGED <<told, lost>>
    BY <1>3 DEF UpdateDone
  <2>2. Ids \subseteq Ids' /\ \A i \in Ids : evidence'[i] = evidence[i]
    BY <1>1 DEF Ids
  <2> QED
    BY <1>1, <1>2, <1>3, <2>1, <2>2, ToldStays
<1>4. CASE job.call = "rebuild"
  <2>1. told' = [l \in Lanes |-> IF beliefs[l] = NoBelief THEN told[l] ELSE beliefs[l].status]
    BY <1>4 DEF UpdateDone
  <2>2. \A l \in Lanes : told[l] = "active" => beliefs[l] # NoBelief
    BY <1>1, <1>4, ToSetNone DEF ToldInv, Rebuilding
  <2>3. \A m : History(m)' = History(m)
    BY <1>1 DEF Ids, LaneOf, History
  <2>4. NoBelief.status # "active"
    BY DEF NoBelief
  <2>5. Recorded'
    BY <1>1, <2>1, <2>2, <2>3 DEF ToldInv, Recorded
  <2>6. Following'
    BY <1>1, <2>1, <2>2, <2>4 DEF Following
  <2> QED
    BY <1>2, <2>5, <2>6 DEF ToldInv, Rebuilding
<1> QED
  BY <1>3, <1>4

LEMMA ToldSweepLane ==
    ASSUME BeliefInv, ToldInv, NEW l \in Lanes, SweepLane(l) PROVE ToldInv'
<1>1. /\ job.call = "sweep" /\ l \in job.lanes /\ job' = [job EXCEPT !.lanes = @ \ {l}]
      /\ UNCHANGED <<evidence, lost>>
      /\ \/ /\ beliefs' = [beliefs EXCEPT ![l].status = "stale"]
            /\ told' = [told EXCEPT ![l] = "stale"]
         \/ UNCHANGED <<beliefs, told>>
  BY DEF SweepLane
<1>2. job \in [call : {"sweep"}, lanes : SUBSET Lanes]
  BY <1>1 DEF BeliefInv, TypeOK, Job, Idle
<1>3. job'.call = "sweep"
  BY <1>1, <1>2
<1>4. CASE UNCHANGED <<beliefs, told>>
  <2>1. Ids \subseteq Ids' /\ \A i \in Ids : evidence'[i] = evidence[i]
    BY <1>1 DEF Ids
  <2> QED
    BY <1>1, <1>3, <1>4, <2>1, ToldStays
<1>5. CASE /\ beliefs' = [beliefs EXCEPT ![l].status = "stale"]
           /\ told' = [told EXCEPT ![l] = "stale"]
  <2>1. beliefs[l].status = "active"
    BY <1>1 DEF BeliefInv, Sweeping
  <2>2. /\ beliefs \in [Lanes -> Belief \cup {NoBelief}] /\ told \in [Lanes -> Status \cup {"none"}]
        /\ beliefs[l] # NoBelief
    BY <2>1 DEF BeliefInv, TypeOK, NoBelief
  <2>3. beliefs[l] \in Belief
    BY <2>2
  <2>4. beliefs'[l] = [beliefs[l] EXCEPT !.status = "stale"]
    BY <1>5, <2>2
  <2>5. /\ beliefs'[l].status = "stale" /\ told'[l] = "stale"
        /\ \A m \in Lanes \ {l} : beliefs'[m] = beliefs[m] /\ told'[m] = told[m]
    BY <1>5, <2>2, <2>3, <2>4 DEF Belief
  <2>6. \A m : History(m)' = History(m)
    BY <1>1 DEF Ids, LaneOf, History
  <2>7. Recorded'
    BY <2>2, <2>5, <2>6 DEF ToldInv, Recorded
  <2>8. Following'
    BY <1>1, <2>5 DEF ToldInv, Following
  <2> QED
    BY <1>3, <2>7, <2>8 DEF ToldInv, Rebuilding
<1> QED
  BY <1>1, <1>4, <1>5

LEMMA ToldRest ==
    ASSUME BeliefInv, ToldInv, Swept \/ NewDay \/ Crash PROVE ToldInv'
<1>1. job' = Idle /\ UNCHANGED <<evidence, beliefs, told>>
  BY DEF Swept, NewDay, Crash
<1>2. job'.call # "rebuild"
  BY <1>1, IdleTyped
<1>3. Ids \subseteq Ids' /\ \A i \in Ids : evidence'[i] = evidence[i]
  BY <1>1 DEF Ids
<1>4. CASE Crash
  <2>1. lost'
    BY <1>4 DEF Crash
  <2> QED
    BY <1>1, <1>2, <1>3, <2>1, ToldStays
<1>5. CASE Swept \/ NewDay
  <2>1. job.call # "rebuild" /\ UNCHANGED lost
    BY <1>5, IdleTyped DEF Swept, NewDay
  <2> QED
    BY <1>1, <1>2, <1>3, <2>1, ToldStays
<1> QED
  BY <1>4, <1>5

LEMMA ToldTurn ==
    ASSUME BeliefInv, ToldInv, NEW t, NEW c, Turn(t, c) PROVE ToldInv'
<1>1. /\ job = Idle /\ job' = Process(Filings(t, Len(turns) + 1, c), <<>>)
      /\ UNCHANGED <<evidence, beliefs, told, lost>>
  BY DEF Turn
<1>2. job.call # "rebuild" /\ job'.call # "rebuild"
  BY <1>1, IdleTyped DEF Process
<1>3. Ids \subseteq Ids' /\ \A i \in Ids : evidence'[i] = evidence[i]
  BY <1>1 DEF Ids
<1> QED
  BY <1>1, <1>2, <1>3, ToldStays

LEMMA ToldStep ==
    ASSUME BeliefInv, ToldInv, [Next]_vars PROVE ToldInv'
<1>1. ASSUME NEW t \in Turns, NEW c \in Contexts, Turn(t, c) PROVE ToldInv'
  BY <1>1, ToldTurn
<1>2. ASSUME NEW n \in DOMAIN turns, NEW c \in Contexts, Refile(n, c) PROVE ToldInv'
  <2> DEFINE j == Process(Filings(turns[n], n, c), <<>>)
  <2>1. Start(j) /\ j.call # "rebuild"
    BY <1>2 DEF Refile, Process
  <2> HIDE DEF j
  <2> QED
    BY <2>1, ToldStart
<1>3. ASSUME NEW i \in Ids, Reprocess(i) PROVE ToldInv'
  <2> DEFINE j == Process(<<>>, <<i>>)
  <2>1. Start(j) /\ j.call # "rebuild"
    BY <1>3 DEF Reprocess, Process
  <2> HIDE DEF j
  <2> QED
    BY <2>1, ToldStart
<1>4. CASE Sweep
  <2> DEFINE j == [call |-> "sweep", lanes |-> {l \in Lanes : beliefs[l].status = "active"}]
  <2>1. Start(j) /\ j.call # "rebuild"
    BY <1>4 DEF Sweep
  <2> HIDE DEF j
  <2> QED
    BY <2>1, ToldStart
<1>5. CASE Recompute
  BY <1>5, ToldRecompute
<1>6. CASE FileNext
  BY <1>6, ToldFileNext
<1>7. CASE UpdateNext
  BY <1>7, ToldUpdate
<1>8. CASE UpdateDone
  BY <1>8, ToldUpdateDone
<1>9. ASSUME NEW l \in Lanes, Drop(l) \/ SweepLane(l) PROVE ToldInv'
  BY <1>9, ToldDrop, ToldSweepLane
<1>10. CASE Swept \/ NewDay \/ Crash
  BY <1>10, ToldRest
<1>11. CASE UNCHANGED vars
  <2>1. UNCHANGED <<evidence, beliefs, told, job, lost>>
    BY <1>11 DEF vars
  <2> QED
    BY <2>1 DEF ToldInv, Recorded, Rebuilding, Following, History, LaneOf, Ids
<1> QED
  BY <1>1, <1>2, <1>3, <1>4, <1>5, <1>6, <1>7, <1>8, <1>9, <1>10, <1>11 DEF Next

\* belief_events.py: whoever follows the events knows which beliefs are active,
\* until a crash between a write and its event.
THEOREM ActiveIsAnnouncedAlways == Spec => []ActiveIsAnnounced
<1>1. Init => ToldInv
  BY ToldInit
<1>2. BeliefInv /\ ToldInv /\ [Next]_vars => ToldInv'
  BY ToldStep
<1>3. ASSUME ToldInv PROVE ActiveIsAnnounced
  BY <1>3, IdleTyped DEF ToldInv, Following, ActiveIsAnnounced
<1>4. ToldInv => ActiveIsAnnounced
  BY <1>3
<1> QED
  BY BeliefAlways, <1>1, <1>2, <1>4, PTL DEF Spec

-----------------------------------------------------------------------------
(* Induction over the naturals, from the least number of a set of them.    *)

LEMMA LeastNat ==
    ASSUME NEW T, T \subseteq Nat, T # {}
    PROVE  \E n \in T : \A m \in T : n <= m
<1>1. PICK n \in T : \A m \in T : <<m, n>> \notin OpToRel(<, Nat)
  BY NatLessThanWellFounded, WFMin
<1>2. \A m \in T : ~ (m < n)
  BY <1>1 DEF OpToRel
<1> QED
  BY <1>2

LEMMA NatClosed ==
    ASSUME NEW T, 0 \in T, \A n \in T \cap Nat : n + 1 \in T
    PROVE  Nat \subseteq T
<1> SUFFICES ASSUME Nat \ T # {} PROVE FALSE
  OBVIOUS
<1>1. PICK n \in Nat \ T : \A m \in Nat \ T : n <= m
  BY LeastNat
<1>2. n # 0 /\ n - 1 \in Nat /\ n - 1 \in T /\ (n - 1) + 1 = n
  BY <1>1
<1> QED
  BY <1>1, <1>2

-----------------------------------------------------------------------------
(* The mass of a ledger: the sum of its records' contributions.            *)

\* g sums the contributions of every set of F, which holds, with a set, what is
\* left of it when a record is taken out.
Sums(F, g) ==
    g = [s \in F |-> IF s = {} THEN 0
                     ELSE LET x == CHOOSE x \in s : TRUE IN Contribution(x) + g[s \ {x}]]

LEMMA SumsExist ==
    ASSUME NEW S, IsFiniteSet(S)
    PROVE  \E g : Sums(SUBSET S, g)
<1> DEFINE D(n) == {s \in SUBSET S : Cardinality(s) <= n}
           T == {n \in Nat : \E g : Sums(D(n), g)}
<1>1. \A s \in SUBSET S : IsFiniteSet(s) /\ Cardinality(s) \in Nat
  BY FS_Subset, FS_CardinalityType
<1>2. 0 \in T
  <2>1. \A s \in D(0) : s = {}
    BY <1>1, FS_EmptySet
  <2> DEFINE g == [s \in D(0) |-> 0]
  <2>2. Sums(D(0), g)
    BY <2>1 DEF Sums
  <2> QED
    BY <2>2
<1>3. ASSUME NEW n \in T PROVE n + 1 \in T
  <2>1. PICK g : Sums(D(n), g)
    BY <1>3
  <2> DEFINE step(s, f) == LET x == CHOOSE x \in s : TRUE IN Contribution(x) + f[s \ {x}]
             h == [s \in D(n + 1) |-> IF s = {} THEN 0 ELSE step(s, g)]
  <2>2. ASSUME NEW s \in D(n + 1), s # {}, NEW x \in s PROVE s \ {x} \in D(n)
    <3>1. Cardinality(s \ {x}) = Cardinality(s) - 1
      BY <1>1, <2>2, FS_RemoveElement
    <3> QED
      BY <1>1, <1>3, <2>2, <3>1
  <2>3. D(n) \subseteq D(n + 1)
    BY <1>1, <1>3
  <2> HIDE DEF D
  <2>4. ASSUME NEW s \in D(n) PROVE h[s] = g[s]
    <3>1. h[s] = IF s = {} THEN 0 ELSE step(s, g)
      BY <2>3
    <3>2. g[s] = IF s = {} THEN 0 ELSE step(s, g)
      BY <2>1, Zenon DEF Sums
    <3> QED
      BY <3>1, <3>2
  <2>5. ASSUME NEW s \in D(n + 1), s # {} PROVE step(s, h) = step(s, g)
    <3> DEFINE x == CHOOSE x \in s : TRUE
    <3>1. x \in s
      BY <2>5
    <3>2. h[s \ {x}] = g[s \ {x}]
      BY <2>2, <2>4, <2>5, <3>1
    <3> QED
      BY <3>2
  <2> HIDE DEF step
  <2>6. h = [s \in D(n + 1) |-> IF s = {} THEN 0 ELSE step(s, h)]
    BY <2>5
  <2> HIDE DEF h
  <2>7. Sums(D(n + 1), h)
    BY <2>6, Zenon DEF Sums, step
  <2> QED
    BY <1>3, <2>7
<1>4. Cardinality(S) \in T
  BY <1>1, <1>2, <1>3, NatClosed
<1>5. D(Cardinality(S)) = SUBSET S
  BY FS_Subset
<1> QED
  BY <1>4, <1>5

LEMMA MassIsSum ==
    ASSUME NEW S, IsFiniteSet(S)
    PROVE  \E g : Sums(SUBSET S, g) /\ Mass(S) = g[S]
<1> DEFINE f == CHOOSE g : Sums(SUBSET S, g)
<1>1. Sums(SUBSET S, f)
  BY SumsExist, Zenon
<1>2. Mass(S) = f[S]
  BY Zenon DEF Mass, MapThenSumSet, MapThenFoldSet, Sums
<1> QED
  BY <1>1, <1>2

\* What points one way, and perhaps nowhere, adds up to that way.
LEMMA MassPoints ==
    ASSUME NEW S, IsFiniteSet(S), \A i \in S : Contribution(i) \in Int
    PROVE  /\ Mass(S) \in Int
           /\ (\A i \in S : Contribution(i) = 0) => Mass(S) = 0
           /\ (\A i \in S : Contribution(i) >= 0) /\ (\E i \in S : Contribution(i) > 0) => Mass(S) > 0
           /\ (\A i \in S : Contribution(i) <= 0) /\ (\E i \in S : Contribution(i) < 0) => Mass(S) < 0
<1>1. PICK g : Sums(SUBSET S, g) /\ Mass(S) = g[S]
  BY MassIsSum
<1> DEFINE Fits(s) ==
             /\ g[s] \in Int
             /\ (\A i \in s : Contribution(i) >= 0) => g[s] >= 0
             /\ (\A i \in s : Contribution(i) <= 0) => g[s] <= 0
             /\ (\A i \in s : Contribution(i) >= 0) /\ (\E i \in s : Contribution(i) > 0) => g[s] > 0
             /\ (\A i \in s : Contribution(i) <= 0) /\ (\E i \in s : Contribution(i) < 0) => g[s] < 0
           T == {n \in Nat : \A s \in SUBSET S : Cardinality(s) <= n => Fits(s)}
<1>2. \A s \in SUBSET S : IsFiniteSet(s) /\ Cardinality(s) \in Nat
  BY FS_Subset, FS_CardinalityType
<1>3. Fits({})
  <2>1. g[{}] = 0
    BY <1>1 DEF Sums
  <2> QED
    BY <2>1
<1>4. 0 \in T
  BY <1>2, <1>3, FS_EmptySet
<1>5. ASSUME NEW n \in T, NEW s \in SUBSET S, Cardinality(s) <= n + 1 PROVE Fits(s)
  <2>1. CASE s = {}
    BY <1>3, <2>1
  <2>2. CASE s # {}
    <3> DEFINE x == CHOOSE x \in s : TRUE
               r == s \ {x}
    <3>1. x \in s
      BY <2>2
    <3>2. g[s] = Contribution(x) + g[r]
      BY <1>1, <2>2, Zenon DEF Sums
    <3> HIDE DEF x
    <3>3. Fits(r)
      <4>1. Cardinality(r) = Cardinality(s) - 1
        BY <1>2, <3>1, FS_RemoveElement
      <4> QED
        BY <1>2, <1>5, <4>1
    <3>4. Contribution(x) \in Int /\ g[r] \in Int /\ g[s] \in Int
      BY <3>1, <3>2, <3>3
    <3>5. \A i \in s : i = x \/ i \in r
      OBVIOUS
    <3> QED
      BY <3>1, <3>2, <3>3, <3>4, <3>5
  <2> QED
    BY <2>1, <2>2
<1>6. Cardinality(S) \in T
  <2>1. \A n \in T \cap Nat : n + 1 \in T
    BY <1>5
  <2> HIDE DEF T
  <2> QED
    BY <1>2, <1>4, <2>1, NatClosed
<1>7. Fits(S)
  BY <1>2, <1>6
<1>8. ASSUME \A i \in S : Contribution(i) = 0 PROVE Mass(S) = 0
  <2>1. (\A i \in S : Contribution(i) >= 0) /\ (\A i \in S : Contribution(i) <= 0)
    BY <1>8
  <2>2. g[S] \in Int /\ g[S] >= 0 /\ g[S] <= 0
    BY <1>7, <2>1
  <2> QED
    BY <1>1, <2>2
<1>9. ASSUME \A i \in S : Contribution(i) >= 0, \E i \in S : Contribution(i) > 0 PROVE Mass(S) > 0
  BY <1>1, <1>7, <1>9
<1>10. ASSUME \A i \in S : Contribution(i) <= 0, \E i \in S : Contribution(i) < 0 PROVE Mass(S) < 0
  BY <1>1, <1>7, <1>10
<1> QED
  BY <1>1, <1>7, <1>8, <1>9, <1>10

-----------------------------------------------------------------------------
(* What the ledgers tell of the history.                                   *)

\* The ledgers of belief b hold what the history of its lane has up to record k.
Tells(l, k, b) ==
    /\ ToSet(b.contras) = {i \in Opposing(l) : i <= k}
    /\ ToSet(b.supports) = {i \in History(l) \ Opposing(l) : i <= k}
    /\ Increasing(b.supports) /\ Increasing(b.contras)

TellUpTo(k) == \A l \in Lanes : Tells(l, k, beliefs[l])
TellAll == TellUpTo(Len(evidence))

\* The records after k are to be processed, in their order.
Remain(k) == job.new = [n \in 1..(Len(evidence) - k) |-> k + n]
Replaying == \E k \in 0..Len(evidence) : TellUpTo(k) /\ Remain(k)

\* Between the calls and during a sweep the ledgers tell everything; a turn has the
\* records it filed still to process; what is processed once more is known; and a
\* rebuild starts over.
HistoryInv ==
    /\ ~lost /\ job.call \in {"idle", "sweep"} => TellAll
    /\ ~lost /\ job.call = "process" => Replaying \/ (TellAll /\ job.filings = <<>>)
    /\ job.call = "rebuild" =>
          /\ job.filings = <<>>
          /\ job.drop = {} => Replaying
          /\ job.drop # {} => Remain(0) /\ \A l \in Lanes \ job.drop : beliefs[l] = NoBelief

LEMMA RecordFacts ==
    ASSUME BeliefInv, NEW i \in Ids
    PROVE  /\ i \in Nat \ {0} /\ i <= Len(evidence) /\ Len(evidence) \in Nat
           /\ evidence[i] \in Record
           /\ Contribution(i) \in Int /\ LaneOf(i) \in Lanes
<1>1. evidence[i] \in Record /\ i \in 1..Len(evidence) /\ Len(evidence) \in Nat
  BY DEF BeliefInv, TypeOK, Ids
<1>2. evidence[i].rule \in Rules /\ evidence[i].context \in Contexts /\ evidence[i].score \in 0..100
  BY <1>1 DEF Record
<1>3. \A r \in Rules : Feeds[r].direction \in Int /\ Feeds[r].dimension \in Dimensions
  BY DEF Rules, Feeds, Dimensions
<1>4. Contribution(i) \in Int
  BY <1>2, <1>3 DEF Contribution
<1>5. LaneOf(i) \in Lanes
  BY <1>2, <1>3 DEF LaneOf, Lanes
<1> QED
  BY <1>1, <1>4, <1>5

LEMMA HistoryFacts ==
    ASSUME BeliefInv, NEW l
    PROVE  /\ History(l) \subseteq Ids /\ Pointing(l) \subseteq History(l)
           /\ Opposing(l) \subseteq History(l) /\ Ids \subseteq Nat
           /\ \A i \in History(l) : LaneOf(i) = l /\ Contribution(i) \in Int
  BY RecordFacts DEF History, Pointing, Opposing

LEMMA ExistingLedgers ==
    ASSUME NEW b
    PROVE  Existing(b).supports = b.supports /\ Existing(b).contras = b.contras
  BY DEF Existing, NoBelief

\* The sign of a product.
LEMMA SignOfProduct ==
    ASSUME NEW x \in Int, NEW y \in Int
    PROVE  /\ x > 0 => (x * y <= 0 <=> y <= 0)
           /\ x < 0 => (x * y <= 0 <=> y >= 0)
  OBVIOUS

\* The direction of what supports a belief is that of the first record that points
\* anywhere, so that a record supports it unless it opposes that one.
LEMMA DirectionIsFirst ==
    ASSUME BeliefInv, NEW l \in Lanes, NEW k \in Nat, k + 1 \in Ids, LaneOf(k + 1) = l,
           Tells(l, k, beliefs[l])
    PROVE  Supports(Existing(beliefs[l]), k + 1) <=> k + 1 \notin Opposing(l)
<1> DEFINE a == Existing(beliefs[l])
           i == k + 1
           S == ToSet(a.supports)
<1>1. /\ S = {j \in History(l) \ Opposing(l) : j <= k}
      /\ IsFiniteSet(S)
  BY ExistingLedgers, ToSetFinite DEF Tells, BeliefInv, Ledgers
<1>2. /\ History(l) \subseteq Ids /\ Pointing(l) \subseteq History(l) /\ Ids \subseteq Nat
      /\ i \in History(l)
      /\ \A j \in History(l) : Contribution(j) \in Int
  BY HistoryFacts DEF History
<1>3. \A j \in S : Contribution(j) \in Int
  BY <1>1, <1>2
<1>4. LaneOf(i).dimension = l.dimension
  OBVIOUS
<1>5. Polarity(l.dimension) \in {"magnitude", "signed"} /\ "magnitude" # "signed"
  BY DEF Polarity
<1>6. CASE Polarity(l.dimension) = "magnitude"
  BY <1>4, <1>5, <1>6 DEF Supports, Opposing
<1>7. ASSUME Polarity(l.dimension) = "signed", NEW p \in Pointing(l), p <= k
      PROVE  Supports(a, i) <=> i \notin Opposing(l)
  <2>1. PICK f \in Pointing(l) : \A j \in Pointing(l) : f <= j
    <3>1. Pointing(l) \subseteq Nat /\ Pointing(l) # {}
      BY <1>2, <1>7
    <3> QED
      BY <3>1, LeastNat
  <2>2. /\ f \in History(l) /\ f \in Nat /\ f <= k /\ f < i
        /\ Contribution(f) \in Int /\ Contribution(f) # 0
    <3>1. f \in History(l) /\ Contribution(f) # 0
      BY <2>1 DEF Pointing
    <3>2. f \in Nat /\ p \in Nat /\ f <= p
      BY <1>2, <1>7, <2>1
    <3> QED
      BY <1>2, <1>7, <3>1, <3>2
  <2>3. ASSUME NEW j \in History(l)
        PROVE  j \in Opposing(l) <=> f < j /\ Contribution(f) * Contribution(j) <= 0
    <3>1. \A g \in Pointing(l) : g \in Nat
      BY <1>2
    <3>2. \A g \in Pointing(l) : (\A m \in Pointing(l) : g <= m) => g = f
      BY <2>1, <3>1
    <3> HIDE DEF a, S, i
    <3> QED
      BY <1>7, <2>1, <3>2 DEF Opposing
  <2>4. f \in S
    BY <1>1, <2>2, <2>3
  <2>5. \A j \in History(l) : j < f => Contribution(j) = 0
    BY <1>2, <2>1, <2>2 DEF Pointing
  <2>6. \A j \in S : j \in History(l) /\ j \in Nat /\ j \notin Opposing(l)
    BY <1>1, <1>2
  <2>7. Contribution(i) \in Int /\ (i \in Opposing(l) <=> Contribution(f) * Contribution(i) <= 0)
    BY <1>2, <2>2, <2>3
  <2>8. a.supports # <<>>
    BY <2>4, ToSetNone
  <2> HIDE DEF a, S, i
  <2>9. CASE Contribution(f) > 0
    <3>1. ASSUME NEW j \in S PROVE Contribution(j) >= 0
      <4>1. CASE j < f
        BY <2>5, <2>6, <4>1
      <4>2. CASE j = f
        BY <2>2, <2>9, <4>2
      <4>3. CASE f < j
        BY <1>3, <2>2, <2>3, <2>6, <2>9, <4>3, SignOfProduct
      <4> QED
        BY <2>2, <2>6, <4>1, <4>2, <4>3
    <3>2. Mass(S) > 0
      BY <1>1, <1>3, <2>4, <2>9, <3>1, MassPoints
    <3>3. i \in Opposing(l) <=> Contribution(i) <= 0
      BY <2>2, <2>7, <2>9, SignOfProduct
    <3>4. Supports(a, i) <=> Contribution(i) > 0
      <4>1. Mass(ToSet(a.supports)) > 0
        BY <3>2 DEF S
      <4> HIDE DEF Mass
      <4>2. ~ (Mass(ToSet(a.supports)) = 0) /\ ~ (Mass(ToSet(a.supports)) < 0)
        BY <4>1, <1>1, <1>3, MassPoints DEF S
      <4> QED
        BY <1>4, <1>5, <1>7, <2>8, <4>1, <4>2 DEF Supports, i
    <3> QED
      BY <2>7, <3>3, <3>4
  <2>10. CASE Contribution(f) < 0
    <3>1. ASSUME NEW j \in S PROVE Contribution(j) <= 0
      <4>1. CASE j < f
        BY <2>5, <2>6, <4>1
      <4>2. CASE j = f
        BY <2>2, <2>10, <4>2
      <4>3. CASE f < j
        BY <1>3, <2>2, <2>3, <2>6, <2>10, <4>3, SignOfProduct
      <4> QED
        BY <2>2, <2>6, <4>1, <4>2, <4>3
    <3>2. Mass(S) < 0
      BY <1>1, <1>3, <2>4, <2>10, <3>1, MassPoints
    <3>3. i \in Opposing(l) <=> Contribution(i) >= 0
      BY <2>2, <2>7, <2>10, SignOfProduct
    <3>4. Supports(a, i) <=> Contribution(i) < 0
      <4>1. Mass(ToSet(a.supports)) < 0
        BY <3>2 DEF S
      <4>2. ~ (Mass(ToSet(a.supports)) = 0) /\ ~ (Mass(ToSet(a.supports)) > 0)
        BY <4>1, <1>1, <1>3, MassPoints DEF S
      <4> QED
        BY <1>4, <1>5, <1>7, <2>8, <4>1, <4>2 DEF Supports, i
    <3> QED
      BY <2>7, <3>3, <3>4
  <2>11. Contribution(f) > 0 \/ Contribution(f) < 0
    BY <2>2
  <2> QED
    BY <2>9, <2>10, <2>11
<1>8. ASSUME Polarity(l.dimension) = "signed", \A p \in Pointing(l) : ~ (p <= k)
      PROVE  Supports(a, i) /\ i \notin Opposing(l)
  <2>1. \A j \in S : Contribution(j) = 0
    BY <1>1, <1>2, <1>8 DEF Pointing
  <2>2. Mass(S) = 0
    BY <1>1, <1>3, <2>1, MassPoints
  <2>3. \A p \in Pointing(l) : ~ (p < i)
    <3>1. \A p \in Pointing(l) : p \in Nat /\ ~ (p <= k)
      BY <1>2, <1>8
    <3> QED
      BY <3>1
  <2> QED
    BY <2>2, <2>3 DEF Supports, Opposing
<1> QED
  BY <1>5, <1>6, <1>7, <1>8

LEMMA IncreasingAppend ==
    ASSUME NEW s \in Seq(Nat), NEW x \in Nat, Increasing(s), \A y \in ToSet(s) : y < x
    PROVE  Increasing(Append(s, x))
<1>1. /\ Len(s) \in Nat /\ DOMAIN s = 1..Len(s) /\ DOMAIN Append(s, x) = 1..(Len(s) + 1)
      /\ Append(s, x)[Len(s) + 1] = x
      /\ \A i \in 1..Len(s) : Append(s, x)[i] = s[i]
  BY AppendFacts
<1>2. \A i \in 1..Len(s) : s[i] < x
  BY <1>1 DEF ToSet
<1> QED
  BY <1>1, <1>2 DEF Increasing

\* Integrating the next record takes the ledgers one record further.
LEMMA TellsOneMore ==
    ASSUME BeliefInv, NEW l \in Lanes, NEW k \in Nat, k + 1 \in Ids, LaneOf(k + 1) = l,
           Tells(l, k, beliefs[l])
    PROVE  Tells(l, k + 1, Integrate(Existing(beliefs[l]), k + 1))
<1> DEFINE i == k + 1
           a == Existing(beliefs[l])
           b == Integrate(a, i)
<1>1. /\ a.supports = beliefs[l].supports /\ a.contras = beliefs[l].contras
      /\ a.supports \in Seq(Nat) /\ a.contras \in Seq(Nat)
  BY ExistingLedgers DEF BeliefInv, Ledgers
<1>2. a \in [status : Status, supports : Seq(Nat), contras : Seq(Nat)]
  <2>1. beliefs[l] \in Belief \cup {NoBelief}
    BY DEF BeliefInv, TypeOK
  <2>2. CASE beliefs[l] = NoBelief
    <3>1. a = [status |-> "tentative", supports |-> <<>>, contras |-> <<>>]
      BY <2>2 DEF Existing, NoBelief
    <3>2. <<>> \in Seq(Nat) /\ "tentative" \in Status
      BY DEF Status
    <3> HIDE DEF a
    <3> QED
      BY <3>1, <3>2
  <2> QED
    BY <2>1, <2>2 DEF Existing, Belief
<1>3. /\ ToSet(a.contras) = {j \in Opposing(l) : j <= k}
      /\ ToSet(a.supports) = {j \in History(l) \ Opposing(l) : j <= k}
      /\ Increasing(a.supports) /\ Increasing(a.contras)
  BY <1>1 DEF Tells
<1>4. /\ History(l) \subseteq Nat /\ Opposing(l) \subseteq History(l) /\ i \in History(l) /\ i \in Nat
  BY HistoryFacts DEF History
<1>5. /\ Append(a.supports, i) \in Seq(Nat) /\ Append(a.contras, i) \in Seq(Nat)
      /\ ToSet(Append(a.supports, i)) = ToSet(a.supports) \cup {i}
      /\ ToSet(Append(a.contras, i)) = ToSet(a.contras) \cup {i}
  BY <1>1, <1>4, AppendFacts, ToSetAppend
<1>6. /\ \A y \in ToSet(a.supports) : y < i
      /\ \A y \in ToSet(a.contras) : y < i
  BY <1>3, <1>4
<1>7. Increasing(Append(a.supports, i)) /\ Increasing(Append(a.contras, i))
  BY <1>1, <1>3, <1>4, <1>6, IncreasingAppend
<1>8. Supports(a, i) <=> i \notin Opposing(l)
  BY DirectionIsFirst
<1>9. \A j \in History(l) : j <= i <=> j <= k \/ j = i
  BY <1>4
<1> HIDE DEF a, i
<1>10. CASE Supports(a, i)
  <2>1. b = [a EXCEPT !.supports = Append(@, i)]
    BY <1>10 DEF Integrate
  <2>2. b.supports = Append(a.supports, i) /\ b.contras = a.contras
    BY <1>2, <2>1
  <2> HIDE DEF b
  <2>3. Tells(l, i, b)
    BY <1>3, <1>4, <1>5, <1>7, <1>8, <1>9, <1>10, <2>2 DEF Tells
  <2> QED
    BY <2>3 DEF a, b, i
<1>11. CASE ~Supports(a, i)
  <2>1. b = [a EXCEPT !.contras = Append(@, i)]
    BY <1>11 DEF Integrate
  <2>2. b.supports = a.supports /\ b.contras = Append(a.contras, i)
    BY <1>2, <2>1
  <2> HIDE DEF b
  <2>3. Tells(l, i, b)
    BY <1>3, <1>4, <1>5, <1>7, <1>8, <1>9, <1>11, <2>2 DEF Tells
  <2> QED
    BY <2>3 DEF a, b, i
<1> QED
  BY <1>10, <1>11

\* A record of another lane says nothing of this one.
LEMMA TellsOthers ==
    ASSUME BeliefInv, NEW l, NEW k \in Nat, LaneOf(k + 1) # l, NEW b, Tells(l, k, b)
    PROVE  Tells(l, k + 1, b)
<1>1. History(l) \subseteq Nat /\ Opposing(l) \subseteq History(l) /\ k + 1 \notin History(l)
  BY HistoryFacts DEF History
<1>2. \A j \in History(l) : j <= k + 1 <=> j <= k
  BY <1>1
<1> QED
  BY <1>1, <1>2 DEF Tells

\* All that was told so far is told still when the evidence is the same or has grown.
LEMMA TellsStays ==
    ASSUME BeliefInv, evidence' = evidence, NEW l, NEW k, NEW b
    PROVE  Tells(l, k, b)' <=> Tells(l, k, b)
<1>1. Ids' = Ids /\ \A i : LaneOf(i)' = LaneOf(i) /\ Contribution(i)' = Contribution(i)
  BY DEF Ids, LaneOf, Contribution
<1>2. History(l)' = History(l)
  BY <1>1 DEF History
<1>3. Pointing(l)' = Pointing(l)
  BY <1>1, <1>2 DEF Pointing
<1>4. Opposing(l)' = Opposing(l)
  BY <1>1, <1>2, <1>3 DEF Opposing
<1> QED
  BY <1>2, <1>4 DEF Tells

LEMMA TellsGrows ==
    ASSUME BeliefInv, NEW r \in Record, evidence' = Append(evidence, r),
           NEW l, NEW k \in 0..Len(evidence), NEW b, Tells(l, k, b)
    PROVE  Tells(l, k, b)'
<1>1. /\ evidence \in Seq(Record) /\ Ids = 1..Len(evidence) /\ Len(evidence) \in Nat
      /\ Ids' = 1..(Len(evidence) + 1)
      /\ \A i \in Ids : evidence'[i] = evidence[i]
  BY DEF BeliefInv, TypeOK, Ids
<1>2. \A i \in Ids : LaneOf(i)' = LaneOf(i) /\ Contribution(i)' = Contribution(i)
  BY <1>1 DEF LaneOf, Contribution
<1>3. Ids \subseteq Ids' /\ Ids' \subseteq Nat /\ \A i \in Ids' \ Ids : i = Len(evidence) + 1
  BY <1>1
<1>4. \A i \in Ids : i \in History(l)' <=> i \in History(l)
  BY <1>2, <1>3 DEF History
<1>5. \A i \in Ids : i \in Pointing(l)' <=> i \in Pointing(l)
  BY <1>2, <1>4 DEF Pointing
<1>6. History(l) \subseteq Ids /\ History(l)' \subseteq Ids'
  BY DEF History
<1>7. Pointing(l) \subseteq Ids /\ Pointing(l)' \subseteq Ids'
  BY <1>6 DEF Pointing
<1>8. ASSUME NEW f \in Ids
      PROVE  (\A j \in Pointing(l)' : f <= j) <=> (\A j \in Pointing(l) : f <= j)
  BY <1>1, <1>3, <1>5, <1>7
<1>9. \A i, f : i \in Ids /\ f \in Ids' /\ f < i => f \in Ids
  BY <1>1, <1>3
<1>10. ASSUME NEW i \in Ids
       PROVE  i \in Opposing(l)' <=> i \in Opposing(l)
  <2> DEFINE Fits(f) == f < i /\ Contribution(f) * Contribution(i) <= 0
             Then == \E f \in Pointing(l) : (\A j \in Pointing(l) : f <= j) /\ Fits(f)
  <2>1. \A f \in Ids : Fits(f)' <=> Fits(f)
    BY <1>2, <1>10
  <2>2. \A f : Fits(f) \/ Fits(f)' => f < i
    OBVIOUS
  <2> HIDE DEF Fits
  <2>3. Then' <=> Then
    BY <1>5, <1>7, <1>8, <1>9, <2>1, <2>2
  <2>4. i \in Opposing(l) <=> i \in History(l) /\ Polarity(l.dimension) = "signed" /\ Then
    BY DEF Opposing, Fits
  <2>5. i \in Opposing(l)' <=> i \in History(l)' /\ Polarity(l.dimension) = "signed" /\ Then'
    BY DEF Opposing, Fits
  <2> QED
    BY <1>4, <2>3, <2>4, <2>5
<1>11. Opposing(l) \subseteq History(l) /\ Opposing(l)' \subseteq History(l)'
  BY DEF Opposing
<1>12. \A i \in Ids' : i <= k => i \in Ids
  BY <1>1
<1> QED
  BY <1>4, <1>6, <1>10, <1>11, <1>12 DEF Tells

LEMMA HistoryInit == Init => HistoryInv
<1> SUFFICES ASSUME Init PROVE HistoryInv
  OBVIOUS
<1>1. evidence = <<>> /\ job = Idle /\ beliefs = [l \in Lanes |-> NoBelief]
  BY DEF Init
<1>2. Ids = {} /\ Len(evidence) = 0
  BY <1>1 DEF Ids
<1>3. \A l : History(l) = {} /\ Opposing(l) = {}
  BY <1>2 DEF History, Opposing
<1>4. \A l \in Lanes : ToSet(beliefs[l].supports) = {} /\ ToSet(beliefs[l].contras) = {}
                       /\ Increasing(beliefs[l].supports) /\ Increasing(beliefs[l].contras)
  <2>1. \A l \in Lanes : beliefs[l].supports = <<>> /\ beliefs[l].contras = <<>>
    BY <1>1 DEF NoBelief
  <2>2. Increasing(<<>>)
    BY DEF Increasing
  <2> QED
    BY <2>1, <2>2, ToSetNone
<1>5. TellAll
  BY <1>3, <1>4 DEF TellAll, TellUpTo, Tells
<1> QED
  BY <1>1, <1>5, IdleTyped DEF HistoryInv

\* A lane without a belief tells nothing yet.
LEMMA NothingTold ==
    ASSUME BeliefInv, NEW l PROVE Tells(l, 0, NoBelief)
<1>1. NoBelief.supports = <<>> /\ NoBelief.contras = <<>>
  BY DEF NoBelief
<1>2. \A i \in History(l) : ~ (i <= 0)
  BY HistoryFacts, RecordFacts
<1>3. Opposing(l) \subseteq History(l)
  BY DEF Opposing
<1>4. Increasing(<<>>)
  BY DEF Increasing
<1> QED
  BY <1>1, <1>2, <1>3, <1>4, ToSetNone DEF Tells

\* When nothing remains everything is told.
LEMMA RemainNone ==
    ASSUME BeliefInv, Replaying, job.new = <<>> PROVE TellAll
<1>1. PICK k \in 0..Len(evidence) : TellUpTo(k) /\ Remain(k)
  BY DEF Replaying
<1>2. Len(evidence) \in Nat 
  BY DEF BeliefInv, TypeOK
<1>3. k \in Nat /\ k <= Len(evidence) /\ Len(evidence) - k \in Nat
  BY <1>2
<1>4. DOMAIN job.new = 1..(Len(evidence) - k)
  BY <1>1 DEF Remain
<1>5. DOMAIN job.new = {}
  OBVIOUS
<1>6. k = Len(evidence)
  <2>1. 1 \notin 1..(Len(evidence) - k)
    BY <1>4, <1>5
  <2> QED
    BY <1>2, <1>3, <2>1
<1> QED
  BY <1>1, <1>6 DEF TellAll

\* As long as the evidence and the ledgers are as they were.
LEMMA TellStays ==
    ASSUME BeliefInv, UNCHANGED evidence, NEW k,
           \A l \in Lanes : /\ beliefs'[l].supports = beliefs[l].supports
                            /\ beliefs'[l].contras = beliefs[l].contras
    PROVE  TellUpTo(k)' <=> TellUpTo(k)
<1>1. \A l, b : Tells(l, k, b)' <=> Tells(l, k, b)
  BY TellsStays
<1>2. \A l \in Lanes : Tells(l, k, beliefs'[l]) <=> Tells(l, k, beliefs[l])
  BY DEF Tells
<1> QED
  BY <1>1, <1>2 DEF TellUpTo

LEMMA HistoryTurn ==
    ASSUME BeliefInv, HistoryInv, BeliefInv',
           \/ \E t \in Turns, c \in Contexts : Turn(t, c)
           \/ \E n \in DOMAIN turns, c \in Contexts : Refile(n, c)
    PROVE  HistoryInv'
<1>1. job = Idle /\ UNCHANGED <<evidence, beliefs, lost>> /\ \E f : job' = Process(f, <<>>)
  BY DEF Turn, Refile, Start
<1>2. job'.call = "process" /\ job'.new = <<>>
  BY <1>1 DEF Process
<1>3. lost \/ TellAll
  BY <1>1, IdleTyped DEF HistoryInv
<1>4. TellAll' <=> TellAll
  BY <1>1, TellStays DEF TellAll
<1>5. TellAll => Replaying'
  <2>1. Len(evidence) \in Nat /\ evidence' = evidence
    BY <1>1 DEF BeliefInv, TypeOK
  <2>2. [n \in 1..(Len(evidence) - Len(evidence)) |-> Len(evidence) + n] = <<>>
    BY <2>1
  <2>3. Remain(Len(evidence))'
    BY <1>2, <2>1, <2>2 DEF Remain
  <2> QED
    BY <1>4, <2>1, <2>3 DEF TellAll, Replaying
<1>6. lost' \/ Replaying'
  BY <1>1, <1>3, <1>5
<1>7. lost' \in BOOLEAN
  BY DEF BeliefInv, TypeOK
<1> QED
  BY <1>2, <1>6, <1>7 DEF HistoryInv

LEMMA HistoryReprocess ==
    ASSUME BeliefInv, HistoryInv, NEW i \in Ids, Reprocess(i) PROVE HistoryInv'
<1>1. job = Idle /\ UNCHANGED <<evidence, beliefs, lost>> /\ job' = Process(<<>>, <<i>>)
  BY DEF Reprocess, Start
<1>2. job'.call = "process" /\ job'.filings = <<>>
  BY <1>1 DEF Process
<1>3. lost \/ TellAll
  BY <1>1, IdleTyped DEF HistoryInv
<1>4. TellAll' <=> TellAll
  BY <1>1, TellStays DEF TellAll
<1> QED
  BY <1>1, <1>2, <1>3, <1>4 DEF HistoryInv

LEMMA HistorySweep ==
    ASSUME BeliefInv, HistoryInv, Sweep \/ Swept \/ NewDay \/ UNCHANGED vars PROVE HistoryInv'
<1>1. CASE UNCHANGED vars
  <2>1. UNCHANGED <<evidence, beliefs, job, lost>>
    BY <1>1 DEF vars
  <2>2. \A k : TellUpTo(k)' <=> TellUpTo(k)
    BY <2>1, TellStays
  <2>3. TellAll' <=> TellAll
    BY <2>1, <2>2 DEF TellAll
  <2>4. \A k : Remain(k)' <=> Remain(k)
    BY <2>1 DEF Remain
  <2>5. Replaying' <=> Replaying
    BY <2>1, <2>2, <2>4 DEF Replaying
  <2> QED
    BY <2>1, <2>3, <2>4, <2>5 DEF HistoryInv
<1>2. CASE Sweep \/ Swept \/ NewDay
  <2>1. /\ job.call \in {"idle", "sweep"} /\ job'.call \in {"idle", "sweep"}
        /\ UNCHANGED <<evidence, beliefs, lost>>
    BY <1>2, IdleTyped DEF Sweep, Swept, NewDay, Start
  <2>2. TellAll' <=> TellAll
    BY <2>1, TellStays DEF TellAll
  <2> QED
    BY <2>1, <2>2 DEF HistoryInv
<1> QED
  BY <1>1, <1>2

LEMMA HistoryCrash ==
    ASSUME Crash PROVE HistoryInv'
<1>1. lost' = TRUE /\ job' = Idle
  BY DEF Crash
<1> QED
  BY <1>1, IdleTyped DEF HistoryInv

LEMMA HistoryRecompute ==
    ASSUME BeliefInv, HistoryInv, BeliefInv', Recompute PROVE HistoryInv'
<1>1. /\ UNCHANGED <<evidence, beliefs, lost>>
      /\ job' = Rebuild([i \in Ids |-> i])
  BY DEF Recompute, Start
<1>2. /\ job'.call = "rebuild" /\ job'.filings = <<>> /\ job'.new = [i \in Ids |-> i]
      /\ job'.drop = {l \in Lanes : beliefs[l] # NoBelief}
  BY <1>1 DEF Rebuild
<1>3. Ids = 1..Len(evidence) /\ Len(evidence) \in Nat
  BY DEF BeliefInv, TypeOK, Ids
<1>4. Remain(0)'
  BY <1>1, <1>2, <1>3 DEF Remain
<1>5. job'.drop = {} => TellUpTo(0)'
  BY <1>1, <1>2, NothingTold, TellStays DEF TellUpTo
<1>6. job'.drop = {} => Replaying'
  BY <1>1, <1>3, <1>4, <1>5 DEF Replaying
<1> QED
  BY <1>1, <1>2, <1>4, <1>6 DEF HistoryInv

LEMMA HistoryDrop ==
    ASSUME BeliefInv, HistoryInv, NEW l \in Lanes, Drop(l) PROVE HistoryInv'
<1>1. /\ job.call = "rebuild" /\ l \in job.drop
      /\ beliefs' = [beliefs EXCEPT ![l] = NoBelief]
      /\ job' = [job EXCEPT !.drop = @ \ {l}]
      /\ UNCHANGED <<evidence, lost>>
  BY DEF Drop
<1>2. /\ job \in [ call : {"process", "rebuild"}, filings : Seq(Filing),
                   drop : SUBSET Lanes, new : Seq(Nat) ]
  BY <1>1, JobFields DEF BeliefInv, TypeOK
<1>3. /\ job'.call = "rebuild" /\ job'.filings = job.filings /\ job'.new = job.new
      /\ job'.drop = job.drop \ {l}
  BY <1>1, <1>2
<1>4. job.filings = <<>> /\ Remain(0) /\ \A m \in Lanes \ job.drop : beliefs[m] = NoBelief
  BY <1>1 DEF HistoryInv
<1>5. \A m \in Lanes \ job'.drop : beliefs'[m] = NoBelief
  BY <1>1, <1>3, <1>4 DEF BeliefInv, TypeOK
<1>6. Remain(0)'
  BY <1>1, <1>3, <1>4 DEF Remain
<1>7. ASSUME job'.drop = {} PROVE Replaying'
  <2>1. \A m \in Lanes : beliefs'[m] = NoBelief
    BY <1>5, <1>7
  <2>2. TellUpTo(0)'
    <3>1. \A m : Tells(m, 0, NoBelief)'
      BY <1>1, NothingTold, TellsStays
    <3> QED
      BY <2>1, <3>1 DEF TellUpTo
  <2>3. 0 \in 0..Len(evidence')
    <3>1. Len(evidence) \in Nat /\ evidence' = evidence
      BY <1>1 DEF BeliefInv, TypeOK
    <3> QED
      BY <3>1
  <2> QED
    BY <1>6, <2>2, <2>3 DEF Replaying
<1> QED
  BY <1>3, <1>4, <1>5, <1>6, <1>7 DEF HistoryInv

LEMMA HistorySweepLane ==
    ASSUME BeliefInv, HistoryInv, NEW l \in Lanes, SweepLane(l) PROVE HistoryInv'
<1>1. /\ job.call = "sweep" /\ l \in job.lanes /\ job' = [job EXCEPT !.lanes = @ \ {l}]
      /\ UNCHANGED <<evidence, lost>>
      /\ beliefs' = [beliefs EXCEPT ![l].status = "stale"] \/ UNCHANGED beliefs
  BY DEF SweepLane
<1>2. job \in [call : {"sweep"}, lanes : SUBSET Lanes]
  BY <1>1 DEF BeliefInv, TypeOK, Job, Idle
<1>3. job'.call = "sweep"
  BY <1>1, <1>2
<1>4. beliefs \in [Lanes -> Belief \cup {NoBelief}] /\ beliefs[l] \in Belief
  <2>1. beliefs[l].status = "active"
    BY <1>1 DEF BeliefInv, Sweeping
  <2> QED
    BY <2>1 DEF BeliefInv, TypeOK, NoBelief
<1>5. \A m \in Lanes : /\ beliefs'[m].supports = beliefs[m].supports
                       /\ beliefs'[m].contras = beliefs[m].contras
  BY <1>1, <1>4 DEF Belief
<1>6. TellAll' <=> TellAll
  BY <1>1, <1>5, TellStays DEF TellAll
<1> QED
  BY <1>1, <1>3, <1>6 DEF HistoryInv

LEMMA HistoryUpdateDone ==
    ASSUME BeliefInv, HistoryInv, UpdateDone PROVE HistoryInv'
<1>1. /\ job.call \in {"process", "rebuild"} /\ job.filings = <<>> /\ job.drop = {}
      /\ job.new = <<>> /\ job' = Idle /\ UNCHANGED <<evidence, beliefs>>
      /\ job.call = "rebuild" \/ lost' = lost
  BY DEF UpdateDone, Processing
<1>2. job.call = "rebuild" \/ ~lost => TellAll
  BY <1>1, RemainNone DEF HistoryInv
<1>3. TellAll' <=> TellAll
  BY <1>1, TellStays DEF TellAll
<1> QED
  BY <1>1, <1>2, <1>3, IdleTyped DEF HistoryInv

LEMMA HistoryFileNext ==
    ASSUME BeliefInv, HistoryInv, BeliefInv', FileNext PROVE HistoryInv'
<1> DEFINE f == Head(job.filings)
<1>1. /\ job.call = "process" /\ job.filings # <<>> /\ UNCHANGED <<beliefs, lost>>
  BY DEF FileNext
<1>2. job \in [ call : {"process", "rebuild"}, filings : Seq(Filing),
                drop : SUBSET Lanes, new : Seq(Nat) ]
  BY <1>1, JobFields DEF BeliefInv, TypeOK
<1>3. lost \/ Replaying
  BY <1>1 DEF HistoryInv
<1>4. CASE AlreadyFiled(f)
  <2>1. job' = [job EXCEPT !.filings = Tail(@)] /\ UNCHANGED evidence
    BY <1>4 DEF FileNext
  <2>2. job'.call = "process" /\ job'.new = job.new
    BY <1>1, <1>2, <2>1
  <2>3. \A k : (TellUpTo(k)' <=> TellUpTo(k)) /\ (Remain(k)' <=> Remain(k))
    BY <1>1, <2>1, <2>2, TellStays DEF Remain
  <2>4. Replaying => Replaying'
    BY <2>1, <2>3 DEF Replaying
  <2> QED
    BY <1>1, <1>3, <2>2, <2>4 DEF HistoryInv
<1>5. CASE ~AlreadyFiled(f)
  <2> DEFINE r == [ source |-> f.source, rule |-> f.rule, context |-> f.context,
                    score |-> f.score, day |-> day, supersedes |-> Superseded(f) ]
             n == Len(evidence)
  <2>1. /\ evidence' = Append(evidence, r)
        /\ job' = [job EXCEPT !.filings = Tail(@), !.new = Append(@, n + 1)]
    BY <1>5 DEF FileNext
  <2>2. job'.call = "process" /\ job'.new = Append(job.new, n + 1)
    BY <1>1, <1>2, <2>1
  <2>3. evidence \in Seq(Record) /\ evidence' \in Seq(Record) /\ n \in Nat
    BY DEF BeliefInv, TypeOK
  <2> HIDE DEF r
  <2>4. Len(evidence') = n + 1 /\ evidence'[n + 1] = r
    BY <2>1, <2>3
  <2>5. r \in Record
    BY <2>3, <2>4
  <2>6. ASSUME NEW k \in 0..n, TellUpTo(k), Remain(k) PROVE Replaying'
    <3>1. TellUpTo(k)'
      <4>1. \A l, b : Tells(l, k, b) => Tells(l, k, b)'
        BY <2>1, <2>5, TellsGrows
      <4> QED
        BY <1>1, <2>6, <4>1 DEF TellUpTo
    <3>2. Remain(k)'
      <4>1. job.new = [m \in 1..(n - k) |-> k + m]
        BY <2>6 DEF Remain
      <4>2. Append(job.new, n + 1) = [m \in 1..(n + 1 - k) |-> k + m]
        BY <2>3, <4>1
      <4>3. [m \in 1..(Len(evidence') - k) |-> k + m] = [m \in 1..(n + 1 - k) |-> k + m]
        BY <2>4
      <4> QED
        BY <2>2, <4>2, <4>3 DEF Remain
    <3>3. k \in 0..(n + 1)
      BY <2>3
    <3> QED
      BY <2>4, <3>1, <3>2, <3>3 DEF Replaying
  <2>7. Replaying => Replaying'
    BY <2>6 DEF Replaying
  <2> QED
    BY <1>1, <1>3, <2>2, <2>7 DEF HistoryInv
<1> QED
  BY <1>4, <1>5

\* What is processed once more is in the ledgers.
LEMMA ToldIsKept ==
    ASSUME BeliefInv, TellAll, NEW i \in Ids
    PROVE  i \in ToSet(beliefs[LaneOf(i)].supports) \cup ToSet(beliefs[LaneOf(i)].contras)
<1>1. LaneOf(i) \in Lanes /\ i \in Nat /\ i <= Len(evidence)
  BY RecordFacts
<1>2. i \in History(LaneOf(i))
  BY DEF History
<1> QED
  BY <1>1, <1>2 DEF TellAll, TellUpTo, Tells

LEMMA HistoryUpdate ==
    ASSUME BeliefInv, HistoryInv, UpdateNext PROVE HistoryInv'
<1> DEFINE i == Head(job.new)
           l == LaneOf(i)
           b == Integrate(Existing(beliefs[l]), i)
           after == [b EXCEPT !.status = StatusOf(b)]
           n == Len(evidence)
<1>1. /\ job.call \in {"process", "rebuild"} /\ job.filings = <<>> /\ job.drop = {}
      /\ job.new # <<>> /\ job' = [job EXCEPT !.new = Tail(@)]
      /\ UNCHANGED <<evidence, lost>>
  BY DEF UpdateNext, Processing
<1>2. /\ job \in [ call : {"process", "rebuild"}, filings : Seq(Filing),
                   drop : SUBSET Lanes, new : Seq(Nat) ]
      /\ job.new \in Seq(Nat) /\ ToSet(job.new) \subseteq Ids
  BY <1>1, JobFields DEF BeliefInv, TypeOK
<1>3. /\ job'.call = job.call /\ job'.filings = <<>> /\ job'.drop = {}
      /\ job'.new = Tail(job.new)
  BY <1>1, <1>2
<1>4. i \in Ids /\ l \in Lanes
  <2>1. i \in Ids
    BY <1>1, <1>2, ToSetTail
  <2> QED
    BY <2>1, RecordFacts
<1>5. n \in Nat /\ beliefs \in [Lanes -> Belief \cup {NoBelief}]
  BY DEF BeliefInv, TypeOK
<1>6. ASSUME TellAll PROVE TellAll'
  <2>1. UNCHANGED beliefs
    BY <1>4, <1>6, ToldIsKept DEF UpdateNext
  <2> QED
    BY <1>1, <1>6, <2>1, TellStays DEF TellAll
<1>7. ASSUME NEW k \in 0..n, TellUpTo(k), Remain(k) PROVE Replaying'
  <2>1. job.new = [m \in 1..(n - k) |-> k + m]
    BY <1>7 DEF Remain
  <2>2. k \in Nat /\ n - k \in Nat /\ n - k # 0
    <3>1. 1..(n - k) # {}
      BY <1>1, <2>1
    <3> QED
      BY <1>5, <3>1
  <2>3. i = k + 1
    BY <2>1, <2>2
  <2>4. Tail(job.new) = [m \in 1..(n - (k + 1)) |-> (k + 1) + m]
    <3> DEFINE q == job.new
    <3>1. q \in Seq(Nat) /\ Len(q) = n - k
      BY <1>2, <2>1, <2>2
    <3>2. \A m \in 1..(n - (k + 1)) : q[m + 1] = (k + 1) + m
      <4>1. ASSUME NEW m \in 1..(n - (k + 1)) PROVE m + 1 \in 1..(n - k) /\ k + (m + 1) = (k + 1) + m
        BY <1>5, <2>2
      <4> QED
        BY <2>1, <4>1
    <3> HIDE DEF q
    <3>3. Tail(q) \in Seq(Nat) /\ Len(Tail(q)) = n - (k + 1)
          /\ \A m \in 1..(n - (k + 1)) : Tail(q)[m] = q[m + 1]
      BY <1>5, <2>2, <3>1
    <3>4. Tail(q) = [m \in 1..(n - (k + 1)) |-> Tail(q)[m]]
      <4>1. Tail(q) \in [1..Len(Tail(q)) -> Nat]
        BY <3>3, LenProperties
      <4>2. Len(Tail(q)) = n - (k + 1)
        BY <3>3
      <4> QED
        BY <4>1, <4>2
    <3>5. Tail(q) = [m \in 1..(n - (k + 1)) |-> (k + 1) + m]
      BY <3>2, <3>3, <3>4
    <3> QED
      BY <3>5 DEF q
  <2>5. Remain(k + 1)'
    BY <1>1, <1>3, <2>4 DEF Remain
  <2>6. \A m \in Lanes : Tells(m, k, beliefs[m])
    BY <1>7 DEF TellUpTo
  <2>7. i \notin ToSet(beliefs[l].supports) \cup ToSet(beliefs[l].contras)
    <3>1. ~ (i <= k)
      BY <2>2, <2>3
    <3> QED
      BY <1>4, <2>6, <3>1 DEF Tells
  <2>8. beliefs' = [beliefs EXCEPT ![l] = after]
    BY <2>7 DEF UpdateNext
  <2>9. Tells(l, k + 1, b)
    BY <1>4, <2>2, <2>3, <2>6, TellsOneMore
  <2>10. b \in [status : Status, supports : Seq(Nat), contras : Seq(Nat)]
    BY <1>4, <2>7, Integrated
  <2>11. \A m \in Lanes \ {l} : Tells(m, k + 1, beliefs[m])
    BY <2>2, <2>3, <2>6, TellsOthers
  <2> HIDE DEF i, l, b
  <2>12. after.supports = b.supports /\ after.contras = b.contras
    BY <2>10
  <2> HIDE DEF after
  <2>13. beliefs'[l] = after /\ \A m \in Lanes \ {l} : beliefs'[m] = beliefs[m]
    BY <1>4, <1>5, <2>8
  <2>14. \A m \in Lanes : Tells(m, k + 1, beliefs'[m])
    BY <2>9, <2>11, <2>12, <2>13 DEF Tells
  <2>15. TellUpTo(k + 1)'
    <3>1. \A m, c : Tells(m, k + 1, c)' <=> Tells(m, k + 1, c)
      BY <1>1, TellsStays
    <3> QED
      BY <2>14, <3>1 DEF TellUpTo
  <2>16. k + 1 \in 0..Len(evidence')
    BY <1>1, <1>5, <2>2
  <2> QED
    BY <2>5, <2>15, <2>16 DEF Replaying
<1>8. Replaying => Replaying'
  BY <1>7 DEF Replaying
<1>9. lost' = lost
  BY <1>1
<1> QED
  BY <1>1, <1>3, <1>6, <1>8, <1>9 DEF HistoryInv

LEMMA HistoryStep ==
    ASSUME BeliefInv, HistoryInv, BeliefInv', [Next]_vars PROVE HistoryInv'
<1>1. CASE \/ \E t \in Turns, c \in Contexts : Turn(t, c)
           \/ \E n \in DOMAIN turns, c \in Contexts : Refile(n, c)
  BY <1>1, HistoryTurn
<1>2. CASE FileNext
  BY <1>2, HistoryFileNext
<1>3. CASE UpdateNext
  BY <1>3, HistoryUpdate
<1>4. CASE UpdateDone
  BY <1>4, HistoryUpdateDone
<1>5. CASE \E i \in Ids : Reprocess(i)
  BY <1>5, HistoryReprocess
<1>6. CASE Recompute
  BY <1>6, HistoryRecompute
<1>7. CASE \E l \in Lanes : Drop(l) \/ SweepLane(l)
  BY <1>7, HistoryDrop, HistorySweepLane
<1>8. CASE Sweep \/ Swept \/ NewDay \/ UNCHANGED vars
  BY <1>8, HistorySweep
<1>9. CASE Crash
  BY <1>9, HistoryCrash
<1> QED
  BY <1>1, <1>2, <1>3, <1>4, <1>5, <1>6, <1>7, <1>8, <1>9 DEF Next

\* Between two calls the ledgers hold all the evidence there is and tell its
\* history, in its order, with or without crashes that a rebuild has made good.
THEOREM LedgersAlwaysTellHistory == Spec => []LedgersTellHistory
<1>1. BeliefInv /\ BeliefInv' /\ HistoryInv /\ [Next]_vars => HistoryInv'
  BY HistoryStep
<1>2. ASSUME BeliefInv, HistoryInv PROVE LedgersTellHistory
  <2> SUFFICES ASSUME job = Idle, ~lost, NEW l \in Lanes
               PROVE  /\ ToSet(beliefs[l].contras) = Opposing(l)
                      /\ ToSet(beliefs[l].supports) = History(l) \ Opposing(l)
                      /\ Increasing(beliefs[l].supports) /\ Increasing(beliefs[l].contras)
    BY DEF LedgersTellHistory
  <2>1. Tells(l, Len(evidence), beliefs[l])
    BY IdleTyped, <1>2 DEF HistoryInv, TellAll, TellUpTo
  <2>2. \A i \in History(l) : i <= Len(evidence)
    BY <1>2, HistoryFacts, RecordFacts
  <2>3. Opposing(l) \subseteq History(l)
    BY DEF Opposing
  <2> QED
    BY <2>1, <2>2, <2>3 DEF Tells
<1>3. BeliefInv /\ HistoryInv => LedgersTellHistory
  BY <1>2
<1> QED
  BY BeliefAlways, HistoryInit, <1>1, <1>3, PTL DEF Spec

-----------------------------------------------------------------------------
(* Total orders on finite sets.                                            *)

Orders(R, S) ==
    /\ \A x \in S : <<x, x>> \notin R
    /\ \A x, y \in S : x # y => <<x, y>> \in R \/ <<y, x>> \in R
    /\ \A x, y, z \in S : <<x, y>> \in R /\ <<y, z>> \in R => <<x, z>> \in R

Ahead(R, S, x) == {y \in S : <<y, x>> \in R}

\* What is further back has more ahead of it.
LEMMA AheadGrows ==
    ASSUME NEW S, IsFiniteSet(S), NEW R, Orders(R, S), NEW x \in S, NEW y \in S
    PROVE  /\ Cardinality(Ahead(R, S, x)) \in 0..(Cardinality(S) - 1) /\ Cardinality(S) \in Nat
           /\ <<x, y>> \in R <=> Cardinality(Ahead(R, S, x)) < Cardinality(Ahead(R, S, y))
<1>1. ASSUME NEW u \in S
      PROVE  IsFiniteSet(Ahead(R, S, u)) /\ Cardinality(Ahead(R, S, u)) \in Nat
  <2>1. Ahead(R, S, u) \in SUBSET S
    BY DEF Ahead
  <2> QED
    BY <2>1, FS_Subset, FS_CardinalityType
<1>2. ASSUME NEW u \in S, NEW v \in S, <<u, v>> \in R
      PROVE  Cardinality(Ahead(R, S, u)) < Cardinality(Ahead(R, S, v))
  <2>1. Ahead(R, S, u) \subseteq Ahead(R, S, v) /\ u \in Ahead(R, S, v) /\ u \notin Ahead(R, S, u)
    BY <1>2 DEF Ahead, Orders
  <2>2. /\ Cardinality(Ahead(R, S, u)) <= Cardinality(Ahead(R, S, v))
        /\ Cardinality(Ahead(R, S, u)) # Cardinality(Ahead(R, S, v))
    BY <1>1, <2>1, FS_Subset
  <2> QED
    BY <1>1, <2>2
<1>3. Cardinality(Ahead(R, S, x)) < Cardinality(S) /\ Cardinality(S) \in Nat
  <2>1. Ahead(R, S, x) \in SUBSET S /\ x \notin Ahead(R, S, x)
    BY DEF Ahead, Orders
  <2>2. Cardinality(S) \in Nat
    BY FS_CardinalityType
  <2> QED
    BY <1>1, <2>1, <2>2, FS_Subset
<1>4. <<x, y>> \in R \/ <<y, x>> \in R \/ x = y
  BY DEF Orders
<1>5. \A u, v \in S : Cardinality(Ahead(R, S, u)) \in Nat
  BY <1>1
<1> QED
  BY <1>2, <1>3, <1>4, <1>5

\* Every place is taken.
LEMMA PlacesAreTaken ==
    ASSUME NEW S, IsFiniteSet(S), NEW R, Orders(R, S), NEW k \in 0..(Cardinality(S) - 1)
    PROVE  \E x \in S : Cardinality(Ahead(R, S, x)) = k
<1> SUFFICES ASSUME \A x \in S : Cardinality(Ahead(R, S, x)) # k PROVE FALSE
  OBVIOUS
<1> DEFINE n == Cardinality(S)
           T == (0..(n - 1)) \ {k}
           f == [x \in S |-> Cardinality(Ahead(R, S, x))]
<1>1. n \in Nat
  BY FS_CardinalityType
<1>2. IsFiniteSet(T) /\ Cardinality(T) = n - 1
  <2>1. IsFiniteSet(0..(n - 1)) /\ Cardinality(0..(n - 1)) = n
    BY <1>1, FS_Interval
  <2> DEFINE D == 0..(n - 1)
  <2>2. k \in D
    OBVIOUS
  <2> HIDE DEF D
  <2>3. IsFiniteSet(D \ {k}) /\ Cardinality(D \ {k}) = Cardinality(D) - 1
    BY <2>1, <2>2, FS_RemoveElement DEF D
  <2> QED
    BY <2>1, <2>3 DEF D
<1>3. f \in [S -> T]
  BY AheadGrows
<1>4. Cardinality(T) < Cardinality(S)
  BY <1>1, <1>2
<1>5. PICK x \in S, y \in S : x # y /\ f[x] = f[y]
  <2> HIDE DEF f, T
  <2> QED
    BY <1>2, <1>3, <1>4, FS_PigeonHole
<1>6. Cardinality(Ahead(R, S, x)) = Cardinality(Ahead(R, S, y))
  BY <1>5
<1>7. Cardinality(Ahead(R, S, x)) \in 0..(Cardinality(S) - 1)
  BY <1>5, AheadGrows
<1>8. ~ (Cardinality(Ahead(R, S, x)) < Cardinality(Ahead(R, S, y)))
  BY <1>6, <1>7
<1>9. ~ (Cardinality(Ahead(R, S, y)) < Cardinality(Ahead(R, S, x)))
  BY <1>6, <1>7
<1>10. <<x, y>> \notin R /\ <<y, x>> \notin R
  BY <1>5, <1>8, <1>9, AheadGrows
<1> QED
  BY <1>5, <1>10 DEF Orders

\* The first n, place by place, are as many as there are, and all before the rest.
LEMMA FirstPlaces ==
    ASSUME NEW S, IsFiniteSet(S), NEW R, Orders(R, S), NEW n \in Nat, NEW m,
           m = IF Cardinality(S) < n THEN Cardinality(S) ELSE n, NEW s \in [1..m -> S],
           \A k \in 1..m : Cardinality(Ahead(R, S, s[k])) = k - 1
    PROVE  /\ Len(s) = m
           /\ ToSet(s) = {x \in S : Cardinality(Ahead(R, S, x)) < n}
           /\ \A x \in ToSet(s), y \in S \ ToSet(s) : <<x, y>> \in R
           /\ Len(s) = n \/ ToSet(s) = S
           /\ Cardinality(ToSet(s)) = Len(s)
<1>1. Cardinality(S) \in Nat /\ m \in Nat
  BY FS_CardinalityType
<1>2. Len(s) = m
  BY <1>1
<1>3. \A x \in S : Cardinality(Ahead(R, S, x)) \in 0..(Cardinality(S) - 1)
  BY AheadGrows
<1>4. ASSUME NEW x \in S, Cardinality(Ahead(R, S, x)) < n PROVE x \in ToSet(s)
  <2> DEFINE k == Cardinality(Ahead(R, S, x)) + 1
  <2>1. k \in DOMAIN s
    BY <1>1, <1>3, <1>4
  <2>2. Cardinality(Ahead(R, S, s[k])) = Cardinality(Ahead(R, S, x)) /\ s[k] \in S
    BY <1>3, <2>1
  <2>3. s[k] = x
    <3>1. <<s[k], x>> \notin R /\ <<x, s[k]>> \notin R
      BY <1>3, <2>2, AheadGrows
    <3> QED
      BY <2>2, <3>1 DEF Orders
  <2> QED
    BY <2>1, <2>3 DEF ToSet
<1>5. ASSUME NEW x \in ToSet(s) PROVE x \in S /\ Cardinality(Ahead(R, S, x)) < n
  <2>1. PICK k \in DOMAIN s : s[k] = x
    BY DEF ToSet
  <2> QED
    BY <1>1, <2>1
<1>6. ToSet(s) = {x \in S : Cardinality(Ahead(R, S, x)) < n}
  BY <1>4, <1>5
<1>7. \A x \in ToSet(s), y \in S \ ToSet(s) : <<x, y>> \in R
  <2> SUFFICES ASSUME NEW x \in ToSet(s), NEW y \in S \ ToSet(s) PROVE <<x, y>> \in R
    OBVIOUS
  <2>1. x \in S /\ Cardinality(Ahead(R, S, x)) < n
    BY <1>6
  <2>2. y \in S /\ ~ (Cardinality(Ahead(R, S, y)) < n)
    BY <1>6
  <2>3. Cardinality(Ahead(R, S, x)) \in Nat /\ Cardinality(Ahead(R, S, y)) \in Nat
    BY <1>1, <1>3, <2>1, <2>2
  <2>4. Cardinality(Ahead(R, S, x)) < Cardinality(Ahead(R, S, y))
    BY <2>1, <2>2, <2>3
  <2> QED
    BY <2>1, <2>2, <2>4, AheadGrows
<1>8. Len(s) = n \/ ToSet(s) = S
  <2>1. CASE Cardinality(S) < n
    BY <1>1, <1>3, <1>6, <2>1
  <2> QED
    BY <1>1, <1>2, <2>1
<1>9. Cardinality(ToSet(s)) = Len(s)
  <2>1. s \in [1..m -> ToSet(s)]
    BY <1>1 DEF ToSet
  <2>2. ASSUME NEW i \in 1..m, NEW j \in 1..m, s[i] = s[j] PROVE i = j
    <3>1. i - 1 = j - 1
      BY <2>2
    <3> QED
      BY <1>1, <3>1
  <2>3. \A x \in ToSet(s) : \E i \in 1..m : s[i] = x
    BY DEF ToSet
  <2>4. s \in Bijection(1..m, ToSet(s))
    BY <2>1, <2>2, <2>3 DEF Bijection, Injection, Surjection, IsInjective
  <2> QED
    BY <1>1, <1>2, <2>4, FS_CountingElements DEF ExistsBijection
<1> QED
  BY <1>2, <1>6, <1>7, <1>8, <1>9

-----------------------------------------------------------------------------
(* The view.                                                               *)

Order == {p \in Ids \X Ids : Precedes(p[1], p[2])}

LEMMA InOrder ==
    ASSUME NEW i \in Ids, NEW j \in Ids
    PROVE  <<i, j>> \in Order <=> Precedes(i, j)
  BY DEF Order

LEMMA TimesAndScores ==
    ASSUME TypeOK, NEW i \in Ids
    PROVE  /\ evidence[i].day \in Int /\ evidence[i].score \in Int /\ i \in Int /\ day \in Int
           /\ evidence[i].rule \in Rules /\ Feeds[evidence[i].rule].dimension \in Dimensions
<1>1. evidence[i] \in Record /\ i \in Int
  BY DEF TypeOK, Ids
<1>2. 0..100 \subseteq Int /\ 0..MaxDays \subseteq Int
  OBVIOUS
<1>3. evidence[i].day \in 0..MaxDays /\ evidence[i].score \in 0..100 /\ evidence[i].rule \in Rules
  BY <1>1 DEF Record
<1>4. day \in 0..MaxDays
  BY DEF TypeOK
<1> QED
  BY <1>1, <1>2, <1>3, <1>4 DEF Dimensions

LEMMA EvidenceIsOrdered ==
    ASSUME TypeOK, NEW S, S \subseteq Ids
    PROVE  Orders(Order, S) /\ \A x \in S : Ahead(Order, S, x) = {y \in S : Precedes(y, x)}
<1>1. \A i \in S : evidence[i].day \in Int /\ evidence[i].score \in Int /\ i \in Int
  BY TimesAndScores
<1>2. \A i, j \in S : <<i, j>> \in Order <=> Precedes(i, j)
  BY InOrder
<1>3. \A i \in S : ~Precedes(i, i)
  BY <1>1 DEF Precedes
<1>4. \A i, j \in S : i # j => Precedes(i, j) \/ Precedes(j, i)
  BY <1>1 DEF Precedes
<1>5. ASSUME NEW i \in S, NEW j \in S, NEW k \in S, Precedes(i, j), Precedes(j, k)
      PROVE  Precedes(i, k)
  BY <1>1, <1>5 DEF Precedes
<1>6. Orders(Order, S)
  BY <1>2, <1>3, <1>4, <1>5 DEF Orders
<1> QED
  BY <1>2, <1>6 DEF Ahead

\* retrieval.py, search_evidence: "the exactness step in the ranking is a no-op".
LEMMA RankIsPrecedes ==
    ASSUME TypeOK, NEW q \in Question, NEW i \in Ids, NEW j \in Ids, Matches(q, i), Matches(q, j)
    PROVE  Rank(q, i, j) <=> Precedes(i, j)
<1>1. \A k \in Ids : evidence[k].rule \in Rules /\ Feeds[evidence[k].rule].dimension \in Dimensions
  BY TimesAndScores
<1>2. Anything \notin Rules /\ Anything \notin Dimensions
  BY DEF Anything, Rules, Dimensions, Feeds
<1>3. \A k \in {i, j} : /\ q.scope = Anything \/ q.scope = Feeds[evidence[k].rule].dimension
                        /\ q.subscope = Anything \/ q.subscope = evidence[k].rule
  BY DEF Matches, Asked
<1>4. Exactness(q, i) = Exactness(q, j)
  BY <1>1, <1>2, <1>3 DEF Exactness
<1>5. /\ Exactness(q, i)[1] \in BOOLEAN /\ Exactness(q, i)[2] \in BOOLEAN
  BY DEF Exactness
<1> QED
  BY <1>4, <1>5 DEF Rank

LEMMA FirstPlacesAreTaken ==
    ASSUME NEW S, IsFiniteSet(S), NEW R, Orders(R, S), NEW n \in Nat, NEW m,
           m = IF Cardinality(S) < n THEN Cardinality(S) ELSE n
    PROVE  m \in Nat /\ \A k \in 1..m : \E x \in S : Cardinality(Ahead(R, S, x)) = k - 1
<1>1. Cardinality(S) \in Nat /\ m \in Nat /\ m <= Cardinality(S)
  BY FS_CardinalityType
<1>2. \A k \in 1..m : k - 1 \in 0..(Cardinality(S) - 1)
  BY <1>1
<1> QED
  BY <1>1, <1>2, PlacesAreTaken

LEMMA IdsAreFinite ==
    ASSUME TypeOK, NEW A, A \subseteq Ids
    PROVE  IsFiniteSet(A) /\ Cardinality(A) \in Nat
<1>1. Len(evidence) \in Nat
  BY DEF TypeOK
<1>2. IsFiniteSet(1..Len(evidence))
  <2>1. 1 \in Int /\ Len(evidence) \in Int
    BY <1>1
  <2> QED
    BY <2>1, FS_Interval
<1>3. A \in SUBSET (1..Len(evidence))
  BY DEF Ids
<1> QED
  BY <1>2, <1>3, FS_Subset, FS_CardinalityType

LEMMA SearchFindsFirst ==
    ASSUME TypeOK, NEW q, NEW n \in Nat
    PROVE  LET A == {i \in Ids : Matches(q, i)}
               s == Search(q, n)
           IN  /\ IsFiniteSet(A) /\ Cardinality(A) \in Nat
               /\ Len(s) = IF Cardinality(A) < n THEN Cardinality(A) ELSE n
               /\ ToSet(s) \subseteq A /\ Cardinality(ToSet(s)) = Len(s)
               /\ Len(s) = n \/ ToSet(s) = A
               /\ \A x \in ToSet(s), y \in A \ ToSet(s) : Precedes(x, y)
<1> DEFINE A == {i \in Ids : Matches(q, i)}
           m == IF Cardinality(A) < n THEN Cardinality(A) ELSE n
           s == Search(q, n)
<1>1. IsFiniteSet(A) /\ Cardinality(A) \in Nat
  BY IdsAreFinite
<1>2. Orders(Order, A) /\ \A x \in A : Ahead(Order, A, x) = {y \in A : Precedes(y, x)}
  BY EvidenceIsOrdered
<1> HIDE DEF A
<1>3. s = [k \in 1..m |-> CHOOSE x \in A : Cardinality({y \in A : Precedes(y, x)}) = k - 1]
  BY Zenon DEF Search, Best, A
<1>4. m = IF Cardinality(A) < n THEN Cardinality(A) ELSE n
  OBVIOUS
<1> HIDE DEF m
<1>5. Orders(Order, A)
  BY <1>2
<1>6. m \in Nat /\ \A k \in 1..m : \E x \in A : Cardinality(Ahead(Order, A, x)) = k - 1
  BY <1>1, <1>5, <1>4, FirstPlacesAreTaken
<1>7. ASSUME NEW k \in 1..m
      PROVE  s[k] \in A /\ Cardinality(Ahead(Order, A, s[k])) = k - 1
  <2>1. \E x \in A : Cardinality({y \in A : Precedes(y, x)}) = k - 1
    BY <1>2, <1>6
  <2>2. s[k] = CHOOSE x \in A : Cardinality({y \in A : Precedes(y, x)}) = k - 1
    BY <1>3
  <2>3. s[k] \in A /\ Cardinality({y \in A : Precedes(y, s[k])}) = k - 1
    BY <2>1, <2>2
  <2> QED
    BY <1>2, <2>3
<1>8. s \in [1..m -> A]
  BY <1>3, <1>7
<1> HIDE DEF s
<1>9. /\ Len(s) = m /\ Cardinality(ToSet(s)) = Len(s)
      /\ ToSet(s) = {x \in A : Cardinality(Ahead(Order, A, x)) < n}
      /\ \A x \in ToSet(s), y \in A \ ToSet(s) : <<x, y>> \in Order
      /\ Len(s) = n \/ ToSet(s) = A
  BY <1>1, <1>5, <1>7, <1>8, <1>4, FirstPlaces
<1>10. \A x, y \in A : <<x, y>> \in Order => Precedes(x, y)
  BY InOrder DEF A
<1>11. ToSet(s) \subseteq A /\ \A x \in ToSet(s), y \in A \ ToSet(s) : Precedes(x, y)
  BY <1>9, <1>10
<1> QED
  BY <1>1, <1>4, <1>9, <1>11 DEF A, s

\* What is shown is the first of what the store found.
LEMMA ShownFirst ==
    ASSUME TypeOK, ViewAssumption, NEW q \in Question
    PROVE  LET P == ToSet(Search(q, Pool))
               s == SearchEvidence(q)
           IN  /\ Len(s) = IF Cardinality(P) < EvidenceLimit THEN Cardinality(P)
                           ELSE EvidenceLimit
               /\ ToSet(s) \subseteq P
               /\ Len(s) = EvidenceLimit \/ ToSet(s) = P
               /\ \A x \in ToSet(s), y \in P \ ToSet(s) : Precedes(x, y)
               /\ s # <<>> => /\ Head(s) \in P
                               /\ \A y \in P : y = Head(s) \/ Precedes(Head(s), y)
               /\ s = <<>> => EvidenceLimit = 0 \/ P = {}
<1> DEFINE P == ToSet(Search(q, Pool))
           n == EvidenceLimit
           m == IF Cardinality(P) < n THEN Cardinality(P) ELSE n
           s == SearchEvidence(q)
<1>1. n \in Nat /\ Pool \in Nat
  BY DEF ViewAssumption, Pool
<1>2. P \subseteq Ids /\ \A i \in P : Matches(q, i)
  BY <1>1, SearchFindsFirst
<1> HIDE DEF P
<1>3. IsFiniteSet(P) /\ Cardinality(P) \in Nat
  BY <1>2, IdsAreFinite
<1>4. Orders(Order, P) /\ \A x \in P : Ahead(Order, P, x) = {y \in P : Precedes(y, x)}
  BY <1>2, EvidenceIsOrdered
<1>5. \A x \in P : {y \in P : Rank(q, y, x)} = Ahead(Order, P, x)
  <2> SUFFICES ASSUME NEW x \in P PROVE {y \in P : Rank(q, y, x)} = {y \in P : Precedes(y, x)}
    BY <1>4
  <2>1. \A y \in P : Rank(q, y, x) <=> Precedes(y, x)
    BY <1>2, RankIsPrecedes
  <2> QED
    BY <2>1
<1>6. s = [k \in 1..m |-> CHOOSE x \in P : Cardinality({y \in P : Rank(q, y, x)}) = k - 1]
  BY Zenon DEF SearchEvidence, Best, P
<1>7. m = IF Cardinality(P) < n THEN Cardinality(P) ELSE n
  OBVIOUS
<1> HIDE DEF m
<1>8. m \in Nat /\ \A k \in 1..m : \E x \in P : Cardinality(Ahead(Order, P, x)) = k - 1
  BY <1>1, <1>3, <1>4, <1>7, FirstPlacesAreTaken
<1>9. ASSUME NEW k \in 1..m
      PROVE  s[k] \in P /\ Cardinality(Ahead(Order, P, s[k])) = k - 1
  <2>1. \E x \in P : Cardinality({y \in P : Rank(q, y, x)}) = k - 1
    BY <1>5, <1>8
  <2>2. s[k] = CHOOSE x \in P : Cardinality({y \in P : Rank(q, y, x)}) = k - 1
    BY <1>6
  <2>3. s[k] \in P /\ Cardinality({y \in P : Rank(q, y, s[k])}) = k - 1
    BY <2>1, <2>2
  <2> QED
    BY <1>5, <2>3
<1>10. s \in [1..m -> P]
  BY <1>6, <1>9
<1> HIDE DEF s
<1>11. /\ Len(s) = m
       /\ ToSet(s) = {x \in P : Cardinality(Ahead(Order, P, x)) < n}
       /\ \A x \in ToSet(s), y \in P \ ToSet(s) : <<x, y>> \in Order
       /\ Len(s) = n \/ ToSet(s) = P
  BY <1>1, <1>3, <1>4, <1>9, <1>10, <1>7, FirstPlaces
<1>12. \A x, y \in P : <<x, y>> \in Order => Precedes(x, y)
  BY <1>2, InOrder
<1>13. ToSet(s) \subseteq P /\ \A x \in ToSet(s), y \in P \ ToSet(s) : Precedes(x, y)
  BY <1>11, <1>12
<1>14. ASSUME s # <<>>
       PROVE  Head(s) \in P /\ \A y \in P : y = Head(s) \/ Precedes(Head(s), y)
  <2>1. 1 \in 1..m /\ Head(s) = s[1] /\ s[1] \in P
    <3>1. m # 0
      BY <1>8, <1>10, <1>11, <1>14
    <3>2. 1 \in 1..m
      BY <1>8, <3>1
    <3>3. s[1] \in ToSet(s)
      BY <1>10, <3>2 DEF ToSet
    <3> QED
      BY <1>13, <3>2, <3>3
  <2>2. Cardinality(Ahead(Order, P, s[1])) = 0
    BY <1>9, <2>1
  <2>3. ASSUME NEW y \in P PROVE y = s[1] \/ Precedes(s[1], y)
    <3>1. Cardinality(Ahead(Order, P, y)) \in 0..(Cardinality(P) - 1)
      BY <1>3, <1>4, AheadGrows
    <3>2. ~ (Cardinality(Ahead(Order, P, y)) < Cardinality(Ahead(Order, P, s[1])))
      BY <1>3, <2>2, <3>1
    <3>3. <<y, s[1]>> \notin Order
      BY <1>3, <1>4, <2>1, <3>2, AheadGrows
    <3>4. y = s[1] \/ <<s[1], y>> \in Order
      BY <1>4, <2>1, <3>3 DEF Orders
    <3> QED
      BY <1>12, <2>1, <3>4
  <2> QED
    BY <2>1, <2>3
<1>15. s = <<>> => n = 0 \/ P = {}
  <2>1. ToSet(<<>>) = {}
    BY DEF ToSet
  <2>2. Len(<<>>) = 0
    OBVIOUS
  <2> QED
    BY <1>11, <2>1, <2>2
<1>16. /\ Len(s) = IF Cardinality(P) < EvidenceLimit THEN Cardinality(P) ELSE EvidenceLimit
       /\ Len(s) = EvidenceLimit \/ ToSet(s) = P
       /\ s = <<>> => EvidenceLimit = 0 \/ P = {}
  BY <1>7, <1>11, <1>15
<1> QED
  BY <1>13, <1>14, <1>16 DEF P, s

LEMMA ViewIsRight ==
    ASSUME TypeOK, ViewAssumption, EvidenceLimit > 0, NEW q \in Question
    PROVE  LET v == Build(q)
               asked == {i \in Ids : Matches(q, i)}
               shown == ToSet(v.evidence)
           IN  /\ shown \subseteq asked
               /\ Len(v.evidence) = EvidenceLimit \/ shown = asked
               /\ \A i \in shown, j \in asked \ shown : Precedes(i, j)
               /\ v.has_recent_evidence <=>
                      \E i \in asked : evidence[i].day >= day - RecentEvidence
<1> DEFINE v == Build(q)
           asked == {i \in Ids : Matches(q, i)}
           found == SearchEvidence(q)
           shown == ToSet(found)
           P == ToSet(Search(q, Pool))
<1>1. /\ EvidenceLimit \in Nat /\ Pool \in Nat /\ EvidenceLimit <= Pool
      /\ RecentEvidence \in Nat
  BY DEF ViewAssumption, Pool
<1>2. /\ v.evidence = found
      /\ v.has_recent_evidence =
             (found # <<>> /\ day - evidence[Head(found)].day <= RecentEvidence)
  BY DEF Build
<1>3. /\ Cardinality(asked) \in Nat
      /\ Cardinality(P) = IF Cardinality(asked) < Pool THEN Cardinality(asked) ELSE Pool
      /\ P \subseteq asked
      /\ Cardinality(P) = Pool \/ P = asked
      /\ \A x \in P, y \in asked \ P : Precedes(x, y)
  <2>1. LET s == Search(q, Pool)
        IN  /\ Cardinality(asked) \in Nat
            /\ Len(s) = IF Cardinality(asked) < Pool THEN Cardinality(asked) ELSE Pool
            /\ ToSet(s) \subseteq asked /\ Cardinality(ToSet(s)) = Len(s)
            /\ Len(s) = Pool \/ ToSet(s) = asked
            /\ \A x \in ToSet(s), y \in asked \ ToSet(s) : Precedes(x, y)
    BY <1>1, SearchFindsFirst, Zenon
  <2> HIDE DEF asked
  <2> QED
    BY <2>1
<1>4. /\ Len(found) = IF Cardinality(P) < EvidenceLimit THEN Cardinality(P) ELSE EvidenceLimit
      /\ shown \subseteq P
      /\ Len(found) = EvidenceLimit \/ shown = P
      /\ \A x \in shown, y \in P \ shown : Precedes(x, y)
      /\ found # <<>> => /\ Head(found) \in P
                          /\ \A y \in P : y = Head(found) \/ Precedes(Head(found), y)
      /\ found = <<>> => P = {}
  <2>1. /\ Len(found) = IF Cardinality(P) < EvidenceLimit THEN Cardinality(P)
                         ELSE EvidenceLimit
        /\ shown \subseteq P
        /\ Len(found) = EvidenceLimit \/ shown = P
        /\ \A x \in shown, y \in P \ shown : Precedes(x, y)
        /\ found # <<>> => /\ Head(found) \in P
                            /\ \A y \in P : y = Head(found) \/ Precedes(Head(found), y)
        /\ found = <<>> => EvidenceLimit = 0 \/ P = {}
    BY ShownFirst, Zenon
  <2>2. EvidenceLimit # 0
    BY <1>1
  <2> HIDE DEF P, found, shown
  <2> QED
    BY <2>1, <2>2
<1>5. /\ asked \subseteq Ids
      /\ \A i \in asked : evidence[i].day \in Int /\ evidence[i].score \in Int /\ i \in Int
      /\ day \in Int
  <2>1. day \in 0..MaxDays /\ 0..MaxDays \subseteq Int
    BY DEF TypeOK
  <2> QED
    BY <2>1, TimesAndScores
<1> HIDE DEF found, shown, P, asked
<1>6. shown \subseteq asked /\ (Len(found) = EvidenceLimit \/ shown = asked)
  <2>1. CASE Len(found) = EvidenceLimit
    BY <1>3, <1>4, <2>1
  <2>2. CASE Len(found) # EvidenceLimit
    <3>1. shown = P /\ Cardinality(P) < EvidenceLimit
      BY <1>1, <1>3, <1>4, <2>2
    <3>2. Cardinality(P) # Pool
      BY <1>1, <1>3, <3>1
    <3> QED
      BY <1>3, <3>1, <3>2
  <2> QED
    BY <2>1, <2>2
<1>7. \A i \in shown, j \in asked \ shown : Precedes(i, j)
  BY <1>3, <1>4
<1>8. v.has_recent_evidence <=> \E i \in asked : evidence[i].day >= day - RecentEvidence
  <2>1. CASE found = <<>>
    <3>1. P = {} /\ asked = {}
      BY <1>1, <1>3, <1>4, <2>1
    <3> QED
      BY <1>2, <2>1, <3>1
  <2>2. CASE found # <<>>
    <3> DEFINE h == Head(found)
    <3>1. h \in asked /\ \A y \in asked : y = h \/ Precedes(h, y)
      BY <1>3, <1>4, <2>2
    <3> HIDE DEF h
    <3>2. \A y \in asked : evidence[y].day <= evidence[h].day
      BY <1>5, <3>1 DEF Precedes
    <3>3. v.has_recent_evidence = (day - evidence[h].day <= RecentEvidence)
      BY <1>2, <2>2 DEF h
    <3>4. (day - evidence[h].day <= RecentEvidence)
          <=> \E i \in asked : evidence[i].day >= day - RecentEvidence
      BY <1>1, <1>5, <3>1, <3>2
    <3> QED
      BY <3>3, <3>4
  <2> QED
    BY <2>1, <2>2
<1> QED
  BY <1>2, <1>6, <1>7, <1>8 DEF shown, asked

\* retrieval.py, "Deterministic ordering".  However much has been filed and whatever
\* is asked, the view shows of it the newest and strongest up to the limit.
THEOREM ViewAlwaysShowsTheLatest == Spec => []ViewShowsTheLatest
<1>1. TypeOK => ViewShowsTheLatest
  <2> SUFFICES ASSUME TypeOK, EvidenceLimit > 0, NEW q \in Questions
               PROVE  LET v == Build(q)
                          asked == {i \in Ids : Matches(q, i)}
                          shown == ToSet(v.evidence)
                      IN  /\ shown \subseteq asked
                          /\ Len(v.evidence) = EvidenceLimit \/ shown = asked
                          /\ \A i \in shown, j \in asked \ shown : Precedes(i, j)
                          /\ v.has_recent_evidence <=>
                                 \E i \in asked : evidence[i].day >= day - RecentEvidence
    BY Zenon DEF ViewShowsTheLatest
  <2>1. q \in Question
    BY ViewAssumption DEF ViewAssumption
  <2> QED
    BY <2>1, ViewAssumption, ViewIsRight, Zenon
<1> QED
  BY <1>1, TypeCorrect, PTL

=============================================================================
