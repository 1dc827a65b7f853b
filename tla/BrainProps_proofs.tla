------------------------- MODULE BrainProps_proofs -------------------------
(***************************************************************************)
(* For any texts, tools, identity, plans and limits: a tool runs only in a *)
(* cycle nothing stood against, RISK mode is left by the operator alone,   *)
(* the accounts of the monitor, the session and the run agree, and a run   *)
(* stays in its budget and takes its plan's steps once each and in order.  *)
(***************************************************************************)
EXTENDS BrainProps, FiniteSetTheorems, SequenceTheorems, TLAPS

Actions == {"report", "escalation", "tool_call", "no_action"}

\* A decision earns its tool call: either an escalation comes before it, or
\* nothing was inhibited.
Earned(d, s, m) ==
  \A n \in DOMAIN d.actions :
    d.actions[n] = "tool_call" =>
      \/ \E i \in 1..(n - 1) : d.actions[i] = "escalation"
      \/ /\ d.inhibited = {}
         /\ ~(s.risk > AutonomyCeiling[m])
         /\ ~(s.confidence < ConfidenceFloor[m])

\* Two sequences of one make a sequence of two.
LEMMA PairOfSingletons ==
  ASSUME NEW S, NEW a \in S, NEW b \in S
  PROVE  <<a>> \o <<b>> = <<a, b>>
<1>1. <<a>> \in Seq(S) /\ <<b>> \in Seq(S)
  OBVIOUS
<1>2. <<a, b>> \in Seq(S) /\ Len(<<a, b>>) = 2 /\ <<a, b>>[1] = a /\ <<a, b>>[2] = b
  OBVIOUS
<1>3. <<a>> \o <<b>> \in Seq(S) /\ Len(<<a>> \o <<b>>) = 2
  BY <1>1, ConcatProperties
<1>4. (<<a>> \o <<b>>)[1] = a /\ (<<a>> \o <<b>>)[2] = b
  BY <1>1, ConcatProperties
<1>5. \A i \in 1..2 : i = 1 \/ i = 2
  OBVIOUS
<1> QED BY <1>2, <1>3, <1>4, <1>5, SeqEqual

\* The executive chooses a few actions: an escalation first if one is required,
\* and a tool call alone only if nothing is inhibited
\* (executive/__init__.py:25-102).
LEMMA DecideChooses ==
  ASSUME NEW p, NEW s, NEW hits, NEW m, NEW effect
  PROVE  LET d == Decide(p, s, hits, m, effect)
         IN /\ d.effect = effect
            /\ d.actions \in {<<"no_action">>, <<"escalation">>, <<"tool_call">>, <<"report">>,
                              <<"escalation", "tool_call">>, <<"escalation", "report">>}
            /\ d.actions = <<"tool_call">> => /\ d.inhibited = {}
                                              /\ ~(s.risk > AutonomyCeiling[m])
                                              /\ ~(s.confidence < ConfidenceFloor[m])
            /\ effect = "require_approval" => d.actions[1] = "escalation"
            /\ IsFiniteSet(d.inhibited)
<1> DEFINE unsure == s.confidence < ConfidenceFloor[m]
           risky  == s.risk > AutonomyCeiling[m]
           asked  == IF effect = "require_approval" THEN <<"escalation">> ELSE <<>>
           wanted == IF effect = "deny" THEN <<>> ELSE DetermineActions(p.intent)
           chosen == IF risky \/ (unsure /\ wanted = <<"tool_call">>)
                       THEN <<"escalation">> ELSE asked \o wanted
           Why(b, w) == IF b THEN {w} ELSE {}
           d == Decide(p, s, hits, m, effect)
<1>1. d.actions = IF chosen = <<>> THEN <<"no_action">> ELSE chosen
  BY DEF Decide
<1>2. d.inhibited = Why(effect = "deny", "policy_deny")
                    \cup Why(effect = "require_approval", "needs_approval")
                    \cup Why(unsure, "low_confidence")
                    \cup Why(risky, "risk_exceeds_autonomy")
  BY DEF Decide
<1>3. wanted \in {<<>>, <<"tool_call">>, <<"report">>}
  BY DEF DetermineActions
<1>4. asked \in {<<>>, <<"escalation">>}
  OBVIOUS
<1>a. \A a \in {<<>>, <<"escalation">>}, w \in {<<>>, <<"tool_call">>, <<"report">>} :
         /\ a \o w \in {<<>>, <<"escalation">>, <<"tool_call">>, <<"report">>,
                       <<"escalation", "tool_call">>, <<"escalation", "report">>}
         /\ a \o w = <<"tool_call">> => a = <<>> /\ w = <<"tool_call">>
  <2>1. <<>> \o <<>> = <<>> /\ <<>> \o <<"tool_call">> = <<"tool_call">>
        /\ <<>> \o <<"report">> = <<"report">>
    OBVIOUS
  <2>2. <<"escalation">> \o <<>> = <<"escalation">>
    BY <<"escalation">> \in Seq(Actions), ConcatEmptySeq DEF Actions
  <2>5. <<"escalation">> \o <<"tool_call">> = <<"escalation", "tool_call">>
    BY "escalation" \in Actions, "tool_call" \in Actions, "report" \in Actions, PairOfSingletons, Zenon DEF Actions
  <2>6. <<"escalation">> \o <<"report">> = <<"escalation", "report">>
    BY "escalation" \in Actions, "tool_call" \in Actions, "report" \in Actions, PairOfSingletons, Zenon DEF Actions
  <2>3. <<"escalation">> # <<"tool_call">> /\ <<>> # <<"tool_call">>
        /\ <<"report">> # <<"tool_call">>
    OBVIOUS
  <2>4. <<"escalation", "tool_call">> # <<"tool_call">>
        /\ <<"escalation", "report">> # <<"tool_call">>
    OBVIOUS
  <2> QED BY <2>1, <2>2, <2>3, <2>4, <2>5, <2>6, Zenon
<1>5. chosen \in {<<>>, <<"escalation">>, <<"tool_call">>, <<"report">>,
                  <<"escalation", "tool_call">>, <<"escalation", "report">>}
  <2> HIDE DEF asked, wanted, risky, unsure
  <2> QED BY <1>3, <1>4, <1>a, Zenon
<1>6. chosen = <<"tool_call">> => ~risky /\ ~unsure /\ asked = <<>> /\ wanted = <<"tool_call">>
  <2>1. <<"escalation">> # <<"tool_call">>
    OBVIOUS
  <2> HIDE DEF asked, wanted, risky, unsure
  <2> QED BY <1>3, <1>4, <1>a, <2>1, Zenon
<1>7. chosen = <<"tool_call">> => d.inhibited = {}
  BY <1>2, <1>6
<1>8. d.actions \in {<<"no_action">>, <<"escalation">>, <<"tool_call">>, <<"report">>,
                     <<"escalation", "tool_call">>, <<"escalation", "report">>}
  <2> HIDE DEF chosen
  <2> QED BY <1>1, <1>5
<1>9. d.actions = <<"tool_call">> => chosen = <<"tool_call">>
  <2> HIDE DEF chosen
  <2> QED BY <1>1, <1>5
<1>10. effect = "require_approval" => d.actions[1] = "escalation"
  <2> SUFFICES ASSUME effect = "require_approval" PROVE d.actions[1] = "escalation"
    OBVIOUS
  <2>1. asked = <<"escalation">> /\ wanted \in {<<"tool_call">>, <<"report">>}
    BY DEF DetermineActions
  <2>2. "escalation" \in Actions /\ "tool_call" \in Actions /\ "report" \in Actions
    BY DEF Actions
  <2>3. asked \o wanted \in {<<"escalation", "tool_call">>, <<"escalation", "report">>}
    <3> HIDE DEF asked, wanted
    <3> QED BY <2>1, <2>2, PairOfSingletons, Zenon
  <2>4. chosen \in {<<"escalation">>, <<"escalation", "tool_call">>, <<"escalation", "report">>}
    <3> HIDE DEF asked, wanted, risky, unsure
    <3> QED BY <2>3, Zenon
  <2>5. chosen[1] = "escalation" /\ chosen # <<>>
    <3> HIDE DEF chosen
    <3> QED BY <2>4
  <2> HIDE DEF chosen
  <2> QED BY <1>1, <2>5
<1>11. IsFiniteSet(d.inhibited)
  <2>1. /\ IsFiniteSet(Why(effect = "deny", "policy_deny"))
        /\ IsFiniteSet(Why(effect = "require_approval", "needs_approval"))
        /\ IsFiniteSet(Why(unsure, "low_confidence"))
        /\ IsFiniteSet(Why(risky, "risk_exceeds_autonomy"))
    BY FS_EmptySet, FS_Singleton
  <2> HIDE DEF Why, d
  <2>2. IsFiniteSet(Why(effect = "deny", "policy_deny")
                    \cup Why(effect = "require_approval", "needs_approval"))
    BY <2>1, FS_Union
  <2>3. IsFiniteSet(Why(effect = "deny", "policy_deny")
                    \cup Why(effect = "require_approval", "needs_approval")
                    \cup Why(unsure, "low_confidence"))
    BY <2>1, <2>2, FS_Union
  <2>4. IsFiniteSet(Why(effect = "deny", "policy_deny")
                    \cup Why(effect = "require_approval", "needs_approval")
                    \cup Why(unsure, "low_confidence")
                    \cup Why(risky, "risk_exceeds_autonomy"))
    BY <2>1, <2>3, FS_Union
  <2> QED BY <1>2, <2>4
<1>12. d.effect = effect
  BY DEF Decide
<1>13. d.actions = <<"tool_call">> => d.inhibited = {} /\ ~risky /\ ~unsure
  BY <1>6, <1>7, <1>9
<1> HIDE DEF chosen, asked, wanted, Why
<1> QED BY <1>8, <1>10, <1>11, <1>12, <1>13

\* It earns every tool call it chooses (executive/__init__.py:25-102).
LEMMA DecideEarns ==
  ASSUME NEW p, NEW s, NEW hits, NEW m, NEW effect
  PROVE  LET d == Decide(p, s, hits, m, effect)
         IN d.actions \in Seq(Actions) /\ Earned(d, s, m)
<1> DEFINE d == Decide(p, s, hits, m, effect)
           calm == /\ ~(s.risk > AutonomyCeiling[m])
                   /\ ~(s.confidence < ConfidenceFloor[m])
<1>1. /\ d.actions \in {<<"no_action">>, <<"escalation">>, <<"tool_call">>, <<"report">>,
                       <<"escalation", "tool_call">>, <<"escalation", "report">>}
      /\ d.actions = <<"tool_call">> => d.inhibited = {} /\ calm
  BY DecideChooses
<1> HIDE DEF d, calm
<1>2. d.actions \in Seq(Actions)
  <2>1. <<"no_action">> \in Seq(Actions) /\ <<"escalation">> \in Seq(Actions)
    BY DEF Actions
  <2>2. <<"tool_call">> \in Seq(Actions) /\ <<"report">> \in Seq(Actions)
    BY DEF Actions
  <2>3. <<"escalation", "tool_call">> \in Seq(Actions)
    BY DEF Actions
  <2>4. <<"escalation", "report">> \in Seq(Actions)
    BY DEF Actions
  <2> QED BY <1>1, <2>1, <2>2, <2>3, <2>4, Zenon
<1>3. Earned(d, s, m)
  <2> SUFFICES ASSUME NEW n \in DOMAIN d.actions, d.actions[n] = "tool_call"
               PROVE  \/ \E i \in 1..(n - 1) : d.actions[i] = "escalation"
                      \/ d.inhibited = {} /\ calm
    BY DEF Earned, calm
  <2>1. d.actions = <<"escalation", "tool_call">> => n = 2 /\ d.actions[1] = "escalation"
    OBVIOUS
  <2> QED BY <1>1, <2>1
<1> QED BY <1>2, <1>3 DEF d

-----------------------------------------------------------------------------
(* What stage a cycle is in says what it has been through. *)

Outcome == [type : Actions, ok : BOOLEAN, empty : BOOLEAN,
            why : Refusals \cup ToolErrors \cup {"none"}, started : BOOLEAN]

TraceFields == {"text", "p", "s", "verdict", "decision", "grounded", "halted", "results"}

Unhalted(t) == t.halted = "no" /\ t.verdict \in {"pass", "sanitize"}

\* The actions so far are the chosen ones, and no escalation is among them.
Pursues(t) ==
  /\ t.decision.actions \in Seq(Actions)
  /\ t.results \in Seq(Outcome)
  /\ Len(t.results) < Len(t.decision.actions)
  /\ \A i \in 1..Len(t.results) :
       t.results[i].type = t.decision.actions[i] /\ t.results[i].type # "escalation"

Cycle(c) ==
  LET t == c.trace
  IN /\ DOMAIN c = {"pc", "meta", "trace"} /\ DOMAIN t = TraceFields
     /\ c.pc \in {"reflex", "think", "act", "end"}
     /\ Started(t) => Licensed(c)
     /\ c.pc = "reflex" => /\ t.results = <<>> /\ t.halted = "no"
                           /\ t.s.confidence \in Int /\ t.s.confidence >= 50
     /\ c.pc = "think"  => t.results = <<>> /\ Unhalted(t)
     /\ c.pc = "act"    => Unhalted(t) /\ Pursues(t) /\ Earned(t.decision, t.s, mode)

CycleInv == call # Idle => Cycle(call)

\* The layers of the tool's guards let nothing through that they refuse
\* (action/__init__.py:105-129).
LEMMA UnrefusedIsAllowed ==
  ASSUME NEW tool, NEW confirmed, NEW bad, NEW m,
         Refusal(tool, confirmed, bad, m) = "none"
  PROVE  /\ confirmed \/ ~(tool.needsApproval \/ (m = "risk" /\ tool.op \in Guarded))
         /\ m = "autonomous" => tool.autonomous
BY DEF Refusal

\* The two ways to report an outcome.
LEMMA SucceededOutcome ==
  ASSUME NEW a \in Actions, NEW e \in BOOLEAN, NEW b \in BOOLEAN
  PROVE  LET r == Succeeded(a, e, b) IN r \in Outcome /\ r.type = a /\ r.started = b
<1>1. "none" \in Refusals \cup ToolErrors \cup {"none"}
  OBVIOUS
<1> QED BY <1>1 DEF Succeeded, Outcome

\* A failed outcome is a tool call.
LEMMA FailedOutcome ==
  ASSUME NEW w \in Refusals \cup ToolErrors, NEW b \in BOOLEAN
  PROVE  LET r == Failed(w, b) IN r \in Outcome /\ r.type = "tool_call" /\ r.started = b
<1>1. w \in Refusals \cup ToolErrors \cup {"none"}
  OBVIOUS
<1>2. "tool_call" \in Actions
  BY DEF Actions
<1> QED BY <1>1, <1>2 DEF Failed, Outcome

\* An action comes to an outcome of its type, and starts something only if it
\* is the call of a tool no guard refuses (action/__init__.py:71-150).
LEMMA OutcomeOfAction ==
  ASSUME NEW a \in Actions, NEW meta, NEW r \in Outcomes(a, meta)
  PROVE  /\ r \in Outcome
         /\ r.type = a
         /\ r.started => /\ a = "tool_call"
                         /\ ~meta.dry
                         /\ Refusal(Tools[meta.tool], meta.confirmed, meta.bad, mode) = "none"
<1> DEFINE no == Refusal(Tools[meta.tool], meta.confirmed, meta.bad, mode)
<1>1. CASE a # "tool_call"
  <2>1. r = Succeeded(a, FALSE, FALSE)
    BY <1>1 DEF Outcomes
  <2> QED BY <2>1, SucceededOutcome, Zenon
<1>2. CASE a = "tool_call"
  <2>1. no \in Refusals \cup {"none"}
    BY DEF Refusal, Refusals
  <2>2. \/ r = Failed("unknown_tool", FALSE)
        \/ no # "none" /\ r = Failed(no, FALSE)
        \/ r = Succeeded("tool_call", FALSE, FALSE)
        \/ no = "none" /\ ~meta.dry /\ \E e \in BOOLEAN : r = Succeeded("tool_call", e, TRUE)
        \/ no = "none" /\ ~meta.dry /\ \E w \in ToolErrors : r = Failed(w, TRUE)
    <3> HIDE DEF no
    <3>1. r \in ToolOutcomes(meta)
      BY <1>2 DEF Outcomes
    <3> QED BY <3>1, Zenon DEF ToolOutcomes, no
  <2> HIDE DEF no
  <2>3. CASE r = Failed("unknown_tool", FALSE)
    <3>1. "unknown_tool" \in Refusals \cup ToolErrors
      BY DEF Refusals
    <3> QED BY <1>2, <2>3, <3>1, FailedOutcome, Zenon
  <2>4. CASE no # "none" /\ r = Failed(no, FALSE)
    <3>1. no \in Refusals \cup ToolErrors
      BY <2>1, <2>4
    <3> QED BY <1>2, <2>4, <3>1, FailedOutcome, Zenon
  <2>5. CASE r = Succeeded("tool_call", FALSE, FALSE)
    BY <1>2, <2>5, SucceededOutcome, Zenon
  <2>6. CASE no = "none" /\ ~meta.dry /\ \E e \in BOOLEAN : r = Succeeded("tool_call", e, TRUE)
    <3>1. PICK e \in BOOLEAN : r = Succeeded("tool_call", e, TRUE)
      BY <2>6
    <3> QED BY <1>2, <2>6, <3>1, SucceededOutcome, Zenon DEF no
  <2>7. CASE no = "none" /\ ~meta.dry /\ \E w \in ToolErrors : r = Failed(w, TRUE)
    <3>1. PICK w \in ToolErrors : r = Failed(w, TRUE)
      BY <2>7
    <3>2. w \in Refusals \cup ToolErrors
      OBVIOUS
    <3> QED BY <1>2, <2>7, <3>1, <3>2, FailedOutcome, Zenon DEF no
  <2> QED BY <2>2, <2>3, <2>4, <2>5, <2>6, <2>7, Zenon
<1> QED BY <1>1, <1>2

\* A tool that starts does so in a licensed cycle (pipeline.py:201-245).
LEMMA StartIsLicensed ==
  ASSUME NEW c, NEW n, NEW r,
         Unhalted(c.trace), Pursues(c.trace), Earned(c.trace.decision, c.trace.s, mode),
         n = Len(c.trace.results) + 1,
         r \in Outcomes(c.trace.decision.actions[n], c.meta),
         r.started
  PROVE  Licensed(c)
<1> DEFINE t == c.trace
           a == t.decision.actions[n]
<1>1. /\ Len(t.results) \in Nat /\ Len(t.decision.actions) \in Nat
      /\ DOMAIN t.decision.actions = 1..Len(t.decision.actions)
  BY LenProperties DEF Pursues
<1>2. n \in DOMAIN t.decision.actions /\ 1..(n - 1) = 1..Len(t.results)
  BY <1>1 DEF Pursues
<1>3. a \in Actions
  BY <1>1, <1>2, ElementOfSeq DEF Pursues
<1>4. a = "tool_call" /\ ~c.meta.dry
      /\ Refusal(Tools[c.meta.tool], c.meta.confirmed, c.meta.bad, mode) = "none"
  BY <1>3, OutcomeOfAction
<1>5. ~ \E i \in 1..(n - 1) : t.decision.actions[i] = "escalation"
  BY <1>2, Zenon DEF Pursues
<1>6. /\ t.decision.inhibited = {}
      /\ ~(t.s.risk > AutonomyCeiling[mode]) /\ ~(t.s.confidence < ConfidenceFloor[mode])
  BY <1>2, <1>4, <1>5, Zenon DEF Earned
<1>7. /\ c.meta.confirmed \/ ~(Tools[c.meta.tool].needsApproval
                                \/ (mode = "risk" /\ Tools[c.meta.tool].op \in Guarded))
      /\ mode = "autonomous" => Tools[c.meta.tool].autonomous
  BY <1>4, UnrefusedIsAllowed, Zenon
<1> QED BY <1>4, <1>6, <1>7, Zenon DEF Licensed, Unhalted

\* Confidence starts at a half and only rises (attention/__init__.py:87-97).
LEMMA ConfidenceIsHigh ==
  ASSUME NEW p, NEW m
  PROVE  /\ ScoreSalience(p, m).confidence \in Int
         /\ ScoreSalience(p, m).confidence >= 50
<1>1. ComputeConfidence(p) \in Int /\ ComputeConfidence(p) >= 50
  BY DEF ComputeConfidence
<1>2. ScoreSalience(p, m).confidence = ComputeConfidence(p)
  BY DEF ScoreSalience
<1> QED BY <1>1, <1>2

\* A new cycle (pipeline.py:71-111).
LEMMA SenseKeepsCycle ==
  ASSUME NEW t, NEW meta, Sense(t, meta)
  PROVE  CycleInv' /\ mode' = mode
<1> DEFINE sig == SignalOf[t]
           p   == Perceive(sig.seen, DefaultTrust[sig.source])
<1>1. call' = [pc |-> "reflex", meta |-> meta,
               trace |-> [text |-> t, p |-> p, s |-> ScoreSalience(p, mode), verdict |-> "pass",
                          decision |-> NoDecision, grounded |-> FALSE, halted |-> "no",
                          results |-> <<>>]]
  BY DEF Sense
<1>2. mode' = mode
  BY DEF Sense
<1> HIDE DEF p
<1>3. /\ call'.pc = "reflex" /\ DOMAIN call' = {"pc", "meta", "trace"}
      /\ DOMAIN call'.trace = TraceFields
      /\ call'.trace.results = <<>> /\ call'.trace.halted = "no"
      /\ call'.trace.s = ScoreSalience(p, mode)
  BY <1>1 DEF TraceFields
<1>4. ~ Started(call'.trace)
  BY <1>3 DEF Started
<1>5. call'.trace.s.confidence \in Int /\ call'.trace.s.confidence >= 50
  BY <1>3, ConfidenceIsHigh
<1> QED BY <1>2, <1>3, <1>4, <1>5 DEF CycleInv, Cycle

\* The reflexes, and the one place where a cycle changes the mode
\* (pipeline.py:113-152).
LEMMA ReflexKeepsCycle ==
  ASSUME CycleInv, Reflex
  PROVE  CycleInv' /\ (mode = "risk" => mode' = "risk")
<1> DEFINE t == call.trace
           m == AutoEscalate(mode, t.s)
<1>1. /\ DOMAIN call = {"pc", "meta", "trace"} /\ DOMAIN t = TraceFields
      /\ t.results = <<>> /\ t.halted = "no" /\ t.s.confidence \in Int /\ t.s.confidence >= 50
  BY DEF CycleInv, Cycle, Reflex
<1>2. mode' = m
  BY DEF Reflex, Transition
<1>3. mode = "risk" => m = "risk"
  BY <1>1 DEF AutoEscalate
<1>4. PICK verdict, q, s :
        call' = [call EXCEPT !.trace.verdict = verdict, !.trace.p = q, !.trace.s = s,
                             !.trace.halted = HaltOf(verdict),
                             !.pc = IF HaltOf(verdict) = "no" THEN "think" ELSE "end"]
        /\ verdict \in {"block", "sanitize", "escalate", "route", "pass"}
  <2>1. PICK verdict \in {CheckReflexes(SignalOf[t.text], t.p.trust, t.s.risk, m)} :
          LET p == Perceive(SignalOf[t.text].kept, t.p.trust)
              cut == verdict = "sanitize"
          IN call' = [call EXCEPT !.trace.verdict = verdict,
                                  !.trace.p = IF cut THEN p ELSE @,
                                  !.trace.s = IF cut THEN ScoreSalience(p, m) ELSE @,
                                  !.trace.halted = HaltOf(verdict),
                                  !.pc = IF HaltOf(verdict) = "no" THEN "think" ELSE "end"]
    BY DEF Reflex
  <2>2. verdict \in {"block", "sanitize", "escalate", "route", "pass"}
    BY DEF CheckReflexes
  <2> QED BY <2>1, <2>2
<1>5. DOMAIN call' = {"pc", "meta", "trace"} /\ DOMAIN call'.trace = TraceFields
  BY <1>1, <1>4 DEF TraceFields
<1>6. call'.pc = IF HaltOf(verdict) = "no" THEN "think" ELSE "end"
  BY <1>1, <1>4
<1>7. call'.trace.results = <<>>
  BY <1>1, <1>4 DEF TraceFields
<1>8. call'.trace.halted = HaltOf(verdict) /\ call'.trace.verdict = verdict
  BY <1>1, <1>4 DEF TraceFields
<1>9. HaltOf(verdict) = "no" => verdict \in {"pass", "sanitize"}
  BY <1>4 DEF HaltOf
<1>10. ~ Started(call'.trace)
  BY <1>7 DEF Started
<1>11. call'.pc = "think" => Unhalted(call'.trace)
  BY <1>6, <1>8, <1>9 DEF Unhalted
<1>12. Cycle(call)'
  BY <1>5, <1>6, <1>7, <1>10, <1>11 DEF Cycle
<1> QED BY <1>2, <1>3, <1>12 DEF CycleInv

\* Thinking leaves a cycle at its end or with a decision to pursue
\* (pipeline.py:154-199).
LEMMA ThinkKeepsCycle ==
  ASSUME CycleInv, Think
  PROVE  CycleInv' /\ mode' = mode
<1> DEFINE t == call.trace
<1>1. /\ DOMAIN call = {"pc", "meta", "trace"} /\ DOMAIN t = TraceFields
      /\ t.results = <<>> /\ Unhalted(t)
  BY DEF CycleInv, Cycle, Think
<1>2. mode' = mode
  BY DEF Think
<1>3. PICK hits \in Recall, effect \in {CheckPolicy(Identity, t.p.op, t.p.cls, mode)} :
        LET d == Decide(t.p, t.s, hits, mode, effect)
            halted == IF FullyInhibited(d) THEN "executive_inhibition"
                      ELSE IF ~Reasons(d) THEN "exception"
                      ELSE "no"
        IN \E grounded \in Grounded(d, hits) :
             call' = [call EXCEPT !.trace.decision = d, !.trace.grounded = grounded,
                                  !.trace.halted = halted,
                                  !.pc = IF halted = "no" THEN "act" ELSE "end"]
  BY Zenon DEF Think
<1> DEFINE d == Decide(t.p, t.s, hits, mode, effect)
           halted == IF FullyInhibited(d) THEN "executive_inhibition"
                     ELSE IF ~Reasons(d) THEN "exception"
                     ELSE "no"
<1>4. d.actions \in Seq(Actions) /\ Earned(d, t.s, mode)
  BY DecideEarns
<1>5. d.actions # <<>>
  BY DEF Decide
<1>b. PICK grounded \in Grounded(d, hits) :
        call' = [call EXCEPT !.trace.decision = d, !.trace.grounded = grounded,
                             !.trace.halted = halted,
                             !.pc = IF halted = "no" THEN "act" ELSE "end"]
  BY <1>3
<1> HIDE DEF d, halted
<1>6. DOMAIN call' = {"pc", "meta", "trace"} /\ DOMAIN call'.trace = TraceFields
  BY <1>1, <1>b DEF TraceFields
<1>7. call'.pc = IF halted = "no" THEN "act" ELSE "end"
  BY <1>1, <1>b
<1>8. call'.trace.results = <<>> /\ call'.trace.s = t.s /\ call'.trace.verdict = t.verdict
  BY <1>1, <1>b DEF TraceFields
<1>9. call'.trace.halted = halted /\ call'.trace.decision = d
  BY <1>1, <1>b DEF TraceFields
<1>10. ~ Started(call'.trace)
  BY <1>8 DEF Started
<1>11. Pursues(call'.trace)
  <2>1. call'.trace.results \in Seq(Outcome) /\ Len(call'.trace.results) = 0
    BY <1>8, EmptySeq
  <2>2. Len(d.actions) \in Nat \ {0}
    BY <1>4, <1>5, EmptySeq
  <2> QED BY <1>4, <1>9, <2>1, <2>2 DEF Pursues
<1>12. call'.pc = "act" => Unhalted(call'.trace)
  BY <1>1, <1>7, <1>8, <1>9 DEF Unhalted
<1>13. Earned(call'.trace.decision, call'.trace.s, mode')
  BY <1>2, <1>4, <1>8, <1>9
<1>14. Cycle(call)'
  BY <1>6, <1>7, <1>10, <1>11, <1>12, <1>13 DEF Cycle
<1> QED BY <1>2, <1>14 DEF CycleInv

\* An action pursues the decision or is the last (pipeline.py:201-253).
LEMMA ActKeepsCycle ==
  ASSUME CycleInv, Act
  PROVE  CycleInv' /\ mode' = mode
<1> DEFINE t == call.trace
           n == Len(t.results) + 1
<1>1. /\ DOMAIN call = {"pc", "meta", "trace"} /\ DOMAIN t = TraceFields
      /\ Unhalted(t) /\ Pursues(t) /\ Earned(t.decision, t.s, mode)
      /\ Started(t) => Licensed(call)
  BY DEF CycleInv, Cycle, Act
<1>2. mode' = mode
  BY DEF Act
<1>outcome. PICK r \in Outcomes(t.decision.actions[n], call.meta) : \E fb :
        call' = [call EXCEPT !.trace.results = Append(@, r),
                             !.pc = IF Last(t, n, r, fb) THEN "end" ELSE "act"]
  BY DEF Act
<1>3. PICK fb :
        call' = [call EXCEPT !.trace.results = Append(@, r),
                             !.pc = IF Last(t, n, r, fb) THEN "end" ELSE "act"]
  BY <1>outcome
<1>4. /\ Len(t.results) \in Nat /\ Len(t.decision.actions) \in Nat
      /\ n \in 1..Len(t.decision.actions)
  BY <1>1, LenProperties DEF Pursues
<1>5. r \in Outcome /\ r.type = t.decision.actions[n]
  BY <1>1, <1>4, ElementOfSeq, OutcomeOfAction DEF Pursues
<1>6. DOMAIN call' = {"pc", "meta", "trace"} /\ DOMAIN call'.trace = TraceFields
  BY <1>1, <1>3 DEF TraceFields
<1>7. call'.pc = (IF Last(t, n, r, fb) THEN "end" ELSE "act") /\ call'.meta = call.meta
  BY <1>1, <1>3
<1>8. call'.trace.results = Append(t.results, r)
  BY <1>1, <1>3 DEF TraceFields
<1>9. /\ call'.trace.s = t.s /\ call'.trace.decision = t.decision
      /\ call'.trace.halted = t.halted /\ call'.trace.verdict = t.verdict
  BY <1>1, <1>3 DEF TraceFields
<1> DEFINE rs == Append(t.results, r)
<1>10. /\ rs \in Seq(Outcome) /\ Len(rs) = n /\ DOMAIN rs = 1..n
       /\ \A i \in 1..(n - 1) : rs[i] = t.results[i]
       /\ rs[n] = r
  BY <1>1, <1>4, <1>5, AppendProperties, LenProperties DEF Pursues
<1> HIDE DEF rs
<1>11. Licensed(call)' <=> Licensed(call)
  BY <1>2, <1>7, <1>9 DEF Licensed
<1>12. Started(call'.trace) => Licensed(call)
  <2> SUFFICES ASSUME NEW i \in DOMAIN rs, rs[i].started PROVE Licensed(call)
    BY <1>8 DEF Started, rs
  <2>1. CASE i = n
    BY <1>1, <1>3, <1>10, <2>1, StartIsLicensed
  <2>2. CASE i # n
    <3>1. i \in 1..(n - 1) /\ 1..(n - 1) = DOMAIN t.results
      BY <1>1, <1>4, <1>10, <2>2, LenProperties DEF Pursues
    <3>2. t.results[i].started
      BY <1>10, <3>1
    <3> QED BY <1>1, <3>1, <3>2 DEF Started
  <2> QED BY <2>1, <2>2
<1>13. ~Last(t, n, r, fb) => Pursues(call'.trace)
  <2> SUFFICES ASSUME ~Last(t, n, r, fb) PROVE Pursues(call'.trace)
    OBVIOUS
  <2>1. n < Len(t.decision.actions) /\ r.type # "escalation"
    BY <1>4 DEF Last
  <2>2. \A i \in 1..n : rs[i].type = t.decision.actions[i] /\ rs[i].type # "escalation"
    <3> SUFFICES ASSUME NEW i \in 1..n
                 PROVE  rs[i].type = t.decision.actions[i] /\ rs[i].type # "escalation"
      OBVIOUS
    <3>1. CASE i = n
      BY <1>5, <1>10, <2>1, <3>1
    <3>2. CASE i # n
      <4>1. i \in 1..(n - 1) /\ 1..(n - 1) = 1..Len(t.results)
        BY <1>4, <3>2
      <4> QED BY <1>1, <1>10, <4>1, Zenon DEF Pursues
    <3> QED BY <3>1, <3>2
  <2>3. t.decision.actions \in Seq(Actions)
    BY <1>1 DEF Pursues
  <2>4. call'.trace.results = rs /\ call'.trace.decision = t.decision
    BY <1>8, <1>9 DEF rs
  <2> HIDE DEF n
  <2> QED BY <1>10, <2>1, <2>2, <2>3, <2>4, Zenon DEF Pursues
<1>14. Unhalted(call'.trace)
  BY <1>1, <1>9 DEF Unhalted
<1>15. Earned(call'.trace.decision, call'.trace.s, mode')
  BY <1>1, <1>2, <1>9
<1>16. Cycle(call)'
  BY <1>6, <1>7, <1>11, <1>12, <1>13, <1>14, <1>15 DEF Cycle
<1> QED BY <1>2, <1>16 DEF CycleInv

-----------------------------------------------------------------------------
\* Every step keeps what is known of the cycle, and between two lines at the
\* prompt only a cycle's reflex changes the mode.
LEMMA StepKeepsCycle ==
  ASSUME CycleInv, [Next]_vars
  PROVE  /\ CycleInv'
         /\ mode = "risk" /\ mode' # "risk" => call = Idle /\ call' = Idle
<1>1. CASE Reflex
  BY <1>1, ReflexKeepsCycle
<1>2. CASE Think
  BY <1>2, ThinkKeepsCycle
<1>3. CASE Act
  BY <1>3, ActKeepsCycle
<1>4. ASSUME NEW t, NEW meta, Sense(t, meta)
      PROVE  CycleInv' /\ mode' = mode
  BY <1>4, SenseKeepsCycle
<1>5. CASE Finalize
  BY <1>5 DEF Finalize, CycleInv
<1>6. CASE UNCHANGED <<mode, call>>
  <2>1. Cycle(call)' <=> Cycle(call)
    BY <1>6 DEF Cycle, Licensed
  <2> QED BY <1>6, <2>1 DEF CycleInv
<1>7. ASSUME NEW m, SetMode(m)
      PROVE  CycleInv' /\ call = Idle /\ call' = Idle
  BY <1>7 DEF SetMode, AtPrompt, CycleInv
<1>8. CASE Machine
  <2>1. CASE Working
    BY <1>1, <1>2, <1>3, <2>1 DEF Working
  <2>2. CASE EndTurn
    BY <1>5, <2>2 DEF EndTurn
  <2>3. CASE BeginStep
    BY <1>4, <2>3 DEF BeginStep
  <2>4. CASE StopAtGuard
    BY <1>6, <2>4 DEF StopAtGuard, brainVars
  <2>5. CASE EndStep
    BY <1>5, <2>5 DEF EndStep
  <2>6. CASE EndRun
    BY <1>6, <2>6 DEF EndRun, brainVars
  <2> QED BY <1>8, <2>1, <2>2, <2>3, <2>4, <2>5, <2>6 DEF Machine
<1>9. CASE \E t \in TurnTexts, meta \in TurnMetas : Turn(t, meta)
  BY <1>4, <1>9 DEF Turn
<1>10. CASE \E i \in DOMAIN session.approvals :
              Resolve(i, "approved") \/ Resolve(i, "denied") \/ ApprovalExpires(i)
  BY <1>6, <1>10 DEF Resolve, ApprovalExpires, brainVars
<1>11. CASE \E m \in OperatorModes : SetMode(m)
  BY <1>7, <1>11
<1>12. CASE \E plan \in Plans, meta \in RunMetas : StartRun(plan, meta)
  BY <1>6, <1>12 DEF StartRun, brainVars
<1>13. CASE UNCHANGED vars
  BY <1>6, <1>13 DEF vars, brainVars
<1> QED BY <1>8, <1>9, <1>10, <1>11, <1>12, <1>13 DEF Next

\* At the start no cycle is under way.
LEMMA InitHasNoCycle == Init => CycleInv
BY DEF Init, BrainInit, CycleInv

\* Whatever is typed, approved, orchestrated or timed out, a tool's function is
\* called only in a cycle nothing stood against.
THEOREM LicensedAlways == Spec => []ToolsRunOnlyWithLicence
<1>1. CycleInv => ToolsRunOnlyWithLicence
  BY DEF CycleInv, Cycle, ToolsRunOnlyWithLicence
<1>2. CycleInv /\ [Next]_vars => CycleInv'
  BY StepKeepsCycle
<1> QED BY <1>1, <1>2, InitHasNoCycle, PTL DEF Spec

\* No cycle ever leaves RISK mode.
THEOREM RiskModeLeftByOperator == Spec => RiskModeIsLeftByTheOperator
<1>1. CycleInv /\ [Next]_vars => CycleInv'
  BY StepKeepsCycle
<1>2. CycleInv /\ [Next]_vars
        => [mode = "risk" /\ mode' # "risk" => call = Idle /\ call' = Idle]_vars
  BY StepKeepsCycle
<1> QED BY <1>1, <1>2, InitHasNoCycle, PTL DEF Spec, RiskModeIsLeftByTheOperator

-----------------------------------------------------------------------------
(* What the accounts count of a cycle and of a run. *)

IsSeq(s) == \E S : s \in Seq(S)

\* A count raises the counters it names.
LEMMA CountRaises ==
  ASSUME NEW d, Count(d), metrics \in [Counters -> Nat],
         DOMAIN d \subseteq Counters, \A c \in DOMAIN d : d[c] \in Nat
  PROVE  /\ metrics' \in [Counters -> Nat]
         /\ \A c \in DOMAIN d : metrics'[c] = metrics[c] + d[c]
         /\ \A c \in Counters \ DOMAIN d : metrics'[c] = metrics[c]
BY DEF Count

\* What has been counted of a cycle's trace.
Tallied(t) ==
  /\ t.results \in Seq(Outcome)
  /\ IsFiniteSet(t.decision.inhibited)
  /\ \A i \in DOMAIN t.results : \A j \in DOMAIN t.results :
       t.results[i].type = "tool_call" /\ t.results[j].type = "tool_call" => i = j

CycleTally(c) ==
  LET t == c.trace
  IN /\ Tallied(t)
     /\ c.pc \in {"reflex", "think"} => t.decision = NoDecision /\ t.results = <<>>
     /\ c.pc = "act" =>
          /\ \A i \in DOMAIN t.decision.actions : \A j \in DOMAIN t.decision.actions :
               t.decision.actions[i] = "tool_call" /\ t.decision.actions[j] = "tool_call" => i = j
          /\ AsksApproval(t) => t.decision.actions[1] = "escalation"

TallyInv == call # Idle => CycleTally(call)

\* A trace without results.
LEMMA NothingTallied ==
  ASSUME NEW t, t.results = <<>>, IsFiniteSet(t.decision.inhibited)
  PROVE  Tallied(t)
<1>1. t.results \in Seq(Outcome) /\ DOMAIN t.results = {}
  BY EmptySeq
<1> QED BY <1>1, Zenon DEF Tallied

\* A cycle begins with nothing decided and no result.
LEMMA SenseTallies ==
  ASSUME NEW t, NEW meta, Sense(t, meta)
  PROVE  /\ TallyInv' /\ call = Idle /\ call' # Idle /\ call'.trace.text = t
         /\ call'.pc = "reflex" /\ call'.trace.decision = NoDecision
         /\ call'.trace.results = <<>> /\ call'.trace.halted = "no"
<1> DEFINE sig == SignalOf[t]
           p   == Perceive(sig.seen, DefaultTrust[sig.source])
           s   == ScoreSalience(p, mode)
<1>1. call' = [pc |-> "reflex", meta |-> meta,
               trace |-> [text |-> t, p |-> p, s |-> s, verdict |-> "pass",
                          decision |-> NoDecision, grounded |-> FALSE, halted |-> "no",
                          results |-> <<>>]]
  BY DEF Sense
<1> HIDE DEF p, s
<1>2. /\ call'.pc = "reflex" /\ call'.trace.results = <<>> /\ call'.trace.text = t
      /\ call'.trace.decision = NoDecision /\ call'.trace.halted = "no"
  BY <1>1
<1>3. call' # Idle
  BY <1>2 DEF Idle
<1>4. IsFiniteSet(call'.trace.decision.inhibited)
  BY <1>2, FS_EmptySet DEF NoDecision
<1>5. Tallied(call'.trace)
  BY <1>2, <1>4, NothingTallied
<1>6. call = Idle
  BY DEF Sense
<1>7. TallyInv'
  BY <1>2, <1>5 DEF TallyInv, CycleTally
<1> QED BY <1>2, <1>3, <1>6, <1>7

\* The reflexes decide nothing; they may block or escalate.
LEMMA ReflexTallies ==
  ASSUME CycleInv, TallyInv, Reflex
  PROVE  /\ TallyInv' /\ call # Idle /\ call' # Idle /\ call'.pc \in {"think", "end"}
         /\ call'.trace.text = call.trace.text
         /\ call'.trace.results = <<>> /\ call'.trace.decision = NoDecision
         /\ call.trace.results = <<>> /\ call.trace.decision = NoDecision
         /\ call.trace.halted = "no"
         /\ \E v : /\ call'.trace.halted = HaltOf(v)
                   /\ Count([transitions |-> One(mode' # mode), blocks |-> One(v = "block"),
                             escalations |-> One(v = "escalate")])
<1> DEFINE t == call.trace
           m == AutoEscalate(mode, t.s)
<1>1. /\ DOMAIN call = {"pc", "meta", "trace"} /\ DOMAIN t = TraceFields
      /\ t.results = <<>> /\ t.halted = "no" /\ call # Idle /\ call.pc = "reflex"
  BY DEF CycleInv, Cycle, Reflex
<1>2. t.decision = NoDecision
  BY <1>1 DEF TallyInv, CycleTally
<1>3. mode' = m
  BY DEF Reflex, Transition
<1>4. PICK v, q, s :
        /\ call' = [call EXCEPT !.trace.verdict = v, !.trace.p = q, !.trace.s = s,
                             !.trace.halted = HaltOf(v),
                             !.pc = IF HaltOf(v) = "no" THEN "think" ELSE "end"]
        /\ Count([transitions |-> One(m # mode), blocks |-> One(v = "block"),
                  escalations |-> One(v = "escalate")])
  <2>1. PICK v \in {CheckReflexes(SignalOf[t.text], t.p.trust, t.s.risk, m)} :
          /\ LET p == Perceive(SignalOf[t.text].kept, t.p.trust)
                 cut == v = "sanitize"
             IN call' = [call EXCEPT !.trace.verdict = v,
                                  !.trace.p = IF cut THEN p ELSE @,
                                  !.trace.s = IF cut THEN ScoreSalience(p, m) ELSE @,
                                  !.trace.halted = HaltOf(v),
                                  !.pc = IF HaltOf(v) = "no" THEN "think" ELSE "end"]
          /\ Count([transitions |-> One(m # mode), blocks |-> One(v = "block"),
                    escalations |-> One(v = "escalate")])
    BY Zenon DEF Reflex
  <2> QED BY <2>1
<1>5. call'.pc = IF HaltOf(v) = "no" THEN "think" ELSE "end"
  BY <1>1, <1>4
<1>6. call'.trace.results = <<>> /\ call'.trace.halted = HaltOf(v)
      /\ call'.trace.decision = NoDecision /\ call'.trace.text = t.text
  BY <1>1, <1>2, <1>4 DEF TraceFields
<1>7. call' # Idle
  BY <1>5 DEF Idle
<1>8. IsFiniteSet(call'.trace.decision.inhibited)
  BY <1>6, FS_EmptySet DEF NoDecision
<1>9. Tallied(call'.trace)
  BY <1>6, <1>8, NothingTallied
<1>10. TallyInv'
  BY <1>5, <1>6, <1>9 DEF TallyInv, CycleTally
<1>11. Count([transitions |-> One(mode' # mode), blocks |-> One(v = "block"),
              escalations |-> One(v = "escalate")])
  BY <1>3, <1>4
<1> QED BY <1>1, <1>2, <1>5, <1>6, <1>7, <1>10, <1>11

\* A decision is counted, and asks for approval with an escalation.
LEMMA ThinkTallies ==
  ASSUME CycleInv, TallyInv, Think
  PROVE  /\ TallyInv' /\ call # Idle /\ call' # Idle /\ call'.pc \in {"act", "end"}
         /\ call'.trace.text = call.trace.text
         /\ call'.trace.results = <<>> /\ call.trace.results = <<>>
         /\ call.trace.decision = NoDecision
         /\ call.trace.halted = "no" /\ ~HaltEscalates(call'.trace)
         /\ \E n \in {0, 1} :
              /\ Count([inhibitions |-> Cardinality(call'.trace.decision.inhibited),
                        errors |-> n])
              /\ call'.pc = "end" /\ AsksApproval(call'.trace) => n = 1
         /\ UNCHANGED <<mode, modeLog>>
<1> DEFINE t == call.trace
<1>1. /\ DOMAIN call = {"pc", "meta", "trace"} /\ DOMAIN t = TraceFields
      /\ t.results = <<>> /\ t.halted = "no" /\ call # Idle /\ call.pc = "think"
  BY DEF CycleInv, Cycle, Think, Unhalted
<1>2. t.decision = NoDecision
  BY <1>1 DEF TallyInv, CycleTally
<1>3. PICK hits \in Recall, effect \in {CheckPolicy(Identity, t.p.op, t.p.cls, mode)} :
        LET d == Decide(t.p, t.s, hits, mode, effect)
            halted == IF FullyInhibited(d) THEN "executive_inhibition"
                      ELSE IF ~Reasons(d) THEN "exception"
                      ELSE "no"
        IN /\ \E grounded \in Grounded(d, hits) :
                call' = [call EXCEPT !.trace.decision = d, !.trace.grounded = grounded,
                                  !.trace.halted = halted,
                                  !.pc = IF halted = "no" THEN "act" ELSE "end"]
           /\ Count([inhibitions |-> Cardinality(d.inhibited),
                     errors |-> One(halted = "exception")])
  BY Zenon DEF Think
<1> DEFINE d == Decide(t.p, t.s, hits, mode, effect)
           halted == IF FullyInhibited(d) THEN "executive_inhibition"
                     ELSE IF ~Reasons(d) THEN "exception"
                     ELSE "no"
<1>4. PICK grounded \in Grounded(d, hits) :
        call' = [call EXCEPT !.trace.decision = d, !.trace.grounded = grounded,
                             !.trace.halted = halted,
                             !.pc = IF halted = "no" THEN "act" ELSE "end"]
  BY <1>3
<1>5. Count([inhibitions |-> Cardinality(d.inhibited), errors |-> One(halted = "exception")])
  BY <1>3
<1>6. /\ d.actions \in {<<"no_action">>, <<"escalation">>, <<"tool_call">>, <<"report">>,
                        <<"escalation", "tool_call">>, <<"escalation", "report">>}
      /\ d.effect = "require_approval" => d.actions[1] = "escalation"
      /\ IsFiniteSet(d.inhibited)
  BY DecideChooses
<1> HIDE DEF d
<1>7. d.effect = "require_approval" => halted # "executive_inhibition"
  <2>1. d.actions = <<"no_action">> => d.actions[1] # "escalation"
    OBVIOUS
  <2> QED BY <1>6, <2>1 DEF FullyInhibited
<1>8. halted \in {"no", "exception", "executive_inhibition"}
  OBVIOUS
<1>9. \A i \in DOMAIN d.actions : \A j \in DOMAIN d.actions :
         d.actions[i] = "tool_call" /\ d.actions[j] = "tool_call" => i = j
  BY <1>6
<1> HIDE DEF halted
<1>10. call'.pc = IF halted = "no" THEN "act" ELSE "end"
  BY <1>1, <1>4
<1>11. /\ call'.trace.results = <<>> /\ call'.trace.halted = halted
       /\ call'.trace.decision = d /\ call'.trace.text = t.text
  BY <1>1, <1>4 DEF TraceFields
<1>12. call' # Idle
  BY <1>10 DEF Idle
<1>13. Tallied(call'.trace)
  BY <1>6, <1>11, NothingTallied
<1>14. TallyInv'
  BY <1>6, <1>9, <1>10, <1>11, <1>13 DEF TallyInv, CycleTally, AsksApproval
<1>15. ~HaltEscalates(call'.trace)
  BY <1>8, <1>11 DEF HaltEscalates
<1>16. One(halted = "exception") \in {0, 1}
  BY DEF One
<1>17. call'.pc = "end" /\ AsksApproval(call'.trace) => One(halted = "exception") = 1
  BY <1>7, <1>8, <1>10, <1>11 DEF AsksApproval, One
<1>18. UNCHANGED <<mode, modeLog>>
  BY DEF Think
<1>19. Count([inhibitions |-> Cardinality(call'.trace.decision.inhibited),
              errors |-> One(halted = "exception")])
  BY <1>5, <1>11
<1>20. \E n \in {0, 1} :
              /\ Count([inhibitions |-> Cardinality(call'.trace.decision.inhibited),
                        errors |-> n])
              /\ call'.pc = "end" /\ AsksApproval(call'.trace) => n = 1
  BY <1>16, <1>17, <1>19, Zenon
<1> QED BY <1>1, <1>2, <1>10, <1>11, <1>12, <1>14, <1>15, <1>18, <1>20

OfType(s, a) == {i \in DOMAIN s : s[i].type = a}

\* A further result adds to the results of its type.
LEMMA TypeCountGrows ==
  ASSUME NEW rs \in Seq(Outcome), NEW r \in Outcome, NEW a
  PROVE  /\ Cardinality(OfType(rs, a)) \in Nat
         /\ Cardinality(OfType(Append(rs, r), a)) = Cardinality(OfType(rs, a)) + One(r.type = a)
<1> DEFINE n == Len(rs)
<1>1. /\ n \in Nat /\ DOMAIN rs = 1..n /\ DOMAIN Append(rs, r) = 1..(n + 1)
      /\ \A i \in 1..n : Append(rs, r)[i] = rs[i]
      /\ Append(rs, r)[n + 1] = r
  BY AppendProperties, LenProperties
<1>2. IsFiniteSet(OfType(rs, a))
  <2>1. IsFiniteSet(1..n)
    BY <1>1, FS_Interval
  <2>2. OfType(rs, a) \subseteq 1..n
    BY <1>1 DEF OfType
  <2> QED BY <2>1, <2>2, FS_Subset
<1>3. Cardinality(OfType(rs, a)) \in Nat
  BY <1>2, FS_CardinalityType
<1>4. CASE r.type = a
  <2>1. OfType(Append(rs, r), a) = OfType(rs, a) \cup {n + 1}
    BY <1>1, <1>4 DEF OfType
  <2>2. n + 1 \notin OfType(rs, a)
    BY <1>1 DEF OfType
  <2>3. Cardinality(OfType(rs, a) \cup {n + 1}) = Cardinality(OfType(rs, a)) + 1
    BY <1>2, <2>2, FS_AddElement
  <2> QED BY <1>3, <1>4, <2>1, <2>3 DEF One
<1>5. CASE r.type # a
  <2>1. OfType(Append(rs, r), a) = OfType(rs, a)
    BY <1>1, <1>5 DEF OfType
  <2> QED BY <1>3, <1>5, <2>1 DEF One
<1> QED BY <1>3, <1>4, <1>5

\* A cycle calls one tool at most.
LEMMA OneToolAtMost ==
  ASSUME NEW t, Tallied(t)
  PROVE  Tooled(t) \in {0, 1}
<1> DEFINE S == {i \in DOMAIN t.results : t.results[i].type = "tool_call"}
<1>1. \A i \in S : \A j \in S : i = j
  BY DEF Tallied
<1> HIDE DEF S
<1>2. CASE S = {}
  BY <1>2, FS_EmptySet DEF Tooled, S
<1>3. CASE S # {}
  <2>1. PICK i : i \in S
    BY <1>3
  <2>2. S = {i}
    BY <1>1, <2>1
  <2> QED BY <2>2, FS_Singleton DEF Tooled, S
<1> QED BY <1>2, <1>3

\* An action is counted with its result.
LEMMA ActTallies ==
  ASSUME CycleInv, TallyInv, Act
  PROVE  /\ TallyInv' /\ call # Idle /\ call' # Idle /\ call'.pc \in {"act", "end"}
         /\ call'.trace.text = call.trace.text
         /\ call'.trace.decision = call.trace.decision
         /\ call'.trace.halted = call.trace.halted
         /\ call.trace.results \in Seq(Outcome)
         /\ \E r \in Outcome, n \in Nat, k \in Nat :
              /\ call'.trace.results = Append(call.trace.results, r)
              /\ Count([actions |-> 1, tools |-> One(r.type = "tool_call"),
                        errors |-> n, mismatches |-> k])
              /\ AsksApproval(call'.trace) => r.type = "escalation"
         /\ UNCHANGED <<mode, modeLog>>
<1> DEFINE t == call.trace
           n == Len(t.results) + 1
<1>1. /\ DOMAIN call = {"pc", "meta", "trace"} /\ DOMAIN t = TraceFields
      /\ Pursues(t) /\ call # Idle /\ call.pc = "act"
  BY DEF CycleInv, Cycle, Act
<1>2. /\ Tallied(t)
      /\ \A i \in DOMAIN t.decision.actions : \A j \in DOMAIN t.decision.actions :
           t.decision.actions[i] = "tool_call" /\ t.decision.actions[j] = "tool_call" => i = j
      /\ AsksApproval(t) => t.decision.actions[1] = "escalation"
  BY <1>1 DEF TallyInv, CycleTally
<1>3. PICK r \in Outcomes(t.decision.actions[n], call.meta) :
        LET fb == Feedback(r, t.grounded, mode)
        IN /\ call' = [call EXCEPT !.trace.results = Append(@, r),
                                   !.pc = IF Last(t, n, r, fb) THEN "end" ELSE "act"]
           /\ Count([actions |-> 1, tools |-> One(r.type = "tool_call"),
                     errors |-> One(~r.ok), mismatches |-> One(~fb.met)])
  BY DEF Act
<1> DEFINE fb == Feedback(r, t.grounded, mode)
<1>4. /\ call' = [call EXCEPT !.trace.results = Append(@, r),
                              !.pc = IF Last(t, n, r, fb) THEN "end" ELSE "act"]
      /\ Count([actions |-> 1, tools |-> One(r.type = "tool_call"),
                errors |-> One(~r.ok), mismatches |-> One(~fb.met)])
  BY <1>3
<1> HIDE DEF fb
<1>5. /\ Len(t.results) \in Nat /\ Len(t.decision.actions) \in Nat
      /\ n \in 1..Len(t.decision.actions)
      /\ DOMAIN t.results = 1..Len(t.results)
      /\ DOMAIN t.decision.actions = 1..Len(t.decision.actions)
      /\ t.results \in Seq(Outcome)
  BY <1>1, LenProperties DEF Pursues
<1>6. r \in Outcome /\ r.type = t.decision.actions[n]
  BY <1>1, <1>5, ElementOfSeq, OutcomeOfAction DEF Pursues
<1>7. call'.pc = (IF Last(t, n, r, fb) THEN "end" ELSE "act")
  BY <1>1, <1>4
<1>8. /\ call'.trace.results = Append(t.results, r) /\ call'.trace.text = t.text
      /\ call'.trace.decision = t.decision /\ call'.trace.halted = t.halted
  BY <1>1, <1>4 DEF TraceFields
<1>9. call' # Idle
  BY <1>7 DEF Idle
<1> DEFINE rs == Append(t.results, r)
<1>10. /\ rs \in Seq(Outcome) /\ DOMAIN rs = 1..n
       /\ \A i \in 1..(n - 1) : rs[i] = t.results[i]
       /\ rs[n] = r
  BY <1>5, <1>6, AppendProperties, LenProperties
<1> HIDE DEF rs
<1>11. \A i \in 1..n : rs[i].type = t.decision.actions[i]
  <2> SUFFICES ASSUME NEW i \in 1..n PROVE rs[i].type = t.decision.actions[i]
    OBVIOUS
  <2>1. CASE i = n
    BY <1>6, <1>10, <2>1
  <2>2. CASE i # n
    <3>1. i \in 1..(n - 1) /\ i \in 1..Len(t.results)
      BY <1>5, <2>2
    <3> QED BY <1>1, <1>10, <3>1, Zenon DEF Pursues
  <2> QED BY <2>1, <2>2
<1>12. Tallied(call'.trace)
  <2>1. ASSUME NEW i \in DOMAIN rs, NEW j \in DOMAIN rs,
               rs[i].type = "tool_call", rs[j].type = "tool_call"
        PROVE  i = j
    <3>1. i \in 1..n /\ j \in 1..n
      BY <1>10
    <3>2. i \in DOMAIN t.decision.actions /\ j \in DOMAIN t.decision.actions
      BY <1>5, <3>1
    <3>3. t.decision.actions[i] = "tool_call" /\ t.decision.actions[j] = "tool_call"
      BY <1>11, <2>1, <3>1, Zenon
    <3> QED BY <1>2, <3>2, <3>3, Zenon
  <2>2. call'.trace.results = rs
    BY <1>8 DEF rs
  <2> QED BY <1>2, <1>8, <1>10, <2>1, <2>2, Zenon DEF Tallied
<1>13. TallyInv'
  <2>1. call'.pc \notin {"reflex", "think"}
    BY <1>7
  <2> QED BY <1>2, <1>8, <1>12, <2>1, Zenon DEF TallyInv, CycleTally, AsksApproval
<1>14. AsksApproval(call'.trace) => r.type = "escalation"
  <2> SUFFICES ASSUME AsksApproval(t) PROVE r.type = "escalation"
    BY <1>8 DEF AsksApproval
  <2>1. t.decision.actions[1] = "escalation"
    BY <1>2
  <2>2. CASE n = 1
    BY <1>6, <2>1, <2>2
  <2>3. CASE n # 1
    <3>1. 1 \in 1..Len(t.results)
      BY <1>5, <2>3
    <3> QED BY <1>1, <2>1, <3>1 DEF Pursues
  <2> QED BY <2>2, <2>3
<1>15. One(~r.ok) \in Nat /\ One(~fb.met) \in Nat
  BY DEF One
<1>16. UNCHANGED <<mode, modeLog>>
  BY DEF Act
<1> HIDE DEF n
<1>17. \E x \in Outcome, l \in Nat, k \in Nat :
         /\ call'.trace.results = Append(call.trace.results, x)
         /\ Count([actions |-> 1, tools |-> One(x.type = "tool_call"),
                   errors |-> l, mismatches |-> k])
         /\ AsksApproval(call'.trace) => x.type = "escalation"
  BY <1>4, <1>6, <1>8, <1>14, <1>15, Zenon
<1>18. call'.pc \in {"act", "end"}
  BY <1>7
<1> QED BY <1>1, <1>5, <1>8, <1>9, <1>13, <1>16, <1>17, <1>18, Zenon

\* A set that holds 0 and with every number the next holds them all: otherwise
\* the numbers up to one outside it that are outside too, a finite set, would
\* be mapped into themselves by i |-> i - 1, one-to-one but not onto.
LEMMA NatSetInduction ==
    ASSUME NEW S, 0 \in S, \A n \in Nat : n \in S => n + 1 \in S
    PROVE  \A n \in Nat : n \in S
<1> SUFFICES ASSUME NEW n \in Nat, n \notin S PROVE FALSE
  OBVIOUS
<1> DEFINE D == {i \in 0..n : i \notin S}
           f == [i \in D |-> i - 1]
<1>1. IsFiniteSet(D)
  <2>1. IsFiniteSet(0..n)
    BY FS_Interval
  <2> QED
    BY <2>1, FS_Subset
<1>2. \A i \in D : i - 1 \in D
  <2> SUFFICES ASSUME NEW i \in D PROVE i - 1 \in D
    OBVIOUS
  <2>1. i # 0 /\ i \in Nat
    OBVIOUS
  <2>2. i - 1 \in Nat /\ i = (i - 1) + 1
    BY <2>1
  <2>3. i - 1 \notin S
    BY <2>2
  <2> QED
    BY <2>2, <2>3
<1>3. f \in Injection(D, D)
  BY <1>2 DEF Injection, IsInjective
<1>4. f \in Surjection(D, D)
  BY <1>1, <1>3, FS_Injection
<1>5. n \in D
  OBVIOUS
<1>6. PICK i \in D : f[i] = n
  BY <1>4, <1>5 DEF Surjection
<1> QED
  BY <1>6

\* The totals of the first numbers of w.
Sums(w, n, f) == f = [i \in 0..n |-> IF i = 0 THEN 0 ELSE f[i - 1] + w[i]]

\* The partial sums of a sequence exist.
LEMMA SumsExist == ASSUME NEW w, NEW n \in Nat PROVE \E f : Sums(w, n, f)
<1> DEFINE S == {m \in Nat : \E f : Sums(w, m, f)}
<1>1. 0 \in S
  <2> DEFINE f == [i \in 0..0 |-> 0]
  <2>1. Sums(w, 0, f)
    BY DEF Sums
  <2> QED
    BY <2>1
<1>2. ASSUME NEW m \in Nat, m \in S PROVE m + 1 \in S
  <2>1. PICK f : Sums(w, m, f)
    BY <1>2
  <2> DEFINE g == [i \in 0..(m + 1) |-> IF i <= m THEN f[i] ELSE f[m] + w[m + 1]]
             h == [i \in 0..(m + 1) |-> IF i = 0 THEN 0 ELSE g[i - 1] + w[i]]
  <2>2. \A i \in 0..m : g[i] = f[i]
    OBVIOUS
  <2>3. \A i \in 0..m : f[i] = IF i = 0 THEN 0 ELSE f[i - 1] + w[i]
    BY <2>1 DEF Sums
  <2>4. ASSUME NEW i \in 0..(m + 1) PROVE g[i] = h[i]
    <3>1. CASE i = 0
      BY <2>3, <3>1
    <3>2. CASE i \in 1..m
      <4>1. i - 1 \in 0..m /\ i \in 0..m /\ i # 0
        BY <3>2
      <4> QED
        BY <2>2, <2>3, <4>1
    <3>3. CASE i = m + 1
      <4>1. i - 1 = m /\ m \in 0..m /\ ~(i <= m) /\ i # 0
        BY <3>3
      <4> QED
        BY <2>2, <3>3, <4>1
    <3> QED
      BY <3>1, <3>2, <3>3
  <2>5. g = h
    BY <2>4
  <2> HIDE DEF g
  <2>6. Sums(w, m + 1, g)
    BY <2>5 DEF Sums
  <2> QED
    BY <2>6
<1> HIDE DEF S
<1>3. n \in S
  BY <1>1, <1>2, NatSetInduction
<1> QED
  BY <1>3 DEF S

\* Totals of numbers are numbers, and those of equal numbers are equal.
LEMMA SumsAgree ==
    ASSUME NEW n \in Nat, NEW m \in Nat, n <= m, NEW w, NEW v, NEW f, NEW g,
           Sums(w, n, f), Sums(v, m, g), \A i \in 1..n : w[i] \in Nat /\ v[i] = w[i]
    PROVE  \A i \in 0..n : f[i] \in Nat /\ g[i] = f[i]
<1> DEFINE S == {k \in Nat : k <= n => f[k] \in Nat /\ g[k] = f[k]}
<1>1. /\ \A i \in 0..n : f[i] = IF i = 0 THEN 0 ELSE f[i - 1] + w[i]
      /\ \A i \in 0..m : g[i] = IF i = 0 THEN 0 ELSE g[i - 1] + v[i]
  BY DEF Sums
<1>2. 0 \in S
  BY <1>1
<1>3. ASSUME NEW k \in Nat, k \in S PROVE k + 1 \in S
  <2> SUFFICES ASSUME k + 1 <= n PROVE f[k + 1] \in Nat /\ g[k + 1] = f[k + 1]
    OBVIOUS
  <2>1. k + 1 \in 0..n /\ k + 1 \in 0..m /\ k + 1 \in 1..n /\ k + 1 # 0 /\ (k + 1) - 1 = k
    OBVIOUS
  <2>2. f[k + 1] = f[k] + w[k + 1] /\ g[k + 1] = g[k] + v[k + 1]
    BY <1>1, <2>1
  <2>3. f[k] \in Nat /\ g[k] = f[k]
    BY <1>3
  <2> QED
    BY <2>1, <2>2, <2>3
<1> HIDE DEF S
<1>4. \A k \in Nat : k \in S
  BY <1>2, <1>3, NatSetInduction
<1> QED
  BY <1>4 DEF S

\* A total is the last of its partial sums.
LEMMA TotalIsSum ==
    ASSUME NEW w, Len(w) \in Nat
    PROVE  \E f : Sums(w, Len(w), f) /\ Total(w) = f[Len(w)]
<1>1. Sums(w, Len(w), CHOOSE f : Sums(w, Len(w), f))
  BY SumsExist
<1>2. Total(w) = (CHOOSE f : Sums(w, Len(w), f))[Len(w)]
  BY DEF Total, Sums
<1> QED
  BY <1>1, <1>2

\* A number more adds itself to the total.
LEMMA TotalGrows ==
    ASSUME NEW n \in Nat, NEW w \in [1..n -> Nat], NEW v \in [1..(n + 1) -> Nat],
           \A i \in 1..n : v[i] = w[i]
    PROVE  /\ Total(w) \in Nat
           /\ Total(v) = Total(w) + v[n + 1]
<1>1. w \in Seq(Nat) /\ Len(w) = n /\ v \in Seq(Nat) /\ Len(v) = n + 1
  OBVIOUS
<1>2. PICK f : Sums(w, n, f) /\ Total(w) = f[n]
  BY <1>1, TotalIsSum
<1>3. PICK g : Sums(v, n + 1, g) /\ Total(v) = g[n + 1]
  BY <1>1, TotalIsSum
<1>4. f[n] \in Nat /\ g[n] = f[n]
  BY <1>2, <1>3, SumsAgree
<1>5. n + 1 \in 0..(n + 1) /\ n + 1 # 0 /\ (n + 1) - 1 = n
  OBVIOUS
<1>6. g[n + 1] = g[n] + v[n + 1]
  BY <1>3, <1>5 DEF Sums
<1> QED
  BY <1>2, <1>3, <1>4, <1>6

\* Nothing adds up to nothing.
LEMMA TotalOfNone == ASSUME NEW w, Len(w) = 0 PROVE Total(w) = 0
<1>1. PICK f : Sums(w, 0, f) /\ Total(w) = f[0]
  BY TotalIsSum
<1> QED BY <1>1 DEF Sums

\* The counts of a trace are numbers.
LEMMA TalliesAreNumbers ==
  ASSUME NEW t, Tallied(t)
  PROVE  /\ Tooled(t) \in Nat /\ Asked(t) \in Nat /\ Escalations(t) \in Nat
         /\ Len(t.results) \in Nat /\ Cardinality(t.decision.inhibited) \in Nat
<1>1. Tooled(t) \in {0, 1}
  BY OneToolAtMost
<1>2. Len(t.results) \in Nat /\ DOMAIN t.results = 1..Len(t.results)
  BY LenProperties DEF Tallied
<1>3. Escalations(t) \in Nat
  <2> DEFINE S == {i \in DOMAIN t.results : t.results[i].type = "escalation"}
  <2>1. IsFiniteSet(1..Len(t.results)) /\ S \subseteq 1..Len(t.results)
    BY <1>2, FS_Interval
  <2> HIDE DEF S
  <2>2. Cardinality(S) \in Nat
    BY <2>1, FS_Subset, FS_CardinalityType
  <2> QED BY <2>2 DEF S, Escalations
<1>4. Cardinality(t.decision.inhibited) \in Nat
  BY FS_CardinalityType DEF Tallied
<1>5. Asked(t) \in Nat
  BY <1>3 DEF Asked, One
<1> QED BY <1>1, <1>2, <1>3, <1>4, <1>5

\* A sequence with a step more is one, too.
LEMMA SeqGrows ==
  ASSUME NEW s, IsSeq(s), NEW x
  PROVE  /\ IsSeq(Append(s, x)) /\ Len(s) \in Nat /\ DOMAIN s = 1..Len(s)
         /\ Len(Append(s, x)) = Len(s) + 1 /\ DOMAIN Append(s, x) = 1..(Len(s) + 1)
         /\ \A i \in 1..Len(s) : Append(s, x)[i] = s[i]
         /\ Append(s, x)[Len(s) + 1] = x
<1>1. PICK S : s \in Seq(S)
  BY DEF IsSeq
<1> DEFINE T == S \cup {x}
<1>2. s \in Seq(T) /\ x \in T
  BY <1>1
<1> HIDE DEF T
<1>3. Append(s, x) \in Seq(T)
  BY <1>2, AppendProperties
<1> QED BY <1>2, <1>3, AppendProperties, LenProperties DEF IsSeq

\* What a run did with a step more.
LEMMA StepSums ==
  ASSUME NEW s, IsSeq(s), \A i \in DOMAIN s : Tallied(s[i]), NEW t, Tallied(t)
  PROVE  LET r == Append(s, t)
         IN /\ Total(ToolsOf(s)) \in Nat
            /\ Total(ToolsOf(r)) = Total(ToolsOf(s)) + Tooled(t)
            /\ Total(ActionsOf(s)) \in Nat
            /\ Total(ActionsOf(r)) = Total(ActionsOf(s)) + Len(t.results)
            /\ Total(InhibitionsOf(s)) \in Nat
            /\ Total(InhibitionsOf(r)) = Total(InhibitionsOf(s)) + Cardinality(t.decision.inhibited)
            /\ Total(AsksOf(s)) \in Nat
            /\ Total(AsksOf(r)) = Total(AsksOf(s)) + Asked(t)
<1> DEFINE r == Append(s, t)
           n == Len(s)
<1>1. /\ n \in Nat /\ DOMAIN s = 1..n /\ DOMAIN r = 1..(n + 1)
      /\ \A i \in 1..n : r[i] = s[i]
      /\ r[n + 1] = t
  BY SeqGrows
<1> HIDE DEF r, n
<1>2. \A i \in 1..n : Tallied(s[i])
  BY <1>1
<1>3. \A i \in 1..n : /\ Tooled(s[i]) \in Nat /\ Asked(s[i]) \in Nat
                      /\ Len(s[i].results) \in Nat
                      /\ Cardinality(s[i].decision.inhibited) \in Nat
  BY <1>2, TalliesAreNumbers
<1>4. /\ Tooled(t) \in Nat /\ Asked(t) \in Nat
      /\ Len(t.results) \in Nat /\ Cardinality(t.decision.inhibited) \in Nat
  BY TalliesAreNumbers
<1>5. \A i \in 1..(n + 1) : i = n + 1 \/ i \in 1..n
  BY <1>1
<1>6. n + 1 \in 1..(n + 1) /\ 1..n \subseteq 1..(n + 1)
  BY <1>1
<1>7. Total(ToolsOf(s)) \in Nat /\ Total(ToolsOf(r)) = Total(ToolsOf(s)) + Tooled(t)
  <2> DEFINE w == ToolsOf(s)
             v == ToolsOf(r)
  <2>1. w \in [1..n -> Nat]
    BY <1>1, <1>3 DEF ToolsOf
  <2>2. v \in [1..(n + 1) -> Nat] /\ v[n + 1] = Tooled(t)
    BY <1>1, <1>3, <1>4, <1>5, <1>6 DEF ToolsOf
  <2>3. \A i \in 1..n : v[i] = w[i]
    BY <1>1, <1>6 DEF ToolsOf
  <2> QED BY <1>1, <2>1, <2>2, <2>3, TotalGrows
<1>8. Total(ActionsOf(s)) \in Nat /\ Total(ActionsOf(r)) = Total(ActionsOf(s)) + Len(t.results)
  <2> DEFINE w == ActionsOf(s)
             v == ActionsOf(r)
  <2>1. w \in [1..n -> Nat]
    BY <1>1, <1>3 DEF ActionsOf
  <2>2. v \in [1..(n + 1) -> Nat] /\ v[n + 1] = Len(t.results)
    BY <1>1, <1>3, <1>4, <1>5, <1>6 DEF ActionsOf
  <2>3. \A i \in 1..n : v[i] = w[i]
    BY <1>1, <1>6 DEF ActionsOf
  <2> QED BY <1>1, <2>1, <2>2, <2>3, TotalGrows
<1>9. /\ Total(InhibitionsOf(s)) \in Nat
      /\ Total(InhibitionsOf(r)) = Total(InhibitionsOf(s)) + Cardinality(t.decision.inhibited)
  <2> DEFINE w == InhibitionsOf(s)
             v == InhibitionsOf(r)
  <2>1. w \in [1..n -> Nat]
    BY <1>1, <1>3 DEF InhibitionsOf
  <2>2. v \in [1..(n + 1) -> Nat] /\ v[n + 1] = Cardinality(t.decision.inhibited)
    BY <1>1, <1>3, <1>4, <1>5, <1>6 DEF InhibitionsOf
  <2>3. \A i \in 1..n : v[i] = w[i]
    BY <1>1, <1>6 DEF InhibitionsOf
  <2> QED BY <1>1, <2>1, <2>2, <2>3, TotalGrows
<1>10. Total(AsksOf(s)) \in Nat /\ Total(AsksOf(r)) = Total(AsksOf(s)) + Asked(t)
  <2> DEFINE w == AsksOf(s)
             v == AsksOf(r)
  <2>1. w \in [1..n -> Nat]
    BY <1>1, <1>3 DEF AsksOf
  <2>2. v \in [1..(n + 1) -> Nat] /\ v[n + 1] = Asked(t)
    BY <1>1, <1>3, <1>4, <1>5, <1>6 DEF AsksOf
  <2>3. \A i \in 1..n : v[i] = w[i]
    BY <1>1, <1>6 DEF AsksOf
  <2> QED BY <1>1, <2>1, <2>2, <2>3, TotalGrows
<1> QED BY <1>7, <1>8, <1>9, <1>10 DEF r

-----------------------------------------------------------------------------
(* The accounts of the monitor, the session and the run. *)

SessionFields == {"turns", "actions", "inhibitions", "escalations", "approvals"}
RunFields == {"pc", "plan", "left", "steps", "tools", "confidence", "replans", "halt", "meta"}

\* What the counters, the session and the run are.
Shapes ==
  /\ metrics \in [Counters -> Nat] /\ IsSeq(modeLog)
  /\ DOMAIN session = SessionFields
  /\ session.turns \in Nat /\ session.actions \in Nat /\ session.inhibitions \in Nat
  /\ session.escalations \in Nat /\ IsSeq(session.approvals)
  /\ DOMAIN run = RunFields /\ IsSeq(run.steps)
  /\ \A i \in DOMAIN run.steps : Tallied(run.steps[i])
  /\ run.pc \in {"off", "loop", "step", "done"}
  /\ run.pc = "step" => call # Idle

\* What the cycle under way adds to the accounts of who started it.
Held(n) == IF call = Idle THEN 0 ELSE n

\* The accounts, with what the cycle under way has been counted for: what both
\* sides count alike, what the monitor does not count less of, and the requests
\* for approval.
Counted ==
  /\ metrics.inputs = session.turns + Len(run.steps) + Held(1)
  /\ metrics.traces = session.turns + Len(run.steps)
  /\ metrics.actions = session.actions + Total(ActionsOf(run.steps))
                       + Held(Len(call.trace.results))
  /\ metrics.inhibitions = session.inhibitions + Total(InhibitionsOf(run.steps))
                           + Held(Cardinality(call.trace.decision.inhibited))
Bounded ==
  /\ metrics.tools >= Total(ToolsOf(run.steps)) + Held(Tooled(call.trace))
  /\ metrics.escalations <= session.escalations + Total(AsksOf(run.steps))
                            + Held(Asked(call.trace))
  /\ metrics.transitions <= Len(modeLog)
Requested ==
  /\ Len(session.approvals) <= session.escalations + metrics.errors
  /\ call # Idle /\ call.pc = "end" /\ AsksApproval(call.trace)
       => Len(session.approvals) + 1
            <= session.escalations + Asked(call.trace) + metrics.errors
Books == Counted /\ Bounded /\ Requested

\* The totals of the run so far are numbers.
LEMMA SumsAreNumbers ==
  ASSUME NEW s, IsSeq(s), \A i \in DOMAIN s : Tallied(s[i])
  PROVE  /\ Total(ToolsOf(s)) \in Nat /\ Total(ActionsOf(s)) \in Nat
         /\ Total(InhibitionsOf(s)) \in Nat /\ Total(AsksOf(s)) \in Nat
<1> DEFINE t == [results |-> <<>>, decision |-> NoDecision]
<1>1. t.results = <<>> /\ IsFiniteSet(t.decision.inhibited)
  BY FS_EmptySet DEF NoDecision
<1>2. Tallied(t)
  BY <1>1, NothingTallied
<1> HIDE DEF t
<1> QED BY <1>2, StepSums

\* A transition of the mode is logged.
LEMMA LogGrows ==
  ASSUME NEW m, IsSeq(modeLog), Transition(m)
  PROVE  IsSeq(modeLog)' /\ Len(modeLog) \in Nat /\ Len(modeLog') = Len(modeLog) + One(mode' # mode)
<1>1. PICK S : modeLog \in Seq(S)
  BY DEF IsSeq
<1> DEFINE e == [from |-> mode, to |-> m]
           T == S \cup {e}
<1>2. modeLog \in Seq(T) /\ e \in T
  BY <1>1
<1>3. modeLog' = modeLog \o Log(mode, m) /\ mode' = m
  BY DEF Transition
<1> HIDE DEF T, e
<1>4. CASE mode = m
  <2>1. Log(mode, m) = <<>>
    BY <1>4 DEF Log
  <2>2. modeLog' = modeLog
    BY <1>2, <1>3, <2>1, ConcatEmptySeq
  <2>3. Len(modeLog) \in Nat
    BY <1>2, LenProperties
  <2>4. IsSeq(modeLog)'
    BY <2>2 DEF IsSeq
  <2> QED BY <1>3, <1>4, <2>2, <2>3, <2>4 DEF One
<1>5. CASE mode # m
  <2>1. Log(mode, m) = <<e>>
    BY <1>5 DEF Log, e
  <2>2. <<e>> \in Seq(T) /\ Len(<<e>>) = 1
    BY <1>2
  <2>3. modeLog' \in Seq(T) /\ Len(modeLog') = Len(modeLog) + 1
    BY <1>2, <1>3, <2>1, <2>2, ConcatProperties
  <2>4. IsSeq(modeLog)'
    BY <2>3 DEF IsSeq
  <2>5. Len(modeLog) \in Nat
    BY <1>2, LenProperties
  <2> QED BY <1>3, <1>5, <2>3, <2>4, <2>5 DEF One
<1> QED BY <1>4, <1>5

\* A stage of a cycle counts alike on both sides: the actions and inhibitions,
LEMMA StageCounted ==
  ASSUME Shapes, Counted, UNCHANGED <<session, run>>, call # Idle, call' # Idle,
         metrics'.inputs = metrics.inputs, metrics'.traces = metrics.traces,
         Len(call.trace.results) \in Nat, Cardinality(call.trace.decision.inhibited) \in Nat,
         NEW a \in Nat, NEW i \in Nat,
         Len(call'.trace.results) = Len(call.trace.results) + a,
         metrics'.actions = metrics.actions + a,
         Cardinality(call'.trace.decision.inhibited)
           = Cardinality(call.trace.decision.inhibited) + i,
         metrics'.inhibitions = metrics.inhibitions + i
  PROVE  Counted'
<1>1. session' = session /\ run'.steps = run.steps
  OBVIOUS
<1>2. Total(ActionsOf(run.steps)) \in Nat /\ Total(InhibitionsOf(run.steps)) \in Nat
  BY SumsAreNumbers DEF Shapes
<1>3. /\ metrics.actions \in Nat /\ metrics.inhibitions \in Nat
      /\ session.actions \in Nat /\ session.inhibitions \in Nat
  BY DEF Shapes, Counters
<1>4. /\ Held(1) = 1 /\ Held(1)' = 1
      /\ Held(Len(call.trace.results)) = Len(call.trace.results)
      /\ Held(Len(call.trace.results))' = Len(call'.trace.results)
      /\ Held(Cardinality(call.trace.decision.inhibited))
           = Cardinality(call.trace.decision.inhibited)
      /\ Held(Cardinality(call.trace.decision.inhibited))'
           = Cardinality(call'.trace.decision.inhibited)
  BY DEF Held
<1>5. /\ metrics.actions = session.actions + Total(ActionsOf(run.steps))
                           + Len(call.trace.results)
      /\ metrics.inhibitions = session.inhibitions + Total(InhibitionsOf(run.steps))
                               + Cardinality(call.trace.decision.inhibited)
      /\ metrics.inputs = session.turns + Len(run.steps) + 1
      /\ metrics.traces = session.turns + Len(run.steps)
  BY <1>4 DEF Counted
<1>6. metrics'.actions = session'.actions + Total(ActionsOf(run'.steps)) + Len(call'.trace.results)
  BY <1>1, <1>2, <1>3, <1>5, SMTT(40)
<1>7. metrics'.inhibitions = session'.inhibitions + Total(InhibitionsOf(run'.steps))
                             + Cardinality(call'.trace.decision.inhibited)
  BY <1>1, <1>2, <1>3, <1>5, SMTT(40)
<1>8. /\ metrics'.inputs = session'.turns + Len(run'.steps) + 1
      /\ metrics'.traces = session'.turns + Len(run'.steps)
  BY <1>1, <1>5
<1> QED BY <1>4, <1>6, <1>7, <1>8, Zenon DEF Counted

\* the tools, the escalations and the transitions,
LEMMA StageBounded ==
  ASSUME Shapes, Bounded, UNCHANGED <<session, run>>, call # Idle, call' # Idle,
         Tooled(call.trace) \in Nat, Asked(call.trace) \in Nat,
         NEW k \in Nat, NEW x \in Nat, NEW y \in Nat, y <= x, NEW l \in Nat,
         Tooled(call'.trace) = Tooled(call.trace) + k, metrics'.tools = metrics.tools + k,
         Asked(call'.trace) = Asked(call.trace) + x,
         metrics'.escalations = metrics.escalations + y,
         Len(modeLog) \in Nat, Len(modeLog') = Len(modeLog) + l,
         metrics'.transitions = metrics.transitions + l
  PROVE  Bounded'
<1>1. session' = session /\ run'.steps = run.steps
  OBVIOUS
<1>2. Total(ToolsOf(run.steps)) \in Nat /\ Total(AsksOf(run.steps)) \in Nat
  BY SumsAreNumbers DEF Shapes
<1>3. /\ metrics.escalations \in Nat /\ metrics.transitions \in Nat /\ metrics.tools \in Nat
      /\ session.escalations \in Nat
  BY DEF Shapes, Counters
<1>4. /\ Held(Tooled(call.trace)) = Tooled(call.trace)
      /\ Held(Tooled(call.trace))' = Tooled(call'.trace)
      /\ Held(Asked(call.trace)) = Asked(call.trace)
      /\ Held(Asked(call.trace))' = Asked(call'.trace)
  BY DEF Held
<1>5. /\ metrics.tools >= Total(ToolsOf(run.steps)) + Tooled(call.trace)
      /\ metrics.escalations <= session.escalations + Total(AsksOf(run.steps))
                                + Asked(call.trace)
      /\ metrics.transitions <= Len(modeLog)
  BY <1>4 DEF Bounded
<1>6. metrics'.tools >= Total(ToolsOf(run'.steps)) + Tooled(call'.trace)
  BY <1>1, <1>2, <1>3, <1>5, SMTT(40)
<1>7. metrics'.escalations <= session'.escalations + Total(AsksOf(run'.steps))
                              + Asked(call'.trace)
  BY <1>1, <1>2, <1>3, <1>5, SMTT(40)
<1>8. metrics'.transitions <= Len(modeLog')
  BY <1>3, <1>5
<1> QED BY <1>4, <1>6, <1>7, <1>8 DEF Bounded

\* and a request to come has its escalation or its exception.
LEMMA StageRequested ==
  ASSUME Shapes, Requested, UNCHANGED <<session, run>>,
         metrics' \in [Counters -> Nat], metrics'.errors >= metrics.errors,
         Asked(call'.trace) \in Nat,
         call'.pc = "end" /\ AsksApproval(call'.trace)
           => metrics'.errors >= metrics.errors + 1 \/ Asked(call'.trace) >= 1
  PROVE  Requested'
<1>1. session' = session
  OBVIOUS
<1>2. metrics.errors \in Nat /\ metrics'.errors \in Nat /\ session.escalations \in Nat
  BY DEF Shapes, Counters
<1>3. Len(session.approvals) \in Nat
  BY SeqGrows DEF Shapes
<1>4. Len(session.approvals) <= session.escalations + metrics.errors
  BY DEF Requested
<1>5. Len(session'.approvals) <= session'.escalations + metrics'.errors
  BY <1>1, <1>2, <1>3, <1>4
<1>6. ASSUME call'.pc = "end", AsksApproval(call'.trace)
      PROVE  Len(session'.approvals) + 1
               <= session'.escalations + Asked(call'.trace) + metrics'.errors
  BY <1>1, <1>2, <1>3, <1>4, <1>6
<1> QED BY <1>5, <1>6 DEF Requested, AsksApproval

\* The reflexes keep the accounts: what they escalate is asked for.
LEMMA ReflexBooks ==
  ASSUME CycleInv, TallyInv, Shapes, Books, Reflex, UNCHANGED <<session, run>>
  PROVE  Shapes' /\ Books'
<1>1. /\ call # Idle /\ call' # Idle /\ call'.pc \in {"think", "end"}
      /\ call'.trace.results = <<>> /\ call'.trace.decision = NoDecision
      /\ call.trace.results = <<>> /\ call.trace.decision = NoDecision
      /\ call.trace.halted = "no"
  BY ReflexTallies
<1>2. PICK v : /\ call'.trace.halted = HaltOf(v)
               /\ Count([transitions |-> One(mode' # mode), blocks |-> One(v = "block"),
                         escalations |-> One(v = "escalate")])
  BY ReflexTallies
<1>3. IsSeq(modeLog)' /\ Len(modeLog) \in Nat /\ Len(modeLog') = Len(modeLog) + One(mode' # mode)
  BY LogGrows DEF Reflex, Shapes
<1> DEFINE d == [transitions |-> One(mode' # mode), blocks |-> One(v = "block"),
                 escalations |-> One(v = "escalate")]
<1>4. One(mode' # mode) \in Nat /\ One(v = "block") \in Nat /\ One(v = "escalate") \in Nat
  BY DEF One
<1>5. /\ DOMAIN d = {"transitions", "blocks", "escalations"}
      /\ d["transitions"] = One(mode' # mode) /\ d["blocks"] = One(v = "block")
      /\ d["escalations"] = One(v = "escalate")
  OBVIOUS
<1> HIDE DEF d
<1>6. /\ metrics'.inputs = metrics.inputs /\ metrics'.traces = metrics.traces
      /\ metrics'.actions = metrics.actions /\ metrics'.tools = metrics.tools
      /\ metrics'.inhibitions = metrics.inhibitions /\ metrics'.errors = metrics.errors
      /\ metrics'.escalations = metrics.escalations + One(v = "escalate")
      /\ metrics'.transitions = metrics.transitions + One(mode' # mode)
      /\ metrics' \in [Counters -> Nat]
  <2>1. Count(d) /\ DOMAIN d \subseteq Counters /\ \A c \in DOMAIN d : d[c] \in Nat
    BY <1>2, <1>4, <1>5 DEF Counters, d
  <2>2. /\ metrics' \in [Counters -> Nat]
        /\ \A c \in DOMAIN d : metrics'[c] = metrics[c] + d[c]
        /\ \A c \in Counters \ DOMAIN d : metrics'[c] = metrics[c]
    BY <2>1, CountRaises DEF Shapes
  <2> QED BY <1>5, <2>2 DEF Counters
<1>7. HaltEscalates(call'.trace) <=> v = "escalate"
  BY <1>2 DEF HaltEscalates, HaltOf
<1>8. /\ Len(call.trace.results) = 0 /\ Len(call'.trace.results) = 0
      /\ Tooled(call'.trace) = 0 /\ Escalations(call'.trace) = 0
      /\ Escalations(call.trace) = 0 /\ Cardinality(call'.trace.decision.inhibited) = 0
      /\ Tooled(call.trace) = 0 /\ Cardinality(call.trace.decision.inhibited) = 0
  BY <1>1, FS_EmptySet DEF Tooled, Escalations, NoDecision
<1>9. ~AsksApproval(call'.trace)
  BY <1>1 DEF AsksApproval, NoDecision
<1>10. Asked(call'.trace) = One(v = "escalate") /\ Asked(call.trace) = 0
  BY <1>1, <1>4, <1>7, <1>8 DEF Asked, One, HaltEscalates
<1>11. \A n \in Nat : n = n + 0 /\ n >= n /\ n <= n /\ n = 0 + n
  OBVIOUS
<1>12. /\ metrics.actions \in Nat /\ metrics.tools \in Nat /\ metrics.inhibitions \in Nat
       /\ metrics.errors \in Nat
  BY DEF Shapes, Counters
<1> DEFINE x == One(v = "escalate")
           l == One(mode' # mode)
<1>13. x \in Nat /\ l \in Nat /\ 0 \in Nat
  BY <1>4
<1> HIDE DEF x, l
<1>14. /\ Len(call'.trace.results) = Len(call.trace.results) + 0
       /\ metrics'.actions = metrics.actions + 0
       /\ Cardinality(call'.trace.decision.inhibited)
            = Cardinality(call.trace.decision.inhibited) + 0
       /\ metrics'.inhibitions = metrics.inhibitions + 0
       /\ Tooled(call'.trace) = Tooled(call.trace) + 0 /\ metrics'.tools = metrics.tools + 0
       /\ Asked(call'.trace) = Asked(call.trace) + x
       /\ metrics'.escalations = metrics.escalations + x
       /\ Len(modeLog') = Len(modeLog) + l /\ metrics'.transitions = metrics.transitions + l
       /\ metrics'.errors >= metrics.errors /\ x <= x
  BY <1>3, <1>6, <1>8, <1>10, <1>12, <1>13 DEF x, l
<1>15. /\ Len(call.trace.results) \in Nat /\ Tooled(call.trace) \in Nat /\ Asked(call.trace) \in Nat
       /\ Cardinality(call.trace.decision.inhibited) \in Nat
  BY <1>8, <1>10
<1>16. Shapes'
  BY <1>1, <1>3, <1>6 DEF Shapes
<1>17. Counted'
  BY <1>1, <1>6, <1>13, <1>14, <1>15, StageCounted DEF Books
<1>18. Bounded'
  BY <1>1, <1>3, <1>13, <1>14, <1>15, StageBounded DEF Books
<1>19. Requested'
  BY <1>6, <1>9, <1>10, <1>13, <1>14, <1>15, StageRequested DEF Books, x
<1> QED BY <1>16, <1>17, <1>18, <1>19 DEF Books

\* Thinking keeps the accounts: a request has its escalation or an exception.
LEMMA ThinkBooks ==
  ASSUME CycleInv, TallyInv, Shapes, Books, Think, UNCHANGED <<session, run>>
  PROVE  Shapes' /\ Books'
<1>1. /\ call # Idle /\ call' # Idle
      /\ call'.trace.results = <<>> /\ call.trace.results = <<>>
      /\ call.trace.decision = NoDecision
      /\ call.trace.halted = "no" /\ ~HaltEscalates(call'.trace)
      /\ UNCHANGED <<mode, modeLog>>
      /\ TallyInv'
  BY ThinkTallies
<1> DEFINE i == Cardinality(call'.trace.decision.inhibited)
<1>2. PICK n \in {0, 1} :
        /\ Count([inhibitions |-> i, errors |-> n])
        /\ call'.pc = "end" /\ AsksApproval(call'.trace) => n = 1
  BY ThinkTallies
<1> DEFINE d == [inhibitions |-> i, errors |-> n]
<1>3. i \in Nat
  BY <1>1, FS_CardinalityType DEF TallyInv, CycleTally, Tallied
<1> HIDE DEF i
<1>4. /\ DOMAIN d = {"inhibitions", "errors"}
      /\ d["inhibitions"] = i /\ d["errors"] = n
  OBVIOUS
<1> HIDE DEF d
<1>5. /\ metrics'.inputs = metrics.inputs /\ metrics'.traces = metrics.traces
      /\ metrics'.actions = metrics.actions /\ metrics'.tools = metrics.tools
      /\ metrics'.inhibitions = metrics.inhibitions + i
      /\ metrics'.errors = metrics.errors + n
      /\ metrics'.escalations = metrics.escalations
      /\ metrics'.transitions = metrics.transitions
      /\ metrics' \in [Counters -> Nat]
  <2>1. Count(d) /\ DOMAIN d \subseteq Counters /\ \A c \in DOMAIN d : d[c] \in Nat
    BY <1>2, <1>3, <1>4 DEF Counters, d
  <2>2. /\ metrics' \in [Counters -> Nat]
        /\ \A c \in DOMAIN d : metrics'[c] = metrics[c] + d[c]
        /\ \A c \in Counters \ DOMAIN d : metrics'[c] = metrics[c]
    BY <2>1, CountRaises DEF Shapes
  <2> QED BY <1>4, <2>2 DEF Counters
<1>6. /\ Len(call.trace.results) = 0 /\ Len(call'.trace.results) = 0
      /\ Tooled(call'.trace) = 0 /\ Escalations(call'.trace) = 0
      /\ Escalations(call.trace) = 0 /\ Tooled(call.trace) = 0
      /\ Cardinality(call.trace.decision.inhibited) = 0
  BY <1>1, FS_EmptySet DEF Tooled, Escalations, NoDecision
<1>7. Asked(call'.trace) = 0 /\ Asked(call.trace) = 0
  BY <1>1, <1>6 DEF Asked, One, HaltEscalates
<1>8. /\ metrics.actions \in Nat /\ metrics.tools \in Nat /\ metrics.transitions \in Nat
      /\ metrics.errors \in Nat /\ metrics.escalations \in Nat
  BY DEF Shapes, Counters
<1>9. Len(modeLog) \in Nat
  BY SeqGrows DEF Shapes
<1>10. /\ Len(call'.trace.results) = Len(call.trace.results) + 0
       /\ metrics'.actions = metrics.actions + 0
       /\ Cardinality(call'.trace.decision.inhibited)
            = Cardinality(call.trace.decision.inhibited) + i
       /\ Tooled(call'.trace) = Tooled(call.trace) + 0 /\ metrics'.tools = metrics.tools + 0
       /\ Asked(call'.trace) = Asked(call.trace) + 0
       /\ metrics'.escalations = metrics.escalations + 0
       /\ Len(modeLog') = Len(modeLog) + 0 /\ metrics'.transitions = metrics.transitions + 0
       /\ metrics'.errors >= metrics.errors
       /\ n = 1 => metrics'.errors >= metrics.errors + 1
       /\ 0 \in Nat /\ 0 <= 0
  BY <1>1, <1>2, <1>3, <1>5, <1>6, <1>7, <1>8, <1>9 DEF i
<1>11. /\ Len(call.trace.results) \in Nat /\ Tooled(call.trace) \in Nat /\ Asked(call.trace) \in Nat
       /\ Cardinality(call.trace.decision.inhibited) \in Nat /\ Asked(call'.trace) \in Nat
  BY <1>6, <1>7
<1>12. Shapes'
  BY <1>1, <1>5 DEF Shapes
<1>13. Counted'
  BY <1>1, <1>3, <1>5, <1>10, <1>11, StageCounted DEF Books
<1>14. Bounded'
  BY <1>1, <1>9, <1>10, <1>11, StageBounded DEF Books
<1>15. Requested'
  BY <1>2, <1>5, <1>10, <1>11, StageRequested DEF Books
<1> QED BY <1>12, <1>13, <1>14, <1>15 DEF Books

\* An action keeps the accounts.
LEMMA ActBooks ==
  ASSUME CycleInv, TallyInv, Shapes, Books, Act, UNCHANGED <<session, run>>
  PROVE  Shapes' /\ Books'
<1>1. /\ call # Idle /\ call' # Idle
      /\ call'.trace.decision = call.trace.decision
      /\ call'.trace.halted = call.trace.halted
      /\ call.trace.results \in Seq(Outcome)
      /\ UNCHANGED <<mode, modeLog>> /\ TallyInv'
  BY ActTallies
<1>2. PICK r \in Outcome, n \in Nat, j \in Nat :
        /\ call'.trace.results = Append(call.trace.results, r)
        /\ Count([actions |-> 1, tools |-> One(r.type = "tool_call"),
                  errors |-> n, mismatches |-> j])
        /\ AsksApproval(call'.trace) => r.type = "escalation"
  BY ActTallies
<1> DEFINE k == One(r.type = "tool_call")
           x == One(r.type = "escalation")
           d == [actions |-> 1, tools |-> k, errors |-> n, mismatches |-> j]
<1>3. k \in Nat /\ x \in Nat /\ (r.type = "escalation" => x = 1)
  BY DEF One
<1> HIDE DEF k, x
<1>4. /\ DOMAIN d = {"actions", "tools", "errors", "mismatches"}
      /\ d["actions"] = 1 /\ d["tools"] = k /\ d["errors"] = n /\ d["mismatches"] = j
  OBVIOUS
<1> HIDE DEF d
<1>5. /\ metrics'.inputs = metrics.inputs /\ metrics'.traces = metrics.traces
      /\ metrics'.actions = metrics.actions + 1 /\ metrics'.tools = metrics.tools + k
      /\ metrics'.inhibitions = metrics.inhibitions
      /\ metrics'.errors = metrics.errors + n
      /\ metrics'.escalations = metrics.escalations
      /\ metrics'.transitions = metrics.transitions
      /\ metrics' \in [Counters -> Nat]
  <2>1. Count(d) /\ DOMAIN d \subseteq Counters /\ \A c \in DOMAIN d : d[c] \in Nat
    BY <1>2, <1>3, <1>4 DEF Counters, d, k
  <2>2. /\ metrics' \in [Counters -> Nat]
        /\ \A c \in DOMAIN d : metrics'[c] = metrics[c] + d[c]
        /\ \A c \in Counters \ DOMAIN d : metrics'[c] = metrics[c]
    BY <2>1, CountRaises DEF Shapes
  <2> QED BY <1>4, <2>2 DEF Counters
<1>6. Tallied(call.trace) /\ Tallied(call'.trace)
  BY <1>1 DEF TallyInv, CycleTally
<1>7. /\ Len(call.trace.results) \in Nat /\ Tooled(call.trace) \in Nat /\ Asked(call.trace) \in Nat
      /\ Cardinality(call.trace.decision.inhibited) \in Nat /\ Asked(call'.trace) \in Nat
      /\ Escalations(call.trace) \in Nat
  BY <1>6, TalliesAreNumbers
<1>8. Len(call'.trace.results) = Len(call.trace.results) + 1
  BY <1>1, <1>2, AppendProperties
<1>9. Tooled(call'.trace) = Tooled(call.trace) + k
  <2>1. /\ Tooled(call.trace) = Cardinality(OfType(call.trace.results, "tool_call"))
        /\ Tooled(call'.trace) = Cardinality(OfType(call'.trace.results, "tool_call"))
    BY DEF Tooled, OfType
  <2> QED BY <1>1, <1>2, <2>1, TypeCountGrows DEF k
<1>10. Escalations(call'.trace) = Escalations(call.trace) + x
  <2>1. /\ Escalations(call.trace) = Cardinality(OfType(call.trace.results, "escalation"))
        /\ Escalations(call'.trace) = Cardinality(OfType(call'.trace.results, "escalation"))
    BY DEF Escalations, OfType
  <2> QED BY <1>1, <1>2, <2>1, TypeCountGrows DEF x
<1>11. One(HaltEscalates(call.trace)) \in Nat
       /\ One(HaltEscalates(call'.trace)) = One(HaltEscalates(call.trace))
  BY <1>1 DEF HaltEscalates, One
<1>12. Asked(call'.trace) = Asked(call.trace) + x
  BY <1>3, <1>7, <1>10, <1>11 DEF Asked
<1>13. AsksApproval(call'.trace) => Asked(call'.trace) >= 1
  BY <1>2, <1>3, <1>7, <1>12
<1>14. Len(modeLog) \in Nat
  BY SeqGrows DEF Shapes
<1>15. /\ metrics.inhibitions \in Nat /\ metrics.transitions \in Nat
       /\ metrics.errors \in Nat /\ metrics.escalations \in Nat
  BY DEF Shapes, Counters
<1>16. /\ Cardinality(call'.trace.decision.inhibited)
            = Cardinality(call.trace.decision.inhibited) + 0
       /\ metrics'.inhibitions = metrics.inhibitions + 0
       /\ metrics'.escalations = metrics.escalations + 0
       /\ Len(modeLog') = Len(modeLog) + 0 /\ metrics'.transitions = metrics.transitions + 0
       /\ metrics'.errors >= metrics.errors
       /\ 0 \in Nat /\ 1 \in Nat /\ 0 <= x
  <2>1. modeLog' = modeLog /\ call'.trace.decision = call.trace.decision
    BY <1>1
  <2>2. \A m \in Nat : m + 0 = m
    OBVIOUS
  <2>3. metrics'.errors >= metrics.errors
    BY <1>5, <1>15
  <2>4. 0 \in Nat /\ 1 \in Nat /\ 0 <= x
    BY <1>3
  <2> QED BY <1>5, <1>7, <1>14, <1>15, <2>1, <2>2, <2>3, <2>4, Zenon
<1>17. Shapes'
  BY <1>1, <1>5 DEF Shapes
<1>18. Counted'
  BY <1>1, <1>5, <1>7, <1>8, <1>16, StageCounted DEF Books
<1>19. Bounded'
  BY <1>1, <1>3, <1>5, <1>7, <1>9, <1>12, <1>14, <1>16, StageBounded DEF Books
<1>20. Requested'
  BY <1>5, <1>7, <1>13, <1>16, StageRequested DEF Books
<1> QED BY <1>17, <1>18, <1>19, <1>20 DEF Books

\* A cycle that begins is an input, whoever started it.
LEMMA SenseBooks ==
  ASSUME Shapes, Books, NEW t, NEW meta, Sense(t, meta), session' = session,
         run'.steps = run.steps, DOMAIN run' = RunFields, run'.pc \in {"off", "loop", "step", "done"}
  PROVE  Shapes' /\ Books'
<1>1. /\ call = Idle /\ call' # Idle /\ call'.pc = "reflex"
      /\ call'.trace.decision = NoDecision
      /\ call'.trace.results = <<>> /\ call'.trace.halted = "no"
  BY SenseTallies
<1> DEFINE d == [inputs |-> 1]
<1>2. Count(d) /\ DOMAIN d = {"inputs"} /\ d["inputs"] = 1 /\ UNCHANGED modeLog
  BY DEF Sense
<1> HIDE DEF d
<1>3. /\ metrics'.inputs = metrics.inputs + 1 /\ metrics'.traces = metrics.traces
      /\ metrics'.actions = metrics.actions /\ metrics'.tools = metrics.tools
      /\ metrics'.inhibitions = metrics.inhibitions /\ metrics'.errors = metrics.errors
      /\ metrics'.escalations = metrics.escalations
      /\ metrics'.transitions = metrics.transitions
      /\ metrics' \in [Counters -> Nat]
  <2>1. DOMAIN d \subseteq Counters /\ \A c \in DOMAIN d : d[c] \in Nat
    BY <1>2 DEF Counters
  <2>2. /\ metrics' \in [Counters -> Nat]
        /\ \A c \in DOMAIN d : metrics'[c] = metrics[c] + d[c]
        /\ \A c \in Counters \ DOMAIN d : metrics'[c] = metrics[c]
    BY <1>2, <2>1, CountRaises DEF Shapes
  <2> QED BY <1>2, <2>2 DEF Counters
<1>4. /\ Len(call'.trace.results) = 0 /\ Tooled(call'.trace) = 0
      /\ Escalations(call'.trace) = 0 /\ Cardinality(call'.trace.decision.inhibited) = 0
  BY <1>1, FS_EmptySet DEF Tooled, Escalations, NoDecision
<1>5. Asked(call'.trace) = 0
  BY <1>1, <1>4 DEF Asked, One, HaltEscalates
<1>6. /\ Held(1) = 0 /\ Held(1)' = 1
      /\ Held(Len(call.trace.results)) = 0 /\ Held(Len(call.trace.results))' = 0
      /\ Held(Cardinality(call.trace.decision.inhibited)) = 0
      /\ Held(Cardinality(call.trace.decision.inhibited))' = 0
      /\ Held(Tooled(call.trace)) = 0 /\ Held(Tooled(call.trace))' = 0
      /\ Held(Asked(call.trace)) = 0 /\ Held(Asked(call.trace))' = 0
  BY <1>1, <1>4, <1>5 DEF Held
<1>7. Shapes'
  BY <1>1, <1>2, <1>3 DEF Shapes
<1>8. session.turns \in Nat /\ Len(run.steps) \in Nat
  BY SeqGrows DEF Shapes
<1>9. Counted'
  <2>1. metrics.inputs = session.turns + Len(run.steps) + 0
    BY <1>6 DEF Books, Counted
  <2>2. metrics'.inputs = session'.turns + Len(run'.steps) + 1
    BY <1>3, <1>8, <2>1
  <2>3. /\ metrics.traces = session.turns + Len(run.steps)
        /\ metrics.actions = session.actions + Total(ActionsOf(run.steps)) + 0
        /\ metrics.inhibitions = session.inhibitions + Total(InhibitionsOf(run.steps)) + 0
    BY <1>6 DEF Books, Counted
  <2> QED BY <1>3, <1>6, <2>2, <2>3, Zenon DEF Counted
<1>10. Bounded'
  <2>1. /\ metrics.tools >= Total(ToolsOf(run.steps)) + 0
        /\ metrics.escalations <= session.escalations + Total(AsksOf(run.steps)) + 0
        /\ metrics.transitions <= Len(modeLog)
    BY <1>6 DEF Books, Bounded
  <2> QED BY <1>2, <1>3, <1>6, <2>1, Zenon DEF Bounded
<1>11. Requested'
  <2>1. Len(session.approvals) <= session.escalations + metrics.errors
    BY DEF Books, Requested
  <2> QED BY <1>1, <1>3, <2>1 DEF Requested
<1> QED BY <1>7, <1>9, <1>10, <1>11 DEF Books

\* Between cycles, and while an approval expires, nothing is counted.
LEMMA RestBooks ==
  ASSUME Shapes, Books, UNCHANGED <<metrics, call>>,
         IsSeq(modeLog)', Len(modeLog') >= Len(modeLog),
         DOMAIN session' = SessionFields, session'.turns = session.turns,
         session'.actions = session.actions, session'.inhibitions = session.inhibitions,
         session'.escalations = session.escalations, IsSeq(session'.approvals),
         Len(session'.approvals) = Len(session.approvals),
         run'.steps = run.steps, DOMAIN run' = RunFields,
         run'.pc \in {"off", "loop", "step", "done"}, run'.pc = "step" => run.pc = "step"
  PROVE  Shapes' /\ Books'
<1>1. metrics' = metrics /\ call' = call
  OBVIOUS
<1>2. Shapes'
  BY <1>1 DEF Shapes
<1>3. Counted'
  BY <1>1 DEF Books, Counted, Held
<1>4. Bounded'
  <2>1. Len(modeLog) \in Nat /\ Len(modeLog') \in Nat
    BY SeqGrows DEF Shapes
  <2>2. metrics.transitions \in Nat
    BY DEF Shapes, Counters
  <2>3. metrics.transitions <= Len(modeLog)
    BY DEF Books, Bounded
  <2>4. metrics.transitions <= Len(modeLog')
    BY <2>1, <2>2, <2>3
  <2> QED BY <1>1, <2>4, Zenon DEF Books, Bounded, Held
<1>5. Requested'
  BY <1>1 DEF Books, Requested
<1> QED BY <1>2, <1>3, <1>4, <1>5 DEF Books

\* The end of a cycle counts its trace.
LEMMA FinalizeCounts ==
  ASSUME Shapes, Finalize
  PROVE  /\ call # Idle /\ call' = Idle /\ call.pc = "end" /\ UNCHANGED <<mode, modeLog>>
         /\ metrics' \in [Counters -> Nat] /\ metrics'.traces = metrics.traces + 1
         /\ \A c \in Counters \ {"traces"} : metrics'[c] = metrics[c]
<1> DEFINE d == [traces |-> 1]
<1>1. Count(d) /\ DOMAIN d = {"traces"} /\ d["traces"] = 1
  BY DEF Finalize
<1> HIDE DEF d
<1>2. DOMAIN d \subseteq Counters /\ \A c \in DOMAIN d : d[c] \in Nat
  BY <1>1 DEF Counters
<1>3. /\ metrics' \in [Counters -> Nat]
      /\ \A c \in DOMAIN d : metrics'[c] = metrics[c] + d[c]
      /\ \A c \in Counters \ DOMAIN d : metrics'[c] = metrics[c]
  BY <1>1, <1>2, CountRaises DEF Shapes
<1> QED BY <1>1, <1>3 DEF Finalize

\* What one side took over of a cycle, the other has counted.
LEMMA EndTurnBooks ==
  ASSUME TallyInv, Shapes, Books, EndTurn
  PROVE  Shapes' /\ Books'
<1> DEFINE t == call.trace
<1>1. /\ call # Idle /\ call' = Idle /\ call.pc = "end" /\ UNCHANGED <<mode, modeLog>>
      /\ metrics' \in [Counters -> Nat] /\ metrics'.traces = metrics.traces + 1
      /\ \A c \in Counters \ {"traces"} : metrics'[c] = metrics[c]
  BY FinalizeCounts DEF EndTurn
<1>2. /\ metrics'.inputs = metrics.inputs
      /\ metrics'.actions = metrics.actions /\ metrics'.tools = metrics.tools
      /\ metrics'.inhibitions = metrics.inhibitions /\ metrics'.errors = metrics.errors
      /\ metrics'.escalations = metrics.escalations
      /\ metrics'.transitions = metrics.transitions
  BY <1>1 DEF Counters
<1>3. /\ session' = Updated(t) /\ run' = run /\ run.pc # "step"
  BY DEF EndTurn
<1>4. /\ DOMAIN session' = SessionFields
      /\ session'.turns = session.turns + 1
      /\ session'.actions = session.actions + Len(t.results)
      /\ session'.inhibitions = session.inhibitions + Cardinality(t.decision.inhibited)
      /\ session'.escalations = session.escalations + One(HaltEscalates(t)) + Escalations(t)
      /\ session'.approvals = session.approvals
           \o IF AsksApproval(t) THEN <<[state |-> Open, text |-> t.text]>> ELSE <<>>
  BY <1>3 DEF Updated, SessionFields
<1>5. /\ Len(t.results) \in Nat /\ Tooled(t) \in Nat /\ Asked(t) \in Nat
      /\ Cardinality(t.decision.inhibited) \in Nat /\ Escalations(t) \in Nat
  BY <1>1, TalliesAreNumbers DEF TallyInv, CycleTally
<1>6. One(HaltEscalates(t)) \in Nat /\ Asked(t) = One(HaltEscalates(t)) + Escalations(t)
  BY DEF One, Asked
<1>7. /\ session.turns \in Nat /\ session.actions \in Nat /\ session.inhibitions \in Nat
      /\ session.escalations \in Nat
  BY DEF Shapes
<1>8. session'.escalations = session.escalations + Asked(t)
  BY <1>4, <1>5, <1>6, <1>7
<1>9. Len(session.approvals) \in Nat /\ Len(run.steps) \in Nat
  BY SeqGrows DEF Shapes
<1>10. IsSeq(session'.approvals)
       /\ Len(session'.approvals) = Len(session.approvals) + One(AsksApproval(t))
  <2>1. PICK S : session.approvals \in Seq(S)
    BY DEF Shapes, IsSeq
  <2> DEFINE e == [state |-> Open, text |-> t.text]
             T == S \cup {e}
  <2>2. session.approvals \in Seq(T) /\ e \in T
    BY <2>1
  <2>3. session'.approvals = session.approvals \o IF AsksApproval(t) THEN <<e>> ELSE <<>>
    BY <1>4
  <2> HIDE DEF e, T
  <2>4. CASE AsksApproval(t)
    <3>1. <<e>> \in Seq(T) /\ Len(<<e>>) = 1
      BY <2>2
    <3>2. session'.approvals \in Seq(T) /\ Len(session'.approvals) = Len(session.approvals) + 1
      BY <2>2, <2>3, <2>4, <3>1, ConcatProperties
    <3>3. One(AsksApproval(t)) = 1
      BY <2>4 DEF One
    <3> QED BY <3>2, <3>3 DEF IsSeq
  <2>5. CASE ~AsksApproval(t)
    <3>1. session'.approvals = session.approvals
      BY <2>2, <2>3, <2>5, ConcatEmptySeq
    <3>2. One(AsksApproval(t)) = 0
      BY <2>5 DEF One
    <3>3. IsSeq(session'.approvals)
      BY <3>1 DEF Shapes
    <3> QED BY <1>9, <3>1, <3>2, <3>3
  <2> QED BY <2>4, <2>5
<1>11. Shapes'
  <2>1. /\ session'.turns \in Nat /\ session'.actions \in Nat /\ session'.inhibitions \in Nat
        /\ session'.escalations \in Nat
    <3>1. \A m \in Nat, n \in Nat : m + n \in Nat
      OBVIOUS
    <3> QED BY <1>4, <1>5, <1>7, <1>8, <3>1, 1 \in Nat, Zenon
  <2> QED BY <1>1, <1>3, <1>4, <1>10, <2>1 DEF Shapes
<1>12. /\ Held(1) = 1 /\ Held(1)' = 0
       /\ Held(Len(call.trace.results)) = Len(t.results)
       /\ Held(Len(call.trace.results))' = 0
       /\ Held(Cardinality(call.trace.decision.inhibited)) = Cardinality(t.decision.inhibited)
       /\ Held(Cardinality(call.trace.decision.inhibited))' = 0
       /\ Held(Tooled(call.trace)) = Tooled(t) /\ Held(Tooled(call.trace))' = 0
       /\ Held(Asked(call.trace)) = Asked(t) /\ Held(Asked(call.trace))' = 0
  BY <1>1 DEF Held
<1>13. /\ Total(ToolsOf(run.steps)) \in Nat /\ Total(ActionsOf(run.steps)) \in Nat
       /\ Total(InhibitionsOf(run.steps)) \in Nat /\ Total(AsksOf(run.steps)) \in Nat
  BY SumsAreNumbers DEF Shapes
<1> HIDE DEF t
<1>14. Counted'
  <2>1. /\ metrics.inputs = session.turns + Len(run.steps) + 1
        /\ metrics.traces = session.turns + Len(run.steps)
        /\ metrics.actions = session.actions + Total(ActionsOf(run.steps)) + Len(t.results)
        /\ metrics.inhibitions = session.inhibitions + Total(InhibitionsOf(run.steps))
                                 + Cardinality(t.decision.inhibited)
    BY <1>12 DEF Books, Counted
  <2>2. /\ metrics'.inputs = session'.turns + Len(run.steps) + 0
        /\ metrics'.traces = session'.turns + Len(run.steps)
    BY <1>1, <1>2, <1>4, <1>7, <1>9, <2>1, SMTT(40)
  <2>3. metrics'.actions = session'.actions + Total(ActionsOf(run.steps)) + 0
    BY <1>2, <1>4, <1>5, <1>7, <1>13, <2>1, SMTT(40)
  <2>4. metrics'.inhibitions = session'.inhibitions + Total(InhibitionsOf(run.steps)) + 0
    BY <1>2, <1>4, <1>5, <1>7, <1>13, <2>1, SMTT(40)
  <2> QED BY <1>3, <1>12, <2>2, <2>3, <2>4, Zenon DEF Counted
<1>15. Bounded'
  <2>1. /\ metrics.tools >= Total(ToolsOf(run.steps)) + Tooled(t)
        /\ metrics.escalations <= session.escalations + Total(AsksOf(run.steps)) + Asked(t)
        /\ metrics.transitions <= Len(modeLog)
    BY <1>12 DEF Books, Bounded
  <2>2. metrics.tools \in Nat /\ metrics.escalations \in Nat
    BY DEF Shapes, Counters
  <2>3. metrics'.tools >= Total(ToolsOf(run.steps)) + 0
    BY <1>2, <1>5, <1>13, <2>1, <2>2, SMTT(40)
  <2>4. metrics'.escalations <= session'.escalations + Total(AsksOf(run.steps)) + 0
    BY <1>2, <1>5, <1>7, <1>8, <1>13, <2>1, <2>2, SMTT(40)
  <2>5. metrics'.transitions <= Len(modeLog')
    BY <1>1, <1>2, <2>1
  <2> QED BY <1>3, <1>12, <2>3, <2>4, <2>5, Zenon DEF Bounded
<1>16. Requested'
  <2>1. /\ Len(session.approvals) <= session.escalations + metrics.errors
        /\ AsksApproval(t) => Len(session.approvals) + 1
                                <= session.escalations + Asked(t) + metrics.errors
    BY <1>1 DEF Books, Requested, t
  <2>2. metrics.errors \in Nat
    BY DEF Shapes, Counters
  <2>3. Len(session'.approvals) <= session'.escalations + metrics'.errors
    <3>1. CASE AsksApproval(t)
      <4>1. One(AsksApproval(t)) = 1
        BY <3>1 DEF One
      <4> QED BY <1>2, <1>5, <1>7, <1>8, <1>9, <1>10, <2>1, <2>2, <3>1, <4>1
    <3>2. CASE ~AsksApproval(t)
      <4>1. One(AsksApproval(t)) = 0
        BY <3>2 DEF One
      <4> QED BY <1>2, <1>5, <1>7, <1>8, <1>9, <1>10, <2>1, <2>2, <4>1
    <3> QED BY <3>1, <3>2
  <2> QED BY <1>1, <2>3 DEF Requested
<1> QED BY <1>11, <1>14, <1>15, <1>16 DEF Books

\* A step hands its trace to the run.
LEMMA EndStepBooks ==
  ASSUME TallyInv, Shapes, Books, EndStep
  PROVE  Shapes' /\ Books'
<1> DEFINE t == call.trace
<1>1. /\ call # Idle /\ call' = Idle /\ call.pc = "end" /\ UNCHANGED <<mode, modeLog>>
      /\ metrics' \in [Counters -> Nat] /\ metrics'.traces = metrics.traces + 1
      /\ \A c \in Counters \ {"traces"} : metrics'[c] = metrics[c]
  BY FinalizeCounts DEF EndStep
<1>2. /\ metrics'.inputs = metrics.inputs
      /\ metrics'.actions = metrics.actions /\ metrics'.tools = metrics.tools
      /\ metrics'.inhibitions = metrics.inhibitions /\ metrics'.errors = metrics.errors
      /\ metrics'.escalations = metrics.escalations
      /\ metrics'.transitions = metrics.transitions
  BY <1>1 DEF Counters
<1>3. run' = Observed(t) /\ session' = session
  BY DEF EndStep
<1>4. /\ run'.steps = Append(run.steps, t) /\ DOMAIN run' = RunFields
      /\ run'.pc \in {"loop", "done"}
  BY <1>3 DEF Observed, RunFields, Shapes
<1>5. Tallied(t)
  BY <1>1 DEF TallyInv, CycleTally
<1>6. /\ Len(t.results) \in Nat /\ Tooled(t) \in Nat /\ Asked(t) \in Nat
      /\ Cardinality(t.decision.inhibited) \in Nat
  BY <1>5, TalliesAreNumbers
<1>7. /\ session.turns \in Nat /\ session.actions \in Nat /\ session.inhibitions \in Nat
      /\ session.escalations \in Nat
  BY DEF Shapes
<1> DEFINE r == Append(run.steps, t)
<1>8. /\ IsSeq(r) /\ Len(run.steps) \in Nat /\ Len(r) = Len(run.steps) + 1
      /\ \A i \in DOMAIN r : Tallied(r[i])
  <2>1. /\ IsSeq(r) /\ Len(run.steps) \in Nat /\ DOMAIN run.steps = 1..Len(run.steps)
        /\ Len(r) = Len(run.steps) + 1 /\ DOMAIN r = 1..(Len(run.steps) + 1)
        /\ \A i \in 1..Len(run.steps) : r[i] = run.steps[i]
        /\ r[Len(run.steps) + 1] = t
    BY SeqGrows DEF Shapes
  <2> HIDE DEF r, t
  <2>2. \A i \in DOMAIN run.steps : Tallied(run.steps[i])
    BY DEF Shapes
  <2>3. \A i \in DOMAIN r : i = Len(run.steps) + 1 \/ i \in 1..Len(run.steps)
    BY <2>1
  <2> QED BY <1>5, <2>1, <2>2, <2>3, Zenon
<1>9. Shapes'
  BY <1>1, <1>3, <1>4, <1>8 DEF Shapes
<1>10. /\ Held(1) = 1 /\ Held(1)' = 0
       /\ Held(Len(call.trace.results)) = Len(t.results)
       /\ Held(Len(call.trace.results))' = 0
       /\ Held(Cardinality(call.trace.decision.inhibited)) = Cardinality(t.decision.inhibited)
       /\ Held(Cardinality(call.trace.decision.inhibited))' = 0
       /\ Held(Tooled(call.trace)) = Tooled(t) /\ Held(Tooled(call.trace))' = 0
       /\ Held(Asked(call.trace)) = Asked(t) /\ Held(Asked(call.trace))' = 0
  BY <1>1 DEF Held
<1>11. /\ Total(ToolsOf(run.steps)) \in Nat
       /\ Total(ToolsOf(r)) = Total(ToolsOf(run.steps)) + Tooled(t)
       /\ Total(ActionsOf(run.steps)) \in Nat
       /\ Total(ActionsOf(r)) = Total(ActionsOf(run.steps)) + Len(t.results)
       /\ Total(InhibitionsOf(run.steps)) \in Nat
       /\ Total(InhibitionsOf(r))
            = Total(InhibitionsOf(run.steps)) + Cardinality(t.decision.inhibited)
       /\ Total(AsksOf(run.steps)) \in Nat
       /\ Total(AsksOf(r)) = Total(AsksOf(run.steps)) + Asked(t)
  BY <1>5, StepSums DEF Shapes
<1>12. run'.steps = r /\ session' = session
  BY <1>3, <1>4
<1> HIDE DEF t, r
<1>13. Counted'
  <2>1. /\ metrics.inputs = session.turns + Len(run.steps) + 1
        /\ metrics.traces = session.turns + Len(run.steps)
        /\ metrics.actions = session.actions + Total(ActionsOf(run.steps)) + Len(t.results)
        /\ metrics.inhibitions = session.inhibitions + Total(InhibitionsOf(run.steps))
                                 + Cardinality(t.decision.inhibited)
    BY <1>10 DEF Books, Counted
  <2>2. /\ metrics'.inputs = session.turns + Len(r) + 0
        /\ metrics'.traces = session.turns + Len(r)
    BY <1>1, <1>2, <1>7, <1>8, <2>1, SMTT(40)
  <2>3. metrics'.actions = session.actions + Total(ActionsOf(r)) + 0
    BY <1>2, <1>6, <1>7, <1>11, <2>1, SMTT(40)
  <2>4. metrics'.inhibitions = session.inhibitions + Total(InhibitionsOf(r)) + 0
    BY <1>2, <1>6, <1>7, <1>11, <2>1, SMTT(40)
  <2> QED BY <1>10, <1>12, <2>2, <2>3, <2>4, Zenon DEF Counted
<1>14. Bounded'
  <2>1. /\ metrics.tools >= Total(ToolsOf(run.steps)) + Tooled(t)
        /\ metrics.escalations <= session.escalations + Total(AsksOf(run.steps)) + Asked(t)
        /\ metrics.transitions <= Len(modeLog)
    BY <1>10 DEF Books, Bounded
  <2>2. metrics.tools \in Nat /\ metrics.escalations \in Nat
    BY DEF Shapes, Counters
  <2>3. metrics'.tools >= Total(ToolsOf(r)) + 0
    BY <1>2, <1>6, <1>11, <2>1, <2>2, SMTT(40)
  <2>4. metrics'.escalations <= session.escalations + Total(AsksOf(r)) + 0
    BY <1>2, <1>6, <1>7, <1>11, <2>1, <2>2, SMTT(40)
  <2>5. metrics'.transitions <= Len(modeLog')
    BY <1>1, <1>2, <2>1
  <2> QED BY <1>10, <1>12, <2>3, <2>4, <2>5, Zenon DEF Bounded
<1>15. Requested'
  <2>1. Len(session.approvals) <= session.escalations + metrics.errors
    BY DEF Books, Requested
  <2> QED BY <1>1, <1>2, <1>12, <2>1 DEF Requested
<1> QED BY <1>9, <1>13, <1>14, <1>15 DEF Books

-----------------------------------------------------------------------------
\* Every step keeps the accounts, and what they rest on.
BooksInv == CycleInv /\ TallyInv /\ Shapes /\ Books

\* Every step keeps the accounts.
LEMMA StepKeepsBooks ==
  ASSUME BooksInv, [Next]_vars
  PROVE  BooksInv'
<1> USE DEF BooksInv
<1>1. CycleInv'
  BY StepKeepsCycle
<1> SUFFICES TallyInv' /\ Shapes' /\ Books'
  BY <1>1
<1>2. ASSUME UNCHANGED <<metrics, call, run>>, UNCHANGED session, UNCHANGED modeLog
      PROVE  TallyInv' /\ Shapes' /\ Books'
  BY <1>2 DEF TallyInv, Shapes, Books, Counted, Bounded, Requested, Held
<1>3. CASE Working
  <2>1. UNCHANGED <<session, run>>
    BY <1>3 DEF Working
  <2>2. CASE Reflex
    BY <2>1, <2>2, ReflexBooks, ReflexTallies
  <2>3. CASE Think
    BY <2>1, <2>3, ThinkBooks, ThinkTallies
  <2>4. CASE Act
    BY <2>1, <2>4, ActBooks, ActTallies
  <2> QED BY <1>3, <2>2, <2>3, <2>4 DEF Working
<1>4. CASE EndTurn
  <2>1. call' = Idle
    BY <1>4 DEF EndTurn, Finalize
  <2> QED BY <1>4, <2>1, EndTurnBooks DEF TallyInv
<1>5. CASE EndStep
  <2>1. call' = Idle
    BY <1>5 DEF EndStep, Finalize
  <2> QED BY <1>5, <2>1, EndStepBooks DEF TallyInv
<1>6. CASE BeginStep
  <2>1. Sense(Head(run.left), run.meta) /\ session' = session
    BY <1>6 DEF BeginStep
  <2>2. /\ run'.steps = run.steps /\ DOMAIN run' = RunFields /\ run'.pc = "step"
    BY <1>6 DEF BeginStep, Shapes, RunFields
  <2> QED BY <2>1, <2>2, SenseBooks, SenseTallies
<1>7. CASE \E t \in TurnTexts, meta \in TurnMetas : Turn(t, meta)
  <2>1. PICK t \in TurnTexts, meta \in TurnMetas : Turn(t, meta)
    BY <1>7
  <2>2. PICK m : Sense(t, m)
    BY <2>1 DEF Turn
  <2>3. session' = session /\ run' = run
    BY <2>1 DEF Turn
  <2>4. run'.steps = run.steps /\ DOMAIN run' = RunFields /\ run'.pc \in {"off", "loop", "step", "done"}
    BY <2>3 DEF Shapes
  <2> QED BY <2>2, <2>3, <2>4, SenseBooks, SenseTallies
<1>8. ASSUME UNCHANGED <<metrics, call>>, UNCHANGED session, UNCHANGED modeLog,
             run'.steps = run.steps, DOMAIN run' = RunFields, run'.pc \in {"loop", "done"}
      PROVE  TallyInv' /\ Shapes' /\ Books'
  <2>1. Len(modeLog) \in Nat /\ IsSeq(modeLog)'
    BY <1>8, SeqGrows DEF Shapes
  <2>2. Len(modeLog') >= Len(modeLog)
    BY <1>8, <2>1
  <2>3. /\ DOMAIN session' = SessionFields /\ session'.turns = session.turns
        /\ session'.actions = session.actions /\ session'.inhibitions = session.inhibitions
        /\ session'.escalations = session.escalations /\ IsSeq(session'.approvals)
        /\ Len(session'.approvals) = Len(session.approvals)
    BY <1>8 DEF Shapes
  <2>4. TallyInv'
    BY <1>8 DEF TallyInv
  <2> QED BY <1>8, <2>1, <2>2, <2>3, <2>4, RestBooks
<1>9. CASE StopAtGuard \/ EndRun \/ \E plan \in Plans, meta \in RunMetas : StartRun(plan, meta)
  <2>1. UNCHANGED <<metrics, call>> /\ UNCHANGED session /\ UNCHANGED modeLog
    BY <1>9 DEF StopAtGuard, EndRun, StartRun, brainVars
  <2>2. run'.steps = run.steps /\ DOMAIN run' = RunFields /\ run'.pc \in {"loop", "done"}
    BY <1>9 DEF StopAtGuard, EndRun, StartRun, Shapes, RunFields
  <2> QED BY <1>8, <2>1, <2>2
<1>10. CASE \E i \in DOMAIN session.approvals :
               Resolve(i, "approved") \/ Resolve(i, "denied") \/ ApprovalExpires(i)
  <2>1. PICK i \in DOMAIN session.approvals, x \in {"approved", "denied", "expired"} :
          /\ session' = [session EXCEPT !.approvals[i].state = x]
          /\ UNCHANGED <<brainVars, run>>
    BY <1>10 DEF Resolve, ApprovalExpires
  <2>2. UNCHANGED <<metrics, call>> /\ UNCHANGED modeLog /\ run' = run
    BY <2>1 DEF brainVars
  <2>3. PICK S : session.approvals \in Seq(S)
    BY DEF Shapes, IsSeq
  <2> DEFINE e == [session.approvals[i] EXCEPT !.state = x]
             T == S \cup {e}
             q == [session.approvals EXCEPT ![i] = e]
  <2>4. session' = [session EXCEPT !.approvals = q]
    BY <2>1
  <2>5. q \in Seq(T) /\ Len(q) = Len(session.approvals)
    <3>1. session.approvals \in Seq(T) /\ e \in T
      BY <2>3
    <3> HIDE DEF e, T
    <3> QED BY <3>1
  <2> HIDE DEF q, T, e
  <2>6. /\ DOMAIN session' = SessionFields /\ session'.turns = session.turns
        /\ session'.actions = session.actions /\ session'.inhibitions = session.inhibitions
        /\ session'.escalations = session.escalations /\ session'.approvals = q
    BY <2>4 DEF Shapes, SessionFields
  <2>7. IsSeq(session'.approvals) /\ Len(session'.approvals) = Len(session.approvals)
    BY <2>5, <2>6 DEF IsSeq
  <2>8. Len(modeLog) \in Nat /\ IsSeq(modeLog)'
    BY <2>2, SeqGrows DEF Shapes
  <2>9. Len(modeLog') >= Len(modeLog)
    BY <2>2, <2>8
  <2>10. TallyInv'
    BY <2>2 DEF TallyInv
  <2>11. /\ run'.steps = run.steps /\ DOMAIN run' = RunFields
         /\ run'.pc \in {"off", "loop", "step", "done"} /\ run'.pc = run.pc
    BY <2>2 DEF Shapes
  <2> QED BY <2>2, <2>6, <2>7, <2>8, <2>9, <2>10, <2>11, RestBooks
<1>11. CASE \E m \in OperatorModes : SetMode(m)
  <2>1. PICK m \in OperatorModes : SetMode(m)
    BY <1>11
  <2>2. Transition(m) /\ UNCHANGED <<metrics, call>> /\ UNCHANGED session /\ run' = run
    BY <2>1 DEF SetMode
  <2>3. IsSeq(modeLog)' /\ Len(modeLog) \in Nat /\ Len(modeLog') = Len(modeLog) + One(mode' # mode)
    BY <2>2, LogGrows DEF Shapes
  <2>4. Len(modeLog') >= Len(modeLog)
    BY <2>3 DEF One
  <2>5. TallyInv'
    BY <2>2 DEF TallyInv
  <2>6. /\ run'.steps = run.steps /\ DOMAIN run' = RunFields
        /\ run'.pc \in {"off", "loop", "step", "done"} /\ run'.pc = run.pc
    BY <2>2 DEF Shapes
  <2>7. /\ DOMAIN session' = SessionFields /\ session'.turns = session.turns
        /\ session'.actions = session.actions /\ session'.inhibitions = session.inhibitions
        /\ session'.escalations = session.escalations /\ IsSeq(session'.approvals)
        /\ Len(session'.approvals) = Len(session.approvals)
    BY <2>2 DEF Shapes
  <2> QED BY <2>2, <2>3, <2>4, <2>5, <2>6, <2>7, RestBooks
<1>12. CASE UNCHANGED vars
  BY <1>2, <1>12 DEF vars, brainVars
<1> QED BY <1>3, <1>4, <1>5, <1>6, <1>7, <1>9, <1>10, <1>11, <1>12 DEF Next, Machine

\* At the start nothing is counted.
LEMMA InitHasBooks == Init => BooksInv
<1> SUFFICES ASSUME Init PROVE BooksInv
  OBVIOUS
<1>1. CycleInv
  BY InitHasNoCycle
<1>2. TallyInv /\ call = Idle
  BY DEF TallyInv, Init, BrainInit
<1>3. session = Blank /\ run = Off /\ metrics = [c \in Counters |-> 0] /\ modeLog = Log("normal", mode)
  BY DEF Init, BrainInit
<1>4. IsSeq(modeLog)
  <2> DEFINE e == [from |-> "normal", to |-> mode]
  <2>1. modeLog = <<>> \/ modeLog = <<e>>
    BY <1>3 DEF Log
  <2> HIDE DEF e
  <2>2. <<>> \in Seq({e}) /\ <<e>> \in Seq({e})
    OBVIOUS
  <2> QED BY <2>1, <2>2 DEF IsSeq
<1>5. run.steps = <<>> /\ session.approvals = <<>> /\ <<>> \in Seq({}) /\ DOMAIN run = RunFields
      /\ DOMAIN session = SessionFields /\ run.pc = "off"
  BY <1>3, EmptySeq DEF Off, Blank, RunFields, SessionFields
<1>6. Shapes
  BY <1>3, <1>4, <1>5 DEF Shapes, IsSeq, Blank, Off
<1>7. /\ Total(ToolsOf(<<>>)) = 0 /\ Total(ActionsOf(<<>>)) = 0
      /\ Total(InhibitionsOf(<<>>)) = 0 /\ Total(AsksOf(<<>>)) = 0
  <2>1. /\ Len(ToolsOf(<<>>)) = 0 /\ Len(ActionsOf(<<>>)) = 0
        /\ Len(InhibitionsOf(<<>>)) = 0 /\ Len(AsksOf(<<>>)) = 0
    <3>1. /\ ToolsOf(<<>>) = <<>> /\ ActionsOf(<<>>) = <<>>
          /\ InhibitionsOf(<<>>) = <<>> /\ AsksOf(<<>>) = <<>>
      BY DEF ToolsOf, ActionsOf, InhibitionsOf, AsksOf
    <3>2. Len(<<>>) = 0
      OBVIOUS
    <3> QED BY <3>1, <3>2, Zenon
  <2> QED BY <2>1, TotalOfNone
<1>8. Len(modeLog) \in Nat
  BY <1>4, SeqGrows
<1>9. /\ metrics.inputs = 0 /\ metrics.traces = 0 /\ metrics.actions = 0 /\ metrics.tools = 0
      /\ metrics.inhibitions = 0 /\ metrics.errors = 0 /\ metrics.escalations = 0
      /\ metrics.transitions = 0
  BY <1>3 DEF Counters
<1>10. /\ session.turns = 0 /\ session.actions = 0 /\ session.inhibitions = 0
       /\ session.escalations = 0 /\ Len(session.approvals) = 0 /\ Len(run.steps) = 0
  BY <1>3, <1>5 DEF Blank
<1>11. Counted
  BY <1>2, <1>5, <1>7, <1>9, <1>10 DEF Counted, Held
<1>12. Bounded
  BY <1>2, <1>5, <1>7, <1>8, <1>9, <1>10 DEF Bounded, Held
<1>13. Requested
  BY <1>2, <1>9, <1>10 DEF Requested
<1> QED BY <1>1, <1>2, <1>6, <1>11, <1>12, <1>13 DEF BooksInv, Books

\* The accounts are kept in every reachable state.
LEMMA BooksAlways == Spec => []BooksInv
BY InitHasBooks, StepKeepsBooks, PTL DEF Spec

\* At the prompt the accounts of the monitor, the session and the run agree,
\* however the turns, the runs and the approvals alternate.
THEOREM AccountsAlwaysAgree == Spec => []AccountsAgree
<1>1. BooksInv => AccountsAgree
  <2> SUFFICES ASSUME BooksInv, call = Idle
               PROVE  /\ metrics.inputs = session.turns + Len(run.steps)
                      /\ metrics.traces = metrics.inputs
                      /\ metrics.actions = session.actions + Total(ActionsOf(run.steps))
                      /\ metrics.inhibitions = session.inhibitions + Total(InhibitionsOf(run.steps))
                      /\ metrics.tools >= Total(ToolsOf(run.steps))
                      /\ metrics.escalations <= session.escalations + Total(AsksOf(run.steps))
                      /\ metrics.transitions <= Len(modeLog)
                      /\ Len(session.approvals) <= session.escalations + metrics.errors
    BY DEF AccountsAgree
  <2>1. /\ Total(ToolsOf(run.steps)) \in Nat /\ Total(ActionsOf(run.steps)) \in Nat
        /\ Total(InhibitionsOf(run.steps)) \in Nat /\ Total(AsksOf(run.steps)) \in Nat
    BY SumsAreNumbers DEF BooksInv, Shapes
  <2>2. /\ session.turns \in Nat /\ session.actions \in Nat /\ session.inhibitions \in Nat
        /\ session.escalations \in Nat /\ Len(run.steps) \in Nat
    BY SeqGrows DEF BooksInv, Shapes
  <2>3. \A n : Held(n) = 0
    BY DEF Held
  <2>4. /\ metrics.inputs = session.turns + Len(run.steps) + 0
        /\ metrics.traces = session.turns + Len(run.steps)
        /\ metrics.actions = session.actions + Total(ActionsOf(run.steps)) + 0
        /\ metrics.inhibitions = session.inhibitions + Total(InhibitionsOf(run.steps)) + 0
    BY <2>3 DEF BooksInv, Books, Counted
  <2>5. /\ metrics.tools >= Total(ToolsOf(run.steps)) + 0
        /\ metrics.escalations <= session.escalations + Total(AsksOf(run.steps)) + 0
        /\ metrics.transitions <= Len(modeLog)
        /\ Len(session.approvals) <= session.escalations + metrics.errors
    BY <2>3 DEF BooksInv, Books, Bounded, Requested
  <2>6. metrics.inputs = session.turns + Len(run.steps) /\ metrics.traces = metrics.inputs
    BY <2>2, <2>4
  <2>7. \A m \in Nat, n \in Nat : m + n + 0 = m + n /\ n + 0 = n
    OBVIOUS
  <2> QED BY <2>1, <2>2, <2>4, <2>5, <2>6, <2>7, Zenon
<1> QED BY <1>1, BooksAlways, PTL

-----------------------------------------------------------------------------
(* The orchestrator's run: its budget and its plan. *)

Budget ==
  /\ run.tools = Total(ToolsOf(run.steps))
  /\ run.pc = "step" => Len(run.steps) < MaxSteps /\ run.tools < MaxTools
  /\ Len(run.steps) <= MaxSteps /\ run.tools <= MaxTools

\* A step makes one tool call at most, and begins only within the budget.
LEMMA StepKeepsBudget ==
  ASSUME BooksInv, Budget, [Next]_vars
  PROVE  Budget'
<1>1. ASSUME run' = run PROVE Budget'
  BY <1>1 DEF Budget
<1>2. ASSUME run'.tools = run.tools, run'.steps = run.steps, run'.pc # "step" PROVE Budget'
  BY <1>2 DEF Budget
<1>3. DOMAIN run = RunFields /\ IsSeq(run.steps) /\ \A i \in DOMAIN run.steps : Tallied(run.steps[i])
  BY DEF BooksInv, Shapes
<1>4. Len(run.steps) \in Nat
  BY <1>3, SeqGrows
<1>5. MaxSteps \in Nat /\ MaxTools \in Nat
  BY SessionAssumption
<1>6. Total(ToolsOf(run.steps)) \in Nat
  BY <1>3, SumsAreNumbers
<1>7. CASE BeginStep
  <2>1. /\ run'.tools = run.tools /\ run'.steps = run.steps
        /\ ~(Len(run.steps) >= MaxSteps) /\ ~(run.tools >= MaxTools)
    BY <1>3, <1>7 DEF BeginStep, GuardReason, RunFields
  <2>2. Len(run.steps) < MaxSteps /\ run.tools < MaxTools
    BY <1>4, <1>5, <1>6, <2>1 DEF Budget
  <2> QED BY <2>1, <2>2 DEF Budget
<1>8. CASE EndStep
  <2> DEFINE t == call.trace
  <2>1. run' = Observed(t) /\ run.pc = "step" /\ call # Idle
    BY <1>8 DEF EndStep, Finalize
  <2>2. /\ run'.steps = Append(run.steps, t) /\ run'.tools = run.tools + Tooled(t)
        /\ run'.pc # "step"
    BY <1>3, <2>1 DEF Observed, Tooled, RunFields
  <2>3. Tallied(t)
    BY <2>1 DEF BooksInv, TallyInv, CycleTally
  <2>4. Tooled(t) \in {0, 1}
    BY <2>3, OneToolAtMost
  <2>5. Total(ToolsOf(Append(run.steps, t))) = Total(ToolsOf(run.steps)) + Tooled(t)
    BY <1>3, <2>3, StepSums
  <2>6. Len(Append(run.steps, t)) = Len(run.steps) + 1
    BY <1>3, SeqGrows
  <2> HIDE DEF t
  <2>7. /\ run.tools = Total(ToolsOf(run.steps))
        /\ Len(run.steps) < MaxSteps /\ run.tools < MaxTools
    BY <2>1 DEF Budget
  <2>8. run'.tools = Total(ToolsOf(run'.steps))
    BY <2>2, <2>5, <2>7
  <2>9. Len(run'.steps) <= MaxSteps /\ run'.tools <= MaxTools
    BY <1>4, <1>5, <1>6, <2>2, <2>4, <2>6, <2>7
  <2> QED BY <2>2, <2>8, <2>9 DEF Budget
<1>9. CASE StopAtGuard \/ EndRun \/ \E plan \in Plans, meta \in RunMetas : StartRun(plan, meta)
  <2>1. run'.tools = run.tools /\ run'.steps = run.steps /\ run'.pc # "step"
    BY <1>3, <1>9 DEF StopAtGuard, EndRun, StartRun, RunFields
  <2> QED BY <1>2, <2>1
<1>10. CASE Working \/ EndTurn
  BY <1>1, <1>10 DEF Working, EndTurn
<1>11. CASE \E t \in TurnTexts, meta \in TurnMetas : Turn(t, meta)
  BY <1>1, <1>11 DEF Turn
<1>12. CASE \E i \in DOMAIN session.approvals :
               Resolve(i, "approved") \/ Resolve(i, "denied") \/ ApprovalExpires(i)
  BY <1>1, <1>12 DEF Resolve, ApprovalExpires
<1>13. CASE \E m \in OperatorModes : SetMode(m)
  BY <1>1, <1>13 DEF SetMode
<1>14. CASE UNCHANGED vars
  BY <1>1, <1>14 DEF vars
<1> QED BY <1>7, <1>8, <1>9, <1>10, <1>11, <1>12, <1>13, <1>14 DEF Next, Machine

\* No run exceeds its steps or its tool calls, whatever its steps do.
THEOREM RunAlwaysInBudget == Spec => []RunStaysInBudget
<1>1. Init => Budget
  <2> SUFFICES ASSUME Init PROVE Budget
    OBVIOUS
  <2>1. run.steps = <<>> /\ run.tools = 0 /\ run.pc = "off"
    BY DEF Init, Off
  <2>2. ToolsOf(<<>>) = <<>> /\ Len(<<>>) = 0
    BY DEF ToolsOf
  <2>3. Total(ToolsOf(run.steps)) = 0
    BY <2>1, <2>2, TotalOfNone
  <2> QED BY <2>1, <2>2, <2>3, SessionAssumption DEF Budget
<1>2. BooksInv /\ Budget => RunStaysInBudget
  <2> SUFFICES ASSUME BooksInv, Budget PROVE RunStaysInBudget
    OBVIOUS
  <2>1. Len(run.steps) \in Nat /\ MaxSteps \in Nat
    BY SeqGrows, SessionAssumption DEF BooksInv, Shapes
  <2>2. CASE run.pc = "step"
    <3>1. Len(run.steps) < MaxSteps /\ One(run.pc = "step") = 1
      BY <2>2 DEF Budget, One
    <3> QED BY <2>1, <3>1 DEF Budget, RunStaysInBudget
  <2>3. CASE run.pc # "step"
    <3>1. Len(run.steps) <= MaxSteps /\ One(run.pc = "step") = 0
      BY <2>3 DEF Budget, One
    <3>2. Len(run.steps) + 0 <= MaxSteps
      BY <2>1, <3>1
    <3> QED BY <3>1, <3>2, Zenon DEF Budget, RunStaysInBudget
  <2> QED BY <2>2, <2>3
<1> QED BY <1>1, <1>2, BooksAlways, StepKeepsBudget, PTL DEF Spec

\* What is left of plan p after k of its steps; the text of step i if x is that
\* of the step under way; what is to do after n steps.
Left(p, k) == SubSeq(p, k + 1, Len(p))
Text(s, x, i) == IF i <= Len(s) THEN s[i].text ELSE x
ToDo(s, p, n) ==
  IF Left(p, Own(s, n)) # <<>> /\ PutIn(s, n + 1)
    THEN <<DiagnosisOf(s[n])>> \o Left(p, Own(s, n)) ELSE Left(p, Own(s, n))

\* The first n steps are those of the plan, and diagnoses where they failed.
InOrder(s, p, x, n) ==
  \A i \in 1..n :
    IF PutIn(s, i) THEN Text(s, x, i) = DiagnosisOf(s[i - 1])
    ELSE Own(s, i) <= Len(p) /\ Text(s, x, i) = p[Own(s, i)]

\* The steps of the plan are counted one by one.
LEMMA OwnCounts ==
  ASSUME NEW s, NEW n \in Nat
  PROVE  /\ Own(s, 0) = 0 /\ Own(s, n) \in Nat
         /\ PutIn(s, n + 1) => Own(s, n + 1) = Own(s, n)
         /\ ~PutIn(s, n + 1) => Own(s, n + 1) = Own(s, n) + 1
<1> DEFINE O(k) == {i \in 1..k : ~PutIn(s, i)}
<1>1. IsFiniteSet(1..n) /\ O(n) \subseteq 1..n
  BY FS_Interval
<1>2. IsFiniteSet(O(n))
  BY <1>1, FS_Subset
<1>3. Cardinality(O(n)) \in Nat
  BY <1>2, FS_CardinalityType
<1>4. O(0) = {}
  OBVIOUS
<1>5. PutIn(s, n + 1) => O(n + 1) = O(n)
  OBVIOUS
<1>6. ~PutIn(s, n + 1) => O(n + 1) = O(n) \cup {n + 1} /\ n + 1 \notin O(n)
  OBVIOUS
<1> HIDE DEF O
<1>7. ~PutIn(s, n + 1) => Cardinality(O(n + 1)) = Cardinality(O(n)) + 1
  BY <1>2, <1>6, FS_AddElement
<1>8. Cardinality(O(0)) = 0
  BY <1>4, FS_EmptySet
<1> QED BY <1>3, <1>5, <1>7, <1>8 DEF Own, O

\* A step more does not change which of the steps before were put in.
LEMMA OwnKeeps ==
  ASSUME NEW s, IsSeq(s), NEW t
  PROVE  /\ \A i \in 1..(Len(s) + 1) : PutIn(Append(s, t), i) <=> PutIn(s, i)
         /\ \A n \in 0..(Len(s) + 1) : Own(Append(s, t), n) = Own(s, n)
         /\ PutIn(Append(s, t), (Len(s) + 1) + 1) <=> FailedResults(t) # {}
<1> DEFINE r == Append(s, t)
<1>1. /\ Len(s) \in Nat /\ \A i \in 1..Len(s) : r[i] = s[i]
      /\ r[Len(s) + 1] = t
  BY SeqGrows
<1> HIDE DEF r
<1>2. ASSUME NEW i \in 1..(Len(s) + 1) PROVE PutIn(r, i) <=> PutIn(s, i)
  <2>1. CASE i = 1
    BY <2>1 DEF PutIn
  <2>2. CASE i # 1
    <3>1. i - 1 \in 1..Len(s)
      BY <1>1, <2>2
    <3> QED BY <1>1, <3>1 DEF PutIn
  <2> QED BY <2>1, <2>2
<1>3. ASSUME NEW n \in 0..(Len(s) + 1) PROVE Own(r, n) = Own(s, n)
  <2>1. 1..n \subseteq 1..(Len(s) + 1)
    BY <1>1
  <2>2. {i \in 1..n : ~PutIn(r, i)} = {i \in 1..n : ~PutIn(s, i)}
    BY <1>2, <2>1
  <2> QED BY <2>2 DEF Own
<1>4. PutIn(r, (Len(s) + 1) + 1) <=> FailedResults(t) # {}
  <2>1. (Len(s) + 1) + 1 > 1 /\ ((Len(s) + 1) + 1) - 1 = Len(s) + 1
    BY <1>1
  <2> QED BY <1>1, <2>1 DEF PutIn
<1> QED BY <1>2, <1>3, <1>4 DEF r

\* What is left of a plan loses its steps from the front.
LEMMA PlanLeft ==
  ASSUME NEW p, IsSeq(p), NEW k \in 0..Len(p)
  PROVE  /\ IsSeq(Left(p, k)) /\ Len(p) \in Nat
         /\ Left(p, k) = <<>> <=> k = Len(p)
         /\ k < Len(p) => Head(Left(p, k)) = p[k + 1] /\ Tail(Left(p, k)) = Left(p, k + 1)
         /\ Left(p, 0) = p
<1>1. PICK S : p \in Seq(S)
  BY DEF IsSeq
<1>2. Len(p) \in Nat /\ k \in Nat /\ k <= Len(p)
  BY <1>1
<1>3. Left(p, k) \in Seq(S)
  BY <1>1, <1>2 DEF Left
<1>4. Len(Left(p, k)) = Len(p) - k /\ \A i \in 1..(Len(p) - k) : Left(p, k)[i] = p[k + i]
  BY <1>1, <1>2 DEF Left
<1>5. Left(p, k) = <<>> <=> k = Len(p)
  BY <1>2, <1>3, <1>4, EmptySeq
<1>6. ASSUME k < Len(p)
      PROVE  Head(Left(p, k)) = p[k + 1] /\ Tail(Left(p, k)) = Left(p, k + 1)
  BY <1>1, <1>2, <1>6 DEF Left
<1>7. Left(p, 0) = p
  BY <1>1, <1>2 DEF Left
<1> QED BY <1>2, <1>3, <1>5, <1>6, <1>7 DEF IsSeq

\* A step put before the others is the first.
LEMMA Fronted ==
  ASSUME NEW q, IsSeq(q), NEW d
  PROVE  Head(<<d>> \o q) = d /\ Tail(<<d>> \o q) = q /\ <<d>> \o q # <<>>
<1>1. PICK S : q \in Seq(S)
  BY DEF IsSeq
<1> DEFINE T == S \cup {d}
<1>2. q \in Seq(T) /\ <<d>> \in Seq(T) /\ Len(<<d>>) = 1 /\ <<d>>[1] = d
  BY <1>1
<1> HIDE DEF T
<1>3. /\ <<d>> \o q \in Seq(T) /\ Len(<<d>> \o q) = 1 + Len(q)
      /\ (<<d>> \o q)[1] = d
      /\ \A i \in 1..Len(q) : (<<d>> \o q)[i + 1] = q[i]
  BY <1>2, ConcatProperties
<1>4. Len(q) \in Nat
  BY <1>2
<1>5. <<d>> \o q # <<>>
  BY <1>3, <1>4, EmptySeq
<1>6. Tail(<<d>> \o q) \in Seq(T) /\ Len(Tail(<<d>> \o q)) = Len(q)
      /\ \A i \in 1..Len(q) : Tail(<<d>> \o q)[i] = q[i]
  BY <1>3, <1>4, <1>5, HeadTailProperties
<1>7. Tail(<<d>> \o q) = q
  BY <1>2, <1>6, SeqEqual
<1> QED BY <1>3, <1>5, <1>7

\* Only the text of the step under way depends on the cycle.
LEMMA PastStaysInOrder ==
  ASSUME NEW s, NEW p, NEW x, NEW y, NEW n \in Nat, Len(s) \in Nat, n <= Len(s),
         InOrder(s, p, x, n)
  PROVE  InOrder(s, p, y, n)
<1>1. \A i \in 1..n : Text(s, y, i) = Text(s, x, i)
  BY DEF Text
<1> QED BY <1>1 DEF InOrder

\* What the run does next is the diagnosis of the step that failed, or the next
\* step of its plan.
LEMMA NextInOrder ==
  ASSUME NEW s, IsSeq(s), NEW p, IsSeq(p), NEW y,
         Own(s, Len(s)) <= Len(p), InOrder(s, p, y, Len(s)), ToDo(s, p, Len(s)) # <<>>
  PROVE  /\ InOrder(s, p, Head(ToDo(s, p, Len(s))), Len(s) + 1)
         /\ Own(s, Len(s) + 1) <= Len(p)
         /\ Tail(ToDo(s, p, Len(s))) = Left(p, Own(s, Len(s) + 1))
<1> DEFINE n == Len(s)
           k == Own(s, n)
           q == Left(p, k)
           x == Head(ToDo(s, p, n))
<1>1. n \in Nat
  BY SeqGrows
<1>2. /\ k \in Nat
      /\ PutIn(s, n + 1) => Own(s, n + 1) = k
      /\ ~PutIn(s, n + 1) => Own(s, n + 1) = k + 1
  BY <1>1, OwnCounts
<1>3. Len(p) \in Nat
  BY DEF IsSeq
<1>4. k \in 0..Len(p)
  BY <1>2, <1>3
<1>5. /\ IsSeq(q)
      /\ q = <<>> <=> k = Len(p)
      /\ k < Len(p) => Head(q) = p[k + 1] /\ Tail(q) = Left(p, k + 1)
  BY <1>4, PlanLeft
<1>6. q # <<>>
  <2>1. ToDo(s, p, n) = IF q # <<>> /\ PutIn(s, n + 1) THEN <<DiagnosisOf(s[n])>> \o q ELSE q
    BY DEF ToDo
  <2> QED BY <2>1
<1>7. k < Len(p)
  BY <1>3, <1>4, <1>5, <1>6
<1>8. Text(s, x, n + 1) = x
  BY <1>1 DEF Text
<1>9. InOrder(s, p, x, n)
  BY <1>1, PastStaysInOrder
<1> DEFINE d == DiagnosisOf(s[n])
           w == <<d>> \o q
<1>10. ToDo(s, p, n) = IF q # <<>> /\ PutIn(s, n + 1) THEN w ELSE q
  BY DEF ToDo
<1> HIDE DEF q, d
<1>11. Head(w) = d /\ Tail(w) = q
  BY <1>5, Fronted
<1> HIDE DEF w
<1>12. CASE PutIn(s, n + 1)
  <2>1. ToDo(s, p, n) = w
    BY <1>6, <1>10, <1>12
  <2>2. x = d /\ Tail(ToDo(s, p, n)) = q
    BY <1>11, <2>1
  <2>3. Text(s, x, n + 1) = DiagnosisOf(s[(n + 1) - 1])
    <3>1. (n + 1) - 1 = n
      BY <1>1
    <3> QED BY <1>8, <2>2, <3>1, Zenon DEF d
  <2>4. InOrder(s, p, x, n + 1)
    <3> HIDE DEF x, k, n
    <3>1. \A i \in 1..(n + 1) : i \in 1..n \/ i = n + 1
      BY <1>1
    <3> QED BY <1>9, <1>12, <2>3, <3>1 DEF InOrder
  <2>5. k <= Len(p) /\ Own(s, n + 1) = k
    BY <1>2, <1>4, <1>12
  <2> QED BY <2>2, <2>4, <2>5 DEF q
<1>13. CASE ~PutIn(s, n + 1)
  <2>1. ToDo(s, p, n) = q
    BY <1>10, <1>13
  <2>2. x = p[k + 1] /\ Tail(ToDo(s, p, n)) = Left(p, k + 1)
    BY <1>5, <1>7, <2>1
  <2>3. Own(s, n + 1) = k + 1 /\ k + 1 <= Len(p)
    BY <1>2, <1>3, <1>7, <1>13
  <2>4. InOrder(s, p, x, n + 1)
    <3>1. Own(s, n + 1) <= Len(p) /\ Text(s, x, n + 1) = p[Own(s, n + 1)]
      BY <1>8, <2>2, <2>3
    <3> HIDE DEF x, k, n
    <3>2. \A i \in 1..(n + 1) : i \in 1..n \/ i = n + 1
      BY <1>1
    <3> QED BY <1>9, <1>13, <3>1, <3>2 DEF InOrder
  <2> QED BY <2>2, <2>3, <2>4
<1> QED BY <1>12, <1>13

\* The step taken joins the steps, and a failure puts its diagnosis in front.
LEMMA TakenInOrder ==
  ASSUME NEW s, IsSeq(s), NEW p, NEW t, NEW y, InOrder(s, p, t.text, Len(s) + 1)
  PROVE  /\ InOrder(Append(s, t), p, y, Len(s) + 1)
         /\ Own(Append(s, t), Len(s) + 1) = Own(s, Len(s) + 1)
         /\ ToDo(Append(s, t), p, Len(s) + 1) = Replan(t, Left(p, Own(s, Len(s) + 1)))
<1> DEFINE n == Len(s)
           r == Append(s, t)
<1>1. /\ n \in Nat /\ Len(r) = n + 1 /\ r[n + 1] = t
      /\ \A i \in 1..n : r[i] = s[i]
  BY SeqGrows
<1>2. /\ \A i \in 1..(n + 1) : PutIn(r, i) <=> PutIn(s, i)
      /\ \A i \in 0..(n + 1) : Own(r, i) = Own(s, i)
      /\ PutIn(r, (n + 1) + 1) <=> FailedResults(t) # {}
  BY OwnKeeps
<1> HIDE DEF r
<1>3. Own(r, n + 1) = Own(s, n + 1)
  BY <1>1, <1>2
<1>4. ToDo(r, p, n + 1) = Replan(t, Left(p, Own(s, n + 1)))
  BY <1>1, <1>2, <1>3 DEF ToDo, Replan, DiagnosisOf
<1>5. ASSUME NEW i \in 1..(n + 1)
      PROVE  IF PutIn(r, i) THEN Text(r, y, i) = DiagnosisOf(r[i - 1])
             ELSE Own(r, i) <= Len(p) /\ Text(r, y, i) = p[Own(r, i)]
  <2>1. IF PutIn(s, i) THEN Text(s, t.text, i) = DiagnosisOf(s[i - 1])
        ELSE Own(s, i) <= Len(p) /\ Text(s, t.text, i) = p[Own(s, i)]
    BY <1>5 DEF InOrder
  <2>2. Text(r, y, i) = Text(s, t.text, i)
    BY <1>1 DEF Text
  <2>3. (PutIn(r, i) <=> PutIn(s, i)) /\ Own(r, i) = Own(s, i)
    BY <1>1, <1>2
  <2>4. PutIn(s, i) => r[i - 1] = s[i - 1]
    <3>1. PutIn(s, i) => i - 1 \in 1..n
      BY <1>1 DEF PutIn
    <3> QED BY <1>1, <3>1
  <2> QED BY <2>1, <2>2, <2>3, <2>4
<1>6. InOrder(r, p, y, n + 1)
  BY <1>5 DEF InOrder
<1> QED BY <1>3, <1>4, <1>6 DEF r

\* Where the run is in its plan.
FollowInv ==
  LET s == run.steps
      p == run.plan
      k == Own(run.steps, Taken)
  IN /\ IsSeq(p) /\ k <= Len(p)
     /\ InOrder(s, p, call.trace.text, Taken)
     /\ run.pc = "off" => s = <<>>
     /\ run.pc = "step" => run.left = Left(p, k)
     /\ run.pc = "loop" => run.left = ToDo(s, p, Len(s))
     /\ run.pc = "done" => \/ run.left = Left(p, k)
                           \/ ToDo(s, p, Len(s)) # <<>> /\ run.left = Tail(ToDo(s, p, Len(s)))
     /\ Completed => k = Len(p)

\* The steps taken, with and without one under way.
LEMMA TakenIs ==
  ASSUME Shapes
  PROVE  /\ Len(run.steps) \in Nat
         /\ run.pc = "step" => Taken = Len(run.steps) + 1
         /\ run.pc # "step" => Taken = Len(run.steps)
<1>1. Len(run.steps) \in Nat
  BY SeqGrows DEF Shapes
<1>2. Len(run.steps) + 0 = Len(run.steps)
  BY <1>1
<1> QED BY <1>1, <1>2 DEF Taken, One

\* A run that no step of the orchestrator touches stays where it is.
LEMMA UntouchedFollows ==
  ASSUME Shapes, FollowInv, run' = run,
         run.pc = "step" => call'.trace.text = call.trace.text
  PROVE  FollowInv'
<1>1. /\ Taken' = Taken /\ Completed' = Completed /\ Taken \in Nat
      /\ Len(run.steps) \in Nat /\ (run.pc # "step" => Taken = Len(run.steps))
  BY TakenIs DEF Taken, Completed
<1>2. InOrder(run.steps, run.plan, call'.trace.text, Taken)
  <2>1. CASE run.pc = "step"
    BY <2>1 DEF FollowInv
  <2>2. CASE run.pc # "step"
    <3>1. InOrder(run.steps, run.plan, call.trace.text, Taken) /\ Taken <= Len(run.steps)
      BY <1>1, <2>2 DEF FollowInv
    <3> QED BY <1>1, <3>1, PastStaysInOrder
  <2> QED BY <2>1, <2>2
<1> QED BY <1>1, <1>2 DEF FollowInv

\* A step begun is the next of the plan or a diagnosis.
LEMMA BeginStepFollows ==
  ASSUME Shapes, FollowInv, BeginStep
  PROVE  FollowInv'
<1> DEFINE s == run.steps
           p == run.plan
           x == Head(run.left)
<1>1. /\ run.pc = "loop" /\ run.left # <<>> /\ Sense(x, run.meta)
      /\ run' = [run EXCEPT !.pc = "step", !.left = Tail(@)]
  BY DEF BeginStep
<1>2. call'.trace.text = x
  BY <1>1, SenseTallies
<1>3. /\ run'.pc = "step" /\ run'.left = Tail(run.left)
      /\ run'.steps = s /\ run'.plan = p
  BY <1>1 DEF Shapes, RunFields
<1>4. Len(s) \in Nat /\ Taken = Len(s) /\ IsSeq(s)
  BY <1>1, TakenIs DEF Shapes
<1>5. Taken' = Len(s) + 1
  BY <1>3 DEF Taken, One
<1>6. /\ IsSeq(p) /\ Own(s, Len(s)) <= Len(p)
      /\ InOrder(s, p, call.trace.text, Len(s)) /\ run.left = ToDo(s, p, Len(s))
  BY <1>1, <1>4 DEF FollowInv
<1>7. /\ InOrder(s, p, x, Len(s) + 1) /\ Own(s, Len(s) + 1) <= Len(p)
      /\ Tail(run.left) = Left(p, Own(s, Len(s) + 1))
  BY <1>1, <1>4, <1>6, NextInOrder
<1>8. ~Completed'
  BY <1>3 DEF Completed
<1> HIDE DEF s, p, x
<1>9. /\ InOrder(run'.steps, run'.plan, call'.trace.text, Taken')
      /\ Own(run'.steps, Taken') <= Len(run'.plan)
      /\ run'.left = Left(run'.plan, Own(run'.steps, Taken')) /\ IsSeq(run'.plan)
  BY <1>2, <1>3, <1>5, <1>6, <1>7
<1> QED BY <1>3, <1>8, <1>9 DEF FollowInv

\* A step that ended is followed by the next or by its diagnosis.
LEMMA EndStepFollows ==
  ASSUME TallyInv, Shapes, FollowInv, EndStep
  PROVE  FollowInv'
<1> DEFINE s == run.steps
           p == run.plan
           t == call.trace
           n == Len(run.steps)
           r == Append(s, t)
           y == call'.trace.text
<1>1. run' = Observed(t) /\ run.pc = "step"
  BY DEF EndStep
<1>2. /\ run'.steps = r /\ run'.plan = p
      /\ run'.pc = IF StopReason(t) = "none" THEN "loop" ELSE "done"
      /\ run'.left = IF StopReason(t) = "none" THEN Replan(t, run.left) ELSE run.left
      /\ run'.halt = StopReason(t)
  BY <1>1 DEF Observed, Shapes, RunFields
<1>3. n \in Nat /\ Taken = n + 1 /\ IsSeq(s)
  BY <1>1, TakenIs DEF Shapes
<1>4. Len(r) = n + 1
  BY <1>3, SeqGrows
<1>5. Taken' = n + 1
  <2>1. run'.pc # "step"
    BY <1>2
  <2>2. (n + 1) + 0 = n + 1
    BY <1>3
  <2> QED BY <1>2, <1>4, <2>1, <2>2 DEF Taken, One
<1>6. /\ IsSeq(p) /\ Own(s, n + 1) <= Len(p) /\ InOrder(s, p, t.text, n + 1)
      /\ run.left = Left(p, Own(s, n + 1))
  BY <1>1, <1>3 DEF FollowInv
<1>7. /\ InOrder(r, p, y, n + 1) /\ Own(r, n + 1) = Own(s, n + 1)
      /\ ToDo(r, p, n + 1) = Replan(t, Left(p, Own(s, n + 1)))
  BY <1>3, <1>6, TakenInOrder
<1>8. n + 1 \in Nat /\ Own(s, n + 1) \in 0..Len(p)
  <2>1. Own(s, n + 1) \in Nat
    BY <1>3, OwnCounts
  <2>2. Len(p) \in Nat
    BY <1>6 DEF IsSeq
  <2> QED BY <1>3, <1>6, <2>1, <2>2
<1>9. StopReason(t) = "none" => run'.pc = "loop" /\ run'.left = ToDo(r, p, n + 1)
  BY <1>2, <1>6, <1>7
<1>10. StopReason(t) # "none"
         => run'.pc = "done" /\ run'.left = Left(p, Own(r, n + 1)) /\ run'.halt # "none"
  BY <1>2, <1>6, <1>7
<1>11. IsSeq(p) /\ Own(r, n + 1) <= Len(p) /\ InOrder(r, p, y, n + 1)
  BY <1>6, <1>7
<1> HIDE DEF s, p, t, n, r, y
<1>12. /\ IsSeq(run'.plan) /\ Own(run'.steps, Taken') <= Len(run'.plan)
       /\ InOrder(run'.steps, run'.plan, call'.trace.text, Taken')
  BY <1>2, <1>5, <1>11 DEF y
<1>13. CASE StopReason(t) = "none"
  <2>1. /\ run'.pc = "loop" /\ ~Completed'
        /\ run'.left = ToDo(run'.steps, run'.plan, Len(run'.steps))
    BY <1>2, <1>4, <1>9, <1>13 DEF Completed
  <2> QED BY <1>12, <2>1 DEF FollowInv
<1>14. CASE StopReason(t) # "none"
  <2>1. Own(run'.steps, Taken') = Own(r, n + 1)
    BY <1>2, <1>5
  <2>2. Left(run'.plan, Own(run'.steps, Taken')) = Left(p, Own(r, n + 1))
    BY <1>2, <2>1
  <2>3. run'.pc = "done" /\ run'.halt # "none"
    BY <1>10, <1>14
  <2>4. run'.left = Left(run'.plan, Own(run'.steps, Taken'))
    BY <1>10, <1>14, <2>2
  <2> QED BY <1>12, <2>3, <2>4 DEF FollowInv, Completed
<1> QED BY <1>13, <1>14

\* A run that a guard stops loses the step it took off; one that ran out took all.
LEMMA StopFollows ==
  ASSUME Shapes, FollowInv, StopAtGuard \/ EndRun
  PROVE  FollowInv'
<1> DEFINE s == run.steps
           p == run.plan
           y == call'.trace.text
<1>1. /\ run.pc = "loop" /\ run'.pc = "done" /\ call' = call
      /\ run'.steps = s /\ run'.plan = p
      /\ \/ run.left # <<>> /\ run'.left = Tail(run.left) /\ run'.halt # "none"
         \/ run.left = <<>> /\ run'.left = run.left
  BY DEF StopAtGuard, EndRun, Shapes, RunFields, brainVars
<1>2. Len(s) \in Nat /\ Taken = Len(s) /\ IsSeq(s)
  BY <1>1, TakenIs DEF Shapes
<1>3. Taken' = Len(s)
  <2>1. Len(s) + 0 = Len(s)
    BY <1>2
  <2> QED BY <1>1, <2>1 DEF Taken, One
<1>4. /\ IsSeq(p) /\ Own(s, Len(s)) <= Len(p)
      /\ InOrder(s, p, y, Len(s)) /\ run.left = ToDo(s, p, Len(s))
  BY <1>1, <1>2 DEF FollowInv
<1>5. /\ IsSeq(run'.plan) /\ Own(run'.steps, Taken') <= Len(run'.plan)
      /\ InOrder(run'.steps, run'.plan, y, Taken')
  BY <1>1, <1>3, <1>4
<1>6. CASE run.left # <<>>
  <2>1. /\ ToDo(run'.steps, run'.plan, Len(run'.steps)) # <<>>
        /\ run'.left = Tail(ToDo(run'.steps, run'.plan, Len(run'.steps)))
        /\ run'.halt # "none"
    BY <1>1, <1>4, <1>6
  <2> QED BY <1>1, <1>5, <2>1 DEF FollowInv, Completed
<1>7. CASE run.left = <<>>
  <2>1. Own(s, Len(s)) \in Nat
    BY <1>2, OwnCounts
  <2>2. Len(p) \in Nat
    BY <1>4 DEF IsSeq
  <2>3. Own(s, Len(s)) \in 0..Len(p)
    BY <1>4, <2>1, <2>2
  <2> DEFINE q == Left(p, Own(s, Len(s)))
             d == DiagnosisOf(s[Len(s)])
  <2>4. IsSeq(q) /\ (q = <<>> <=> Own(s, Len(s)) = Len(p))
    BY <1>4, <2>3, PlanLeft
  <2>5. run.left = IF q # <<>> /\ PutIn(s, Len(s) + 1) THEN <<d>> \o q ELSE q
    BY <1>4 DEF ToDo
  <2> HIDE DEF q, d
  <2>6. q # <<>> => <<d>> \o q # <<>>
    BY <2>4, Fronted
  <2>7. q = <<>>
    BY <1>7, <2>5, <2>6
  <2>8. run'.left = q /\ Own(s, Len(s)) = Len(p)
    BY <1>1, <1>7, <2>4, <2>7
  <2>9. run'.left = Left(run'.plan, Own(run'.steps, Taken'))
        /\ Own(run'.steps, Taken') = Len(run'.plan)
    BY <1>1, <1>3, <2>8 DEF q
  <2> QED BY <1>1, <1>5, <2>9 DEF FollowInv
<1> QED BY <1>6, <1>7

\* A run starts with all of its plan to do.
LEMMA StartRunFollows ==
  ASSUME Shapes, FollowInv, NEW plan \in Plans, NEW meta \in RunMetas, StartRun(plan, meta)
  PROVE  FollowInv'
<1>1. /\ run.pc = "off" /\ run'.pc = "loop" /\ run'.plan = plan /\ run'.left = plan
      /\ run'.steps = run.steps /\ run.steps = <<>> /\ call' = call
  BY DEF StartRun, Shapes, RunFields, brainVars, FollowInv
<1>2. plan \in Seq(Texts)
  BY SessionAssumption
<1>3. IsSeq(plan) /\ Len(plan) \in Nat
  BY <1>2 DEF IsSeq
<1>4. run'.steps = <<>> /\ Len(<<>>) = 0
  BY <1>1
<1>5. Taken' = 0
  <2>1. One(run'.pc = "step") = 0
    BY <1>1 DEF One
  <2>2. Len(run'.steps) = 0
    BY <1>4
  <2> QED BY <2>1, <2>2 DEF Taken
<1>6. Own(<<>>, 0) = 0 /\ 0 \in Nat
  BY OwnCounts
<1>7. 0 \in 0..Len(plan)
  BY <1>3
<1>8. Left(plan, 0) = plan
  BY <1>3, <1>7, PlanLeft
<1>9. ToDo(<<>>, plan, 0) = plan
  BY <1>6, <1>8 DEF ToDo, PutIn
<1>10. InOrder(<<>>, plan, call'.trace.text, 0)
  BY DEF InOrder
<1>11. ~Completed'
  BY <1>1 DEF Completed
<1>12. /\ IsSeq(run'.plan) /\ Own(run'.steps, Taken') <= Len(run'.plan)
       /\ InOrder(run'.steps, run'.plan, call'.trace.text, Taken')
       /\ run'.left = ToDo(run'.steps, run'.plan, Len(run'.steps))
  <2>1. Own(<<>>, 0) <= Len(plan)
    BY <1>3, <1>6
  <2> QED BY <1>1, <1>3, <1>4, <1>5, <1>9, <1>10, <2>1
<1> QED BY <1>1, <1>11, <1>12 DEF FollowInv

\* Every step keeps the run in its plan.
LEMMA StepFollows ==
  ASSUME BooksInv, FollowInv, [Next]_vars
  PROVE  FollowInv'
<1> USE DEF BooksInv
<1>1. ASSUME run' = run, call' = call PROVE FollowInv'
  BY <1>1, UntouchedFollows
<1>2. CASE Working
  <2>1. run' = run
    BY <1>2 DEF Working
  <2>2. call'.trace.text = call.trace.text
    BY <1>2, ReflexTallies, ThinkTallies, ActTallies DEF Working
  <2> QED BY <2>1, <2>2, UntouchedFollows
<1>3. CASE EndTurn
  <2>1. run' = run /\ run.pc # "step"
    BY <1>3 DEF EndTurn
  <2> QED BY <2>1, UntouchedFollows
<1>4. CASE \E t \in TurnTexts, meta \in TurnMetas : Turn(t, meta)
  <2>1. run' = run /\ run.pc # "step"
    BY <1>4 DEF Turn, AtPrompt
  <2> QED BY <2>1, UntouchedFollows
<1>5. CASE \E i \in DOMAIN session.approvals :
               Resolve(i, "approved") \/ Resolve(i, "denied") \/ ApprovalExpires(i)
  BY <1>1, <1>5 DEF Resolve, ApprovalExpires, brainVars
<1>6. CASE \E m \in OperatorModes : SetMode(m)
  BY <1>1, <1>6 DEF SetMode
<1>7. CASE \E plan \in Plans, meta \in RunMetas : StartRun(plan, meta)
  BY <1>7, StartRunFollows
<1>8. CASE UNCHANGED vars
  BY <1>1, <1>8 DEF vars, brainVars
<1> QED BY <1>2, <1>3, <1>4, <1>5, <1>6, <1>7, <1>8, BeginStepFollows, EndStepFollows,
           StopFollows DEF Next, Machine

\* The run takes its plan's steps once each and in order, with a diagnosis after
\* each failure that left something to do, and is completed only with all of them.
THEOREM RunAlwaysFollowsPlan == Spec => []RunFollowsPlan
<1>1. Init => FollowInv
  <2> SUFFICES ASSUME Init PROVE FollowInv
    OBVIOUS
  <2>1. run.steps = <<>> /\ run.pc = "off" /\ run.plan = <<>> /\ Len(<<>>) = 0
    BY DEF Init, Off
  <2>2. Taken = 0
    <3>1. One(run.pc = "step") = 0
      BY <2>1 DEF One
    <3>2. Len(run.steps) = 0
      BY <2>1
    <3> QED BY <3>1, <3>2 DEF Taken
  <2>3. Own(<<>>, 0) = 0
    BY OwnCounts
  <2>4. IsSeq(<<>>) /\ InOrder(<<>>, <<>>, call.trace.text, 0)
    <3>1. <<>> \in Seq({})
      OBVIOUS
    <3> QED BY <3>1 DEF IsSeq, InOrder
  <2>5. ~Completed
    BY <2>1 DEF Completed
  <2>6. Own(run.steps, Taken) <= Len(run.plan)
    BY <2>1, <2>2, <2>3
  <2>7. IsSeq(run.plan) /\ InOrder(run.steps, run.plan, call.trace.text, Taken)
    BY <2>1, <2>2, <2>4
  <2> QED BY <2>1, <2>5, <2>6, <2>7 DEF FollowInv
<1>2. BooksInv /\ FollowInv => RunFollowsPlan
  <2> SUFFICES ASSUME BooksInv, FollowInv PROVE RunFollowsPlan
    OBVIOUS
  <2>1. \A i : TextOf(i) = Text(run.steps, call.trace.text, i)
    BY DEF TextOf, Text
  <2>2. Rest = Left(run.plan, Own(run.steps, Taken))
    BY DEF Rest, Left
  <2>3. run.pc # "step" => Due = ToDo(run.steps, run.plan, Len(run.steps))
    BY TakenIs, <2>2 DEF Due, ToDo, BooksInv
  <2>4. \A i \in 1..Taken :
          IF PutIn(run.steps, i) THEN TextOf(i) = DiagnosisOf(run.steps[i - 1])
          ELSE Own(run.steps, i) <= Len(run.plan) /\ TextOf(i) = run.plan[Own(run.steps, i)]
    BY <2>1 DEF FollowInv, InOrder
  <2>5. run.pc = "step" => run.left = Rest
    BY <2>2 DEF FollowInv
  <2>6. run.pc = "loop" => run.left = Due
    BY <2>3 DEF FollowInv
  <2>7. run.pc = "done" => run.left = Rest \/ (Due # <<>> /\ run.left = Tail(Due))
    BY <2>2, <2>3 DEF FollowInv
  <2>8. Completed => Own(run.steps, Taken) = Len(run.plan)
    BY DEF FollowInv
  <2> QED BY <2>4, <2>5, <2>6, <2>7, <2>8 DEF RunFollowsPlan
<1>3. BooksInv /\ FollowInv /\ [Next]_vars => FollowInv'
  BY StepFollows
<1> QED BY <1>1, <1>2, <1>3, BooksAlways, PTL DEF Spec
=============================================================================
