------------------------------ MODULE BioBrain ------------------------------
(***************************************************************************)
(* One BioBrain instance: the processing cycle of runtime/pipeline.py, its *)
(* mode manager, the episodic memory it writes and the health monitor that *)
(* listens on its event bus.  A cycle is started by a caller (BrainSession)*)
(* and runs to its end in the caller's thread: sense, reflexes, thinking   *)
(* and each chosen action are steps of their own.                          *)
(***************************************************************************)
EXTENDS BrainPolicy

CONSTANTS
  Texts,         \* the inputs, as model values
  SignalOf,      \* what the patterns of each text match: [Texts -> signal]
  Tools,         \* the registered tools, by name: [op, needsApproval, autonomous]
  Config,        \* the identity configuration as it is written
  InitialModes,  \* the modes the configuration may start the brain in
  Raising,       \* the reasoning modes whose registered reasoner raises
  ModelBacked,   \* the reasoning modes for which a language model is registered
  ToolErrors,    \* the ways a running tool fails: "timeout", "connection", ...
  MaxActions     \* actions per cycle (5 in the code)

VARIABLES
  mode,      \* the mode manager's current mode
  modeLog,   \* its history of transitions: [from, to]
  episodic,  \* the failures and surprises written to the palace
  metrics,   \* the counters of the health monitor
  call       \* the cycle under way

brainVars == <<mode, modeLog, episodic, metrics, call>>

Identity == LoadIdentity(Config)

\* What a caller passes with a text; the tool "" is no tool.
Meta == [tool : DOMAIN Tools \cup {""}, confirmed : BOOLEAN, dry : BOOLEAN, bad : BOOLEAN]

Refusals == {"unknown_tool", "risk_mode", "needs_approval", "not_autonomous", "bad_arguments"}

\* A result is [type, ok, empty, why, started]: a report, an escalation or a tool call,
\* why it failed if it did, and whether the tool's function was called.

NoDecision == [reasoning |-> "direct", effect |-> "none", actions |-> <<>>, inhibited |-> {}]
Idle == [pc |-> "idle"]

Counters == {"inputs", "traces", "actions", "tools", "blocks", "escalations",
             "inhibitions", "errors", "mismatches", "transitions"}

\* The counter c of the monitor raised by n for every pair c :> n of d.
Count(d) == metrics' = [c \in Counters |-> metrics[c] + IF c \in DOMAIN d THEN d[c] ELSE 0]

One(b) == IF b THEN 1 ELSE 0

Log(old, new) == IF old = new THEN <<>> ELSE <<[from |-> old, to |-> new]>>

-----------------------------------------------------------------------------
BrainInit ==
  /\ mode \in InitialModes
  /\ modeLog = Log("normal", mode)
  /\ episodic = {}
  /\ metrics = [c \in Counters |-> 0]
  /\ call = Idle

(* An operator, or the configuration, sets the mode. *)
Transition(m) ==
  /\ mode' = m
  /\ modeLog' = modeLog \o Log(mode, m)

(* Sense, perceive, attend: the text is scored in the mode it came in. *)
Sense(t, meta) ==
  LET sig == SignalOf[t]
      p   == Perceive(sig.seen, DefaultTrust[sig.source])
  IN /\ call = Idle
     /\ call' = [pc |-> "reflex", meta |-> meta,
                 trace |-> [text |-> t, p |-> p, s |-> ScoreSalience(p, mode), verdict |-> "pass",
                            decision |-> NoDecision, grounded |-> FALSE, halted |-> "no",
                            results |-> <<>>]]
     /\ Count([inputs |-> 1])
     /\ UNCHANGED <<mode, modeLog, episodic>>

HaltOf(verdict) ==
  CASE verdict = "block"    -> "reflex_block"
    [] verdict = "escalate" -> "reflex_escalate"
    [] verdict = "route"    -> "route"
    [] OTHER                -> "no"

(* Escalate the mode on the score of the whole text and check the reflexes. *)
(* Sanitising keeps a part of the text; it is scored anew, and no reflex    *)
(* looks at it again.                                                       *)
Reflex ==
  /\ call # Idle
  /\ call.pc = "reflex"
  /\ LET t   == call.trace
         sig == SignalOf[t.text]
         m   == AutoEscalate(mode, t.s)
     IN \E verdict \in {CheckReflexes(sig, t.p.trust, t.s.risk, m)} :
          LET p == Perceive(sig.kept, t.p.trust)
              cut == verdict = "sanitize"
          IN /\ Transition(m)
             /\ call' = [call EXCEPT !.trace.verdict = verdict,
                                     !.trace.p = IF cut THEN p ELSE @,
                                     !.trace.s = IF cut THEN ScoreSalience(p, m) ELSE @,
                                     !.trace.halted = HaltOf(verdict),
                                     !.pc = IF HaltOf(verdict) = "no" THEN "think" ELSE "end"]
             /\ Count([transitions |-> One(m # mode), blocks |-> One(verdict = "block"),
                       escalations |-> One(verdict = "escalate")])
  /\ UNCHANGED episodic

\* How many memories the palace returns, as far as it matters.  The palace is
\* on disk and may hold what earlier brains wrote; each kind is a search of its
\* own, and one that fails returns nothing.
Recall == [semantic : {0, 1}, episodic : {0, 1, Several}, procedural : {0, 1}]

\* A model is shown what was recalled and may quote it; if the call fails it has
\* quoted nothing, and nothing is raised.
Quotes(hits) == IF \A k \in DOMAIN hits : hits[k] = 0 THEN {FALSE} ELSE BOOLEAN

\* Only a retrieval cites evidence: the built-in reasoner all of it.
Grounded(d, hits) ==
  IF d.reasoning # "retrieval" THEN {FALSE}
  ELSE IF d.reasoning \in ModelBacked THEN Quotes(hits)
  ELSE {hits.semantic > 0 \/ hits.episodic > 0}

\* A registered reasoner replaces the built-in one and may raise.
Reasons(d) == d.reasoning \notin Raising

(* Recall, decide and think. *)
Think ==
  /\ call # Idle
  /\ call.pc = "think"
  /\ LET t == call.trace
     IN \E hits \in Recall,
           effect \in {CheckPolicy(Identity, t.p.op, t.p.cls, mode)} :
          LET d == Decide(t.p, t.s, hits, mode, effect)
              halted == IF FullyInhibited(d) THEN "executive_inhibition"
                        ELSE IF ~Reasons(d) THEN "exception"
                        ELSE "no"
          IN /\ \E grounded \in Grounded(d, hits) :
                  call' = [call EXCEPT !.trace.decision = d,
                                       !.trace.grounded = grounded,
                                       !.trace.halted = halted,
                                       !.pc = IF halted = "no" THEN "act" ELSE "end"]
             /\ Count([inhibitions |-> Cardinality(d.inhibited),
                       errors |-> One(halted = "exception")])
  /\ UNCHANGED <<mode, modeLog, episodic>>

-----------------------------------------------------------------------------
(* The outcomes of one action. *)

Failed(why, started) ==
  [type |-> "tool_call", ok |-> FALSE, empty |-> FALSE, why |-> why, started |-> started]
Succeeded(type, empty, started) ==
  [type |-> type, ok |-> TRUE, empty |-> empty, why |-> "none", started |-> started]

\* A tool runs in a thread of its own; past its time limit the thread is left
\* running and the call is reported as failed.
ToolOutcomes(meta) ==
  IF meta.tool \notin DOMAIN Tools THEN {Failed("unknown_tool", FALSE)}
  ELSE LET no == Refusal(Tools[meta.tool], meta.confirmed, meta.bad, mode)
       IN IF no # "none" THEN {Failed(no, FALSE)}
          ELSE IF meta.dry THEN {Succeeded("tool_call", FALSE, FALSE)}
          ELSE {Succeeded("tool_call", e, TRUE) : e \in BOOLEAN} \cup {Failed(w, TRUE) : w \in ToolErrors}

Outcomes(action, meta) ==
  IF action = "tool_call" THEN ToolOutcomes(meta) ELSE {Succeeded(action, FALSE, FALSE)}

\* What identifies a memory: equal outcomes overwrite one another.
Episode(r, fb, reasoning) ==
  [action |-> r.type, reasoning |-> reasoning, error |-> fb.error, why |-> r.why]

\* Whether the n-th action, with result r and feedback fb, ends the cycle.
LastIgnoringEscalation(t, n, r, fb) ==
  n = Len(t.decision.actions) \/ n = MaxActions \/ (~r.ok /\ ~fb.retry)
Last(t, n, r, fb) ==
  \/ n = Len(t.decision.actions) \/ n = MaxActions
  \/ r.type = "escalation"
  \/ ~r.ok /\ ~fb.retry

\* What is as expected is not remembered.
Remembered(r, fb, reasoning) == IF fb.met THEN {} ELSE {Episode(r, fb, reasoning)}

(* Execute the next chosen action, verify it, remember what was not        *)
(* expected, and go on unless it was the last.                             *)
Act ==
  /\ call # Idle
  /\ call.pc = "act"
  /\ LET t == call.trace
         n == Len(t.results) + 1
     IN \E r \in Outcomes(t.decision.actions[n], call.meta) :
          LET fb == Feedback(r, t.grounded, mode)
          IN /\ call' = [call EXCEPT !.trace.results = Append(@, r),
                                     !.pc = IF Last(t, n, r, fb) THEN "end" ELSE "act"]
             /\ episodic' = episodic \cup Remembered(r, fb, t.decision.reasoning)
             /\ Count([actions |-> 1, tools |-> One(r.type = "tool_call"),
                       errors |-> One(~r.ok), mismatches |-> One(~fb.met)])
  /\ UNCHANGED <<mode, modeLog>>

FinalizeUnlessHalted ==
  /\ call # Idle
  /\ call.pc = "end"
  /\ call' = Idle
  /\ Count([traces |-> One(call.trace.halted = "no")])
  /\ UNCHANGED <<mode, modeLog, episodic>>
FinalizeUnlessRaised ==
  /\ call # Idle
  /\ call.pc = "end"
  /\ call.trace.halted # "exception"
  /\ call' = Idle
  /\ Count([traces |-> 1])
  /\ UNCHANGED <<mode, modeLog, episodic>>
(* The cycle is counted and the caller has its trace. *)
Finalize ==
  /\ call # Idle
  /\ call.pc = "end"
  /\ call' = Idle
  /\ Count([traces |-> 1])
  /\ UNCHANGED <<mode, modeLog, episodic>>

\* One message of a cycle asks for a human: the session and the orchestrator
\* both look for it.
HaltEscalates(t) == t.halted = "reflex_escalate"
Escalations(t) == Cardinality({i \in DOMAIN t.results : t.results[i].type = "escalation"})
AsksApproval(t) == t.decision.effect = "require_approval"
=============================================================================
