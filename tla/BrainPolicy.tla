---------------------------- MODULE BrainPolicy ----------------------------
(***************************************************************************)
(* The decisions of one BioBrain cycle as operators: trust, perception,    *)
(* salience, reflexes, identity policy, executive, reasoning, tool guards  *)
(* and feedback.  A text is abstracted to what its patterns match: [intent,*)
(* cls, risks, ents, block, escal, route]; a signal has the features of    *)
(* the whole text (seen) and of what sanitising keeps of it (kept).  Risk  *)
(* is counted in thousandths and confidence in hundredths.                 *)
(***************************************************************************)
EXTENDS Integers, Sequences, FiniteSets, FiniteSetsExt

Modes == {"normal", "risk", "low_confidence", "incident", "audit", "budget",
          "autonomous", "user_facing"}
Operations == {"read", "write", "execute", "delete", "escalate", "report", "configure"}
Guarded == {"write", "execute", "delete", "configure"}
Classes == {"general", "security", "engineering", "documentation", "operations",
            "ml_engineering", "collaboration"}

ConfidenceFloor ==
  [normal |-> 30, risk |-> 50, low_confidence |-> 60, incident |-> 20, audit |-> 60,
   budget |-> 30, autonomous |-> 20, user_facing |-> 40]
AutonomyCeiling ==
  [normal |-> 800, risk |-> 500, low_confidence |-> 400, incident |-> 900, audit |-> 300,
   budget |-> 700, autonomous |-> 1000, user_facing |-> 600]

DefaultTrust ==
  [user |-> "trusted", document |-> "trusted", tool_result |-> "trusted", log |-> "trusted",
   api_response |-> "untrusted", web |-> "untrusted", internal |-> "verified"]

-----------------------------------------------------------------------------
(* Perception. *)

IntentOperation ==
  [security_assessment |-> "execute", information_retrieval |-> "read",
   creation |-> "write", remediation |-> "write", explanation |-> "read",
   comparison |-> "read", planning |-> "read", reporting |-> "report",
   deployment |-> "execute", configuration |-> "configure", deletion |-> "delete",
   general |-> "read"]
Intents == DOMAIN IntentOperation

DetectRisks(f, trust) ==
  f.risks \cup (IF trust \in {"untrusted", "adversarial"} THEN {"untrusted_source"} ELSE {})

Perceive(f, trust) ==
  [intent |-> f.intent, cls |-> f.cls, ents |-> f.ents, trust |-> trust,
   risks |-> DetectRisks(f, trust), op |-> IntentOperation[f.intent]]

-----------------------------------------------------------------------------
(* Attention. *)

RiskWeight ==
  [destructive_command |-> 90, prompt_injection |-> 95, sensitive_data |-> 70,
   privilege_context |-> 60, urgency_marker |-> 30, security_context |-> 40,
   untrusted_source |-> 50]

\* To the nearest thousandth, halves down.
Rounded(n, d) == (2 * n + d - 1) \div (2 * d)

RiskFloor == [verified |-> 0, trusted |-> 0, untrusted |-> 300, adversarial |-> 700]

\* 0.7 of the largest weight and 0.3 of the mean, raised by the mode, never
\* below what the source's trust demands.
ComputeRisk(p, mode) ==
  LET k     == Cardinality(p.risks)
      ws    == {RiskWeight[r] : r \in p.risks}
      base  == IF k = 0 THEN 0 ELSE 7 * Max(ws) * k + 3 * MapThenSumSet(LAMBDA r : RiskWeight[r], p.risks)
      boost == CASE mode = "risk" -> 13 [] mode = "incident" -> 12 [] OTHER -> 10
      score == IF k = 0 THEN 0 ELSE Rounded(base * boost, 10 * k)
  IN Max({Min({score, 1000}), RiskFloor[p.trust]})

ComputeConfidence(p) ==
  LET Bonus(b, n) == IF b THEN n ELSE 0
  IN 50 + Bonus(p.intent # "general", 20) + Bonus(p.cls # "general", 15)
        + Bonus(p.ents, 10) + Bonus(p.risks # {}, 5)

IntentReasoning ==
  [security_assessment |-> "checklist", information_retrieval |-> "retrieval",
   creation |-> "planning", remediation |-> "causal", explanation |-> "direct",
   comparison |-> "critic", planning |-> "planning", reporting |-> "retrieval",
   deployment |-> "checklist", configuration |-> "checklist", deletion |-> "checklist",
   general |-> "direct"]

SuggestReasoning(p, risk, confidence, mode) ==
  IF risk >= 700 THEN "checklist"
  ELSE IF confidence < 30 THEN "critic"
  ELSE IF mode = "audit" THEN "retrieval"
  ELSE IntentReasoning[p.intent]

ScoreSalience(p, mode) ==
  LET risk == ComputeRisk(p, mode)
      conf == ComputeConfidence(p)
  IN [risk |-> risk, confidence |-> conf, conflict |-> "prompt_injection" \in p.risks,
      reasoning |-> SuggestReasoning(p, risk, conf, mode)]

-----------------------------------------------------------------------------
(* Modulation: the mode a scored signal drives the system into. *)

AutoEscalateOrRelax(mode, s) ==
  IF s.risk >= 800 /\ mode \notin {"incident", "risk"} THEN "risk"
  ELSE IF s.risk = 0 /\ mode = "risk" THEN "normal"
  ELSE mode
AutoEscalate(mode, s) ==
  IF s.risk >= 800 /\ mode \notin {"incident", "risk"} THEN "risk"
  ELSE IF s.confidence < 25 /\ mode # "low_confidence" THEN "low_confidence"
  ELSE mode

(* Reflexes, first match first. *)
CheckReflexes(sig, trust, risk, mode) ==
  IF sig.seen.block \/ trust = "adversarial" THEN "block"
  ELSE IF sig.size # "fits" THEN "sanitize"
  ELSE IF mode # "autonomous" /\ (sig.seen.escal \/ risk >= 850) THEN "escalate"
  ELSE IF sig.seen.route THEN "route"
  ELSE "pass"

-----------------------------------------------------------------------------
(* Identity: a configured domain names a classification by substring. *)

Within(d, cls) == d = cls \/ (d = "engineering" /\ cls = "ml_engineering")

\* Reading stops at the first name that is no operation or mode, and keeps
\* what was read until then.
LoadIdentity(cfg) ==
  LET ok1 == cfg.forbidden \subseteq Operations
      ok2 == ok1 /\ cfg.approval \subseteq Operations
      Bad(r) == r.op \notin Operations \/ ~(r.modes \subseteq Modes)
      bad == {i \in DOMAIN cfg.rules : Bad(cfg.rules[i])}
  IN [allowed   |-> cfg.allowed,
      forbidden |-> IF ok1 THEN cfg.forbidden ELSE {},
      approval  |-> IF ok2 THEN cfg.approval ELSE {},
      rules     |-> IF ~ok2 THEN <<>>
                    ELSE IF bad = {} THEN cfg.rules ELSE SubSeq(cfg.rules, 1, Min(bad) - 1)]

CheckPolicy(id, op, cls, mode) ==
  LET Applies(r) == /\ r.domain = "*" \/ Within(r.domain, cls)
                    /\ r.op = op
                    /\ r.modes = {} \/ mode \in r.modes
      hits == {i \in DOMAIN id.rules : Applies(id.rules[i])}
  IN IF op \in id.forbidden THEN "deny"
     ELSE IF id.allowed # {} /\ ~\E d \in id.allowed : Within(d, cls) THEN "deny"
     ELSE IF op \in id.approval THEN "require_approval"
     ELSE IF hits # {} THEN id.rules[Min(hits)].effect
     ELSE "allow"

-----------------------------------------------------------------------------
(* Executive. *)

ToolIntents == {"security_assessment", "configuration", "deployment", "creation",
                "remediation", "deletion"}

DetermineActions(intent) ==
  IF intent \in ToolIntents THEN <<"tool_call">> ELSE <<"report">>

Several == 3  \* episodic memories that call for a retrieval

\* hits: how many memories of each kind the palace returned for the query.
ChooseReasoning(s, hits, mode) ==
  IF mode = "audit" THEN "retrieval"
  ELSE IF hits.procedural > 0 THEN "checklist"
  ELSE IF hits.episodic >= Several /\ s.reasoning = "direct" THEN "retrieval"
  ELSE IF s.conflict THEN "critic"
  ELSE s.reasoning

\* effect is what the policy says.  A doubtful tool call becomes an escalation;
\* a risky cycle is one only.
Decide(p, s, hits, mode, effect) ==
  LET unsure   == s.confidence < ConfidenceFloor[mode]
      risky    == s.risk > AutonomyCeiling[mode]
      asked    == IF effect = "require_approval" THEN <<"escalation">> ELSE <<>>
      wanted   == IF effect = "deny" THEN <<>> ELSE DetermineActions(p.intent)
      chosen   == IF risky \/ (unsure /\ wanted = <<"tool_call">>)
                    THEN <<"escalation">> ELSE asked \o wanted
      Why(b, w) == IF b THEN {w} ELSE {}
  IN [reasoning |-> ChooseReasoning(s, hits, mode),
      effect    |-> effect,
      actions   |-> IF chosen = <<>> THEN <<"no_action">> ELSE chosen,
      inhibited |-> Why(effect = "deny", "policy_deny")
                    \cup Why(effect = "require_approval", "needs_approval")
                    \cup Why(unsure, "low_confidence")
                    \cup Why(risky, "risk_exceeds_autonomy")]

FullyInhibited(d) == d.actions = <<"no_action">> /\ d.inhibited # {}

-----------------------------------------------------------------------------
(* Tool guards and feedback. *)

\* Why a registered tool is refused: the first guard that objects.
Refusal(tool, confirmed, badArgs, mode) ==
  IF mode = "risk" /\ ~confirmed /\ tool.op \in Guarded THEN "risk_mode"
  ELSE IF tool.needsApproval /\ ~confirmed THEN "needs_approval"
  ELSE IF mode = "autonomous" /\ ~tool.autonomous THEN "not_autonomous"
  ELSE IF badArgs THEN "bad_arguments"
  ELSE "none"

Retryable == {"timeout", "rate_limit", "connection"}

\* res: [type, ok, why, empty]; grounded: the reasoning cited evidence.
Feedback(res, grounded, mode) ==
  LET low  == IF res.empty THEN 50 ELSE IF res.type = "escalation" THEN 30 ELSE 0
      bad  == mode = "audit" /\ ~grounded
      err  == IF ~res.ok THEN 100 ELSE IF bad THEN Max({low, 60}) ELSE low
  IN [error  |-> err,
      met    |-> res.ok /\ err < 30,
      retry  |-> IF res.ok THEN err >= 50 /\ mode # "budget" ELSE res.why \in Retryable]

=============================================================================
