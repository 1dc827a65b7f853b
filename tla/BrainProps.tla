----------------------------- MODULE BrainProps -----------------------------
(***************************************************************************)
(* What a session with one brain must keep, whatever is typed, approved,   *)
(* orchestrated or timed out.                                              *)
(***************************************************************************)
EXTENDS BrainSession

\* A tool that was started in a cycle nothing stood against: no reflex halted
\* it, the policy inhibited nothing, risk and confidence were within the mode's
\* limits, and in RISK mode or for a tool that wants approval somebody had
\* confirmed.
Licensed(c) ==
  LET t    == c.trace
      tool == Tools[c.meta.tool]
  IN /\ t.halted = "no" /\ t.verdict \in {"pass", "sanitize"}
     /\ t.decision.inhibited = {}
     /\ ~(t.s.risk > AutonomyCeiling[mode]) /\ ~(t.s.confidence < ConfidenceFloor[mode])
     /\ ~c.meta.dry
     /\ c.meta.confirmed \/ ~(tool.needsApproval \/ (mode = "risk" /\ tool.op \in Guarded))
     /\ mode = "autonomous" => tool.autonomous

Started(t) == \E i \in DOMAIN t.results : t.results[i].started

\* The pipeline calls the function of a registered tool only in a licensed
\* cycle: the checks of the reflexes, the identity, the executive and the tool
\* layer are spread over four stages and none of them sees what another one
\* objected to (pipeline.py:129-245, action/__init__.py:95-150).  It says nothing
\* of the REPL's `/tool` (repl.py:258-301), which calls one outside any cycle.
ToolsRunOnlyWithLicence ==
  call # Idle /\ Started(call.trace) => Licensed(call)

-----------------------------------------------------------------------------
Total(w) ==
  LET sum[n \in 0..Len(w)] == IF n = 0 THEN 0 ELSE sum[n - 1] + w[n]
  IN sum[Len(w)]
Tooled(t) == Cardinality({i \in DOMAIN t.results : t.results[i].type = "tool_call"})
Asked(t) == One(HaltEscalates(t)) + Escalations(t)

\* What each step of the run did.
ToolsOf(s) == [i \in DOMAIN s |-> Tooled(s[i])]
ActionsOf(s) == [i \in DOMAIN s |-> Len(s[i].results)]
InhibitionsOf(s) == [i \in DOMAIN s |-> Cardinality(s[i].decision.inhibited)]
AsksOf(s) == [i \in DOMAIN s |-> Asked(s[i])]

\* The monitor counts events of the bus, the session counts what it finds in
\* the traces it is handed, and a run keeps its own: at the prompt they give the
\* same totals, and no request lacks an escalation or an exception (session.py:186-222,
\* ops/__init__.py:117-170, orchestrator.py:229-233).
AccountsAgree ==
  call = Idle =>
    /\ metrics.inputs = session.turns + Len(run.steps)
    /\ metrics.traces = metrics.inputs
    /\ metrics.actions = session.actions + Total(ActionsOf(run.steps))
    /\ metrics.inhibitions = session.inhibitions + Total(InhibitionsOf(run.steps))
    /\ metrics.tools >= Total(ToolsOf(run.steps))
    /\ metrics.escalations <= session.escalations + Total(AsksOf(run.steps))
    /\ metrics.transitions <= Len(modeLog)
    /\ Len(session.approvals) <= session.escalations + metrics.errors

-----------------------------------------------------------------------------
\* The steps the run has taken, the one under way included.
Taken == Len(run.steps) + One(run.pc = "step")
TextOf(i) == IF i <= Len(run.steps) THEN run.steps[i].text ELSE call.trace.text

\* A step is put in by the replanner if the one before it failed; the others
\* are the plan's own.
PutIn(s, i) == i > 1 /\ FailedResults(s[i - 1]) # {}
Own(s, n) == Cardinality({i \in 1..n : ~PutIn(s, i)})
DiagnosisOf(t) == Diagnostic[t.results[Min(FailedResults(t))].why]

\* What the plan still holds, and what the run has to do.
Rest == SubSeq(run.plan, Own(run.steps, Taken) + 1, Len(run.plan))
Due == IF Rest # <<>> /\ PutIn(run.steps, Taken + 1)
         THEN <<DiagnosisOf(run.steps[Taken])>> \o Rest ELSE Rest

\* The run takes the steps of its plan once each and in order, and between them
\* a diagnosis of each failure that left something to do; only the step a guard
\* stopped it at is lost, and a run that says it is completed took them all
\* (orchestrator.py:127-133, 182-296).
RunFollowsPlan ==
  /\ \A i \in 1..Taken :
       IF PutIn(run.steps, i) THEN TextOf(i) = DiagnosisOf(run.steps[i - 1])
       ELSE Own(run.steps, i) <= Len(run.plan) /\ TextOf(i) = run.plan[Own(run.steps, i)]
  /\ run.pc = "step" => run.left = Rest
  /\ run.pc = "loop" => run.left = Due
  /\ run.pc = "done" => run.left = Rest \/ (Due # <<>> /\ run.left = Tail(Due))
  /\ Completed => Own(run.steps, Taken) = Len(run.plan)

\* No run exceeds its steps or its tool calls (orchestrator.py:195-207).
RunStaysInBudget ==
  /\ Len(run.steps) + One(run.pc = "step") <= MaxSteps
  /\ run.tools = Total(ToolsOf(run.steps))
  /\ run.tools <= MaxTools

\* RISK mode, once a cycle has escalated to it, is left by the operator at the
\* prompt and by nothing a cycle does (modulation/__init__.py:69-77).
RiskModeIsLeftByTheOperator ==
  [][mode = "risk" /\ mode' # "risk" => call = Idle /\ call' = Idle]_vars

\* A run ends, however often its steps fail and are diagnosed
\* (orchestrator.py:190-290).
RunEnds == run.pc \in {"loop", "step"} ~> run.pc = "done"

\* A turn that the operator confirmed by approving the very same text is not
\* held for approval again: the action that was waiting is taken.
ApprovedActionIsTaken ==
  call # Idle /\ call.meta.confirmed /\ run.pc # "step"
    /\ (\A i \in DOMAIN session.approvals : session.approvals[i].text = call.trace.text)
  => ~AsksApproval(call.trace)
=============================================================================
