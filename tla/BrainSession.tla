---------------------------- MODULE BrainSession ----------------------------
(***************************************************************************)
(* The callers of one BioBrain in one process: a session (runtime/session) *)
(* driven by the REPL, and the orchestrator that the REPL's /run starts.   *)
(* The REPL is one thread: a turn, a run and a command exclude each other; *)
(* only the minute after which an approval no longer counts passes on its  *)
(* own.  One run per session is modelled.                                  *)
(***************************************************************************)
EXTENDS BioBrain

CONSTANTS
  TurnTexts,      \* the texts of the session's turns
  TurnMetas,      \* what the caller of a turn passes with it
  OperatorModes,  \* the modes the operator may set
  Plans,          \* the plans a goal is decomposed into: sequences of texts
  RunMetas,       \* what the caller of the orchestrator passes to every step
  Diagnostic,     \* the text of the diagnostic step for each tool error
  MaxSteps, MaxTools, HaltBelow, HaltOnEscalation,  \* the orchestrator's limits
  MaxCycles, MaxSwitches  \* bounds of the model: cycles after which no other begins at
                          \* the prompt, transitions of the mode

ASSUME SessionAssumption ==
  /\ MaxSteps \in Nat \ {0} /\ MaxTools \in Nat \ {0}
  /\ TurnTexts \subseteq Texts /\ \A plan \in Plans : plan \in Seq(Texts)
  /\ TurnMetas \cup RunMetas \subseteq Meta

VARIABLES
  session,  \* the counters and the approval requests of the session
  run       \* the orchestrator's run

vars == <<brainVars, session, run>>

Open == "open"
Blank == [turns |-> 0, actions |-> 0, inhibitions |-> 0, escalations |-> 0,
          approvals |-> <<>>]
Off == [pc |-> "off", plan |-> <<>>, left |-> <<>>, steps |-> <<>>, tools |-> 0,
        confidence |-> 50, replans |-> 0, halt |-> "none", meta |-> <<>>]

Init == BrainInit /\ session = Blank /\ run = Off

AtPrompt == call = Idle /\ run.pc \in {"off", "done"}

-----------------------------------------------------------------------------
(* The session. *)

HasResolvedApproval ==
  \E i \in DOMAIN session.approvals : session.approvals[i].state = "approved"

\* Any request approved within the last minute confirms the turn.
Turn(t, meta) ==
  /\ AtPrompt
  /\ metrics.inputs < MaxCycles
  /\ Sense(t, [meta EXCEPT !.confirmed = @ \/ HasResolvedApproval])
  /\ UNCHANGED <<session, run>>

Updated(t) ==
  [turns       |-> session.turns + 1,
   actions     |-> session.actions + Len(t.results),
   inhibitions |-> session.inhibitions + Cardinality(t.decision.inhibited),
   escalations |-> session.escalations + One(HaltEscalates(t)) + Escalations(t),
   approvals   |-> session.approvals
                   \o IF AsksApproval(t) THEN <<[state |-> Open, text |-> t.text]>> ELSE <<>>]

EndTurn ==
  /\ run.pc # "step"
  /\ Finalize
  /\ session' \in {Updated(call.trace)}
  /\ UNCHANGED run

\* By its number or, with none given, the most recent.
Resolve(i, answer) ==
  /\ AtPrompt
  /\ session.approvals[i].state = Open
  /\ session' = [session EXCEPT !.approvals[i].state = answer]
  /\ UNCHANGED <<brainVars, run>>

ApprovalExpires(i) ==
  /\ session.approvals[i].state = "approved"
  /\ session' = [session EXCEPT !.approvals[i].state = "expired"]
  /\ UNCHANGED <<brainVars, run>>

\* Setting the mode it is in changes nothing.
SetMode(m) ==
  /\ AtPrompt
  /\ m # mode
  /\ Len(modeLog) < MaxSwitches
  /\ Transition(m)
  /\ UNCHANGED <<episodic, metrics, call, session, run>>

-----------------------------------------------------------------------------
(* The orchestrator. *)

StartRun(plan, meta) ==
  /\ AtPrompt
  /\ run.pc = "off"
  /\ metrics.inputs < MaxCycles
  /\ run' = [run EXCEPT !.pc = "loop", !.plan = plan, !.left = plan, !.meta = meta]
  /\ UNCHANGED <<brainVars, session>>

GuardReasonOneLate(late) ==
  IF Len(run.steps) > MaxSteps THEN "max_steps_exceeded"
  ELSE IF late THEN "timeout"
  ELSE IF run.tools > MaxTools THEN "max_tool_calls"
  ELSE "none"
\* The first guard that stops the run before its next step.
GuardReason(late) ==
  IF Len(run.steps) >= MaxSteps THEN "max_steps_exceeded"
  ELSE IF late THEN "timeout"
  ELSE IF run.tools >= MaxTools THEN "max_tool_calls"
  ELSE IF run.confidence < HaltBelow THEN "low_confidence"
  ELSE "none"

\* The step is taken off the plan before the guards are checked.
BeginStep ==
  /\ run.pc = "loop"
  /\ run.left # <<>>
  /\ GuardReason(FALSE) = "none"
  /\ Sense(Head(run.left), run.meta)
  /\ run' = [run EXCEPT !.pc = "step", !.left = Tail(@)]
  /\ UNCHANGED session

StopAtGuard ==
  /\ run.pc = "loop"
  /\ run.left # <<>>
  /\ \E late \in BOOLEAN :
       /\ GuardReason(late) # "none"
       /\ run' = [run EXCEPT !.pc = "done", !.left = Tail(@), !.halt = GuardReason(late)]
  /\ UNCHANGED <<brainVars, session>>

HasEscalation(t) == HaltEscalates(t) \/ Escalations(t) > 0 \/ AsksApproval(t)

StopReason(t) ==
  IF t.halted = "executive_inhibition" THEN "fully_inhibited"
  ELSE IF t.halted \in {"reflex_block", "reflex_escalate"} THEN t.halted
  ELSE IF HaltOnEscalation /\ HasEscalation(t) THEN "escalation_required"
  ELSE "none"

FailedResults(t) == {i \in DOMAIN t.results : ~t.results[i].ok}

ReplanInPlace(t, left) ==
  IF left = <<>> \/ FailedResults(t) = {} THEN left
  ELSE <<Diagnostic[t.results[Min(FailedResults(t))].why]>> \o Tail(left)
\* A failed action puts a diagnostic step before what is left.
Replan(t, left) ==
  IF left = <<>> \/ FailedResults(t) = {} THEN left
  ELSE <<Diagnostic[t.results[Min(FailedResults(t))].why]>> \o left

\* Average its confidence in (0.4 new, 0.6 old; in whole hundredths, rounded
\* down), and stop or replan.
Observed(t) ==
  LET stop == StopReason(t)
      left == IF stop = "none" THEN Replan(t, run.left) ELSE run.left
      used == Cardinality({i \in DOMAIN t.results : t.results[i].type = "tool_call"})
  IN [run EXCEPT !.pc = IF stop = "none" THEN "loop" ELSE "done",
                 !.left = left,
                 !.replans = @ + One(left # run.left),
                 !.steps = Append(@, t),
                 !.tools = @ + used,
                 !.confidence = (4 * t.s.confidence + 6 * @) \div 10,
                 !.halt = stop]

EndStep ==
  /\ run.pc = "step"
  /\ Finalize
  /\ run' \in {Observed(call.trace)}
  /\ UNCHANGED session

EndRun ==
  /\ run.pc = "loop"
  /\ run.left = <<>>
  /\ run' = [run EXCEPT !.pc = "done"]
  /\ UNCHANGED <<brainVars, session>>

Completed == run.pc = "done" /\ run.halt = "none" /\ run.left = <<>>

-----------------------------------------------------------------------------
Working == (Reflex \/ Think \/ Act) /\ UNCHANGED <<session, run>>

\* What the thread of the REPL does on its own once a line was entered.
Machine == Working \/ EndTurn \/ BeginStep \/ StopAtGuard \/ EndStep \/ EndRun

Next ==
  \/ Machine
  \/ \E t \in TurnTexts, meta \in TurnMetas : Turn(t, meta)
  \/ \E i \in DOMAIN session.approvals :
       Resolve(i, "approved") \/ Resolve(i, "denied") \/ ApprovalExpires(i)
  \/ \E m \in OperatorModes : SetMode(m)
  \/ \E plan \in Plans, meta \in RunMetas : StartRun(plan, meta)

Spec == Init /\ [][Next]_vars /\ WF_vars(Machine)

=============================================================================
