-------------------------- MODULE SolveLocal_proofs --------------------------
(***************************************************************************)
(* What solve-local answers, for every category, engine and world.  The     *)
(* command runs the runtime of CtfRuntime, in memory and with every trace   *)
(* kept, so what is proved of that runtime holds of it as well.             *)
(***************************************************************************)
EXTENDS SolveLocal, CtfRuntime_proofs

LEMMA SolveSetting == ~Durable /\ EndKind \subseteq Traced /\ Traced = TraceKind
  BY SolveLocalAssumption DEF TraceKind

LEMMA SolveStep ==
    ASSUME [SolveNext]_solveVars
    PROVE  [Next]_vars
<1>1. CASE Publish
  BY <1>1, SolveLocalAssumption DEF Publish, Next
<1>2. CASE RecordTrace \/ TakeFlag \/ TakeTrace \/ Poll \/ TimeOut
  BY <1>2 DEF RecordTrace, TakeFlag, TakeTrace, Waits, Poll, TimeOut
<1>3. CASE Loops(OrchestratorStep) \/ Loops(GateStep) \/ \E k \in Categories : Loops(SpecialistStep(k))
  BY <1>3 DEF Loops, Next
<1>4. CASE UNCHANGED solveVars
  BY <1>4 DEF solveVars
<1> QED
  BY <1>1, <1>2, <1>3, <1>4 DEF SolveNext

\* solve-local runs the runtime: whatever it does and however it is cut short,
\* its loops do nothing that the runtime does not.
THEOREM SolveLocalRunsRuntime == SolveSpec => Spec
<1>1. SolveInit => Init
  BY DEF SolveInit
<1> QED
  BY <1>1, SolveStep, PTL DEF SolveSpec, Spec

-----------------------------------------------------------------------------
(* The answer                                                              *)

CliTypes == cli \in [ stage : {"start", "waiting", "polling", "done"}, answer : Answer,
                      traceAt : Nat, polls : Nat ]

OneVerdict == Len(log.flags) <= 1

\* What the command has seen when it stands somewhere, or answered.
AnswerInv ==
    /\ cli.stage # "done" => cli.answer = "none"
    /\ cli.stage = "polling" \/ cli.answer = "solved" => Approved(Name) # {}
    /\ cli.answer \in {"rejected", "no candidate"} =>
         /\ Approved(Name) = {}
         /\ \A p \in Items(Name) : p[1] = "flag"

LEMMA FlagsOfName ==
    ASSUME TypeOK, log.flags # <<>>
    PROVE  /\ log.flags[1] \in Range(log.flags) /\ log.flags[1].challenge_id = Name
           /\ Judged(Name) /\ Len(log.flags) \in Nat \ {0}
<1>1. log.flags \in Seq(Candidate) /\ Len(log.flags) \in Nat \ {0}
  BY SeqTypes DEF TypeOK
<1>2. log.flags[1] \in Candidate /\ log.flags[1] \in Range(log.flags)
  BY <1>1 DEF Range
<1>3. log.flags[1].challenge_id = Name
  BY <1>2, IdsTypes, SolveLocalAssumption
<1> QED
  BY <1>1, <1>2, <1>3 DEF Judged

LEMMA OneVerdictStep ==
    ASSUME Steady, OneVerdict, Next
    PROVE  OneVerdict' /\ Approved(Name) \subseteq Approved(Name)'
<1>1. TypeOK /\ FlowTypes /\ log.flags \in Seq(Candidate) /\ Name \in Challenges
  BY FlowTyped, SeqTypes, SolveLocalAssumption DEF Steady, TypeOK
<1>2. CASE log'.flags = log.flags
  BY <1>2 DEF OneVerdict, Approved
<1>3. CASE PublishFlag /\ log'.flags = Append(log.flags, hand.gate.msg)
  <2>1. /\ hand.gate.stage = "publish" /\ hand.gate.msg \in Candidate /\ "gate" \in Workers
        /\ "gate" \in Station
    BY <1>1, <1>3, PublishFlagFlow, StationFacts
  <2>2. hand.gate.msg.challenge_id = Name
    BY <2>1, IdsTypes, SolveLocalAssumption
  <2>3. <<"gate", 0>> \in Items(Name)
    <3>1. hand.gate.stage # "idle" /\ Subject("gate", hand.gate.msg) = Name
      BY <2>1, <2>2 DEF Subject
    <3>2. Name \in Held["gate"]
      BY <1>1, <2>1, <3>1, HoldsWorker
    <3> QED
      BY <2>1, <3>2, ItemAt DEF At
  <2>4. log.flags = <<>>
    BY <1>1, <2>3, LiveFacts, FlagsOfName DEF Steady, Stories
  <2>5. Approved(Name) = {}
    BY <2>4 DEF Approved, Range
  <2> QED
    BY <1>3, <2>1, <2>4, <2>5 DEF OneVerdict
<1> QED
  BY <1>1, <1>2, <1>3, FlagsGrow, SolveSetting

\* What the loops and the recorder may do leaves the command where it is.
LEMMA AnswersStay ==
    ASSUME AnswerInv, cli' = cli, cli.stage # "done", Approved(Name) \subseteq Approved(Name)'
    PROVE  AnswerInv'
  BY DEF AnswerInv

\* A verdict ends the work, but for what on_flag still has to do.
LEMMA VerdictIsLast ==
    ASSUME Steady, OneVerdict, log.flags # <<>>
    PROVE  /\ \A p \in Items(Name) : p[1] = "flag"
           /\ log.flags[1].status = "solved" => Approved(Name) # {}
           /\ log.flags[1].status # "solved" => Approved(Name) = {}
<1>1. /\ Judged(Name) /\ Name \in Challenges /\ log.flags \in Seq(Candidate)
      /\ log.flags[1] \in Range(log.flags) /\ log.flags[1].challenge_id = Name
      /\ Len(log.flags) \in Nat \ {0}
  BY FlagsOfName, SeqTypes, SolveLocalAssumption DEF Steady, TypeOK
<1>2. Range(log.flags) = {log.flags[1]}
  BY <1>1 DEF OneVerdict, Range
<1> QED
  BY <1>1, <1>2 DEF Steady, Stories, Story, Approved

\* So does a trace of an engine that failed or found nothing.
LEMMA EngineEndIsLast ==
    ASSUME Steady, NEW i \in 1..Len(log.traces),
           log.traces[i].kind \in {"engine_error", "engine_no_candidate"}
    PROVE  Items(Name) = {} /\ Approved(Name) = {}
<1>1. log.traces \in Seq(TraceEvent) /\ Name \in Challenges
  BY SeqTypes, SolveLocalAssumption DEF Steady, TypeOK
<1>2. /\ log.traces[i] \in Range(log.traces) /\ log.traces[i].challenge_id = Name
  <2>1. log.traces[i] \in TraceEvent /\ i \in DOMAIN log.traces
    BY <1>1
  <2>2. log.traces[i].challenge_id \in Challenges
    BY <2>1 DEF TraceEvent
  <2> QED
    BY <2>1, <2>2, SolveLocalAssumption DEF Range
<1>3. log.traces[i].kind \in Kinds(Name) \cap Final /\ log.traces[i].kind # "solved"
  BY <1>2 DEF Kinds, Final
<1>4. Items(Name) = {} /\ ~Judged(Name)
  BY <1>1, <1>3 DEF Steady, Stories, Story
<1> QED
  BY <1>4 DEF Approved, Judged

\* What the steps of the command write.
LEMMA CliCounts ==
    ASSUME CliTypes
    PROVE  /\ cli' = [cli EXCEPT !.traceAt = @ + 1] =>
                CliTypes' /\ cli'.stage = cli.stage /\ cli'.answer = cli.answer
           /\ cli' = [cli EXCEPT !.polls = @ + 1] =>
                CliTypes' /\ cli'.stage = cli.stage /\ cli'.answer = cli.answer
           /\ cli' = [cli EXCEPT !.polls = @ + 1, !.stage = "done", !.answer = "solved"] =>
                CliTypes' /\ cli'.stage = "done" /\ cli'.answer = "solved"
           /\ cli' = [cli EXCEPT !.stage = "done", !.answer = "solved"] =>
                CliTypes' /\ cli'.stage = "done" /\ cli'.answer = "solved"
<1>0. /\ cli.traceAt \in Nat /\ cli.polls \in Nat /\ cli.answer \in Answer
      /\ cli.stage \in {"start", "waiting", "polling", "done"}
  BY DEF CliTypes
<1>1. cli = [ stage |-> cli.stage, answer |-> cli.answer, traceAt |-> cli.traceAt,
              polls |-> cli.polls ]
  BY DEF CliTypes
<1>2. cli' = [cli EXCEPT !.traceAt = @ + 1] =>
        cli' = [ stage |-> cli.stage, answer |-> cli.answer, traceAt |-> cli.traceAt + 1,
                 polls |-> cli.polls ]
  BY <1>1
<1>3. cli' = [cli EXCEPT !.polls = @ + 1] =>
        cli' = [ stage |-> cli.stage, answer |-> cli.answer, traceAt |-> cli.traceAt,
                 polls |-> cli.polls + 1 ]
  BY <1>1
<1>4. cli' = [cli EXCEPT !.polls = @ + 1, !.stage = "done", !.answer = "solved"] =>
        cli' = [ stage |-> "done", answer |-> "solved", traceAt |-> cli.traceAt,
                 polls |-> cli.polls + 1 ]
  BY <1>1
<1>5. cli' = [cli EXCEPT !.stage = "done", !.answer = "solved"] =>
        cli' = [ stage |-> "done", answer |-> "solved", traceAt |-> cli.traceAt,
                 polls |-> cli.polls ]
  BY <1>1
<1>6. ASSUME NEW st \in {"start", "waiting", "polling", "done"}, NEW an \in Answer,
             NEW m \in Nat, NEW n \in Nat,
             cli' = [stage |-> st, answer |-> an, traceAt |-> m, polls |-> n]
      PROVE  CliTypes' /\ cli'.stage = st /\ cli'.answer = an
  BY <1>6 DEF CliTypes
<1>7. /\ "solved" \in Answer
      /\ cli.traceAt + 1 \in Nat
      /\ cli.polls + 1 \in Nat
  <2>1. \A n \in Nat : n + 1 \in Nat
    OBVIOUS
  <2> QED
    BY <1>0, <2>1 DEF Answer
<1>8. cli' = [cli EXCEPT !.traceAt = @ + 1] =>
        CliTypes' /\ cli'.stage = cli.stage /\ cli'.answer = cli.answer
  BY <1>0, <1>2, <1>6, <1>7
<1>9. cli' = [cli EXCEPT !.polls = @ + 1] =>
        CliTypes' /\ cli'.stage = cli.stage /\ cli'.answer = cli.answer
  BY <1>0, <1>3, <1>6, <1>7
<1>10. cli' = [cli EXCEPT !.polls = @ + 1, !.stage = "done", !.answer = "solved"] =>
         CliTypes' /\ cli'.stage = "done" /\ cli'.answer = "solved"
  BY <1>0, <1>4, <1>6, <1>7
<1>11. cli' = [cli EXCEPT !.stage = "done", !.answer = "solved"] =>
         CliTypes' /\ cli'.stage = "done" /\ cli'.answer = "solved"
  BY <1>0, <1>5, <1>6, <1>7
<1> QED
  BY <1>8, <1>9, <1>10, <1>11

LEMMA PollEnds ==
    ASSUME CliTypes, Poll
    PROVE  \/ cli' = [cli EXCEPT !.stage = "done", !.answer = "solved"]
           \/ cli' = [cli EXCEPT !.polls = @ + 1, !.stage = "done", !.answer = "solved"]
           \/ cli' = [cli EXCEPT !.polls = @ + 1]
<1> DEFINE told == /\ {"routed", "solved"} \subseteq InFile
                   /\ {"candidate_accepted", "gate_verdict"} \cap InFile # {}
           last == cli.polls + 1 = MaxPolls
<1>1. cli' = IF told THEN [cli EXCEPT !.stage = "done", !.answer = "solved"]
             ELSE [cli EXCEPT !.polls = @ + 1,
                              !.stage = IF last THEN "done" ELSE @,
                              !.answer = IF last THEN "solved" ELSE @]
  BY DEF Poll
<1> HIDE DEF told, last
<1> QED
  BY <1>1 DEF CliTypes

LEMMA AnswersStep ==
    ASSUME Steady, OneVerdict, AnswerInv, CliTypes, [SolveNext]_solveVars
    PROVE  OneVerdict' /\ AnswerInv' /\ CliTypes'
<1>0. Len(log.traces) \in Nat /\ log.flags \in Seq(Candidate)
  BY SeqTypes DEF Steady, TypeOK
<1>1. CASE Publish
  <2>1. OneVerdict' /\ Approved(Name) \subseteq Approved(Name)'
    BY <1>1, OneVerdictStep, SolveLocalAssumption DEF Publish, Next
  <2>2. /\ cli.stage = "start" /\ cli' = [cli EXCEPT !.stage = "waiting"]
    BY <1>1 DEF Publish
  <2>3. CliTypes' /\ cli'.stage = "waiting" /\ cli'.answer = "none"
    BY <2>2 DEF CliTypes, AnswerInv
  <2> QED
    BY <2>1, <2>3 DEF AnswerInv
<1>2. CASE RecordTrace
  <2>1. UNCHANGED <<vars, cli>> /\ cli.stage # "done"
    BY <1>2 DEF RecordTrace, CliRuns, Running
  <2> QED
    BY <2>1, AnswersStay DEF vars, OneVerdict, Approved, CliTypes
<1>3. CASE TakeFlag
  <2>1. UNCHANGED vars /\ log.flags # <<>> /\ cli.stage = "waiting"
    BY <1>3 DEF TakeFlag, Waits
  <2>2. UNCHANGED log /\ UNCHANGED <<OneVerdict, Approved(Name), Items(Name)>>
    BY <2>1 DEF vars, OneVerdict, Approved, Items, Line, Past, Held
  <2>3. CASE log.flags[1].status = "solved"
    <3>1. cli' = [cli EXCEPT !.stage = "polling"]
      BY <1>3, <2>3 DEF TakeFlag
    <3>2. CliTypes' /\ cli'.stage = "polling" /\ cli'.answer = "none"
      BY <2>1, <3>1 DEF CliTypes, AnswerInv
    <3> QED
      BY <2>1, <2>2, <2>3, <3>2, VerdictIsLast DEF AnswerInv
  <2>4. CASE log.flags[1].status # "solved"
    <3>1. cli' = [cli EXCEPT !.stage = "done", !.answer = "rejected"]
      BY <1>3, <2>4 DEF TakeFlag
    <3>2. CliTypes' /\ cli'.stage = "done" /\ cli'.answer = "rejected"
      BY <3>1 DEF CliTypes, Answer
    <3> QED
      BY <2>1, <2>2, <2>4, <3>2, VerdictIsLast DEF AnswerInv
  <2> QED
    BY <2>3, <2>4
<1>4. CASE TakeTrace
  <2>1. UNCHANGED vars /\ cli.stage = "waiting" /\ cli.traceAt < Len(log.traces)
    BY <1>4 DEF TakeTrace, Waits
  <2>2. UNCHANGED <<OneVerdict, Approved(Name), Items(Name)>>
    BY <2>1 DEF vars, OneVerdict, Approved, Items, Line, Past, Held
  <2>3. PICK i \in 1..Len(log.traces) : i = cli.traceAt + 1
    BY <1>0, <2>1 DEF CliTypes
  <2>4. CASE log.traces[i].kind \in {"engine_error", "engine_no_candidate"}
    <3>1. cli' = [cli EXCEPT !.stage = "done", !.answer = "no candidate"]
      BY <1>4, <2>3, <2>4 DEF TakeTrace
    <3>2. CliTypes' /\ cli'.stage = "done" /\ cli'.answer = "no candidate"
      BY <3>1 DEF CliTypes, Answer
    <3>3. Items(Name) = {} /\ Approved(Name) = {}
      BY <2>4, EngineEndIsLast
    <3> QED
      BY <2>2, <3>2, <3>3 DEF AnswerInv
  <2>5. CASE log.traces[i].kind \notin {"engine_error", "engine_no_candidate"}
    <3>1. cli' = [cli EXCEPT !.traceAt = @ + 1]
      BY <1>4, <2>3, <2>5 DEF TakeTrace
    <3>2. CliTypes' /\ cli'.stage = "waiting" /\ cli'.answer = cli.answer
      BY <2>1, <3>1, CliCounts
    <3> QED
      BY <2>1, <2>2, <3>2 DEF AnswerInv
  <2> QED
    BY <2>4, <2>5
<1>5. CASE Poll
  <2>1. UNCHANGED vars /\ cli.stage = "polling" /\ cli.answer = "none"
    BY <1>5 DEF Poll, AnswerInv
  <2>2. UNCHANGED <<OneVerdict, Approved(Name)>>
    BY <2>1 DEF vars, OneVerdict, Approved
  <2>3. \/ cli' = [cli EXCEPT !.stage = "done", !.answer = "solved"]
        \/ cli' = [cli EXCEPT !.polls = @ + 1, !.stage = "done", !.answer = "solved"]
        \/ cli' = [cli EXCEPT !.polls = @ + 1]
    BY <1>5, PollEnds
  <2>4. /\ CliTypes' /\ cli'.answer \in {"none", "solved"}
        /\ cli'.stage # "done" => cli'.answer = "none"
    BY <2>1, <2>3, CliCounts
  <2> QED
    BY <2>1, <2>2, <2>3, <2>4 DEF AnswerInv
<1>6. CASE TimeOut
  <2>1. UNCHANGED vars /\ cli' = [cli EXCEPT !.stage = "done", !.answer = "timeout"]
    BY <1>6 DEF TimeOut
  <2>2. CliTypes' /\ cli'.stage = "done" /\ cli'.answer = "timeout"
    BY <2>1 DEF CliTypes, Answer
  <2> QED
    BY <2>1, <2>2 DEF AnswerInv, vars, OneVerdict
<1>7. ASSUME UNCHANGED cliVars, Running, Next
      PROVE  OneVerdict' /\ AnswerInv' /\ CliTypes'
  BY <1>7, OneVerdictStep, AnswersStay DEF cliVars, Running, CliTypes
<1>8. CASE Loops(OrchestratorStep) \/ Loops(GateStep) \/ \E k \in Categories : Loops(SpecialistStep(k))
  BY <1>7, <1>8 DEF Loops, Next
<1>9. CASE UNCHANGED solveVars
  BY <1>9 DEF solveVars, cliVars, vars, OneVerdict, AnswerInv, CliTypes, Approved, Items,
              Line, Past, Held
<1> QED
  BY <1>1, <1>2, <1>3, <1>4, <1>5, <1>6, <1>8, <1>9 DEF SolveNext

\* An answer given without the timer is the gate's and its last: solved only
\* for an approved text, and not solved only when nothing is left that could
\* still be approved.
THEOREM AnswersAreFinal == SolveSpec => []AnswerIsFinal
<1>1. SolveInit => OneVerdict /\ AnswerInv /\ CliTypes
  BY DEF SolveInit, Init, OneVerdict, AnswerInv, CliTypes, Answer
<1>2. TypeOK /\ AnswerInv => AnswerIsFinal
  <2> SUFFICES ASSUME TypeOK, AnswerInv PROVE AnswerIsFinal
    OBVIOUS
  <2>1. WorkItems(Name) = Items(Name)
    BY ItemsAreWork
  <2> QED
    BY <2>1 DEF AnswerInv, AnswerIsFinal
<1>3. Steady => TypeOK
  BY DEF Steady
<1>4. Spec => []Steady
  BY SteadyAlways, SolveSetting
<1> QED
  BY <1>1, <1>2, <1>3, <1>4, AnswersStep, SolveLocalRunsRuntime, PTL DEF SolveSpec

-----------------------------------------------------------------------------
(* The trace a solved run leaves                                           *)

\* Kinds of trace that say nothing of how it ends, and those of a solved run,
\* in their order.
Quiet == {"routed", "task_started", "handoff", "handoff_depth_exceeded"}
Plot == <<"candidate_emitted", "candidate_accepted", "solved">>

\* The last m traces of t are the first m of the plot; what came before is quiet.
Tale(t, m) ==
    /\ m <= Len(t)
    /\ \A i \in 1..(Len(t) - m) : t[i].kind \in Quiet
    /\ \A j \in 1..m : t[Len(t) - m + j].kind = Plot[j]

LEMMA TaleQuiet ==
    ASSUME NEW t \in Seq(TraceEvent), NEW e \in TraceEvent, Tale(t, 0), e.kind \in Quiet
    PROVE  Tale(Append(t, e), 0)
<1>1. /\ Len(t) \in Nat /\ Len(Append(t, e)) = Len(t) + 1 /\ Append(t, e)[Len(t) + 1] = e
      /\ \A i \in 1..Len(t) : Append(t, e)[i] = t[i]
  OBVIOUS
<1>2. \A i \in 1..(Len(t) + 1) : i = Len(t) + 1 \/ i \in 1..Len(t)
  BY <1>1
<1> QED
  BY <1>1, <1>2 DEF Tale

LEMMA TaleGoesOn ==
    ASSUME NEW t \in Seq(TraceEvent), NEW e \in TraceEvent, NEW m \in 0..2, Tale(t, m),
           e.kind = Plot[m + 1]
    PROVE  Tale(Append(t, e), m + 1)
<1> DEFINE u == Append(t, e)
<1>1. /\ Len(t) \in Nat /\ Len(u) = Len(t) + 1 /\ u[Len(t) + 1] = e
      /\ \A i \in 1..Len(t) : u[i] = t[i]
  OBVIOUS
<1> HIDE DEF u
<1>2. m + 1 <= Len(u) /\ Len(u) - (m + 1) = Len(t) - m
  BY <1>1 DEF Tale
<1>3. \A i \in 1..(Len(t) - m) : u[i].kind \in Quiet
  BY <1>1 DEF Tale
<1>4. ASSUME NEW j \in 1..(m + 1) PROVE u[Len(t) - m + j].kind = Plot[j]
  <2>1. CASE j = m + 1
    <3>1. Len(t) - m + j = Len(t) + 1
      BY <1>1, <2>1
    <3> QED
      BY <1>1, <2>1, <3>1
  <2>2. CASE j # m + 1
    <3>1. j \in 1..m /\ Len(t) - m + j \in 1..Len(t)
      BY <1>1, <2>2 DEF Tale
    <3> QED
      BY <1>1, <3>1 DEF Tale
  <2> QED
    BY <2>1, <2>2
<1>5. Tale(u, m + 1)
  BY <1>2, <1>3, <1>4 DEF Tale
<1> QED
  BY <1>5 DEF u

-----------------------------------------------------------------------------
(* What the steps write                                                    *)

Silent == log'.traces = log.traces
Writes(kind) == \E e \in TraceEvent : e.kind = kind /\ log'.traces = Append(log.traces, e)

LEMMA TraceWritten ==
    ASSUME NEW l \in Topics, l.traces = log.traces, NEW c \in Challenges,
           NEW kind \in TraceKind, log' = WithTrace(l, c, kind)
    PROVE  Writes(kind)
<1>1. Trace(c, kind) \in TraceEvent /\ Trace(c, kind).kind = kind
  BY DEF Trace, TraceEvent
<1>2. log' = [l EXCEPT !.traces = Append(@, Trace(c, kind))]
  BY SolveSetting DEF WithTrace
<1>3. log'.traces = Append(log.traces, Trace(c, kind))
  BY <1>2 DEF Topics
<1> QED
  BY <1>1, <1>3 DEF Writes

\* A quiet step on the way, or one that takes the work from a station.
LEMMA OrchestratorWrites ==
    ASSUME TypeOK, OrchestratorStep
    PROVE  /\ StoreBoard \/ OnHandoff \/ OnFlag \/ WriteSolved \/ OnTrace \/ WriteOutcome => Silent
           /\ OnChallenge => Silent \/ UNCHANGED hand
           /\ DispatchTask => Writes("routed")
           /\ RouteHandoff => Silent \/ Writes("handoff_depth_exceeded")
           /\ AnnounceSolved => Writes("solved")
<1>0. log \in Topics /\ hand \in Handlers
  BY DEF TypeOK
<1>1. OnChallenge => Silent \/ UNCHANGED hand
  BY DEF OnChallenge, Silent
<1>2. ASSUME StoreBoard \/ OnHandoff \/ OnFlag \/ WriteSolved \/ OnTrace \/ WriteOutcome
      PROVE  Silent
  BY <1>2 DEF StoreBoard, OnHandoff, OnFlag, WriteSolved, OnTrace, WriteOutcome, Silent
<1>3. ASSUME DispatchTask PROVE Writes("routed")
  <2> DEFINE c == hand.challenge.msg
             k == Route(world[c])
             t == [ challenge_id |-> c, flag_format |-> world[c].flag_format,
                    handoff_depth |-> 0 ]
             l == [log EXCEPT !.tasks[k] = Append(@, t)]
  <2>1. c \in Challenges /\ log' = WithTrace(l, c, "routed")
    BY <1>0, <1>3, HandlerTypes DEF DispatchTask
  <2>2. k \in Categories /\ t \in Task
    BY <2>1, RouteType DEF Task
  <2> HIDE DEF c, k, t
  <2>3. l \in Topics /\ l.traces = log.traces
    BY <1>0, <2>2, PublishAside
  <2> HIDE DEF l
  <2> QED
    BY <2>1, <2>3, TraceWritten, TraceKinds
<1>4. ASSUME RouteHandoff PROVE Silent \/ Writes("handoff_depth_exceeded")
  <2> DEFINE h == hand.handoff.msg
             t == [ challenge_id |-> h.challenge_id, flag_format |-> "none",
                    handoff_depth |-> h.handoff_depth + 1 ]
             l == [log EXCEPT !.tasks[h.target] = Append(@, t)]
  <2>1. log' = l \/ log' = WithTrace(log, h.challenge_id, "handoff_depth_exceeded")
    BY <1>4 DEF RouteHandoff
  <2>2. h \in Handoff
    BY <1>0, <1>4, HandlerTypes DEF RouteHandoff
  <2>3. h.target \in Categories /\ t \in Task /\ h.challenge_id \in Challenges
    BY <2>2 DEF Task, Handoff
  <2> HIDE DEF h, t
  <2>4. l.traces = log.traces
    BY <1>0, <2>3, PublishAside
  <2> HIDE DEF l
  <2> QED
    BY <1>0, <2>1, <2>3, <2>4, TraceWritten, TraceKinds DEF Silent
<1>5. ASSUME AnnounceSolved PROVE Writes("solved")
  <2>1. hand.flag.msg.challenge_id \in Challenges
    BY <1>0, <1>5, HandlerTypes, IdsTypes DEF AnnounceSolved
  <2> QED
    BY <1>0, <1>5, <2>1, TraceWritten, TraceKinds DEF AnnounceSolved
<1> QED
  BY <1>1, <1>2, <1>3, <1>4, <1>5

LEMMA GateWrites ==
    ASSUME TypeOK, GateStep
    PROVE  /\ OnCandidate \/ PublishFlag => Silent
           /\ AnnounceVerdict /\ hand.gate.msg.status = "solved" => Writes("candidate_accepted")
<1>0. log \in Topics /\ hand \in Handlers
  BY DEF TypeOK
<1>1. OnCandidate \/ PublishFlag => Silent
  BY <1>0 DEF OnCandidate, PublishFlag, Topics, Silent
<1>2. ASSUME AnnounceVerdict, hand.gate.msg.status = "solved" PROVE Writes("candidate_accepted")
  <2>1. hand.gate.msg.challenge_id \in Challenges
    BY <1>0, <1>2, HandlerTypes, IdsTypes DEF AnnounceVerdict
  <2> QED
    BY <1>0, <1>2, <2>1, TraceWritten, TraceKinds DEF AnnounceVerdict
<1> QED
  BY <1>1, <1>2

\* What a specialist tells when it takes a task, claims or hands off, and that
\* it is silent while it goes on.
LEMMA SpecialistWrites ==
    ASSUME TypeOK, NEW k \in Categories, SpecialistStep(k)
    PROVE  /\ taken'[k] # taken[k] => Writes("task_started")
           /\ log'.candidates # log.candidates => Writes("candidate_emitted")
           /\ log'.handoffs # log.handoffs => Writes("handoff")
           /\ taken'[k] = taken[k] => spec[k].stage # "idle" /\ (spec'[k].stage # "idle" => Silent)
<1> DEFINE t == spec[k].task
           c == t.challenge_id
           Goal == /\ taken'[k] # taken[k] => Writes("task_started")
                   /\ log'.candidates # log.candidates => Writes("candidate_emitted")
                   /\ log'.handoffs # log.handoffs => Writes("handoff")
                   /\ taken'[k] = taken[k] => spec[k].stage # "idle" /\ (spec'[k].stage # "idle" => Silent)
<1>0. log \in Topics /\ k \in DOMAIN spec /\ Idle.stage = "idle"
  BY DEF TypeOK, Idle
<1>1. CASE TakeTask(k)
  <2>1. log.tasks[k][taken[k] + 1].challenge_id \in Challenges
    BY <1>0, <1>1, SeqTypes, IdsTypes DEF TakeTask, TypeOK
  <2>2. PICK d \in Challenges : log' = WithTrace(log, d, "task_started")
    BY <1>1, <2>1 DEF TakeTask
  <2>3. Writes("task_started") /\ Elsewhere(log, log')
    BY <1>0, <2>2, TraceWritten, TraceAside, TraceKinds
  <2>4. taken'[k] # taken[k]
    BY <1>1 DEF TakeTask, TypeOK
  <2> QED
    BY <2>3, <2>4 DEF Elsewhere
<1>2. CASE UNCHANGED <<log, taken>> /\ spec[k].stage # "idle"
  BY <1>2 DEF Silent
<1>3. ASSUME spec[k].stage # "idle", NEW kind \in TraceKind, log' = WithTrace(log, c, kind),
             taken' = taken, spec' = [spec EXCEPT ![k] = Idle]
      PROVE  Goal
  BY <1>0, <1>3, TraceAside DEF Elsewhere
<1>4. ASSUME NEW m \in Candidate, c \in Challenges,
             log' = WithTrace([log EXCEPT !.candidates = Append(@, m)], c, "candidate_emitted"),
             taken' = taken, spec[k].stage # "idle", spec' = [spec EXCEPT ![k] = Idle]
      PROVE  Goal
  <2> DEFINE l == [log EXCEPT !.candidates = Append(@, m)]
  <2>1. l \in Topics /\ l.traces = log.traces /\ l.handoffs = log.handoffs
    BY <1>0, <1>4, PublishAside DEF Topics
  <2> HIDE DEF l
  <2>2. Writes("candidate_emitted") /\ Elsewhere(l, log')
    BY <1>4, <2>1, TraceWritten, TraceAside, TraceKinds DEF l
  <2>3. spec'[k] = Idle
    BY <1>0, <1>4
  <2> QED
    BY <1>0, <1>4, <2>1, <2>2, <2>3 DEF Elsewhere
<1>5. CASE StaticHit(k)
  <2>1. t \in Task /\ c \in Challenges
    BY <1>5, SpecialistTypes DEF StaticHit, Scanning
  <2>2. StaticCandidate(t) \in Candidate
    BY <1>5, <2>1, StaticCandidateType DEF StaticHit
  <2> QED
    BY <1>4, <1>5, <2>1, <2>2 DEF StaticHit, Scanning
<1>6. ASSUME NEW r \in Results, EngineClaims(k, r)
      PROVE  Goal
  <2>1. t \in Task /\ c \in Challenges
    BY <1>6, SpecialistTypes DEF EngineClaims, EngineAnswers
  <2>2. EngineCandidate(t, r) \in Candidate
    BY <2>1, EngineCandidateType
  <2> QED
    BY <1>4, <1>6, <2>1, <2>2 DEF EngineClaims, EngineAnswers
<1>7. ASSUME NEW target \in Categories, EngineHandsOff(k, target)
      PROVE  Goal
  <2> DEFINE h == [ challenge_id |-> c, target |-> target,
                    handoff_depth |-> t.handoff_depth ]
             l == [log EXCEPT !.handoffs = Append(@, h)]
  <2>1. t \in Task /\ c \in Challenges
    BY <1>7, SpecialistTypes DEF EngineHandsOff, EngineAnswers
  <2>2. h \in Handoff
    BY <2>1 DEF Task, Handoff
  <2>3. /\ log' = WithTrace(l, c, "handoff") /\ taken' = taken /\ spec'[k] = Idle
        /\ spec[k].stage # "idle"
    BY <1>0, <1>7 DEF EngineHandsOff, EngineAnswers
  <2> HIDE DEF h
  <2>4. l \in Topics /\ l.traces = log.traces /\ l.candidates = log.candidates
    BY <1>0, <2>2, PublishAside DEF Topics
  <2> HIDE DEF l
  <2>5. Writes("handoff") /\ Elsewhere(l, log')
    BY <2>1, <2>3, <2>4, TraceWritten, TraceAside, TraceKinds
  <2> QED
    BY <1>0, <2>3, <2>4, <2>5 DEF Elsewhere
<1>8. CASE NeedsEngine(k)
  BY <1>3, <1>8, TraceKinds DEF NeedsEngine, Scanning
<1>9. CASE DispatchEngine(k)
  BY <1>2, <1>9 DEF DispatchEngine, Scanning
<1>10. CASE EngineRaises(k) \/ HandleRaises(k)
  BY <1>3, <1>10, TraceKinds DEF EngineRaises, HandleRaises, EngineAnswers
<1>11. CASE EngineBarren(k)
  BY <1>2, <1>3, <1>11, TraceKinds DEF EngineBarren, EngineAnswers
<1> QED
  BY <1>1, <1>5, <1>6, <1>7, <1>8, <1>9, <1>10, <1>11 DEF SpecialistStep

-----------------------------------------------------------------------------
(* What the traces tell, by where the work on the challenge stands          *)

Early == {"challenge", "handoff"} \cup Categories
Begun == "task_started" \in Kinds(Name)
ToldSoFar(p) ==
    /\ p[1] \in Early => Tale(log.traces, 0)
    /\ p[1] \in Categories /\ p[2] = 0 => Begun
    /\ p[1] = "gate" =>
         /\ Begun
         /\ IF p[2] = 0 /\ hand.gate.stage = "publish"
            THEN hand.gate.msg.status = "solved" => Tale(log.traces, 2)
            ELSE Tale(log.traces, 1)

\* Before a task is done the traces are quiet; a candidate and its approval are
\* told one behind the other, and the end behind that.
Chronicle ==
    /\ ~Submitted(Name) => Tale(log.traces, 0)
    /\ \A p \in Items(Name) : ToldSoFar(p)
    /\ Approved(Name) # {} =>
         /\ Begun
         /\ IF "solved" \in Kinds(Name) THEN Tale(log.traces, 3) ELSE Tale(log.traces, 2)

\* The challenge has one item at most; while it is not a verdict's there is none.
LEMMA ItemFacts ==
    ASSUME Steady, NEW p \in Items(Name)
    PROVE  /\ Submitted(Name) /\ Items(Name) = {p} /\ "solved" \notin Kinds(Name)
           /\ p[1] # "flag" => Approved(Name) = {}
<1>1. Name \in Challenges /\ Story(Name) /\ TypeOK /\ Accounts
  BY SolveLocalAssumption DEF Steady, Stories
<1>2. Kinds(Name) \cap Final = {} /\ (p[1] # "flag" => ~Judged(Name))
  BY <1>1, LiveFacts
<1> QED
  BY <1>1, <1>2, TheItem DEF Final, Approved, Judged

LEMMA NameOnly == Name \in Challenges /\ \A c \in Challenges : c = Name
  BY SolveLocalAssumption

LEMMA StationNames ==
    /\ Station = {"challenge", "handoff", "flag", "gate"} \cup Categories
    /\ "gate" \notin Early /\ "flag" \notin Early
    /\ "gate" \notin Categories /\ "flag" \notin Categories
    /\ "handoff" \notin Categories /\ "challenge" \notin Categories
  BY StationFacts DEF Station, Early

\* A step that leaves no item.
LEMMA WorkDone ==
    ASSUME Submitted(Name)', Items(Name)' = {}, Approved(Name)' = {}
    PROVE  Chronicle'
  BY DEF Chronicle

\* A step that leaves one item, which is not a verdict's.
LEMMA WorkGoesOn ==
    ASSUME Submitted(Name)', NEW p, Items(Name)' = {p}, Approved(Name)' = {}, ToldSoFar(p)'
    PROVE  Chronicle'
  BY DEF Chronicle

\* A step on the way of a verdict that tells nothing.
LEMMA VerdictWaits ==
    ASSUME Chronicle, Submitted(Name)', \A p \in Items(Name)' : p[1] = "flag",
           Approved(Name)' = Approved(Name), Silent
    PROVE  Chronicle'
<1>1. Kinds(Name)' = Kinds(Name)
  BY DEF Kinds, Silent
<1>2. "flag" \notin Early /\ "flag" \notin Categories /\ "flag" # "gate"
  BY StationNames
<1>3. \A p \in Items(Name)' : ToldSoFar(p)'
  BY <1>2 DEF ToldSoFar
<1> QED
  BY <1>1, <1>3 DEF Chronicle, Begun, Silent

LEMMA QuietStep ==
    ASSUME TypeOK, Tale(log.traces, 0),
           Silent \/ \E kind \in Quiet : Writes(kind)
    PROVE  Tale(log'.traces, 0)
  BY TaleQuiet, SeqTypes DEF Silent, Writes, TypeOK

LEMMA PlotStep ==
    ASSUME TypeOK, NEW m \in 0..2, Tale(log.traces, m), Writes(Plot[m + 1])
    PROVE  Tale(log'.traces, m + 1)
  BY TaleGoesOn, SeqTypes DEF Writes, TypeOK

\* The moves of the work.
LEMMA TakesTale ==
    ASSUME Steady, Chronicle, NEW x \in Station, Takes(x), log'.flags = log.flags,
           Begun => Begun', x \in Categories => Begun',
           x # "gate" => hand'.gate = hand.gate,
           x = "gate" => hand'.gate.stage = "trace",
           Silent \/ (x \in Categories /\ Writes("task_started"))
    PROVE  Chronicle'
<1>1. FlowTypes /\ TypeOK
  BY FlowTyped DEF Steady
<1>2. PICK c : c = Next1(x)
  OBVIOUS
<1>3. PICK n : n = Past[x] + 1
  OBVIOUS
<1>4. /\ c = Name /\ <<x, n>> \in Items(Name)
      /\ Items(Name)' = (Items(Name) \ {<<x, n>>}) \cup {<<x, 0>>}
  BY <1>1, <1>2, <1>3, TakesItem, NameOnly
<1>5. n # 0
  BY <1>1, <1>3 DEF FlowTypes
<1>6. /\ Submitted(Name) /\ Items(Name) = {<<x, n>>} /\ "solved" \notin Kinds(Name)
      /\ <<x, n>>[1] # "flag" => Approved(Name) = {}
  BY <1>4, ItemFacts
<1>7. Items(Name)' = {<<x, 0>>} /\ Submitted(Name)' /\ Approved(Name)' = Approved(Name)
  BY <1>4, <1>6, SubmittedSame DEF Approved, Takes, Hands
<1>8. ToldSoFar(<<x, n>>)
  BY <1>4 DEF Chronicle
<1>9. x \in Early => Tale(log'.traces, 0)
  <2>1. ASSUME x \in Early PROVE Tale(log'.traces, 0)
    <3>1. Tale(log.traces, 0)
      BY <1>8, <2>1 DEF ToldSoFar
    <3>2. Silent \/ \E kind \in Quiet : Writes(kind)
      BY DEF Quiet
    <3> QED
      BY <1>1, <3>1, <3>2, QuietStep
  <2> QED
    BY <2>1
<1>10. CASE x \in Early
  <2>1. ToldSoFar(<<x, 0>>)'
    BY <1>9, <1>10, StationNames DEF ToldSoFar
  <2> QED
    BY <1>6, <1>7, <1>10, <2>1, WorkGoesOn, StationNames
<1>11. CASE x = "gate"
  <2>1. Begun /\ Tale(log.traces, 1)
    BY <1>5, <1>8, <1>11 DEF ToldSoFar
  <2>2. Begun' /\ Tale(log'.traces, 1)
    BY <1>11, <2>1, StationNames DEF Silent
  <2>3. ToldSoFar(<<x, 0>>)'
    BY <1>11, <2>2, StationNames DEF ToldSoFar
  <2> QED
    BY <1>6, <1>7, <1>11, <2>3, WorkGoesOn
<1>12. CASE x = "flag"
  BY <1>7, <1>12, StationNames, VerdictWaits
<1> QED
  BY <1>10, <1>11, <1>12, StationNames DEF Early

LEMMA DropsTale ==
    ASSUME Steady, Chronicle, NEW x \in Station, log'.flags = log.flags,
           Drops(x) \/ \E c \in Challenges : Ends(x, c),
           x = "flag" => Silent \/ Writes("solved"), Begun => Begun',
           x = "flag" /\ ~Silent => "solved" \in Kinds(Name)'
    PROVE  Chronicle'
<1>1. FlowTypes /\ TypeOK
  BY FlowTyped DEF Steady
<1>2. PICK n : <<x, n>> \in Items(Name) /\ Items(Name)' = Items(Name) \ {<<x, n>>}
  <2>1. CASE Drops(x)
    <3>1. PICK c : c = Next1(x)
      OBVIOUS
    <3> QED
      BY <1>1, <2>1, <3>1, DropsItem, NameOnly
  <2>2. ASSUME NEW c \in Challenges, Ends(x, c)
        PROVE  \E n : <<x, n>> \in Items(Name) /\ Items(Name)' = Items(Name) \ {<<x, n>>}
    BY <1>1, <2>2, EndsItem, NameOnly
  <2> QED
    BY <2>1, <2>2
<1>3. /\ Submitted(Name) /\ Items(Name) = {<<x, n>>} /\ "solved" \notin Kinds(Name)
      /\ <<x, n>>[1] # "flag" => Approved(Name) = {}
  BY <1>2, ItemFacts
<1>4. Items(Name)' = {} /\ Submitted(Name)' /\ Approved(Name)' = Approved(Name)
  BY <1>2, <1>3, SubmittedSame DEF Approved, Drops, Ends, Hands
<1>5. CASE x # "flag"
  BY <1>3, <1>4, <1>5, WorkDone
<1>6. CASE x = "flag" /\ Silent
  BY <1>4, <1>6, VerdictWaits
<1>7. CASE x = "flag" /\ ~Silent
  <2>1. ASSUME Approved(Name) # {} PROVE Begun' /\ Tale(log'.traces, 3)
    <3>1. Begun /\ Tale(log.traces, 2)
      BY <1>3, <2>1 DEF Chronicle
    <3>2. Writes(Plot[2 + 1])
      BY <1>7 DEF Plot
    <3> QED
      BY <1>1, <3>1, <3>2, PlotStep
  <2> QED
    BY <1>4, <1>7, <2>1 DEF Chronicle
<1> QED
  BY <1>5, <1>6, <1>7

LEMMA PassesTale ==
    ASSUME Steady, Chronicle, NEW x \in Station \ {"gate", "flag"}, NEW c \in Challenges,
           NEW y \in {"handoff", "gate"} \cup Categories, Passes(x, y, c),
           log'.flags = log.flags, Begun => Begun',
           y = "gate" => x \in Categories /\ Writes("candidate_emitted"),
           y # "gate" => Silent \/ \E kind \in Quiet : Writes(kind)
    PROVE  Chronicle'
<1>1. FlowTypes /\ TypeOK /\ y \in Station /\ c = Name /\ y # "challenge" /\ y # "flag"
  BY FlowTyped, NameOnly, StationNames DEF Steady
<1>2. PICK n \in Nat : n = Len(Line[y]) + 1
  BY <1>1 DEF FlowTypes
<1>3. <<x, 0>> \in Items(Name) /\ Items(Name)' = (Items(Name) \ {<<x, 0>>}) \cup {<<y, n>>}
  BY <1>1, <1>2, PassesItem
<1>4. n # 0
  <2>1. Len(Line[y]) \in Nat
    BY <1>1 DEF FlowTypes
  <2> QED
    BY <1>2, <2>1
<1>5. /\ Submitted(Name) /\ Items(Name) = {<<x, 0>>}
      /\ <<x, 0>>[1] # "flag" => Approved(Name) = {}
  BY <1>3, ItemFacts
<1>6. Line'["challenge"] = Line["challenge"]
  BY <1>1, StationNames DEF Passes, FlowTypes
<1>7. Items(Name)' = {<<y, n>>} /\ Submitted(Name)' /\ Approved(Name)' = {}
  BY <1>3, <1>5, <1>6, SubmittedSame DEF Approved
<1>8. ToldSoFar(<<x, 0>>) /\ x \in Early
  BY <1>3, StationNames DEF Chronicle, Early
<1>9. Tale(log.traces, 0)
  BY <1>8 DEF ToldSoFar
<1>10. CASE y = "gate"
  <2>1. Begun'
    BY <1>8, <1>10 DEF ToldSoFar
  <2>2. Writes(Plot[0 + 1])
    BY <1>10 DEF Plot
  <2>3. Tale(log'.traces, 1)
    BY <1>1, <1>9, <2>2, PlotStep
  <2>4. ToldSoFar(<<y, n>>)'
    BY <1>4, <1>10, <2>1, <2>3, StationNames DEF ToldSoFar
  <2> QED
    BY <1>7, <2>4, WorkGoesOn
<1>11. CASE y # "gate"
  <2>1. Tale(log'.traces, 0)
    BY <1>1, <1>9, <1>11, QuietStep
  <2>2. ToldSoFar(<<y, n>>)'
    BY <1>4, <1>11, <2>1 DEF ToldSoFar
  <2> QED
    BY <1>7, <2>2, WorkGoesOn
<1> QED
  BY <1>10, <1>11

\* A step that leaves the work where it is, and the gate with it.
LEMMA KeepsTale ==
    ASSUME Steady, Chronicle, Keeps, Silent, log'.flags = log.flags, hand'.gate = hand.gate
    PROVE  Chronicle'
<1>1. Items(Name)' = Items(Name) /\ (Submitted(Name)' <=> Submitted(Name))
  BY KeepsItems, SubmittedSame DEF Keeps
<1>2. Kinds(Name)' = Kinds(Name) /\ Approved(Name)' = Approved(Name)
  BY DEF Kinds, Silent, Approved
<1>3. \A p \in Items(Name)' : ToldSoFar(p)'
  BY <1>1, <1>2 DEF Chronicle, ToldSoFar, Begun, Silent
<1> QED
  BY <1>1, <1>2, <1>3 DEF Chronicle, Begun, Silent

\* The gate's two steps that are not of the kinds above.
LEMMA VerdictTale ==
    ASSUME Steady, Chronicle, AnnounceVerdict, Begun => Begun'
    PROVE  Chronicle'
<1> DEFINE m == hand.gate.msg
<1>1. /\ TypeOK /\ FlowTypes /\ m \in Candidate /\ hand.gate.stage = "trace" /\ Keeps
      /\ log'.flags = log.flags
  BY FlowTyped, AnnounceVerdictFlow, GateFrame DEF Steady, AnnounceVerdict, WithTrace, Topics, TypeOK
<1>2. /\ hand'.gate.stage = "publish" /\ hand'.gate.msg = m
  <2>1. hand' = [hand EXCEPT !.gate.stage = "publish"]
    BY DEF AnnounceVerdict
  <2>2. OnlyHand("gate", [stage |-> "publish", msg |-> m])
    BY <1>1, <2>1, StageAt
  <2> QED
    BY <2>2 DEF OnlyHand
<1>3. <<"gate", 0>> \in Items(Name)
  <2>1. "gate" \in Workers /\ "gate" \in Station /\ Subject("gate", m) = m.challenge_id
    BY StationFacts DEF Subject
  <2>2. m.challenge_id = Name
    BY <1>1, IdsTypes, NameOnly
  <2>3. Name \in Held["gate"]
    BY <1>1, <2>1, <2>2, HoldsWorker
  <2> QED
    BY <2>1, <2>3, ItemAt DEF At
<1> HIDE DEF m
<1>4. /\ Submitted(Name) /\ Items(Name) = {<<"gate", 0>>} /\ Approved(Name) = {}
  <2>1. PICK p : p = <<"gate", 0>>
    OBVIOUS
  <2>2. p \in Items(Name) /\ p[1] # "flag"
    BY <1>3, <2>1
  <2> QED
    BY <2>1, <2>2, ItemFacts
<1>5. Begun' /\ Tale(log.traces, 1)
  BY <1>1, <1>4 DEF Chronicle, ToldSoFar
<1>6. m.status = "solved" => Tale(log'.traces, 2)
  <2>1. ASSUME m.status = "solved" PROVE Writes(Plot[1 + 1])
    BY <1>1, <2>1, GateWrites DEF m, Plot, GateStep
  <2> QED
    BY <1>1, <1>5, <2>1, PlotStep
<1>7. ToldSoFar(<<"gate", 0>>)'
  BY <1>2, <1>5, <1>6, StationNames DEF ToldSoFar
<1>8. /\ Items(Name)' = {<<"gate", 0>>} /\ Submitted(Name)' /\ Approved(Name)' = {}
  BY <1>1, <1>4, KeepsItems, SubmittedSame DEF Keeps, Approved
<1> QED
  BY <1>7, <1>8, WorkGoesOn

LEMMA PublishTale ==
    ASSUME Steady, Chronicle, PublishFlag, Begun => Begun'
    PROVE  Chronicle'
<1> DEFINE m == hand.gate.msg
<1>1. /\ TypeOK /\ FlowTypes /\ m \in Candidate /\ hand.gate.stage = "publish"
      /\ log.flags \in Seq(Candidate)
  BY FlowTyped, PublishFlagFlow, SeqTypes DEF Steady, TypeOK
<1>2. log'.flags = Append(log.flags, m) /\ Silent
  BY <1>1, GateWrites DEF PublishFlag, Topics, TypeOK, GateStep
<1>3. Passes("gate", "flag", Name)
  BY <1>1, PublishFlagFlow, IdsTypes, NameOnly
<1>4. Range(log'.flags) = Range(log.flags) \cup {m}
  BY <1>1, <1>2, RangeOfAppend
<1>5. PICK n : n = Len(Line["flag"]) + 1
  OBVIOUS
<1> HIDE DEF m
<1>6. /\ <<"gate", 0>> \in Items(Name)
      /\ Items(Name)' = (Items(Name) \ {<<"gate", 0>>}) \cup {<<"flag", n>>}
  BY <1>1, <1>3, <1>5, PassesItem, StationFacts
<1>7. /\ Submitted(Name) /\ Items(Name) = {<<"gate", 0>>} /\ Approved(Name) = {}
      /\ "solved" \notin Kinds(Name)
  <2>1. PICK p : p = <<"gate", 0>>
    OBVIOUS
  <2>2. p \in Items(Name) /\ p[1] # "flag"
    BY <1>6, <2>1
  <2> QED
    BY <2>1, <2>2, ItemFacts
<1>8. Items(Name)' = {<<"flag", n>>}
  BY <1>6, <1>7
<1>9. Submitted(Name)'
  <2>1. Line'["challenge"] = Line["challenge"]
    BY <1>1, <1>3, StationNames DEF Passes, FlowTypes
  <2> QED
    BY <1>7, <2>1, SubmittedSame
<1>10. Begun' /\ (m.status = "solved" => Tale(log'.traces, 2))
  BY <1>1, <1>2, <1>7 DEF Chronicle, ToldSoFar, Silent, m
<1>11. Approved(Name)' # {} => m.status = "solved"
  BY <1>4, <1>7 DEF Approved
<1>12. "solved" \notin Kinds(Name)'
  BY <1>2, <1>7 DEF Kinds, Silent
<1>13. \A p \in Items(Name)' : ToldSoFar(p)'
  BY <1>8, StationNames DEF ToldSoFar
<1> QED
  BY <1>9, <1>10, <1>11, <1>12, <1>13 DEF Chronicle

LEMMA SubmitTale ==
    ASSUME Steady, Chronicle, Submit(Name)
    PROVE  Chronicle'
<1>1. TypeOK /\ FlowTypes /\ Name \in Challenges /\ Accounts /\ Story(Name)
  BY FlowTyped, NameOnly DEF Steady, Stories
<1>2. /\ Enters(Name) /\ log'.flags = log.flags
  BY <1>1, SubmitFlow, SubmitFrame
<1>3. Silent
  BY DEF Submit, Silent, TypeOK, Topics
<1>4. ~Submitted(Name) /\ Approved(Name) = {}
  BY <1>1, LineAt DEF Submit, Submitted, Approved, Story, Judged
<1>5. PICK n \in Nat : n = Len(Line["challenge"]) + 1
  BY <1>1, StationFacts DEF FlowTypes
<1>6. n # 0
  <2>1. Len(Line["challenge"]) \in Nat
    BY <1>1, StationFacts DEF FlowTypes
  <2> QED
    BY <1>5, <2>1
<1>7. Items(Name)' = {<<"challenge", n>>}
  <2>1. Items(Name) = {}
    BY <1>1, <1>4 DEF Accounts, Accounted, Submitted
  <2> QED
    BY <1>1, <1>2, <1>5, <2>1, EntersItem
<1>8. Submitted(Name)'
  <2>1. /\ Line["challenge"] \in Seq(Challenges)
        /\ Line'["challenge"] = Append(Line["challenge"], Name)
    BY <1>1, <1>2, StationFacts DEF FlowTypes, Enters
  <2> QED
    BY <1>1, <2>1, RangeOfAppend DEF Submitted
<1>9. Tale(log'.traces, 0) /\ Approved(Name)' = {}
  BY <1>2, <1>3, <1>4 DEF Chronicle, Silent, Approved
<1>10. ToldSoFar(<<"challenge", n>>)'
  BY <1>6, <1>9, StationNames DEF ToldSoFar
<1> QED
  BY <1>7, <1>8, <1>9, <1>10, WorkGoesOn

LEMMA OrchestratorTale ==
    ASSUME Steady, Chronicle, OrchestratorStep, Begun => Begun'
    PROVE  Chronicle'
<1>0. /\ TypeOK /\ FlowTypes /\ log'.flags = log.flags /\ hand'.gate = hand.gate
      /\ "challenge" \in Station /\ "handoff" \in Station /\ "flag" \in Station
      /\ "challenge" \notin Categories /\ "handoff" \notin Categories /\ "flag" \notin Categories
  BY FlowTyped, OrchestratorLog, StationNames DEF Steady
<1>1. CASE OnChallenge
  <2>1. PICK c \in Challenges :
          \/ /\ Takes("challenge") /\ Receives("challenge", c)
             /\ hand' = [hand EXCEPT !.challenge = [stage |-> "store", msg |-> c]]
          \/ Drops("challenge")
    BY <1>0, <1>1, OnChallengeFlow
  <2>2. CASE /\ Takes("challenge") /\ Receives("challenge", c)
             /\ hand' = [hand EXCEPT !.challenge = [stage |-> "store", msg |-> c]]
    <3>1. hand.challenge = Idle
      BY <2>2 DEF Receives
    <3>2. hand'.challenge.stage = "store"
      BY <1>0, <2>2, HandAt DEF OnlyHand
    <3>3. hand' # hand
      BY <3>1, <3>2 DEF Idle
    <3>4. Silent
      BY <1>0, <1>1, <3>3, OrchestratorWrites
    <3> QED
      BY <1>0, <2>2, <3>4, TakesTale
  <2>3. CASE Drops("challenge")
    BY <1>0, <2>3, DropsTale
  <2> QED
    BY <2>1, <2>2, <2>3
<1>2. CASE StoreBoard \/ WriteSolved \/ OnTrace \/ WriteOutcome
  BY <1>0, <1>2, StoreBoardFlow, WriteSolvedFlow, OnTraceFlow, WriteOutcomeFlow, OrchestratorWrites,
     KeepsTale
<1>3. CASE DispatchTask
  <2>1. PICK c \in Challenges, k \in Categories : Passes("challenge", k, c)
    BY <1>0, <1>3, DispatchTaskFlow
  <2>2. k # "gate" /\ Writes("routed")
    BY <1>0, <1>3, OrchestratorWrites, StationNames
  <2>3. \E kind \in Quiet : Writes(kind)
    BY <2>2 DEF Quiet
  <2> QED
    BY <1>0, <2>1, <2>2, <2>3, PassesTale
<1>4. CASE OnHandoff
  BY <1>0, <1>4, OnHandoffFlow, OrchestratorWrites, TakesTale
<1>5. CASE RouteHandoff
  <2>1. PICK m \in Handoff :
          Passes("handoff", m.target, m.challenge_id) \/ Ends("handoff", m.challenge_id)
    BY <1>0, <1>5, RouteHandoffFlow
  <2>2. m.target \in Categories /\ m.challenge_id \in Challenges /\ m.target # "gate"
    BY StationNames DEF Handoff
  <2>3. Silent \/ \E kind \in Quiet : Writes(kind)
    BY <1>0, <1>5, OrchestratorWrites DEF Quiet
  <2>4. CASE Passes("handoff", m.target, m.challenge_id)
    BY <1>0, <2>2, <2>3, <2>4, PassesTale
  <2>5. CASE Ends("handoff", m.challenge_id)
    BY <1>0, <2>2, <2>5, DropsTale
  <2> QED
    BY <2>1, <2>4, <2>5
<1>6. CASE OnFlag
  <2>1. Silent /\ (Takes("flag") \/ Drops("flag"))
    BY <1>0, <1>6, OnFlagFlow, OrchestratorWrites
  <2>2. CASE Takes("flag")
    BY <1>0, <2>1, <2>2, TakesTale
  <2>3. CASE Drops("flag")
    BY <1>0, <2>1, <2>3, DropsTale
  <2> QED
    BY <2>1, <2>2, <2>3
<1>7. CASE AnnounceSolved
  <2>1. PICK c \in Challenges : Ends("flag", c) /\ Tells(c, "solved")
    BY <1>0, <1>7, AnnounceSolvedFlow
  <2>2. "solved" \in Kinds(Name)' /\ Writes("solved")
    BY <1>0, <1>7, <2>1, OrchestratorWrites, NameOnly, SolveSetting, TraceKinds DEF Tells
  <2> QED
    BY <1>0, <2>1, <2>2, DropsTale
<1> QED
  BY <1>1, <1>2, <1>3, <1>4, <1>5, <1>6, <1>7 DEF OrchestratorStep

LEMMA AppendDiffers ==
    ASSUME NEW S, NEW s \in Seq(S), NEW x \in S
    PROVE  Append(s, x) # s
<1>1. Len(s) \in Nat /\ Len(Append(s, x)) = Len(s) + 1
  OBVIOUS
<1> QED
  BY <1>1

LEMMA GateLine ==
    /\ log'.candidates = log.candidates => Line'["gate"] = Line["gate"]
    /\ log'.handoffs = log.handoffs => Line'["handoff"] = Line["handoff"]
  BY StationFacts DEF Line

LEMMA SpecialistTale ==
    ASSUME Steady, Chronicle, NEW k \in Categories, SpecialistStep(k), Begun => Begun'
    PROVE  Chronicle'
<1>0. /\ TypeOK /\ FlowTypes /\ log'.flags = log.flags /\ hand'.gate = hand.gate
      /\ k \in Station \ {"gate", "flag"} /\ Past[k] = taken[k] /\ Past'[k] = taken'[k]
      /\ Held[k] = {} <=> spec[k].stage = "idle"
      /\ Held'[k] = {} <=> spec'[k].stage = "idle"
  <2>1. k \in Station /\ k \notin Workers
    BY StationFacts
  <2> QED
    BY <2>1, FlowTyped, SpecialistFrame, StationNames DEF Steady, Past, Held
<1>1. CASE Takes(k) /\ Tells(Next1(k), "task_started")
  <2>1. taken'[k] # taken[k]
    BY <1>0, <1>1 DEF Takes, Hands, FlowTypes
  <2>2. Writes("task_started")
    BY <1>0, <2>1, SpecialistWrites
  <2>3. Begun'
    <3>1. PICK c : c = Next1(k)
      OBVIOUS
    <3>2. c = Name
      BY <1>0, <1>1, <3>1, TakesItem, NameOnly
    <3> QED
      BY <1>1, <3>1, <3>2, SolveSetting, TraceKinds DEF Tells, Begun
  <2> QED
    BY <1>0, <1>1, <2>2, <2>3, TakesTale
<1>2. CASE Keeps /\ Mute
  <2>1. Silent
    BY <1>0, <1>2, SpecialistWrites DEF Keeps
  <2> QED
    BY <1>0, <1>2, <2>1, KeepsTale
<1>3. ASSUME NEW c \in Challenges, Passes(k, "gate", c) PROVE Chronicle'
  <2>1. log'.candidates # log.candidates
    <3>1. Line'["gate"] = Append(Line["gate"], c)
      BY <1>0, <1>3, StationFacts DEF Passes, FlowTypes
    <3>2. Line'["gate"] # Line["gate"]
      BY <1>0, <1>3, <3>1, StationFacts, AppendDiffers DEF FlowTypes
    <3> QED
      BY <3>2, GateLine
  <2>2. Writes("candidate_emitted")
    BY <1>0, <2>1, SpecialistWrites
  <2> QED
    BY <1>0, <1>3, <2>2, PassesTale
<1>4. ASSUME NEW c \in Challenges, Passes(k, "handoff", c) PROVE Chronicle'
  <2>1. log'.handoffs # log.handoffs
    <3>1. Line'["handoff"] = Append(Line["handoff"], c)
      BY <1>0, <1>4, StationFacts DEF Passes, FlowTypes
    <3>2. Line'["handoff"] # Line["handoff"]
      BY <1>0, <1>4, <3>1, StationFacts, AppendDiffers DEF FlowTypes
    <3> QED
      BY <3>2, GateLine
  <2>2. Writes("handoff")
    BY <1>0, <2>1, SpecialistWrites
  <2>3. \E kind \in Quiet : Writes(kind)
    BY <2>2 DEF Quiet
  <2> QED
    BY <1>0, <1>4, <2>3, PassesTale
<1>5. ASSUME NEW c \in Challenges, Ends(k, c) PROVE Chronicle'
  BY <1>0, <1>5, DropsTale
<1> QED
  BY <1>0, <1>1, <1>2, <1>3, <1>4, <1>5, SpecialistFlow

LEMMA ChronicleStep ==
    ASSUME Steady, Chronicle, [Next]_vars
    PROVE  Chronicle'
<1>1. CASE UNCHANGED vars
  BY <1>1 DEF vars, Chronicle, ToldSoFar, Begun, Approved, Kinds, Submitted, Items, Line, Past, Held
<1>2. CASE Next
  <2>1. Begun => Begun'
    BY <1>2, SolveSetting, FlowTyped, StepFlow DEF Steady, KindsGrowing, Begun
  <2>2. ASSUME NEW c \in Challenges, Submit(c) PROVE Chronicle'
    BY <2>2, NameOnly, SubmitTale
  <2>3. CASE GateStep
    <3>1. CASE OnCandidate
      <4>1. /\ TypeOK /\ FlowTypes /\ log'.flags = log.flags /\ hand'.gate.stage = "trace"
        BY <3>1, FlowTyped, HandAt DEF Steady, OnCandidate, OnlyHand
      <4>2. Takes("gate") /\ Silent /\ "gate" \in Station
        BY <2>3, <3>1, <4>1, OnCandidateFlow, GateWrites, StationFacts
      <4> QED
        BY <2>1, <4>1, <4>2, TakesTale, StationNames
    <3> QED
      BY <2>1, <2>3, <3>1, VerdictTale, PublishTale DEF GateStep
  <2>4. ASSUME NEW p \in Deployed, Crash(p) PROVE FALSE
    BY <2>4, SolveSetting DEF Crash
  <2> QED
    BY <1>2, <2>1, <2>2, <2>3, <2>4, OrchestratorTale, SpecialistTale DEF Next
<1> QED
  BY <1>1, <1>2

-----------------------------------------------------------------------------
(* What the recorder has filed when the answer is solved                    *)

FiledInv ==
    /\ filed \in Nat /\ filed <= Len(log.traces)
    /\ cli.answer = "solved" /\ cli.polls < MaxPolls /\ earlier = {} =>
         /\ Approved(Name) # {}
         /\ \E i, j \in 1..filed : log.traces[i].kind = "routed" /\ log.traces[j].kind = "solved"

LEMMA KindOfTrace ==
    ASSUME TypeOK, NEW kind
    PROVE  kind \in Kinds(Name) <=> \E i \in 1..Len(log.traces) : log.traces[i].kind = kind
<1>1. log.traces \in Seq(TraceEvent)
  BY SeqTypes DEF TypeOK
<1>2. ASSUME NEW i \in 1..Len(log.traces) PROVE log.traces[i].challenge_id = Name
  <2>1. log.traces[i] \in TraceEvent
    BY <1>1
  <2> QED
    BY <2>1, NameOnly DEF TraceEvent
<1>3. Range(log.traces) = {log.traces[i] : i \in 1..Len(log.traces)}
  BY <1>1 DEF Range
<1> QED
  BY <1>2, <1>3 DEF Kinds

\* A file that holds the end holds the whole story.
LEMMA SolvedFileIsWhole ==
    ASSUME Steady, Chronicle, FiledInv, Approved(Name) # {},
           NEW r \in 1..filed, log.traces[r].kind = "routed",
           NEW d \in 1..filed, log.traces[d].kind = "solved"
    PROVE  /\ filed = Len(log.traces) /\ filed >= 3
           /\ \A i \in 1..(filed - 3) : Filed[i] \in Quiet
           /\ Filed[filed - 2] = "candidate_emitted" /\ Filed[filed - 1] = "candidate_accepted"
           /\ Filed[filed] = "solved"
           /\ \E i \in 1..filed : Filed[i] = "task_started"
           /\ \E i \in 1..filed : Filed[i] = "routed"
<1> DEFINE n == Len(log.traces)
<1>1. /\ TypeOK /\ n \in Nat /\ filed \in Nat /\ filed <= n
  BY SeqTypes DEF Steady, TypeOK, FiledInv
<1>2. "solved" \in Kinds(Name)
  BY <1>1, KindOfTrace
<1>3. Begun /\ Tale(log.traces, 3)
  BY <1>2 DEF Chronicle
<1>4. /\ n >= 3 /\ \A i \in 1..(n - 3) : log.traces[i].kind \in Quiet
      /\ log.traces[n - 3 + 1].kind = Plot[1] /\ log.traces[n - 3 + 2].kind = Plot[2]
      /\ log.traces[n - 3 + 3].kind = Plot[3]
  BY <1>1, <1>3 DEF Tale
<1>5. /\ log.traces[n - 2].kind = "candidate_emitted"
      /\ log.traces[n - 1].kind = "candidate_accepted"
      /\ log.traces[n].kind = "solved"
  <2>1. n - 3 + 1 = n - 2 /\ n - 3 + 2 = n - 1 /\ n - 3 + 3 = n
    BY <1>1
  <2> QED
    BY <1>4, <2>1 DEF Plot
<1>6. d = n
  <2>1. d \in 1..(n - 3) \/ d = n - 2 \/ d = n - 1 \/ d = n
    BY <1>1, <1>4
  <2>2. "solved" \notin Quiet
    BY DEF Quiet
  <2> QED
    BY <1>4, <1>5, <2>1, <2>2
<1>7. filed = n
  BY <1>1, <1>6
<1>8. \E i \in 1..n : log.traces[i].kind = "task_started"
  BY <1>1, <1>3, KindOfTrace DEF Begun
<1>9. \A i \in 1..filed : Filed[i] = log.traces[i].kind
  BY DEF Filed
<1>10. n - 2 \in 1..n /\ n - 1 \in 1..n /\ n \in 1..n /\ \A i \in 1..(n - 3) : i \in 1..n
  <2>1. n \in Nat /\ n >= 3
    BY <1>1, <1>4
  <2> HIDE DEF n
  <2> QED
    BY <2>1
<1> HIDE DEF n
<1> QED
  BY <1>4, <1>5, <1>7, <1>8, <1>9, <1>10 DEF n

\* Such a file is valid, and its summary counts one candidate, accepted.
LEMMA WholeFileIsValid ==
    ASSUME NEW n \in Nat, NEW t, DOMAIN t = 1..n, Len(t) = n, n >= 3,
           \A i \in 1..(n - 3) : t[i] \in Quiet,
           t[n - 2] = "candidate_emitted", t[n - 1] = "candidate_accepted", t[n] = "solved",
           \E i \in 1..n : t[i] = "task_started",
           \E i \in 1..n : t[i] = "routed"
    PROVE  /\ ValidateCommand(t) = "valid"
           /\ Summary(t).accepted = 1
           /\ Summary(t).emitted = Summary(t).accepted + Summary(t).rejected
           /\ Summary(t).status = "solved"
<1>1. /\ t # <<>> /\ n \in 1..n /\ n - 1 \in 1..n /\ n - 2 \in 1..n
      /\ n # n - 1 /\ n # n - 2 /\ n - 1 # n - 2
  <2>1. n \in 1..n /\ n - 1 \in 1..n /\ n - 2 \in 1..n
    OBVIOUS
  <2>2. n \in DOMAIN t
    BY <2>1
  <2>3. DOMAIN <<>> = {}
    OBVIOUS
  <2> QED
    BY <2>1, <2>2, <2>3
<1>2. \A i \in 1..n : i \in 1..(n - 3) \/ i = n - 2 \/ i = n - 1 \/ i = n
  OBVIOUS
<1>3. Quiet \cap {"needs_engine", "candidate_emitted", "candidate_accepted",
                  "candidate_rejected", "solved"} = {}
  BY DEF Quiet
<1>4. /\ \A i \in 1..n : t[i] # "needs_engine" /\ t[i] # "candidate_rejected"
      /\ \A i \in 1..n : t[i] = "candidate_emitted" <=> i = n - 2
      /\ \A i \in 1..n : t[i] = "candidate_accepted" <=> i = n - 1
  BY <1>1, <1>2, <1>3
<1>5. Range(t) = {t[i] : i \in 1..n}
  BY DEF Range
<1>6. /\ "routed" \in Range(t) /\ "task_started" \in Range(t) /\ "needs_engine" \notin Range(t)
      /\ "solved" \in Range(t) /\ "candidate_accepted" \in Range(t)
  BY <1>1, <1>4, <1>5
<1>7. ValidateTrace(t) = {}
  BY <1>1, <1>4, <1>6 DEF ValidateTrace
<1>8. ValidateCommand(t) = "valid"
  BY <1>1, <1>7 DEF ValidateCommand
<1> DEFINE Spots(kind) == {i \in DOMAIN t : t[i] = kind}
<1>9. /\ Spots("candidate_emitted") = {n - 2} /\ Spots("candidate_accepted") = {n - 1}
      /\ Spots("candidate_rejected") = {}
  BY <1>1, <1>4
<1>10. /\ Cardinality(Spots("candidate_emitted")) = 1 /\ Cardinality(Spots("candidate_accepted")) = 1
       /\ Cardinality(Spots("candidate_rejected")) = 0
  <2> HIDE DEF Spots
  <2>1. \A i : Cardinality({i}) = 1
    BY FS_Singleton
  <2>2. Cardinality({}) = 0
    BY FS_EmptySet
  <2> QED
    BY <1>9, <2>1, <2>2
<1>11. Summary(t) = [ status |-> t[n], emitted |-> Cardinality(Spots("candidate_emitted")),
                      accepted |-> Cardinality(Spots("candidate_accepted")),
                      rejected |-> Cardinality(Spots("candidate_rejected")) ]
  BY <1>1 DEF Summary
<1> HIDE DEF Spots
<1> QED
  BY <1>8, <1>10, <1>11

LEMMA FiledStep ==
    ASSUME Steady, Steady', AnswerInv, CliTypes, FiledInv, [SolveNext]_solveVars
    PROVE  FiledInv'
<1>0. /\ TypeOK /\ Len(log.traces) \in Nat /\ Len(log'.traces) \in Nat
      /\ MaxPolls \in Nat \ {0}
  BY SeqTypes, SolveLocalAssumption DEF Steady, TypeOK
<1>1. Len(log.traces) <= Len(log'.traces)
  BY <1>0, SolveSetting, SolveStep, TracesExtend DEF Extends
<1>2. ASSUME filed' = filed, cli'.answer # "solved" PROVE FiledInv'
  BY <1>0, <1>1, <1>2 DEF FiledInv
<1>3. CASE UNCHANGED solveVars
  BY <1>3 DEF solveVars, cliVars, vars, FiledInv, Approved
<1>4. ASSUME cli.stage # "done", filed' = filed, cli'.answer = cli.answer PROVE FiledInv'
  BY <1>2, <1>4 DEF AnswerInv
<1>5. CASE Publish
  <2>1. cli.stage = "start" /\ cli' = [cli EXCEPT !.stage = "waiting"] /\ filed' = filed
    BY <1>5 DEF Publish
  <2> QED
    BY <1>4, <2>1 DEF CliTypes
<1>6. CASE RecordTrace
  <2>1. /\ cli' = cli /\ cli.stage # "done" /\ filed' = filed + 1 /\ filed < Len(log.traces)
        /\ UNCHANGED log
    BY <1>6 DEF RecordTrace, CliRuns, Running, vars
  <2>2. filed' \in Nat /\ filed' <= Len(log'.traces)
    BY <1>0, <2>1 DEF FiledInv
  <2>3. cli'.answer # "solved"
    BY <2>1 DEF AnswerInv
  <2> QED
    BY <2>2, <2>3 DEF FiledInv
<1>7. CASE TakeFlag \/ TakeTrace \/ TimeOut
  <2>1. cli'.answer = cli.answer \/ cli'.answer # "solved"
    BY <1>7 DEF CliTypes, TakeFlag, TakeTrace, TimeOut
  <2>2. filed' = filed /\ cli.stage # "done"
    BY <1>7 DEF TakeFlag, TakeTrace, TimeOut, Waits
  <2> QED
    BY <1>2, <1>4, <2>1, <2>2
<1>8. CASE Poll
  <2>1. /\ UNCHANGED <<vars, filed, earlier>> /\ cli.stage = "polling" /\ Approved(Name) # {}
    BY <1>8 DEF Poll, AnswerInv
  <2>2. log' = log /\ Approved(Name)' = Approved(Name)
    BY <2>1 DEF vars, Approved
  <2>3. CASE {"routed", "solved"} \subseteq InFile
    <3>1. earlier = {} => {"routed", "solved"} \subseteq Range(Filed)
      BY <2>3 DEF InFile
    <3>2. Range(Filed) = {log.traces[i].kind : i \in 1..filed}
      BY DEF Range, Filed
    <3>3. earlier = {} => \E i, j \in 1..filed :
                            log.traces[i].kind = "routed" /\ log.traces[j].kind = "solved"
      BY <3>1, <3>2
    <3> QED
      BY <1>0, <2>1, <2>2, <3>3 DEF FiledInv
  <2>4. CASE ~({"routed", "solved"} \subseteq InFile)
    <3>1. cli' = [cli EXCEPT !.polls = @ + 1,
                      !.stage = IF cli.polls + 1 = MaxPolls THEN "done" ELSE @,
                      !.answer = IF cli.polls + 1 = MaxPolls THEN "solved" ELSE @]
      BY <1>8, <2>4 DEF Poll
    <3>2. /\ cli'.polls = cli.polls + 1 /\ cli.polls \in Nat
          /\ cli'.answer = IF cli.polls + 1 = MaxPolls THEN "solved" ELSE cli.answer
      BY <3>1 DEF CliTypes
    <3>3. cli'.answer # "solved" \/ ~(cli'.polls < MaxPolls)
      <4>1. cli.answer = "none"
        BY <2>1 DEF AnswerInv
      <4>2. cli.polls + 1 = MaxPolls => ~(cli'.polls < MaxPolls)
        BY <1>0, <3>2
      <4> QED
        BY <3>2, <4>1, <4>2
    <3> QED
      BY <1>0, <1>1, <2>1, <3>3 DEF FiledInv
  <2> QED
    BY <2>3, <2>4
<1>9. CASE Loops(OrchestratorStep) \/ Loops(GateStep) \/ \E k \in Categories : Loops(SpecialistStep(k))
  BY <1>4, <1>9 DEF Loops, Running, cliVars
<1> QED
  BY <1>3, <1>5, <1>6, <1>7, <1>8, <1>9 DEF SolveNext

\* The trace a solved run leaves passes validate-trace and tells of one
\* candidate, accepted, unless the command stopped looking, or was content with
\* what an earlier run had left in the file.
THEOREM SolvedTracesAreValid == SolveSpec => []SolvedTraceIsValid
<1>1. SolveInit => FiledInv /\ Chronicle
  <2> SUFFICES ASSUME SolveInit PROVE FiledInv /\ Chronicle
    OBVIOUS
  <2>1. /\ cli.answer = "none" /\ filed = 0 /\ log.traces = <<>> /\ log.flags = <<>>
        /\ Steady
    BY InitSteady DEF SolveInit, Init
  <2>2. ~Submitted(Name)
    BY LineAt DEF SolveInit, Init, Submitted, Range
  <2>3. Items(Name) = {}
    BY <2>1, <2>2, NameOnly DEF Steady, Accounts, Accounted, Submitted
  <2>4. Tale(log.traces, 0) /\ Approved(Name) = {}
    BY <2>1 DEF Tale, Approved, Range
  <2> QED
    BY <2>1, <2>3, <2>4 DEF FiledInv, Chronicle
<1>2. Steady /\ Chronicle /\ FiledInv => SolvedTraceIsValid
  <2> SUFFICES ASSUME Steady, Chronicle, FiledInv, cli.answer = "solved", cli.polls < MaxPolls,
                      earlier = {}
               PROVE  /\ ValidateCommand(Filed) = "valid"
                      /\ Summary(Filed).accepted = 1
                      /\ Summary(Filed).emitted = Summary(Filed).accepted + Summary(Filed).rejected
                      /\ Summary(Filed).status = "solved"
    BY DEF SolvedTraceIsValid
  <2>1. filed \in Nat /\ Approved(Name) # {}
    BY DEF FiledInv
  <2>2. PICK r \in 1..filed, d \in 1..filed :
          log.traces[r].kind = "routed" /\ log.traces[d].kind = "solved"
    BY DEF FiledInv
  <2>3. DOMAIN Filed = 1..filed /\ Len(Filed) = filed
    BY <2>1 DEF Filed
  <2> QED
    BY <2>1, <2>2, <2>3, SolvedFileIsWhole, WholeFileIsValid
<1>3. SolveInit => OneVerdict /\ AnswerInv /\ CliTypes
  BY DEF SolveInit, Init, OneVerdict, AnswerInv, CliTypes, Answer
<1>4. Spec => []Steady
  BY SteadyAlways, SolveSetting
<1> QED
  BY <1>1, <1>2, <1>3, <1>4, AnswersStep, FiledStep, ChronicleStep, SolveStep,
     SolveLocalRunsRuntime, PTL DEF SolveSpec
=============================================================================
