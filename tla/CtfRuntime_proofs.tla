------------------------- MODULE CtfRuntime_proofs --------------------------
(****************************************************************************)
(* Proofs about CtfRuntime, for every set of challenges, worlds and engine  *)
(* answers.  The first two parts, types and the safety invariants of every  *)
(* deployment, hold across any number of crashes; the last two, conservation*)
(* of work and what board and traces tell of it, are about the in-memory one.*)
(****************************************************************************)
EXTENDS CtfRuntimeProps, FiniteSetTheorems, SequenceTheorems, TLAPS

\* What appending a message does to a topic.
LEMMA RangeOfAppend ==
    ASSUME NEW S, NEW s \in Seq(S), NEW x \in S
    PROVE  /\ Append(s, x) \in Seq(S)
           /\ Len(Append(s, x)) = Len(s) + 1
           /\ Range(Append(s, x)) = Range(s) \cup {x}
<1>1. Append(s, x) \in Seq(S) /\ Len(Append(s, x)) = Len(s) + 1
  OBVIOUS
<1>2. \A i \in 1..Len(s) : Append(s, x)[i] = s[i]
  OBVIOUS
<1>3. Append(s, x)[Len(s) + 1] = x
  OBVIOUS
<1>4. DOMAIN Append(s, x) = 1..Len(s) \cup {Len(s) + 1}
  BY <1>1
<1>. QED BY <1>1, <1>2, <1>3, <1>4 DEF Range

\* The gate's verdict on a candidate is a candidate, and it calls solved only
\* what is proven: the judgement itself, for every candidate there can be.
LEMMA JudgeType ==
    ASSUME NEW c \in Candidate
    PROVE  Judge(c) \in Candidate
BY DEF Judge, Promote, Candidate, CandidateStatus, ValidationLevel

LEMMA JudgeKeepsIdentity ==
    ASSUME NEW c \in Candidate
    PROVE  /\ Judge(c).challenge_id = c.challenge_id
           /\ Judge(c).candidate = c.candidate
BY DEF Judge, Promote, Candidate

THEOREM JudgeSolvesOnProof ==
    ASSUME NEW c \in Candidate, Judge(c).status = "solved"
    PROVE  Proven(Judge(c))
<1>1. FinalAnswerChecks(c) = {}
  BY DEF Judge, Candidate, CandidateStatus
<1>2. c.oracle_validation # "failed"
  BY <1>1 DEF FinalAnswerChecks
<1>3. c.local_validation = "passed" \/ c.oracle_validation = "passed"
  BY <1>1 DEF FinalAnswerChecks
<1>4. /\ Judge(c).oracle_validation = c.oracle_validation
      /\ Judge(c).local_validation = c.local_validation
  BY DEF Judge, Promote, Candidate
<1>5. c.oracle_validation \in {"passed", "failed", "not_available"}
  BY DEF Candidate, OracleValidation
<1>. QED BY <1>2, <1>3, <1>4, <1>5 DEF Proven

-----------------------------------------------------------------------------
(* Type correctness                                                        *)

\* The topics of l2 are those of l with messages added at their ends.
Grows(l, l2) ==
    /\ l2 \in Topics
    /\ Len(l.challenges) <= Len(l2.challenges)
    /\ Len(l.handoffs) <= Len(l2.handoffs)
    /\ Len(l.candidates) <= Len(l2.candidates)
    /\ Len(l.flags) <= Len(l2.flags)
    /\ Len(l.traces) <= Len(l2.traces)
    /\ \A k \in Categories : Len(l.tasks[k]) <= Len(l2.tasks[k])

LEMMA SeqTypes ==
    ASSUME NEW l \in Topics
    PROVE  /\ l.challenges \in Seq(Challenges)
           /\ l.handoffs \in Seq(Handoff)
           /\ l.candidates \in Seq(Candidate)
           /\ l.flags \in Seq(Candidate)
           /\ l.traces \in Seq(TraceEvent)
           /\ l.tasks \in [Categories -> Seq(Task)]
           /\ \A k \in Categories : Len(l.tasks[k]) \in Nat
           /\ Len(l.challenges) \in Nat /\ Len(l.handoffs) \in Nat
           /\ Len(l.candidates) \in Nat /\ Len(l.flags) \in Nat
           /\ Len(l.traces) \in Nat
BY DEF Topics

LEMMA NothingGrows == ASSUME NEW l \in Topics PROVE Grows(l, l)
BY SeqTypes DEF Grows

\* Publishing on any topic makes the topics grow.
LEMMA TraceAppendGrows ==
    ASSUME NEW l \in Topics, NEW e \in TraceEvent
    PROVE  Grows(l, [l EXCEPT !.traces = Append(@, e)])
<1>. DEFINE l2 == [l EXCEPT !.traces = Append(@, e)]
<1>1. /\ Append(l.traces, e) \in Seq(TraceEvent)
      /\ Len(Append(l.traces, e)) = Len(l.traces) + 1
  BY SeqTypes, RangeOfAppend
<1>2. l2 \in Topics
  BY <1>1, SeqTypes DEF Topics
<1>3. l2.traces = Append(l.traces, e)
  BY DEF Topics
<1>4. /\ l2.challenges = l.challenges
      /\ l2.handoffs = l.handoffs
      /\ l2.candidates = l.candidates
      /\ l2.flags = l.flags
      /\ l2.tasks = l.tasks
  BY DEF Topics
<1>. HIDE DEF l2
<1>5. Grows(l, l2)
  BY <1>1, <1>2, <1>3, <1>4, SeqTypes DEF Grows
<1>. QED BY <1>5 DEF l2

LEMMA TraceKinds ==
    /\ "challenge_rejected" \in TraceKind /\ "needs_engine" \in TraceKind
    /\ "engine_error" \in TraceKind /\ "error" \in TraceKind
    /\ "engine_no_candidate" \in TraceKind /\ "handoff_depth_exceeded" \in TraceKind
    /\ "candidate_rejected" \in TraceKind /\ "solved" \in TraceKind
    /\ "routed" \in TraceKind /\ "task_started" \in TraceKind
    /\ "candidate_emitted" \in TraceKind /\ "handoff" \in TraceKind
    /\ "candidate_accepted" \in TraceKind /\ "gate_verdict" \in TraceKind
BY DEF TraceKind, EndKind

LEMMA TraceGrows ==
    ASSUME NEW l \in Topics, NEW c \in Challenges, NEW kind \in TraceKind
    PROVE  Grows(l, WithTrace(l, c, kind))
<1>1. Trace(c, kind) \in TraceEvent
  BY DEF Trace, TraceEvent
<1>. QED BY <1>1, TraceAppendGrows, NothingGrows DEF WithTrace

LEMMA GrowsTransitive ==
    ASSUME NEW l1 \in Topics, NEW l2 \in Topics, NEW l3 \in Topics,
           Grows(l1, l2), Grows(l2, l3)
    PROVE  Grows(l1, l3)
<1>0. \A a, b, c \in Nat : a <= b /\ b <= c => a <= c
  OBVIOUS
<1>1. /\ Len(l1.challenges) <= Len(l3.challenges)
      /\ Len(l1.handoffs) <= Len(l3.handoffs)
      /\ Len(l1.candidates) <= Len(l3.candidates)
      /\ Len(l1.flags) <= Len(l3.flags)
      /\ Len(l1.traces) <= Len(l3.traces)
  <2>1. Len(l1.challenges) <= Len(l3.challenges)
    <3>1. Len(l1.challenges) \in Nat /\ Len(l2.challenges) \in Nat /\ Len(l3.challenges) \in Nat
      BY SeqTypes
    <3>2. Len(l1.challenges) <= Len(l2.challenges) /\ Len(l2.challenges) <= Len(l3.challenges)
      BY DEF Grows
    <3>. QED BY <1>0, <3>1, <3>2, Zenon
  <2>2. Len(l1.handoffs) <= Len(l3.handoffs)
    <3>1. Len(l1.handoffs) \in Nat /\ Len(l2.handoffs) \in Nat /\ Len(l3.handoffs) \in Nat
      BY SeqTypes
    <3>2. Len(l1.handoffs) <= Len(l2.handoffs) /\ Len(l2.handoffs) <= Len(l3.handoffs)
      BY DEF Grows
    <3>. QED BY <1>0, <3>1, <3>2, Zenon
  <2>3. Len(l1.candidates) <= Len(l3.candidates)
    <3>1. Len(l1.candidates) \in Nat /\ Len(l2.candidates) \in Nat /\ Len(l3.candidates) \in Nat
      BY SeqTypes
    <3>2. Len(l1.candidates) <= Len(l2.candidates) /\ Len(l2.candidates) <= Len(l3.candidates)
      BY DEF Grows
    <3>. QED BY <1>0, <3>1, <3>2, Zenon
  <2>4. Len(l1.flags) <= Len(l3.flags)
    <3>1. Len(l1.flags) \in Nat /\ Len(l2.flags) \in Nat /\ Len(l3.flags) \in Nat
      BY SeqTypes
    <3>2. Len(l1.flags) <= Len(l2.flags) /\ Len(l2.flags) <= Len(l3.flags)
      BY DEF Grows
    <3>. QED BY <1>0, <3>1, <3>2, Zenon
  <2>5. Len(l1.traces) <= Len(l3.traces)
    <3>1. Len(l1.traces) \in Nat /\ Len(l2.traces) \in Nat /\ Len(l3.traces) \in Nat
      BY SeqTypes
    <3>2. Len(l1.traces) <= Len(l2.traces) /\ Len(l2.traces) <= Len(l3.traces)
      BY DEF Grows
    <3>. QED BY <1>0, <3>1, <3>2, Zenon
  <2>. QED BY <2>1, <2>2, <2>3, <2>4, <2>5
<1>2. ASSUME NEW k \in Categories PROVE Len(l1.tasks[k]) <= Len(l3.tasks[k])
  <2>1. /\ Len(l1.tasks[k]) \in Nat /\ Len(l2.tasks[k]) \in Nat
        /\ Len(l3.tasks[k]) \in Nat
    BY SeqTypes
  <2>2. Len(l1.tasks[k]) <= Len(l2.tasks[k]) /\ Len(l2.tasks[k]) <= Len(l3.tasks[k])
    BY DEF Grows
  <2>. QED BY <1>0, <2>1, <2>2, Zenon
<1>3. l3 \in Topics
  OBVIOUS
<1>. QED BY <1>1, <1>2, <1>3 DEF Grows

\* A message and a trace that tells of it.
LEMMA TraceGrowsOn ==
    ASSUME NEW l \in Topics, NEW l2, Grows(l, l2),
           NEW c \in Challenges, NEW kind \in TraceKind
    PROVE  Grows(l, WithTrace(l2, c, kind))
<1>1. l2 \in Topics
  BY DEF Grows
<1>2. Grows(l2, WithTrace(l2, c, kind))
  BY <1>1, TraceGrows
<1>3. WithTrace(l2, c, kind) \in Topics
  BY <1>2 DEF Grows
<1>. QED BY <1>1, <1>2, <1>3, GrowsTransitive

LEMMA ChallengeGrows ==
    ASSUME NEW l \in Topics, NEW c \in Challenges
    PROVE  Grows(l, [l EXCEPT !.challenges = Append(@, c)])
<1>. DEFINE l2 == [l EXCEPT !.challenges = Append(@, c)]
<1>1. /\ Append(l.challenges, c) \in Seq(Challenges)
      /\ Len(Append(l.challenges, c)) = Len(l.challenges) + 1
  BY SeqTypes, RangeOfAppend
<1>2. l2 \in Topics
  BY <1>1, SeqTypes DEF Topics
<1>3. l2.challenges = Append(l.challenges, c)
  BY DEF Topics
<1>4. /\ l2.handoffs = l.handoffs
      /\ l2.candidates = l.candidates
      /\ l2.flags = l.flags
      /\ l2.traces = l.traces
      /\ l2.tasks = l.tasks
  BY DEF Topics
<1>. HIDE DEF l2
<1>5. Grows(l, l2)
  BY <1>1, <1>2, <1>3, <1>4, SeqTypes DEF Grows
<1>. QED BY <1>5 DEF l2

LEMMA HandoffGrows ==
    ASSUME NEW l \in Topics, NEW h \in Handoff
    PROVE  Grows(l, [l EXCEPT !.handoffs = Append(@, h)])
<1>. DEFINE l2 == [l EXCEPT !.handoffs = Append(@, h)]
<1>1. /\ Append(l.handoffs, h) \in Seq(Handoff)
      /\ Len(Append(l.handoffs, h)) = Len(l.handoffs) + 1
  BY SeqTypes, RangeOfAppend
<1>2. l2 \in Topics
  BY <1>1, SeqTypes DEF Topics
<1>3. l2.handoffs = Append(l.handoffs, h)
  BY DEF Topics
<1>4. /\ l2.challenges = l.challenges
      /\ l2.candidates = l.candidates
      /\ l2.flags = l.flags
      /\ l2.traces = l.traces
      /\ l2.tasks = l.tasks
  BY DEF Topics
<1>. HIDE DEF l2
<1>5. Grows(l, l2)
  BY <1>1, <1>2, <1>3, <1>4, SeqTypes DEF Grows
<1>. QED BY <1>5 DEF l2

LEMMA CandidateGrows ==
    ASSUME NEW l \in Topics, NEW c \in Candidate
    PROVE  Grows(l, [l EXCEPT !.candidates = Append(@, c)])
<1>. DEFINE l2 == [l EXCEPT !.candidates = Append(@, c)]
<1>1. /\ Append(l.candidates, c) \in Seq(Candidate)
      /\ Len(Append(l.candidates, c)) = Len(l.candidates) + 1
  BY SeqTypes, RangeOfAppend
<1>2. l2 \in Topics
  BY <1>1, SeqTypes DEF Topics
<1>3. l2.candidates = Append(l.candidates, c)
  BY DEF Topics
<1>4. /\ l2.challenges = l.challenges
      /\ l2.handoffs = l.handoffs
      /\ l2.flags = l.flags
      /\ l2.traces = l.traces
      /\ l2.tasks = l.tasks
  BY DEF Topics
<1>. HIDE DEF l2
<1>5. Grows(l, l2)
  BY <1>1, <1>2, <1>3, <1>4, SeqTypes DEF Grows
<1>. QED BY <1>5 DEF l2

LEMMA FlagGrows ==
    ASSUME NEW l \in Topics, NEW c \in Candidate
    PROVE  Grows(l, [l EXCEPT !.flags = Append(@, c)])
<1>. DEFINE l2 == [l EXCEPT !.flags = Append(@, c)]
<1>1. /\ Append(l.flags, c) \in Seq(Candidate)
      /\ Len(Append(l.flags, c)) = Len(l.flags) + 1
  BY SeqTypes, RangeOfAppend
<1>2. l2 \in Topics
  BY <1>1, SeqTypes DEF Topics
<1>3. l2.flags = Append(l.flags, c)
  BY DEF Topics
<1>4. /\ l2.challenges = l.challenges
      /\ l2.handoffs = l.handoffs
      /\ l2.candidates = l.candidates
      /\ l2.traces = l.traces
      /\ l2.tasks = l.tasks
  BY DEF Topics
<1>. HIDE DEF l2
<1>5. Grows(l, l2)
  BY <1>1, <1>2, <1>3, <1>4, SeqTypes DEF Grows
<1>. QED BY <1>5 DEF l2

LEMMA TaskGrows ==
    ASSUME NEW l \in Topics, NEW k \in Categories, NEW t \in Task
    PROVE  Grows(l, [l EXCEPT !.tasks[k] = Append(@, t)])
<1>. DEFINE ts == [l.tasks EXCEPT ![k] = Append(l.tasks[k], t)]
            l2 == [l EXCEPT !.tasks[k] = Append(@, t)]
<1>1. /\ Append(l.tasks[k], t) \in Seq(Task)
      /\ Len(Append(l.tasks[k], t)) = Len(l.tasks[k]) + 1
  BY SeqTypes, RangeOfAppend
<1>2. ts \in [Categories -> Seq(Task)]
  BY <1>1, SeqTypes
<1>3. \A j \in Categories : Len(l.tasks[j]) <= Len(ts[j])
  BY <1>1, SeqTypes
<1>. HIDE DEF ts
<1>4. l2 = [l EXCEPT !.tasks = ts]
  BY DEF ts
<1>5. l2 \in Topics /\ l2.tasks = ts
  BY <1>2, <1>4 DEF Topics
<1>6. /\ l2.challenges = l.challenges
      /\ l2.handoffs = l.handoffs
      /\ l2.candidates = l.candidates
      /\ l2.flags = l.flags
      /\ l2.traces = l.traces
  BY <1>4 DEF Topics
<1>. HIDE DEF l2
<1>7. Grows(l, l2)
  BY <1>3, <1>5, <1>6, SeqTypes DEF Grows
<1>. QED BY <1>7 DEF l2

\* The boards and the variables a handler keeps.
BoardsOK == board \in [Challenges -> Board \cup {NoBoard}]
HandlersOK == hand \in Handlers /\ spec \in [Categories -> Specialist]
OffsetsOK ==
    /\ read \in [Services -> Nat] /\ \A s \in Services : read[s] <= Len(Inbox(s))
    /\ taken \in [Categories -> Nat]
    /\ \A k \in Categories : taken[k] <= Len(log.tasks[k])

\* Topics only grow, so a group that was not ahead of its topic stays so.
LEMMA OffsetsStay ==
    ASSUME Grows(log, log'), log \in Topics,
           OffsetsOK, UNCHANGED <<read, taken>>
    PROVE  OffsetsOK'
<1>1. \A s \in Services : read[s] \in Nat /\ read[s] <= Len(Inbox(s))
  BY DEF OffsetsOK
<1>2. log' \in Topics
  BY DEF Grows
<1>3. \A k \in Categories : /\ taken[k] \in Nat /\ taken[k] <= Len(log.tasks[k])
                            /\ Len(log.tasks[k]) \in Nat /\ Len(log'.tasks[k]) \in Nat
  BY <1>2 DEF OffsetsOK, Topics
<1>4. ASSUME NEW s \in Services PROVE read[s] <= Len(Inbox(s)')
  <2>1. Len(Inbox(s)) \in Nat /\ Len(Inbox(s)') \in Nat
    BY <1>2, SeqTypes DEF Inbox, Services
  <2>2. Len(Inbox(s)) <= Len(Inbox(s)')
    BY DEF Inbox, Services, Grows
  <2>. QED BY <1>1, <2>1, <2>2
<1>5. \A k \in Categories : taken[k] <= Len(log'.tasks[k])
  BY <1>3 DEF Grows
<1>6. \A s \in Services : read'[s] <= Len(Inbox(s)')
  BY <1>4
<1>. QED BY <1>5, <1>6 DEF OffsetsOK

LEMMA TypeParts ==
    TypeOK <=> /\ world \in [Challenges -> Worlds] /\ log \in Topics
               /\ OffsetsOK /\ HandlersOK /\ BoardsOK
               /\ resumed \in [read : [Services -> Nat], taken : [Categories -> Nat]]
               /\ crashes \in 0..MaxCrashes
BY DEF TypeOK, OffsetsOK, HandlersOK, BoardsOK

\* What a handler holds: the message it was handed, once it is under way.
LEMMA HandlerTypes ==
    ASSUME hand \in Handlers
    PROVE  /\ hand.challenge.stage # "idle" => hand.challenge.msg \in Challenges
           /\ hand.handoff.stage # "idle" => hand.handoff.msg \in Handoff
           /\ hand.flag.stage # "idle" =>
                hand.flag.msg \in Candidate /\ hand.flag.board \in Board \cup {NoBoard}
           /\ hand.trace.stage # "idle" =>
                /\ hand.trace.msg \in TraceEvent /\ hand.trace.board \in Board
                /\ Outcome(hand.trace.msg.kind) # "none"
           /\ hand.gate.stage # "idle" => hand.gate.msg \in Candidate
BY DEF Handlers, Idle

LEMMA IdleHandler ==
    ASSUME NEW h \in Handlers
    PROVE  /\ [h EXCEPT !.challenge = Idle] \in Handlers
           /\ [h EXCEPT !.handoff = Idle] \in Handlers
           /\ [h EXCEPT !.flag = Idle] \in Handlers
           /\ [h EXCEPT !.trace = Idle] \in Handlers
           /\ [h EXCEPT !.gate = Idle] \in Handlers
BY DEF Handlers, Idle

LEMMA BusyHandler ==
    ASSUME NEW h \in Handlers
    PROVE  /\ \A c \in Challenges :
                [h EXCEPT !.challenge = [stage |-> "store", msg |-> c]] \in Handlers
           /\ \A m \in Handoff :
                [h EXCEPT !.handoff = [stage |-> "route", msg |-> m]] \in Handlers
           /\ \A m \in Candidate : \A b \in Board \cup {NoBoard} :
                [h EXCEPT !.flag = [stage |-> "write", msg |-> m, board |-> b]]
                    \in Handlers
           /\ \A m \in TraceEvent : \A b \in Board : Outcome(m.kind) # "none" =>
                [h EXCEPT !.trace = [stage |-> "write", msg |-> m, board |-> b]]
                    \in Handlers
           /\ \A m \in Candidate :
                [h EXCEPT !.gate = [stage |-> "trace", msg |-> m]] \in Handlers
BY DEF Handlers

LEMMA NextStage ==
    ASSUME NEW h \in Handlers
    PROVE  /\ h.challenge.stage = "store" =>
                [h EXCEPT !.challenge.stage = "dispatch"] \in Handlers
           /\ h.flag.stage = "write" =>
                [h EXCEPT !.flag.stage = "announce"] \in Handlers
           /\ h.gate.stage = "trace" =>
                [h EXCEPT !.gate.stage = "publish"] \in Handlers
BY DEF Handlers, Idle

\* Taking a message keeps every group's offset within its topic.
LEMMA ReceiveType ==
    ASSUME log \in Topics, OffsetsOK, NEW s \in Services, NEW m, Receives(s, m),
           Grows(log, log'), UNCHANGED taken
    PROVE  OffsetsOK'
<1>1. log' \in Topics
  BY DEF Grows
<1>2. /\ read' \in [Services -> Nat]
      /\ \A t \in Services : read'[t] <= Len(Inbox(t))
  <2>1. Len(Inbox(s)) \in Nat
    BY SeqTypes DEF Inbox, Services
  <2>. QED BY <2>1 DEF Receives, OffsetsOK
<1>3. ASSUME NEW t \in Services PROVE read'[t] <= Len(Inbox(t)')
  <2>1. Len(Inbox(t)) \in Nat /\ Len(Inbox(t)') \in Nat
    BY <1>1, SeqTypes DEF Inbox, Services
  <2>2. Len(Inbox(t)) <= Len(Inbox(t)')
    BY DEF Inbox, Services, Grows
  <2>. QED BY <1>2, <2>1, <2>2
<1>4. ASSUME NEW k \in Categories PROVE taken'[k] <= Len(log'.tasks[k])
  <2>1. Len(log.tasks[k]) \in Nat /\ Len(log'.tasks[k]) \in Nat
    BY <1>1, SeqTypes
  <2>. QED BY <2>1 DEF OffsetsOK, Grows
<1>. QED BY <1>2, <1>3, <1>4 DEF OffsetsOK

\* A publication on some topic, and nothing else.
LEMMA PublishType ==
    ASSUME TypeOK, Grows(log, log'), UNCHANGED <<world, read, taken, resumed, crashes>>,
           HandlersOK', BoardsOK'
    PROVE  TypeOK'
BY TypeParts, OffsetsStay DEF TypeOK, OffsetsOK, HandlersOK, BoardsOK, Grows

\* A message taken, and perhaps a trace published, by service s.
LEMMA ConsumeType ==
    ASSUME TypeOK, NEW s \in Services, NEW m, Receives(s, m), Grows(log, log'),
           UNCHANGED <<world, taken, resumed, crashes>>, HandlersOK', BoardsOK'
    PROVE  TypeOK'
<1>1. OffsetsOK'
  BY TypeParts, ReceiveType
<1>. QED BY <1>1, TypeParts DEF TypeOK, OffsetsOK, HandlersOK, BoardsOK, Grows

LEMMA InitTypeOK == Init => TypeOK
BY RuntimeAssumption
   DEF Init, TypeOK, Topics, Handlers, Specialist, Services, Idle, Inbox

LEMMA SubmitType ==
    ASSUME TypeOK, NEW c \in Challenges, Submit(c)
    PROVE  TypeOK'
<1>1. Grows(log, log')
  BY ChallengeGrows DEF Submit, TypeOK
<1>2. HandlersOK' /\ BoardsOK'
  BY TypeParts DEF Submit, HandlersOK, BoardsOK
<1>. QED BY <1>1, <1>2, PublishType DEF Submit

LEMMA RouteType == ASSUME NEW c \in Challenges, TypeOK
                   PROVE  /\ Route(world[c]) \in Categories
                          /\ world[c].flag_format \in {"none", "declared"}
                          /\ world[c].static \in Flags \cup {NoFlag}
BY RuntimeAssumption DEF TypeOK

LEMMA OrchestratorType ==
    ASSUME TypeOK, OrchestratorStep
    PROVE  TypeOK'
<1>. USE TypeParts DEF HandlersOK, BoardsOK
<1>1. CASE OnChallenge
  <2>1. PICK c \in Challenges :
          /\ Receives("challenge", c)
          /\ IF world[c].valid
             THEN /\ hand' = [hand EXCEPT !.challenge = [stage |-> "store", msg |-> c]]
                  /\ UNCHANGED log
             ELSE /\ log' = WithTrace(log, c, "challenge_rejected")
                  /\ UNCHANGED hand
          /\ UNCHANGED <<world, taken, resumed, spec, board, crashes>>
    BY <1>1 DEF OnChallenge
  <2>2. Grows(log, log')
    BY <2>1, NothingGrows, TraceGrows, TraceKinds
  <2>3. hand' \in Handlers
    BY <2>1, BusyHandler
  <2>. QED BY <2>1, <2>2, <2>3, ConsumeType DEF Services
<1>2. CASE StoreBoard
  <2>1. hand.challenge.msg \in Challenges
    BY <1>2, HandlerTypes DEF StoreBoard
  <2>2. [board_status |-> "running", status |-> "in_progress", flags |-> <<>>] \in Board
    BY DEF Board, BoardStatus
  <2>3. BoardsOK'
    BY <1>2, <2>1, <2>2 DEF StoreBoard
  <2>4. HandlersOK'
    BY <1>2, NextStage DEF StoreBoard
  <2>. QED BY <1>2, <2>3, <2>4, NothingGrows, PublishType DEF StoreBoard
<1>3. CASE DispatchTask
  <2>1. hand.challenge.msg \in Challenges
    BY <1>3, HandlerTypes DEF DispatchTask
  <2>2. [ challenge_id |-> hand.challenge.msg,
          flag_format |-> world[hand.challenge.msg].flag_format,
          handoff_depth |-> 0 ] \in Task
    BY <2>1, RouteType DEF Task
  <2>3. Grows(log, log')
    <3>1. Grows(log, [log EXCEPT !.tasks[Route(world[hand.challenge.msg])] = Append(@,
                  [ challenge_id |-> hand.challenge.msg,
                    flag_format |-> world[hand.challenge.msg].flag_format,
                    handoff_depth |-> 0 ])])
      BY <2>1, <2>2, RouteType, TaskGrows
    <3>. QED BY <1>3, <2>1, <3>1, TraceGrowsOn, TraceKinds DEF DispatchTask
  <2>4. HandlersOK' /\ BoardsOK'
    BY <1>3, IdleHandler DEF DispatchTask
  <2>. QED BY <1>3, <2>3, <2>4, PublishType DEF DispatchTask
<1>4. CASE OnHandoff
  <2>1. PICK h \in Range(log.handoffs) :
          /\ Receives("handoff", h)
          /\ hand' = [hand EXCEPT !.handoff = [stage |-> "route", msg |-> h]]
          /\ UNCHANGED <<world, log, taken, resumed, spec, board, crashes>>
    BY <1>4 DEF OnHandoff
  <2>2. h \in Handoff
    BY <2>1, SeqTypes DEF Range
  <2>3. hand' \in Handlers
    BY <2>1, <2>2, BusyHandler
  <2>. QED BY <2>1, <2>3, NothingGrows, ConsumeType DEF Services
<1>5. CASE RouteHandoff
  <2>1. hand.handoff.msg \in Handoff
    BY <1>5, HandlerTypes DEF RouteHandoff
  <2>2. [ challenge_id |-> hand.handoff.msg.challenge_id, flag_format |-> "none",
          handoff_depth |-> hand.handoff.msg.handoff_depth + 1 ] \in Task
    BY <2>1 DEF Task, Handoff
  <2>3. hand.handoff.msg.target \in Categories /\ hand.handoff.msg.challenge_id \in Challenges
    BY <2>1 DEF Handoff
  <2>4. Grows(log, log')
    BY <1>5, <2>2, <2>3, TaskGrows, TraceGrows, TraceKinds DEF RouteHandoff
  <2>5. HandlersOK' /\ BoardsOK'
    BY <1>5, IdleHandler DEF RouteHandoff
  <2>. QED BY <1>5, <2>4, <2>5, PublishType DEF RouteHandoff
<1>6. CASE OnFlag
  <2>1. PICK f \in Range(log.flags) :
          /\ Receives("flag", f)
          /\ hand' = IF f.status = "solved"
                     THEN [hand EXCEPT !.flag = [ stage |-> "write", msg |-> f,
                                                 board |-> board[f.challenge_id] ]]
                     ELSE hand
          /\ UNCHANGED <<world, log, taken, resumed, spec, board, crashes>>
    BY <1>6 DEF OnFlag
  <2>2. f \in Candidate
    BY <2>1, SeqTypes DEF Range
  <2>3. board[f.challenge_id] \in Board \cup {NoBoard}
    BY <2>2 DEF Candidate
  <2>4. hand' \in Handlers
    BY <2>1, <2>2, <2>3, BusyHandler
  <2>. QED BY <2>1, <2>4, NothingGrows, ConsumeType DEF Services
<1>7. CASE WriteSolved
  <2>1. hand.flag.msg \in Candidate /\ hand.flag.board \in Board \cup {NoBoard}
    BY <1>7, HandlerTypes DEF WriteSolved
  <2>2. hand.flag.board.flags \in Seq(Flags)
    <3>1. CASE hand.flag.board = NoBoard
      BY <3>1, EmptySeq DEF NoBoard
    <3>2. CASE hand.flag.board \in Board
      BY <3>2 DEF Board
    <3>. QED BY <2>1, <3>1, <3>2
  <2>3. Append(hand.flag.board.flags, hand.flag.msg.candidate) \in Seq(Flags)
    BY <2>1, <2>2 DEF Candidate
  <2>4. [ board_status |-> "solved", status |-> "solved",
          flags |-> Append(hand.flag.board.flags, hand.flag.msg.candidate) ] \in Board
    BY <2>3 DEF Board, BoardStatus
  <2>5. BoardsOK'
    BY <1>7, <2>4 DEF WriteSolved
  <2>6. HandlersOK'
    BY <1>7, NextStage DEF WriteSolved
  <2>. QED BY <1>7, <2>5, <2>6, NothingGrows, PublishType DEF WriteSolved
<1>8. CASE AnnounceSolved
  <2>1. hand.flag.msg.challenge_id \in Challenges
    BY <1>8, HandlerTypes DEF AnnounceSolved, Candidate
  <2>2. Grows(log, log')
    BY <1>8, <2>1, TraceGrows, TraceKinds DEF AnnounceSolved
  <2>3. HandlersOK' /\ BoardsOK'
    BY <1>8, IdleHandler DEF AnnounceSolved
  <2>. QED BY <1>8, <2>2, <2>3, PublishType DEF AnnounceSolved
<1>9. CASE OnTrace
  <2>1. PICK t \in Range(log.traces) :
          /\ Receives("trace", t)
          /\ hand' = IF /\ Outcome(t.kind) # "none"
                        /\ board[t.challenge_id].board_status = "running"
                     THEN [hand EXCEPT !.trace = [ stage |-> "write", msg |-> t,
                                                  board |-> board[t.challenge_id] ]]
                     ELSE hand
          /\ UNCHANGED <<world, log, taken, resumed, spec, board, crashes>>
    BY <1>9 DEF OnTrace
  <2>2. t \in TraceEvent
    BY <2>1, SeqTypes DEF Range
  <2>3. board[t.challenge_id].board_status = "running" => board[t.challenge_id] \in Board
    BY <2>2 DEF TraceEvent, NoBoard
  <2>4. hand' \in Handlers
    BY <2>1, <2>2, <2>3, BusyHandler
  <2>. QED BY <2>1, <2>4, NothingGrows, ConsumeType DEF Services
<1>10. CASE WriteOutcome
  <2>1. /\ hand.trace.msg \in TraceEvent /\ hand.trace.board \in Board
        /\ Outcome(hand.trace.msg.kind) # "none"
    BY <1>10, HandlerTypes DEF WriteOutcome
  <2>2. [hand.trace.board EXCEPT !.board_status = Outcome(hand.trace.msg.kind)] \in Board
    BY <2>1 DEF Board, BoardStatus, Outcome
  <2>3. BoardsOK'
    BY <1>10, <2>2 DEF WriteOutcome
  <2>4. HandlersOK'
    BY <1>10, IdleHandler DEF WriteOutcome
  <2>. QED BY <1>10, <2>3, <2>4, NothingGrows, PublishType DEF WriteOutcome
<1>. QED BY <1>1, <1>2, <1>3, <1>4, <1>5, <1>6, <1>7, <1>8, <1>9, <1>10
         DEF OrchestratorStep

LEMMA GateType ==
    ASSUME TypeOK, GateStep
    PROVE  TypeOK'
<1>. USE TypeParts DEF HandlersOK, BoardsOK
<1>1. CASE OnCandidate
  <2>1. PICK c \in Range(log.candidates) :
          /\ Receives("gate", c)
          /\ hand' = [hand EXCEPT !.gate = [stage |-> "trace", msg |-> Judge(c)]]
          /\ UNCHANGED <<world, log, taken, resumed, spec, board, crashes>>
    BY <1>1 DEF OnCandidate
  <2>2. c \in Candidate
    BY <2>1, SeqTypes DEF Range
  <2>3. hand' \in Handlers
    BY <2>1, <2>2, JudgeType, BusyHandler
  <2>. QED BY <2>1, <2>3, NothingGrows, ConsumeType DEF Services
<1>2. CASE AnnounceVerdict
  <2>1. hand.gate.msg.challenge_id \in Challenges
    BY <1>2, HandlerTypes DEF AnnounceVerdict, Candidate
  <2>2. Grows(log, log')
    <3>1. Grows(log, WithTrace(log, hand.gate.msg.challenge_id, "candidate_rejected"))
      BY <2>1, TraceGrows, TraceKinds
    <3>2. CASE hand.gate.msg.status = "solved"
      BY <1>2, <2>1, <3>2, TraceGrows, TraceKinds DEF AnnounceVerdict
    <3>3. CASE hand.gate.msg.status # "solved"
      BY <1>2, <2>1, <3>1, <3>3, TraceGrowsOn, TraceKinds DEF AnnounceVerdict
    <3>. QED BY <3>2, <3>3
  <2>3. HandlersOK' /\ BoardsOK'
    BY <1>2, NextStage DEF AnnounceVerdict
  <2>. QED BY <1>2, <2>2, <2>3, PublishType DEF AnnounceVerdict
<1>3. CASE PublishFlag
  <2>1. hand.gate.msg \in Candidate
    BY <1>3, HandlerTypes DEF PublishFlag
  <2>2. Grows(log, log')
    BY <1>3, <2>1, FlagGrows DEF PublishFlag
  <2>3. HandlersOK' /\ BoardsOK'
    BY <1>3, IdleHandler DEF PublishFlag
  <2>. QED BY <1>3, <2>2, <2>3, PublishType DEF PublishFlag
<1>. QED BY <1>1, <1>2, <1>3 DEF GateStep

\* What a specialist publishes is a candidate, whatever its engine answered.
LEMMA SpecialistTypes ==
    ASSUME TypeOK, NEW k \in Categories, spec[k].stage # "idle"
    PROVE  /\ spec[k].task \in Task
           /\ spec[k].task.challenge_id \in Challenges
           /\ spec[k].barren \in Nat
           /\ spec[k].stage \in {"scan", "engine"}
           /\ spec[k] = [ stage |-> spec[k].stage, task |-> spec[k].task,
                          barren |-> spec[k].barren ]
<1>1. spec[k] \in [stage : {"scan", "engine"}, task : Task, barren : Nat]
  BY DEF TypeOK, Specialist, Idle
<1>. QED BY <1>1 DEF Task

LEMMA StaticCandidateType ==
    ASSUME TypeOK, NEW t \in Task, world[t.challenge_id].static # NoFlag
    PROVE  StaticCandidate(t) \in Candidate
<1>1. t.challenge_id \in Challenges /\ t.flag_format \in {"none", "declared"}
  BY DEF Task
<1>2. world[t.challenge_id].static \in Flags
  BY <1>1, RouteType
<1>. QED BY <1>1, <1>2 DEF StaticCandidate, Candidate, ValidationLevel, LocalValidation,
                           OracleValidation, CandidateStatus

LEMMA EngineCandidateType ==
    ASSUME NEW t \in Task, NEW r \in Results
    PROVE  EngineCandidate(t, r) \in Candidate
<1>1. r \in Claim
  BY RuntimeAssumption
<1>. QED BY <1>1 DEF Claim, Task, EngineCandidate, Candidate, ValidationLevel,
                     LocalValidation, OracleValidation, CandidateStatus

LEMMA SpecialistType ==
    ASSUME TypeOK, NEW k \in Categories, SpecialistStep(k)
    PROVE  TypeOK'
<1>. USE TypeParts DEF HandlersOK, BoardsOK
<1>0. /\ log \in Topics
      /\ Idle \in Specialist
      /\ \A x \in Specialist : [spec EXCEPT ![k] = x] \in [Categories -> Specialist]
  BY DEF Specialist
<1>1. CASE TakeTask(k)
  <2>1. /\ log.tasks[k] \in Seq(Task) /\ taken[k] \in Nat /\ taken[k] < Len(log.tasks[k])
    BY <1>1, SeqTypes DEF TakeTask, OffsetsOK
  <2>2. log.tasks[k][taken[k] + 1] \in Task
    BY <2>1
  <2>3. spec' \in [Categories -> Specialist]
    BY <1>0, <1>1, <2>2 DEF TakeTask, Specialist
  <2>4. Grows(log, log')
    <3>1. log.tasks[k][taken[k] + 1].challenge_id \in Challenges
      BY <2>2 DEF Task
    <3>. QED BY <1>1, <3>1, TraceGrows, TraceKinds DEF TakeTask
  <2>5. OffsetsOK'
    <3>1. log' \in Topics
      BY <2>4 DEF Grows
    <3>2. \A j \in Categories : /\ Len(log.tasks[j]) \in Nat /\ Len(log'.tasks[j]) \in Nat
                                /\ Len(log.tasks[j]) <= Len(log'.tasks[j])
      BY <2>4, <3>1, SeqTypes DEF Grows
    <3>3. /\ taken' \in [Categories -> Nat]
          /\ \A j \in Categories : taken'[j] <= Len(log'.tasks[j])
      <4>1. taken' = [taken EXCEPT ![k] = taken[k] + 1]
        BY <1>1 DEF TakeTask
      <4>2. taken \in [Categories -> Nat] /\ \A j \in Categories : taken[j] <= Len(log.tasks[j])
        BY DEF OffsetsOK
      <4>3. ASSUME NEW j \in Categories PROVE taken'[j] <= Len(log.tasks[j])
        BY <2>1, <3>2, <4>1, <4>2
      <4>4. taken' \in [Categories -> Nat]
        BY <4>1, <4>2
      <4>. QED BY <3>2, <4>3, <4>4
    <3>4. ASSUME NEW s \in Services PROVE read'[s] <= Len(Inbox(s)')
      <4>1. Len(Inbox(s)) \in Nat /\ Len(Inbox(s)') \in Nat
        BY <3>1, SeqTypes DEF Inbox, Services
      <4>2. Len(Inbox(s)) <= Len(Inbox(s)')
        BY <2>4 DEF Inbox, Services, Grows
      <4>3. read'[s] = read[s] /\ read[s] \in Nat /\ read[s] <= Len(Inbox(s))
        BY <1>1 DEF TakeTask, OffsetsOK
      <4>. QED BY <4>1, <4>2, <4>3
    <3>. QED BY <1>1, <3>3, <3>4 DEF TakeTask, OffsetsOK
  <2>. QED BY <1>1, <2>3, <2>4, <2>5 DEF TakeTask, TypeOK, OffsetsOK, Grows
<1>2. CASE StaticHit(k)
  <2>1. spec[k].task \in Task
    BY <1>2, SpecialistTypes DEF StaticHit, Scanning
  <2>2. Grows(log, log')
    <3>1. Grows(log, [log EXCEPT !.candidates = Append(@, StaticCandidate(spec[k].task))])
      BY <1>2, <2>1, StaticCandidateType, CandidateGrows DEF StaticHit
    <3>. QED BY <1>2, <2>1, <3>1, TraceGrowsOn, TraceKinds DEF StaticHit, Task
  <2>. QED BY <1>0, <1>2, <2>2, PublishType DEF StaticHit, Scanning
<1>3. CASE NeedsEngine(k)
  <2>1. spec[k].task.challenge_id \in Challenges
    BY <1>3, SpecialistTypes DEF NeedsEngine, Scanning
  <2>2. Grows(log, log')
    BY <1>3, <2>1, TraceGrows, TraceKinds DEF NeedsEngine
  <2>. QED BY <1>0, <1>3, <2>2, PublishType DEF NeedsEngine, Scanning
<1>4. CASE DispatchEngine(k)
  <2>1. [spec[k] EXCEPT !.stage = "engine"] \in Specialist
    BY <1>4, SpecialistTypes DEF DispatchEngine, Scanning, Specialist
  <2>2. spec' \in [Categories -> Specialist]
    BY <1>0, <1>4, <2>1 DEF DispatchEngine
  <2>. QED BY <1>4, <2>2, NothingGrows, PublishType DEF DispatchEngine, Scanning
<1>5. CASE EngineRaises(k) \/ HandleRaises(k)
  <2>1. spec[k].task.challenge_id \in Challenges
    BY <1>5, SpecialistTypes DEF EngineRaises, HandleRaises, EngineAnswers
  <2>2. Grows(log, log')
    BY <1>5, <2>1, TraceGrows, TraceKinds DEF EngineRaises, HandleRaises
  <2>. QED BY <1>0, <1>5, <2>2, PublishType DEF EngineRaises, HandleRaises, EngineAnswers
<1>6. CASE EngineBarren(k)
  <2>1. spec[k].task.challenge_id \in Challenges /\ spec[k].barren \in Nat
    BY <1>6, SpecialistTypes DEF EngineBarren, EngineAnswers
  <2>2. Grows(log, log')
    BY <1>6, <2>1, TraceGrows, NothingGrows, TraceKinds DEF EngineBarren
  <2>3. [spec[k] EXCEPT !.barren = spec[k].barren + 1] \in Specialist
    BY <1>6, <2>1, SpecialistTypes DEF EngineBarren, EngineAnswers, Specialist
  <2>4. spec' \in [Categories -> Specialist]
    BY <1>0, <1>6, <2>3 DEF EngineBarren
  <2>. QED BY <1>6, <2>2, <2>4, PublishType DEF EngineBarren, EngineAnswers
<1>7. ASSUME NEW target \in Categories, EngineHandsOff(k, target)
      PROVE  TypeOK'
  <2>1. spec[k].task \in Task
    BY <1>7, SpecialistTypes DEF EngineHandsOff, EngineAnswers
  <2>2. [ challenge_id |-> spec[k].task.challenge_id, target |-> target,
          handoff_depth |-> spec[k].task.handoff_depth ] \in Handoff
    BY <2>1 DEF Task, Handoff
  <2>3. Grows(log, log')
    <3>1. Grows(log, [log EXCEPT !.handoffs = Append(@,
                  [ challenge_id |-> spec[k].task.challenge_id, target |-> target,
                    handoff_depth |-> spec[k].task.handoff_depth ])])
      BY <2>2, HandoffGrows
    <3>2. spec[k].task.challenge_id \in Challenges
      BY <2>1 DEF Task
    <3>. QED BY <1>7, <3>1, <3>2, TraceGrowsOn, TraceKinds DEF EngineHandsOff
  <2>. QED BY <1>0, <1>7, <2>3, PublishType DEF EngineHandsOff, EngineAnswers
<1>8. ASSUME NEW r \in Results, EngineClaims(k, r)
      PROVE  TypeOK'
  <2>1. spec[k].task \in Task
    BY <1>8, SpecialistTypes DEF EngineClaims, EngineAnswers
  <2>2. Grows(log, log')
    <3>1. Grows(log, [log EXCEPT !.candidates = Append(@, EngineCandidate(spec[k].task, r))])
      BY <2>1, EngineCandidateType, CandidateGrows
    <3>. QED BY <1>8, <2>1, <3>1, TraceGrowsOn, TraceKinds DEF EngineClaims, Task
  <2>. QED BY <1>0, <1>8, <2>2, PublishType DEF EngineClaims, EngineAnswers
<1>. QED BY <1>1, <1>2, <1>3, <1>4, <1>5, <1>6, <1>7, <1>8 DEF SpecialistStep

LEMMA CrashType ==
    ASSUME TypeOK, NEW p \in Deployed, Crash(p)
    PROVE  TypeOK'
<1>1. PICK back \in [ServicesOf(p) -> 0..MaxRewind],
           sback \in [SpecialistsOf(p) -> 0..MaxRewind] :
         /\ \A s \in ServicesOf(p) : back[s] <= read[s] - resumed.read[s]
         /\ \A k \in SpecialistsOf(p) : sback[k] <= taken[k] - resumed.taken[k]
         /\ read' = [s \in Services |->
                       IF s \in ServicesOf(p) THEN read[s] - back[s] ELSE read[s]]
         /\ taken' = [k \in Categories |->
                       IF k \in SpecialistsOf(p) THEN taken[k] - sback[k] ELSE taken[k]]
  BY DEF Crash
<1>2. /\ read \in [Services -> Nat] /\ taken \in [Categories -> Nat]
      /\ \A s \in Services : resumed.read[s] \in Nat
      /\ \A k \in Categories : resumed.taken[k] \in Nat
  BY DEF TypeOK
<1>3. ASSUME NEW s \in Services PROVE read'[s] \in Nat /\ read'[s] <= read[s]
  BY <1>1, <1>2, RuntimeAssumption
<1>4. ASSUME NEW k \in Categories PROVE taken'[k] \in Nat /\ taken'[k] <= taken[k]
  BY <1>1, <1>2, RuntimeAssumption
<1>5. read' \in [Services -> Nat] /\ taken' \in [Categories -> Nat]
  BY <1>1, <1>3, <1>4
<1>6. resumed' \in [read : [Services -> Nat], taken : [Categories -> Nat]]
  BY <1>2, <1>5 DEF Crash
<1>7. log' = log /\ board' = board /\ world' = world /\ \A s \in Services : Inbox(s)' = Inbox(s)
  BY DEF Crash, Inbox
<1>8. OffsetsOK'
  <2>1. /\ \A s \in Services : Len(Inbox(s)) \in Nat
        /\ \A k \in Categories : Len(log.tasks[k]) \in Nat
    BY SeqTypes DEF TypeOK, Inbox, Services
  <2>2. \A s \in Services : read'[s] <= Len(Inbox(s)')
    BY <1>2, <1>3, <1>7, <2>1 DEF TypeOK
  <2>3. \A k \in Categories : taken'[k] <= Len(log'.tasks[k])
    BY <1>2, <1>4, <1>7, <2>1 DEF TypeOK
  <2>. QED BY <1>5, <2>2, <2>3 DEF OffsetsOK
<1>9. hand' \in Handlers
  BY DEF Crash, TypeOK, Handlers, Services
<1>10. spec' \in [Categories -> Specialist]
  BY DEF Crash, TypeOK, Specialist
<1>11. crashes' \in 0..MaxCrashes
  BY RuntimeAssumption DEF Crash, TypeOK
<1>. QED BY <1>5, <1>6, <1>7, <1>8, <1>9, <1>10, <1>11 DEF TypeOK, OffsetsOK

\* Every state of the runtime is well typed: in particular no consumer group
\* is ahead of its topic, and a handler holds what its await left it, after any
\* number of crashes.
THEOREM TypeCorrect == Spec => []TypeOK
<1>1. TypeOK /\ [Next]_vars => TypeOK'
  <2>. SUFFICES ASSUME TypeOK, [Next]_vars PROVE TypeOK'
    OBVIOUS
  <2>1. CASE UNCHANGED vars
    BY <2>1 DEF vars, TypeOK, Inbox
  <2>2. CASE Next
    BY <2>2, SubmitType, OrchestratorType, GateType, SpecialistType, CrashType DEF Next
  <2>. QED BY <2>1, <2>2
<1>. QED BY InitTypeOK, <1>1, PTL DEF Spec

-----------------------------------------------------------------------------
(* The safety invariants that hold in every deployment and across crashes,  *)
(* from the type invariant.  Each section gives the strengthening that is   *)
(* inductive and shows that the steps keep it.                              *)

-----------------------------------------------------------------------------
(* What the parts of the runtime leave alone                               *)

LEMMA SubmitFrame ==
    ASSUME TypeOK, NEW c \in Challenges, Submit(c)
    PROVE  /\ UNCHANGED <<hand, spec, board>>
           /\ log'.tasks = log.tasks /\ log'.handoffs = log.handoffs
           /\ log'.flags = log.flags
BY DEF Submit, TypeOK, Topics

LEMMA GateFrame ==
    ASSUME TypeOK, GateStep
    PROVE  /\ UNCHANGED <<spec, board>>
           /\ hand'.challenge = hand.challenge /\ hand'.handoff = hand.handoff
           /\ hand'.flag = hand.flag /\ hand'.trace = hand.trace
           /\ log'.tasks = log.tasks /\ log'.handoffs = log.handoffs
<1>. USE DEF TypeOK, Handlers, Topics
<1>1. CASE OnCandidate BY <1>1 DEF OnCandidate
<1>2. CASE AnnounceVerdict BY <1>2 DEF AnnounceVerdict, WithTrace
<1>3. CASE PublishFlag BY <1>3 DEF PublishFlag
<1>. QED BY <1>1, <1>2, <1>3 DEF GateStep

LEMMA SpecialistFrame ==
    ASSUME TypeOK, NEW k \in Categories, SpecialistStep(k)
    PROVE  /\ UNCHANGED <<hand, board>>
           /\ log'.tasks = log.tasks /\ log'.flags = log.flags
<1>. USE DEF TypeOK, Topics, WithTrace, Scanning, EngineAnswers
<1>1. CASE TakeTask(k) BY <1>1 DEF TakeTask
<1>2. CASE StaticHit(k) BY <1>2 DEF StaticHit
<1>3. CASE NeedsEngine(k) BY <1>3 DEF NeedsEngine
<1>4. CASE DispatchEngine(k) BY <1>4 DEF DispatchEngine
<1>5. CASE EngineRaises(k) BY <1>5 DEF EngineRaises
<1>6. CASE HandleRaises(k) BY <1>6 DEF HandleRaises
<1>7. CASE EngineBarren(k) BY <1>7 DEF EngineBarren
<1>8. CASE \E target \in Categories : EngineHandsOff(k, target)
  BY <1>8 DEF EngineHandsOff
<1>9. CASE \E r \in Results : EngineClaims(k, r)
  BY <1>9 DEF EngineClaims
<1>. QED BY <1>1, <1>2, <1>3, <1>4, <1>5, <1>6, <1>7, <1>8, <1>9 DEF SpecialistStep

\* A crash empties handlers, and touches neither topics nor boards.
LEMMA CrashFrame ==
    ASSUME TypeOK, NEW p \in Deployed, Crash(p)
    PROVE  /\ UNCHANGED <<log, board>>
           /\ \A s \in Services : hand'[s] \in {hand[s], Idle}
           /\ \A k \in Categories : spec'[k] \in {spec[k], Idle}
BY DEF Crash, TypeOK

LEMMA OrchestratorLog ==
    ASSUME TypeOK, OrchestratorStep
    PROVE  /\ UNCHANGED spec
           /\ log'.flags = log.flags /\ log'.handoffs = log.handoffs
           /\ hand'.gate = hand.gate
<1>. USE DEF TypeOK, Topics, Handlers, WithTrace
<1>1. CASE OnChallenge BY <1>1 DEF OnChallenge
<1>2. CASE StoreBoard BY <1>2 DEF StoreBoard
<1>3. CASE DispatchTask BY <1>3 DEF DispatchTask
<1>4. CASE OnHandoff BY <1>4 DEF OnHandoff
<1>5. CASE RouteHandoff BY <1>5 DEF RouteHandoff
<1>6. CASE OnFlag BY <1>6 DEF OnFlag
<1>7. CASE WriteSolved BY <1>7 DEF WriteSolved
<1>8. CASE AnnounceSolved BY <1>8 DEF AnnounceSolved
<1>9. CASE OnTrace BY <1>9 DEF OnTrace
<1>10. CASE WriteOutcome BY <1>10 DEF WriteOutcome
<1>. QED BY <1>1, <1>2, <1>3, <1>4, <1>5, <1>6, <1>7, <1>8, <1>9, <1>10
         DEF OrchestratorStep

-----------------------------------------------------------------------------
(* The depth of handoffs                                                   *)

\* Only DispatchTask and RouteHandoff publish tasks, and the second one looks
\* at the depth first: the invariant is inductive as it stands.
THEOREM DepthStaysBounded == Spec => []HandoffDepthBounded
<1>1. Init => HandoffDepthBounded
  BY DEF Init, HandoffDepthBounded, Range
<1>2. TypeOK /\ HandoffDepthBounded /\ [Next]_vars => HandoffDepthBounded'
  <2>. SUFFICES ASSUME TypeOK, HandoffDepthBounded, [Next]_vars
                PROVE  HandoffDepthBounded'
    OBVIOUS
  <2>0. ASSUME log'.tasks = log.tasks PROVE HandoffDepthBounded'
    BY <2>0 DEF HandoffDepthBounded
  \* Publishing one task that is not too deep keeps the invariant.
  <2>1. ASSUME NEW k \in Categories, NEW t \in Task, t.handoff_depth <= MaxHandoffDepth,
               log'.tasks = [log.tasks EXCEPT ![k] = Append(log.tasks[k], t)]
        PROVE  HandoffDepthBounded'
    <3>2. log.tasks \in [Categories -> Seq(Task)]
      BY SeqTypes DEF TypeOK
    <3>3. Range(Append(log.tasks[k], t)) = Range(log.tasks[k]) \cup {t}
      BY <2>1, <3>2, RangeOfAppend
    <3>. QED BY <2>1, <3>2, <3>3 DEF HandoffDepthBounded
  <2>2. CASE OrchestratorStep
    <3>0. log \in Topics /\ hand \in Handlers
      BY DEF TypeOK
    <3>. USE DEF WithTrace
    <3>1. CASE OnChallenge BY <2>0, <3>0, <3>1 DEF OnChallenge, Topics
    <3>2. CASE StoreBoard BY <2>0, <3>2 DEF StoreBoard
    <3>3. CASE DispatchTask
      <4>1. hand.challenge.msg \in Challenges
        BY <3>0, <3>3, HandlerTypes DEF DispatchTask
      <4>. DEFINE t == [ challenge_id |-> hand.challenge.msg,
                         flag_format |-> world[hand.challenge.msg].flag_format,
                         handoff_depth |-> 0 ]
                  k == Route(world[hand.challenge.msg])
      <4>2. t \in Task
        BY <4>1, RouteType DEF Task
      <4>3. t.handoff_depth <= MaxHandoffDepth
        BY RuntimeAssumption
      <4>4. log'.tasks = [log.tasks EXCEPT ![k] = Append(log.tasks[k], t)]
        BY <3>0, <3>3 DEF DispatchTask, Topics
      <4>5. k \in Categories
        BY <4>1, RouteType
      <4>. HIDE DEF t, k
      <4>. QED BY <2>1, <4>2, <4>3, <4>4, <4>5
    <3>4. CASE OnHandoff BY <2>0, <3>4 DEF OnHandoff
    <3>5. CASE RouteHandoff
      <4>1. hand.handoff.msg \in Handoff
        BY <3>0, <3>5, HandlerTypes DEF RouteHandoff
      <4>2. CASE hand.handoff.msg.handoff_depth >= MaxHandoffDepth
        BY <2>0, <3>0, <3>5, <4>2 DEF RouteHandoff, Topics
      <4>3. CASE ~(hand.handoff.msg.handoff_depth >= MaxHandoffDepth)
        <5>. DEFINE h == hand.handoff.msg
                    t == [ challenge_id |-> h.challenge_id, flag_format |-> "none",
                           handoff_depth |-> h.handoff_depth + 1 ]
        <5>1. h.target \in Categories /\ h.challenge_id \in Challenges
              /\ h.handoff_depth \in Nat
          BY <4>1 DEF Handoff
        <5>2. t \in Task
          BY <5>1 DEF Task
        <5>3. t.handoff_depth <= MaxHandoffDepth
          BY <4>3, <5>1, RuntimeAssumption
        <5>4. log'.tasks = [log.tasks EXCEPT ![h.target] = Append(log.tasks[h.target], t)]
          BY <3>0, <3>5, <4>3 DEF RouteHandoff, Topics
        <5>. HIDE DEF t, h
        <5>. QED BY <2>1, <5>1, <5>2, <5>3, <5>4
      <4>. QED BY <4>2, <4>3
    <3>6. CASE OnFlag BY <2>0, <3>6 DEF OnFlag
    <3>7. CASE WriteSolved BY <2>0, <3>7 DEF WriteSolved
    <3>8. CASE AnnounceSolved BY <2>0, <3>0, <3>8 DEF AnnounceSolved, Topics
    <3>9. CASE OnTrace BY <2>0, <3>9 DEF OnTrace
    <3>10. CASE WriteOutcome BY <2>0, <3>10 DEF WriteOutcome
    <3>. QED BY <2>2, <3>1, <3>2, <3>3, <3>4, <3>5, <3>6, <3>7, <3>8, <3>9, <3>10
             DEF OrchestratorStep
  <2>3. CASE \E c \in Challenges : Submit(c) BY <2>0, <2>3, SubmitFrame
  <2>4. CASE GateStep BY <2>0, <2>4, GateFrame
  <2>5. CASE \E k \in Categories : SpecialistStep(k) BY <2>0, <2>5, SpecialistFrame
  <2>6. CASE \E p \in Deployed : Crash(p) BY <2>0, <2>6, CrashFrame
  <2>7. CASE UNCHANGED vars BY <2>0, <2>7 DEF vars
  <2>. QED BY <2>2, <2>3, <2>4, <2>5, <2>6, <2>7 DEF Next
<1>. QED BY <1>1, <1>2, TypeCorrect, PTL DEF Spec

-----------------------------------------------------------------------------
(* The fields of a board agree                                             *)

\* on_trace writes back the board it read: that copy has to agree as well, and
\* to be one of a running challenge, whose flags are empty.
BoardInv ==
    /\ BoardIsConsistent
    /\ hand.trace.stage = "write" =>
         Consistent(hand.trace.board) /\ hand.trace.board.board_status = "running"

THEOREM BoardStaysConsistent == Spec => []BoardIsConsistent
<1>1. Init => BoardInv
  BY DEF Init, BoardInv, BoardIsConsistent, Consistent, NoBoard, Services, Idle
<1>2. TypeOK /\ BoardInv /\ [Next]_vars => BoardInv'
  <2>. SUFFICES ASSUME TypeOK, BoardInv, [Next]_vars
                PROVE  BoardInv'
    OBVIOUS
  <2>0. ASSUME board' = board, hand'.trace \in {hand.trace, Idle} PROVE BoardInv'
    BY <2>0 DEF BoardInv, BoardIsConsistent, Idle
  <2>1. CASE OrchestratorStep
    <3>. USE DEF TypeOK, Handlers
    <3>1. CASE OnChallenge BY <2>0, <3>1 DEF OnChallenge
    <3>2. CASE StoreBoard
      <4>1. hand'.trace = hand.trace
        BY <3>2 DEF StoreBoard
      <4>2. Consistent([board_status |-> "running", status |-> "in_progress",
                        flags |-> <<>>])
        BY DEF Consistent
      <4>. QED BY <3>2, <4>1, <4>2 DEF StoreBoard, BoardInv, BoardIsConsistent
    <3>3. CASE DispatchTask BY <2>0, <3>3 DEF DispatchTask
    <3>4. CASE OnHandoff BY <2>0, <3>4 DEF OnHandoff
    <3>5. CASE RouteHandoff BY <2>0, <3>5 DEF RouteHandoff
    <3>6. CASE OnFlag BY <2>0, <3>6 DEF OnFlag
    <3>7. CASE WriteSolved
      <4>1. hand'.trace = hand.trace
        BY <3>7 DEF WriteSolved
      <4>2. /\ hand.flag.msg \in Candidate
            /\ hand.flag.board \in Board \cup {NoBoard}
        BY <3>7, HandlerTypes DEF WriteSolved
      <4>3. hand.flag.board.flags \in Seq(Flags) /\ hand.flag.msg.candidate \in Flags
        <5>1. CASE hand.flag.board = NoBoard
          BY <4>2, <5>1, EmptySeq DEF NoBoard, Candidate
        <5>2. CASE hand.flag.board \in Board
          BY <4>2, <5>2 DEF Board, Candidate
        <5>. QED BY <4>2, <5>1, <5>2
      <4>4. Append(hand.flag.board.flags, hand.flag.msg.candidate) # <<>>
        <5>. DEFINE q == hand.flag.board.flags
                    x == hand.flag.msg.candidate
        <5>1. q \in Seq(Flags) /\ x \in Flags
          BY <4>3
        <5>. HIDE DEF q, x
        <5>2. Append(q, x) # <<>>
          BY <5>1, AppendProperties
        <5>. QED BY <5>2 DEF q, x
      <4>5. Consistent([ board_status |-> "solved", status |-> "solved",
               flags |-> Append(hand.flag.board.flags, hand.flag.msg.candidate) ])
        BY <4>4 DEF Consistent
      <4>. QED BY <3>7, <4>1, <4>5 DEF WriteSolved, BoardInv, BoardIsConsistent
    <3>8. CASE AnnounceSolved BY <2>0, <3>8 DEF AnnounceSolved
    <3>9. CASE OnTrace
      <4>1. PICK t \in Range(log.traces) :
              /\ hand' = IF /\ Outcome(t.kind) # "none"
                            /\ board[t.challenge_id].board_status = "running"
                         THEN [hand EXCEPT !.trace = [ stage |-> "write", msg |-> t,
                                                      board |-> board[t.challenge_id] ]]
                         ELSE hand
              /\ UNCHANGED board
        BY <3>9 DEF OnTrace
      <4>2. board[t.challenge_id].board_status = "running" => Consistent(board[t.challenge_id])
        <5>1. t \in TraceEvent
          BY <4>1, SeqTypes DEF Range
        <5>. QED BY <5>1 DEF TraceEvent, BoardInv, BoardIsConsistent
      <4>. QED BY <4>1, <4>2 DEF BoardInv, BoardIsConsistent
    <3>10. CASE WriteOutcome
      <4>1. /\ hand.trace.board \in Board
            /\ Outcome(hand.trace.msg.kind) \in {"timed_out", "failed"}
        BY <3>10, HandlerTypes DEF WriteOutcome, Outcome
      <4>2. Consistent([hand.trace.board EXCEPT
                           !.board_status = Outcome(hand.trace.msg.kind)])
        BY <3>10, <4>1 DEF WriteOutcome, BoardInv, Consistent, Board
      <4>3. hand'.trace = Idle
        BY <3>10 DEF WriteOutcome
      <4>. QED BY <3>10, <4>2, <4>3 DEF WriteOutcome, BoardInv, BoardIsConsistent, Idle
    <3>. QED BY <2>1, <3>1, <3>2, <3>3, <3>4, <3>5, <3>6, <3>7, <3>8, <3>9, <3>10
             DEF OrchestratorStep
  <2>2. CASE \E c \in Challenges : Submit(c) BY <2>0, <2>2, SubmitFrame
  <2>3. CASE GateStep BY <2>0, <2>3, GateFrame
  <2>4. CASE \E k \in Categories : SpecialistStep(k) BY <2>0, <2>4, SpecialistFrame
  <2>5. CASE \E p \in Deployed : Crash(p) BY <2>0, <2>5, CrashFrame DEF Services
  <2>6. CASE UNCHANGED vars BY <2>0, <2>6 DEF vars
  <2>. QED BY <2>1, <2>2, <2>3, <2>4, <2>5, <2>6 DEF Next
<1>3. BoardInv => BoardIsConsistent
  BY DEF BoardInv
<1>. QED BY <1>1, <1>2, <1>3, TypeCorrect, PTL DEF Spec

-----------------------------------------------------------------------------
(* Only texts the gate approved are on a board                             *)

\* Every text of board b was approved for challenge c, on proof.
Backed(b, c) ==
    \A x \in Range(b.flags) : \E f \in Approved(c) : f.candidate = x /\ Proven(f)

\* The texts travel from the gate's handler through ctf.flags and on_flag's
\* copy of the board to the board, and from there to on_trace's copy and back.
FlagInv ==
    /\ \A c \in Challenges : Backed(board[c], c)
    /\ hand.gate.stage # "idle" /\ hand.gate.msg.status = "solved"
         => Proven(hand.gate.msg)
    /\ \A f \in Range(log.flags) : f.status = "solved" => Proven(f)
    /\ hand.flag.stage # "idle" =>
         /\ hand.flag.msg \in Approved(hand.flag.msg.challenge_id)
         /\ Backed(hand.flag.board, hand.flag.msg.challenge_id)
    /\ hand.trace.stage # "idle" => Backed(hand.trace.board, hand.trace.msg.challenge_id)

\* Steps that leave boards, the gate's handler and the verdicts alone, and at
\* most empty the other handlers.
LEMMA FlagInvStays ==
    ASSUME FlagInv, board' = board, log'.flags = log.flags,
           hand'.gate \in {hand.gate, Idle}, hand'.flag \in {hand.flag, Idle},
           hand'.trace \in {hand.trace, Idle}
    PROVE  FlagInv'
<1>1. \A c : Approved(c)' = Approved(c)
  BY DEF Approved
<1>. QED BY <1>1 DEF FlagInv, Backed, Idle

THEOREM FlagsStayApproved == Spec => []OnlyApprovedFlags
<1>1. Init => FlagInv
  BY DEF Init, FlagInv, Backed, NoBoard, Services, Idle, Range
<1>2. TypeOK /\ FlagInv /\ [Next]_vars => FlagInv'
  <2>. SUFFICES ASSUME TypeOK, FlagInv, [Next]_vars
                PROVE  FlagInv'
    OBVIOUS
  <2>0. log \in Topics /\ hand \in Handlers /\ board \in [Challenges -> Board \cup {NoBoard}]
    BY DEF TypeOK
  <2>1. CASE OrchestratorStep
    <3>0. log'.flags = log.flags /\ hand'.gate = hand.gate
      BY <2>1, OrchestratorLog
    <3>00. \A c : Approved(c)' = Approved(c)
      BY <3>0 DEF Approved
    <3>. USE <2>0, <3>0 DEF Handlers
    <3>1. CASE OnChallenge BY <3>1, FlagInvStays DEF OnChallenge
    <3>2. CASE StoreBoard
      <4>1. hand'.flag = hand.flag /\ hand'.trace = hand.trace
        BY <3>2 DEF StoreBoard
      <4>2. ASSUME NEW c \in Challenges PROVE Backed(board'[c], c)
        <5>1. board'[c] = board[c] \/ board'[c].flags = <<>>
          BY <3>2 DEF StoreBoard
        <5>2. Range(<<>>) = {}
          BY DEF Range
        <5>. QED BY <5>1, <5>2 DEF FlagInv, Backed
      <4>. QED BY <3>00, <4>1, <4>2 DEF FlagInv, Backed
    <3>3. CASE DispatchTask BY <3>3, FlagInvStays DEF DispatchTask
    <3>4. CASE OnHandoff BY <3>4, FlagInvStays DEF OnHandoff
    <3>5. CASE RouteHandoff BY <3>5, FlagInvStays DEF RouteHandoff
    <3>6. CASE OnFlag
      <4>1. PICK f \in Range(log.flags) :
              /\ hand' = IF f.status = "solved"
                         THEN [hand EXCEPT !.flag = [ stage |-> "write", msg |-> f,
                                                     board |-> board[f.challenge_id] ]]
                         ELSE hand
              /\ UNCHANGED board
        BY <3>6 DEF OnFlag
      <4>2. hand'.trace = hand.trace
        BY <4>1
      <4>3. CASE f.status = "solved"
        <5>1. hand'.flag = [stage |-> "write", msg |-> f, board |-> board[f.challenge_id]]
          BY <4>1, <4>3
        <5>2. f.challenge_id \in Challenges
          <6>1. f \in Candidate
            BY <4>1, SeqTypes DEF Range
          <6>. QED BY <6>1 DEF Candidate
        <5>3. f \in Approved(f.challenge_id) /\ Backed(board[f.challenge_id], f.challenge_id)
          BY <4>1, <4>3, <5>2 DEF Approved, FlagInv
        <5>. QED BY <3>00, <4>1, <4>2, <5>1, <5>3 DEF FlagInv, Backed
      <4>4. CASE f.status # "solved"
        BY <4>1, <4>4, FlagInvStays
      <4>. QED BY <4>3, <4>4
    <3>7. CASE WriteSolved
      <4>. DEFINE b == hand.flag.board
                  m == hand.flag.msg
                  new == [ board_status |-> "solved", status |-> "solved",
                           flags |-> Append(b.flags, m.candidate) ]
      <4>1. /\ m \in Candidate /\ b \in Board \cup {NoBoard}
            /\ hand.flag.stage # "idle"
        BY <3>7, HandlerTypes DEF WriteSolved
      <4>2. b.flags \in Seq(Flags) /\ m.candidate \in Flags
        <5>1. CASE b = NoBoard
          BY <4>1, <5>1, EmptySeq DEF NoBoard, Candidate
        <5>2. CASE b \in Board
          BY <4>1, <5>2 DEF Board, Candidate
        <5>. QED BY <4>1, <5>1, <5>2
      <4>3. Range(new.flags) = Range(b.flags) \cup {m.candidate}
        BY <4>2, RangeOfAppend
      <4>4. /\ m \in Approved(m.challenge_id) /\ Backed(b, m.challenge_id)
            /\ Proven(m)
        BY <4>1 DEF FlagInv, Approved
      <4>5. Backed(new, m.challenge_id)
        BY <4>3, <4>4 DEF Backed
      <4>6. board' = [board EXCEPT ![m.challenge_id] = new]
        BY <3>7 DEF WriteSolved
      <4>7. hand'.trace = hand.trace /\ hand'.flag.msg = m /\ hand'.flag.board = b
        <5>1. hand.flag \in [ stage : {"write", "announce"}, msg : Candidate,
                              board : Board \cup {NoBoard} ]
          BY <4>1 DEF Idle
        <5>2. hand' = [hand EXCEPT !.flag = [hand.flag EXCEPT !.stage = "announce"]]
          BY <3>7 DEF WriteSolved
        <5>. QED BY <5>1, <5>2
      <4>. HIDE DEF new, b, m
      <4>8. ASSUME NEW c \in Challenges PROVE Backed(board'[c], c)
        BY <4>5, <4>6 DEF FlagInv
      <4>. QED BY <3>00, <4>4, <4>7, <4>8 DEF FlagInv, Backed
    <3>8. CASE AnnounceSolved BY <3>8, FlagInvStays DEF AnnounceSolved
    <3>9. CASE OnTrace
      <4>1. PICK t \in Range(log.traces) :
              /\ hand' = IF /\ Outcome(t.kind) # "none"
                            /\ board[t.challenge_id].board_status = "running"
                         THEN [hand EXCEPT !.trace = [ stage |-> "write", msg |-> t,
                                                      board |-> board[t.challenge_id] ]]
                         ELSE hand
              /\ UNCHANGED board
        BY <3>9 DEF OnTrace
      <4>2. hand'.flag = hand.flag
        BY <4>1
      <4>3. t.challenge_id \in Challenges
        <5>1. t \in TraceEvent
          BY <4>1, SeqTypes DEF Range
        <5>. QED BY <5>1 DEF TraceEvent
      <4>4. CASE hand' = hand
        BY <4>1, <4>4, FlagInvStays
      <4>5. CASE hand'.trace = [stage |-> "write", msg |-> t, board |-> board[t.challenge_id]]
        <5>1. Backed(board[t.challenge_id], t.challenge_id)
          BY <4>3 DEF FlagInv
        <5>. QED BY <3>00, <4>1, <4>2, <4>5, <5>1 DEF FlagInv, Backed
      <4>. QED BY <4>1, <4>4, <4>5
    <3>10. CASE WriteOutcome
      <4>. DEFINE b == hand.trace.board
                  m == hand.trace.msg
                  new == [b EXCEPT !.board_status = Outcome(m.kind)]
      <4>1. b \in Board /\ m \in TraceEvent /\ Backed(b, m.challenge_id)
        BY <3>10, HandlerTypes DEF WriteOutcome, FlagInv
      <4>2. new.flags = b.flags
        BY <4>1 DEF Board
      <4>3. Backed(new, m.challenge_id)
        BY <4>1, <4>2 DEF Backed
      <4>4. board' = [board EXCEPT ![m.challenge_id] = new]
        BY <3>10 DEF WriteOutcome
      <4>5. hand'.flag = hand.flag /\ hand'.trace = Idle
        BY <3>10 DEF WriteOutcome
      <4>. HIDE DEF new, b, m
      <4>6. ASSUME NEW c \in Challenges PROVE Backed(board'[c], c)
        BY <4>3, <4>4 DEF FlagInv
      <4>. QED BY <3>00, <4>5, <4>6 DEF FlagInv, Backed, Idle
    <3>. QED BY <2>1, <3>1, <3>2, <3>3, <3>4, <3>5, <3>6, <3>7, <3>8, <3>9, <3>10
             DEF OrchestratorStep
  <2>2. CASE GateStep
    <3>0. board' = board /\ hand'.flag = hand.flag /\ hand'.trace = hand.trace
      BY <2>2, GateFrame
    <3>1. CASE OnCandidate
      <4>1. PICK c \in Range(log.candidates) :
              hand' = [hand EXCEPT !.gate = [stage |-> "trace", msg |-> Judge(c)]]
        BY <3>1 DEF OnCandidate
      <4>2. c \in Candidate
        BY <2>0, <4>1, SeqTypes DEF Range
      <4>3. hand'.gate.msg = Judge(c)
        BY <2>0, <4>1 DEF Handlers
      <4>4. hand'.gate.msg.status = "solved" => Proven(hand'.gate.msg)
        BY <4>2, <4>3, JudgeSolvesOnProof
      <4>5. log' = log
        BY <3>1 DEF OnCandidate
      <4>6. \A c2 : Approved(c2)' = Approved(c2)
        BY <4>5 DEF Approved
      <4>. QED BY <3>0, <4>4, <4>5, <4>6 DEF FlagInv, Backed
    <3>2. CASE AnnounceVerdict
      <4>1. log'.flags = log.flags
        BY <2>0, <3>2 DEF AnnounceVerdict, WithTrace, Topics
      <4>2. hand'.gate.msg = hand.gate.msg /\ hand.gate.stage # "idle"
        BY <2>0, <3>2 DEF AnnounceVerdict, Handlers, Idle
      <4>3. \A c2 : Approved(c2)' = Approved(c2)
        BY <4>1 DEF Approved
      <4>. QED BY <3>0, <4>1, <4>2, <4>3 DEF FlagInv, Backed
    <3>3. CASE PublishFlag
      <4>1. /\ hand.gate.msg \in Candidate
            /\ hand.gate.msg.status = "solved" => Proven(hand.gate.msg)
        BY <2>0, <3>3, HandlerTypes DEF PublishFlag, FlagInv
      <4>2. log'.flags = Append(log.flags, hand.gate.msg)
        BY <2>0, <3>3 DEF PublishFlag, Topics
      <4>3. Range(log'.flags) = Range(log.flags) \cup {hand.gate.msg}
        BY <2>0, <4>1, <4>2, SeqTypes, RangeOfAppend
      <4>4. hand'.gate = Idle
        BY <2>0, <3>3 DEF PublishFlag, Handlers
      <4>5. \A c : Approved(c) \subseteq Approved(c)'
        BY <4>3 DEF Approved
      <4>6. \A f \in Range(log'.flags) : f.status = "solved" => Proven(f)
        BY <4>1, <4>3 DEF FlagInv
      <4>7. \A b, c : Backed(b, c) => Backed(b, c)'
        BY <4>5 DEF Backed
      <4>. QED BY <3>0, <4>4, <4>5, <4>6, <4>7 DEF FlagInv, Idle
    <3>. QED BY <2>2, <3>1, <3>2, <3>3 DEF GateStep
  <2>3. CASE \E c \in Challenges : Submit(c) BY <2>3, SubmitFrame, FlagInvStays
  <2>4. CASE \E k \in Categories : SpecialistStep(k) BY <2>4, SpecialistFrame, FlagInvStays
  <2>5. CASE \E p \in Deployed : Crash(p) BY <2>5, CrashFrame, FlagInvStays DEF Services
  <2>6. CASE UNCHANGED vars BY <2>6, FlagInvStays DEF vars
  <2>. QED BY <2>1, <2>2, <2>3, <2>4, <2>5, <2>6 DEF Next
<1>3. FlagInv => OnlyApprovedFlags
  BY DEF FlagInv, Backed, OnlyApprovedFlags
<1>. QED BY <1>1, <1>2, <1>3, TypeCorrect, PTL DEF Spec

-----------------------------------------------------------------------------
(* Nothing is worked on before its board exists                            *)

IsOpen(b, c) == b[c] # NoBoard

\* A challenge's work goes round in tasks, specialists, handoffs and the
\* handoff handler: each of them has a board behind it.
WorkInv ==
    /\ BoardPrecedesWork
    /\ hand.challenge.stage = "dispatch" => IsOpen(board, hand.challenge.msg)
    /\ \A k \in Categories : spec[k].stage # "idle" => IsOpen(board, spec[k].task.challenge_id)
    /\ \A h \in Range(log.handoffs) : IsOpen(board, h.challenge_id)
    /\ hand.handoff.stage # "idle" => IsOpen(board, hand.handoff.msg.challenge_id)

\* Every write of a board opens it, so a board never goes away.
LEMMA BoardsStayOpen ==
    ASSUME TypeOK, [Next]_vars
    PROVE  \A c \in Challenges : IsOpen(board, c) => IsOpen(board', c)
<1>1. CASE board' = board
  BY <1>1 DEF IsOpen
<1>2. CASE StoreBoard
  <2>1. [board_status |-> "running", status |-> "in_progress", flags |-> <<>>] # NoBoard
    BY DEF NoBoard
  <2>. QED BY <1>2, <2>1 DEF StoreBoard, IsOpen, TypeOK
<1>3. CASE WriteSolved
  <2>1. [ board_status |-> "solved", status |-> "solved",
          flags |-> Append(hand.flag.board.flags, hand.flag.msg.candidate) ] # NoBoard
    BY DEF NoBoard
  <2>. QED BY <1>3, <2>1 DEF WriteSolved, IsOpen, TypeOK
<1>4. CASE WriteOutcome
  <2>1. hand.trace.board \in Board /\ Outcome(hand.trace.msg.kind) \in {"timed_out", "failed"}
    BY <1>4, HandlerTypes DEF WriteOutcome, Outcome, TypeOK
  <2>2. [hand.trace.board EXCEPT !.board_status = Outcome(hand.trace.msg.kind)].board_status
          \in {"timed_out", "failed"}
    BY <2>1 DEF Board
  <2>3. [hand.trace.board EXCEPT !.board_status = Outcome(hand.trace.msg.kind)] # NoBoard
    BY <2>2 DEF NoBoard
  <2>. QED BY <1>4, <2>3 DEF WriteOutcome, IsOpen, TypeOK
<1>5. CASE OrchestratorStep
  BY <1>1, <1>2, <1>3, <1>4, <1>5
     DEF OrchestratorStep, OnChallenge, DispatchTask, OnHandoff, RouteHandoff, OnFlag,
         AnnounceSolved, OnTrace
<1>. QED BY <1>1, <1>5, SubmitFrame, GateFrame, SpecialistFrame, CrashFrame DEF Next, vars

THEOREM BoardsPrecedeWork == Spec => []BoardPrecedesWork
<1>1. Init => WorkInv
  BY DEF Init, WorkInv, BoardPrecedesWork, Services, Idle, Range
<1>2. TypeOK /\ WorkInv /\ [Next]_vars => WorkInv'
  <2>. SUFFICES ASSUME TypeOK, WorkInv, [Next]_vars
                PROVE  WorkInv'
    OBVIOUS
  <2>0. /\ log \in Topics /\ hand \in Handlers /\ spec \in [Categories -> Specialist]
        /\ log.tasks \in [Categories -> Seq(Task)] /\ log.handoffs \in Seq(Handoff)
    BY SeqTypes DEF TypeOK
  <2>1. \A c \in Challenges : IsOpen(board, c) => IsOpen(board', c)
    BY BoardsStayOpen
  <2>2. /\ \A k \in Categories : \A t \in Range(log.tasks[k]) :
             t.challenge_id \in Challenges /\ IsOpen(board', t.challenge_id)
        /\ \A h \in Range(log.handoffs) :
             h.challenge_id \in Challenges /\ IsOpen(board', h.challenge_id)
        /\ \A k \in Categories : spec[k].stage # "idle" =>
             spec[k].task.challenge_id \in Challenges /\ IsOpen(board', spec[k].task.challenge_id)
        /\ hand.challenge.stage = "dispatch" => IsOpen(board', hand.challenge.msg)
        /\ hand.handoff.stage # "idle" =>
             /\ hand.handoff.msg.challenge_id \in Challenges
             /\ IsOpen(board', hand.handoff.msg.challenge_id)
    <3>1. \A k \in Categories : \A t \in Range(log.tasks[k]) : t.challenge_id \in Challenges
      <4>1. \A k \in Categories : \A t \in Range(log.tasks[k]) : t \in Task
        BY <2>0 DEF Range
      <4>. QED BY <4>1 DEF Task
    <3>2. \A h \in Range(log.handoffs) : h.challenge_id \in Challenges
      <4>1. \A h \in Range(log.handoffs) : h \in Handoff
        BY <2>0 DEF Range
      <4>. QED BY <4>1 DEF Handoff
    <3>3. \A k \in Categories : spec[k].stage # "idle" =>
             spec[k].task.challenge_id \in Challenges
      BY SpecialistTypes
    <3>4. /\ hand.challenge.stage = "dispatch" => hand.challenge.msg \in Challenges
          /\ hand.handoff.stage # "idle" => hand.handoff.msg.challenge_id \in Challenges
      BY <2>0, HandlerTypes DEF Handoff
    <3>. QED BY <2>1, <3>1, <3>2, <3>3, <3>4 DEF WorkInv, BoardPrecedesWork, IsOpen
  \* The parts of the invariant for steps that publish neither tasks nor handoffs.
  <2>3. ASSUME log'.tasks = log.tasks
        PROVE  BoardPrecedesWork'
    BY <2>2, <2>3 DEF BoardPrecedesWork, IsOpen
  <2>4. ASSUME NEW k \in Categories, NEW t \in Task, IsOpen(board', t.challenge_id),
               log'.tasks = [log.tasks EXCEPT ![k] = Append(log.tasks[k], t)]
        PROVE  BoardPrecedesWork'
    <3>2. Range(Append(log.tasks[k], t)) = Range(log.tasks[k]) \cup {t}
      BY <2>0, RangeOfAppend
    <3>3. ASSUME NEW j \in Categories, NEW u \in Range(log'.tasks[j])
          PROVE  IsOpen(board', u.challenge_id)
      <4>1. u \in Range(log.tasks[j]) \/ u = t
        BY <2>0, <2>4, <3>2, <3>3
      <4>. QED BY <2>2, <2>4, <4>1
    <3>. QED BY <3>3 DEF BoardPrecedesWork, IsOpen
  <2>5. ASSUME hand'.challenge \in {hand.challenge, Idle},
               hand'.handoff \in {hand.handoff, Idle}
        PROVE  /\ hand'.challenge.stage = "dispatch" => IsOpen(board', hand'.challenge.msg)
               /\ hand'.handoff.stage # "idle" => IsOpen(board', hand'.handoff.msg.challenge_id)
    BY <2>2, <2>5 DEF Idle
  <2>6. ASSUME \A k \in Categories : spec'[k] \in {spec[k], Idle}
        PROVE  \A k \in Categories : spec'[k].stage # "idle" =>
                   IsOpen(board', spec'[k].task.challenge_id)
    BY <2>2, <2>6 DEF Idle
  <2>7. ASSUME log'.handoffs = log.handoffs
        PROVE  \A h \in Range(log'.handoffs) : IsOpen(board', h.challenge_id)
    BY <2>2, <2>7
  <2>8. CASE OrchestratorStep
    <3>0. spec' = spec /\ log'.handoffs = log.handoffs
      BY <2>8, OrchestratorLog
    <3>1. CASE OnChallenge
      <4>1. /\ log'.tasks = log.tasks
            /\ hand'.handoff = hand.handoff
            /\ hand'.challenge = hand.challenge \/ hand'.challenge.stage = "store"
        BY <2>0, <3>1 DEF OnChallenge, WithTrace, Topics, Handlers
      <4>. QED BY <2>2, <2>3, <2>6, <2>7, <3>0, <4>1 DEF WorkInv
    <3>2. CASE StoreBoard
      <4>1. /\ log' = log /\ hand'.handoff = hand.handoff
            /\ hand'.challenge.msg = hand.challenge.msg
        BY <2>0, <3>2 DEF StoreBoard, Handlers, Idle
      <4>2. IsOpen(board', hand.challenge.msg)
        <5>1. hand.challenge.msg \in Challenges
          BY <2>0, <3>2, HandlerTypes DEF StoreBoard
        <5>2. board'[hand.challenge.msg].board_status = "running"
          BY <3>2, <5>1 DEF StoreBoard, TypeOK
        <5>. QED BY <5>2 DEF IsOpen, NoBoard
      <4>. QED BY <2>2, <2>3, <2>6, <2>7, <3>0, <4>1, <4>2 DEF WorkInv
    <3>3. CASE DispatchTask
      <4>. DEFINE c == hand.challenge.msg
                  k == Route(world[c])
                  t == [ challenge_id |-> c, flag_format |-> world[c].flag_format,
                         handoff_depth |-> 0 ]
      <4>1. c \in Challenges /\ IsOpen(board', c)
        BY <2>0, <2>2, <3>3, HandlerTypes DEF DispatchTask
      <4>2. t \in Task /\ t.challenge_id = c
        BY <4>1, RouteType DEF Task
      <4>3. k \in Categories
        BY <4>1, RouteType
      <4>4. log'.tasks = [log.tasks EXCEPT ![k] = Append(log.tasks[k], t)]
        BY <2>0, <3>3 DEF DispatchTask, WithTrace, Topics
      <4>5. hand'.challenge = Idle /\ hand'.handoff = hand.handoff
        BY <2>0, <3>3 DEF DispatchTask, Handlers
      <4>. HIDE DEF c, k, t
      <4>6. BoardPrecedesWork'
        BY <2>4, <4>1, <4>2, <4>3, <4>4
      <4>. QED BY <2>5, <2>6, <2>7, <3>0, <4>5, <4>6 DEF WorkInv
    <3>4. CASE OnHandoff
      <4>1. PICK h \in Range(log.handoffs) :
              /\ hand' = [hand EXCEPT !.handoff = [stage |-> "route", msg |-> h]]
              /\ UNCHANGED log
        BY <3>4 DEF OnHandoff
      <4>2. hand'.challenge = hand.challenge /\ hand'.handoff.msg = h
        BY <2>0, <4>1 DEF Handlers
      <4>. QED BY <2>2, <2>3, <2>6, <2>7, <3>0, <4>1, <4>2 DEF WorkInv
    <3>5. CASE RouteHandoff
      <4>. DEFINE h == hand.handoff.msg
                  t == [ challenge_id |-> h.challenge_id, flag_format |-> "none",
                         handoff_depth |-> h.handoff_depth + 1 ]
      <4>1. /\ h \in Handoff
            /\ h.challenge_id \in Challenges /\ IsOpen(board', h.challenge_id)
        BY <2>0, <2>2, <3>5, HandlerTypes DEF RouteHandoff
      <4>2. t \in Task /\ t.challenge_id = h.challenge_id /\ h.target \in Categories
        BY <4>1 DEF Task, Handoff
      <4>3. \/ log' = WithTrace(log, h.challenge_id, "handoff_depth_exceeded")
            \/ log' = [log EXCEPT !.tasks[h.target] = Append(@, t)]
        BY <3>5 DEF RouteHandoff
      <4>4. hand'.challenge = hand.challenge /\ hand'.handoff = Idle
        BY <2>0, <3>5 DEF RouteHandoff, Handlers
      <4>. HIDE DEF h, t
      <4>5. CASE log' = WithTrace(log, h.challenge_id, "handoff_depth_exceeded")
        <5>1. log'.tasks = log.tasks
          BY <2>0, <4>5 DEF WithTrace, Topics
        <5>. QED BY <2>3, <2>5, <2>6, <2>7, <3>0, <4>4, <5>1 DEF WorkInv
      <4>6. CASE log' = [log EXCEPT !.tasks[h.target] = Append(@, t)]
        <5>1. log'.tasks = [log.tasks EXCEPT ![h.target] = Append(log.tasks[h.target], t)]
          BY <2>0, <4>6 DEF Topics
        <5>2. BoardPrecedesWork'
          BY <2>4, <4>1, <4>2, <5>1
        <5>. QED BY <2>5, <2>6, <2>7, <3>0, <4>4, <5>2 DEF WorkInv
      <4>. QED BY <4>3, <4>5, <4>6
    <3>6. CASE OnFlag \/ WriteSolved \/ AnnounceSolved \/ OnTrace \/ WriteOutcome
      <4>1. /\ log'.tasks = log.tasks
            /\ hand'.challenge = hand.challenge /\ hand'.handoff = hand.handoff
        BY <2>0, <3>6 DEF OnFlag, WriteSolved, AnnounceSolved, OnTrace, WriteOutcome,
                          WithTrace, Topics, Handlers
      <4>. QED BY <2>3, <2>5, <2>6, <2>7, <3>0, <4>1 DEF WorkInv
    <3>. QED BY <2>8, <3>1, <3>2, <3>3, <3>4, <3>5, <3>6 DEF OrchestratorStep
  <2>9. CASE \E c \in Challenges : Submit(c)
    BY <2>3, <2>5, <2>6, <2>7, <2>9, SubmitFrame DEF WorkInv
  <2>10. CASE GateStep
    BY <2>3, <2>5, <2>6, <2>7, <2>10, GateFrame DEF WorkInv
  <2>11. ASSUME NEW k \in Categories, SpecialistStep(k)
         PROVE  WorkInv'
    <3>1. hand' = hand /\ log'.tasks = log.tasks
      BY <2>11, SpecialistFrame
    \* A specialist works on a task it took, and hands nothing else over.
    <3>2. \A j \in Categories : spec'[j].stage # "idle" =>
            IsOpen(board', spec'[j].task.challenge_id)
      <4>1. \A j \in Categories : j # k => spec'[j] = spec[j]
        BY <2>0, <2>11 DEF SpecialistStep, TakeTask, StaticHit, NeedsEngine, DispatchEngine,
                     EngineRaises, HandleRaises, EngineBarren, EngineHandsOff, EngineClaims
      <4>2. CASE TakeTask(k)
        <5>1. /\ log.tasks[k] \in Seq(Task) /\ taken[k] \in Nat
              /\ taken[k] < Len(log.tasks[k])
          BY <2>0, <4>2 DEF TakeTask, TypeOK
        <5>2. log.tasks[k][taken[k] + 1] \in Range(log.tasks[k])
          BY <5>1 DEF Range
        <5>3. spec'[k].task = log.tasks[k][taken[k] + 1]
          BY <2>0, <4>2 DEF TakeTask
        <5>. QED BY <2>2, <4>1, <5>2, <5>3
      <4>3. CASE ~TakeTask(k)
        <5>1. \/ spec'[k] = Idle
              \/ spec[k].stage # "idle" /\ spec'[k].task = spec[k].task
          <6>1. spec[k].stage # "idle" => spec[k] \in [stage : {"scan", "engine"}, task : Task,
                                                      barren : Nat]
            BY <2>0 DEF Specialist, Idle
          <6>. QED BY <2>0, <2>11, <4>3, <6>1 DEF SpecialistStep, StaticHit, NeedsEngine,
                     DispatchEngine, EngineRaises, HandleRaises, EngineBarren, EngineHandsOff,
                     EngineClaims, Scanning, EngineAnswers
        <5>. QED BY <2>2, <4>1, <5>1 DEF Idle
      <4>. QED BY <4>2, <4>3
    <3>3. \A h \in Range(log'.handoffs) : IsOpen(board', h.challenge_id)
      <4>1. CASE \E target \in Categories : EngineHandsOff(k, target)
        <5>1. PICK target \in Categories : EngineHandsOff(k, target)
          BY <4>1
        <5>. DEFINE h == [ challenge_id |-> spec[k].task.challenge_id, target |-> target,
                           handoff_depth |-> spec[k].task.handoff_depth ]
        <5>2. spec[k].stage # "idle" /\ spec[k].task \in Task
          BY <5>1, SpecialistTypes DEF EngineHandsOff, EngineAnswers
        <5>3. h \in Handoff /\ IsOpen(board', h.challenge_id)
          BY <2>2, <5>2 DEF Handoff, Task
        <5>4. log'.handoffs = Append(log.handoffs, h)
          BY <2>0, <5>1 DEF EngineHandsOff, WithTrace, Topics
        <5>. HIDE DEF h
        <5>5. Range(log'.handoffs) = Range(log.handoffs) \cup {h}
          BY <2>0, <5>3, <5>4, RangeOfAppend
        <5>. QED BY <2>2, <5>3, <5>5
      <4>2. CASE log'.handoffs = log.handoffs
        BY <2>7, <4>2
      <4>3. \/ \E target \in Categories : EngineHandsOff(k, target)
            \/ log'.handoffs = log.handoffs
        BY <2>0, <2>11 DEF SpecialistStep, TakeTask, StaticHit, NeedsEngine, DispatchEngine,
              EngineRaises, HandleRaises, EngineBarren, EngineClaims, Scanning, EngineAnswers,
              WithTrace, Topics
      <4>. QED BY <4>1, <4>2, <4>3
    <3>. QED BY <2>3, <2>5, <3>1, <3>2, <3>3 DEF WorkInv
  <2>12. CASE \E p \in Deployed : Crash(p)
    BY <2>3, <2>5, <2>6, <2>7, <2>12, CrashFrame DEF WorkInv, Services
  <2>13. CASE UNCHANGED vars
    BY <2>3, <2>5, <2>6, <2>7, <2>13 DEF WorkInv, vars
  <2>. QED BY <2>8, <2>9, <2>10, <2>11, <2>12, <2>13 DEF Next
<1>3. WorkInv => BoardPrecedesWork
  BY DEF WorkInv
<1>. QED BY <1>1, <1>2, <1>3, TypeCorrect, PTL DEF Spec

-----------------------------------------------------------------------------
(* Conservation of work.  What the properties say of topics and handlers is *)
(* said here of stations: a service or a category has a line of the         *)
(* challenges published to it, the number of those it was handed, and the   *)
(* challenge it holds.  Every step of the runtime is one of five steps of   *)
(* the stations, and those keep count of the challenges by themselves.      *)

Station == Workers \cup Categories
Ids(q) == [i \in DOMAIN q |-> q[i].challenge_id]

Line == [x \in Station |-> CASE x = "challenge" -> log.challenges
                             [] x = "handoff"   -> Ids(log.handoffs)
                             [] x = "flag"      -> Ids(log.flags)
                             [] x = "gate"      -> Ids(log.candidates)
                             [] OTHER           -> Ids(log.tasks[x])]
Past == [x \in Station |-> IF x \in Workers THEN read[x] ELSE taken[x]]
Held == [x \in Station |-> IF x \in Workers
                           THEN IF hand[x].stage = "idle" THEN {} ELSE {Subject(x, hand[x].msg)}
                           ELSE IF spec[x].stage = "idle" THEN {}
                                ELSE {spec[x].task.challenge_id}]

Items(c) ==
    {p \in Station \X Nat :
        \/ p[2] \in (Past[p[1]] + 1)..Len(Line[p[1]]) /\ Line[p[1]][p[2]] = c
        \/ p[2] = 0 /\ c \in Held[p[1]]}

FlowTypes ==
    /\ Line \in [Station -> Seq(Challenges)]
    /\ Past \in [Station -> Nat] /\ \A x \in Station : Past[x] <= Len(Line[x])
    /\ Held \in [Station -> SUBSET Challenges]

-----------------------------------------------------------------------------
(* The steps of the stations                                               *)

Hands(x) ==
    /\ Past[x] < Len(Line[x]) /\ Held[x] = {}
    /\ Past' = [Past EXCEPT ![x] = @ + 1] /\ Line' = Line
Next1(x) == Line[x][Past[x] + 1]

Takes(x)   == Hands(x) /\ Held' = [Held EXCEPT ![x] = {Next1(x)}]
Drops(x)   == Hands(x) /\ Held' = Held
Keeps      == UNCHANGED <<Line, Past, Held>>
Ends(x, c) == /\ Held[x] = {c} /\ Held' = [Held EXCEPT ![x] = {}]
              /\ UNCHANGED <<Line, Past>>
Passes(x, y, c) ==
    /\ Held[x] = {c} /\ Held' = [Held EXCEPT ![x] = {}]
    /\ Line' = [Line EXCEPT ![y] = Append(@, c)] /\ UNCHANGED Past
Enters(c) ==
    /\ Line' = [Line EXCEPT !["challenge"] = Append(@, c)] /\ UNCHANGED <<Past, Held>>

LEMMA StationFacts ==
    /\ Workers = {"challenge", "handoff", "flag", "gate"} /\ Workers \subseteq Services
    /\ Workers \subseteq Station /\ Categories \subseteq Station
    /\ Workers \cap Categories = {}
  BY RuntimeAssumption DEF Workers, Services, Station, Category

LEMMA IdsFacts ==
    ASSUME NEW S, \A m \in S : m.challenge_id \in Challenges,
           NEW q \in Seq(S)
    PROVE  /\ Ids(q) \in Seq(Challenges) /\ Len(Ids(q)) = Len(q)
           /\ \A i \in 1..Len(q) : Ids(q)[i] = q[i].challenge_id
           /\ \A m \in S : Ids(Append(q, m)) = Append(Ids(q), m.challenge_id)
<1>1. /\ Ids(q) \in Seq(Challenges) /\ Len(Ids(q)) = Len(q)
      /\ \A i \in 1..Len(q) : Ids(q)[i] = q[i].challenge_id
  BY DEF Ids
<1>2. ASSUME NEW m \in S PROVE Ids(Append(q, m)) = Append(Ids(q), m.challenge_id)
  <2> DEFINE a == Ids(Append(q, m))
             b == Append(Ids(q), m.challenge_id)
  <2>1. /\ Append(q, m) \in Seq(S) /\ Len(Append(q, m)) = Len(q) + 1
        /\ DOMAIN Append(q, m) = 1..(Len(q) + 1)
        /\ \A i \in 1..Len(q) : Append(q, m)[i] = q[i]
        /\ Append(q, m)[Len(q) + 1] = m
    OBVIOUS
  <2>2. a \in Seq(Challenges) /\ Len(a) = Len(q) + 1
    BY <2>1 DEF Ids
  <2>3. b \in Seq(Challenges) /\ Len(b) = Len(q) + 1
    BY <1>1
  <2>4. \A i \in 1..(Len(q) + 1) : a[i] = b[i]
    BY <1>1, <2>1 DEF Ids
  <2> HIDE DEF a, b
  <2>5. a = b
    BY <2>2, <2>3, <2>4
  <2> QED
    BY <2>5 DEF a, b
<1> QED
  BY <1>1, <1>2

LEMMA IdsTypes ==
    /\ \A m \in Handoff : m.challenge_id \in Challenges
    /\ \A m \in Candidate : m.challenge_id \in Challenges
    /\ \A m \in Task : m.challenge_id \in Challenges
  BY DEF Handoff, Candidate, Task

LEMMA LineAt ==
    /\ Line["challenge"] = log.challenges /\ Line["handoff"] = Ids(log.handoffs)
    /\ Line["flag"] = Ids(log.flags) /\ Line["gate"] = Ids(log.candidates)
    /\ \A k \in Categories : Line[k] = Ids(log.tasks[k])
<1>1. /\ "challenge" \in Station /\ "handoff" \in Station /\ "flag" \in Station
      /\ "gate" \in Station
  BY StationFacts
<1>2. ASSUME NEW k \in Categories PROVE Line[k] = Ids(log.tasks[k])
  BY StationFacts DEF Line
<1> QED
  BY <1>1, <1>2 DEF Line

LEMMA FlowTyped == TypeOK => FlowTypes
<1> SUFFICES ASSUME TypeOK PROVE FlowTypes
  OBVIOUS
<1>0. log \in Topics /\ hand \in Handlers
  BY DEF TypeOK
<1>1. ASSUME NEW x \in Station
      PROVE  /\ Line[x] \in Seq(Challenges) /\ Past[x] \in Nat /\ Past[x] <= Len(Line[x])
             /\ Held[x] \in SUBSET Challenges
  <2>1. CASE x = "challenge"
    BY <1>0, <2>1, StationFacts, LineAt, SeqTypes, HandlerTypes
       DEF Past, Held, TypeOK, Inbox, Services, Subject
  <2>2. CASE x = "handoff"
    <3>1. /\ log.handoffs \in Seq(Handoff) /\ Len(Ids(log.handoffs)) = Len(log.handoffs)
          /\ Ids(log.handoffs) \in Seq(Challenges)
      BY <1>0, SeqTypes, IdsTypes, IdsFacts
    <3>2. read["handoff"] \in Nat /\ read["handoff"] <= Len(log.handoffs)
      BY DEF TypeOK, Inbox, Services
    <3>3. hand.handoff.stage # "idle" => hand.handoff.msg.challenge_id \in Challenges
      BY <1>0, HandlerTypes, IdsTypes
    <3> QED
      BY <2>2, <3>1, <3>2, <3>3, StationFacts, LineAt DEF Past, Held, Subject
  <2>3. CASE x = "flag"
    <3>1. /\ log.flags \in Seq(Candidate) /\ Len(Ids(log.flags)) = Len(log.flags)
          /\ Ids(log.flags) \in Seq(Challenges)
      BY <1>0, SeqTypes, IdsTypes, IdsFacts
    <3>2. read["flag"] \in Nat /\ read["flag"] <= Len(log.flags)
      BY DEF TypeOK, Inbox, Services
    <3>3. hand.flag.stage # "idle" => hand.flag.msg.challenge_id \in Challenges
      BY <1>0, HandlerTypes, IdsTypes
    <3> QED
      BY <2>3, <3>1, <3>2, <3>3, StationFacts, LineAt DEF Past, Held, Subject
  <2>4. CASE x = "gate"
    <3>1. /\ log.candidates \in Seq(Candidate)
          /\ Len(Ids(log.candidates)) = Len(log.candidates)
          /\ Ids(log.candidates) \in Seq(Challenges)
      BY <1>0, SeqTypes, IdsTypes, IdsFacts
    <3>2. read["gate"] \in Nat /\ read["gate"] <= Len(log.candidates)
      BY DEF TypeOK, Inbox, Services
    <3>3. hand.gate.stage # "idle" => hand.gate.msg.challenge_id \in Challenges
      BY <1>0, HandlerTypes, IdsTypes
    <3> QED
      BY <2>4, <3>1, <3>2, <3>3, StationFacts, LineAt DEF Past, Held, Subject
  <2>5. CASE x \in Categories
    <3>1. /\ log.tasks[x] \in Seq(Task) /\ Len(Ids(log.tasks[x])) = Len(log.tasks[x])
          /\ Ids(log.tasks[x]) \in Seq(Challenges)
      BY <1>0, <2>5, SeqTypes, IdsTypes, IdsFacts
    <3>2. taken[x] \in Nat /\ taken[x] <= Len(log.tasks[x])
      BY <2>5 DEF TypeOK
    <3>3. spec[x].stage # "idle" => spec[x].task.challenge_id \in Challenges
      BY <2>5, SpecialistTypes
    <3> QED
      BY <2>5, <3>1, <3>2, <3>3, StationFacts, LineAt DEF Past, Held
  <2> QED
    BY <2>1, <2>2, <2>3, <2>4, <2>5, StationFacts DEF Station
<1> QED
  BY <1>1 DEF FlowTypes, Line, Past, Held

-----------------------------------------------------------------------------
(* What each of them does to the items of a challenge                      *)

\* An item is a place in a line that was not handed out yet, or place 0, the
\* hand.
At(x, i, c) ==
    \/ i \in (Past[x] + 1)..Len(Line[x]) /\ Line[x][i] = c
    \/ i = 0 /\ c \in Held[x]

LEMMA ItemsAt ==
    ASSUME NEW c, NEW p
    PROVE  p \in Items(c) <=> \E x \in Station, i \in Nat : p = <<x, i>> /\ At(x, i, c)
  BY DEF Items, At

LEMMA ItemAt ==
    ASSUME NEW c, NEW x \in Station, NEW i \in Nat
    PROVE  <<x, i>> \in Items(c) <=> At(x, i, c)
  BY DEF Items, At

LEMMA ItemsAtNext ==
    ASSUME NEW c, NEW p
    PROVE  p \in Items(c)' <=> \E x \in Station, i \in Nat : p = <<x, i>> /\ At(x, i, c)'
  BY DEF Items, At

\* An item stands for one challenge.
LEMMA OneChallenge ==
    ASSUME NEW c, NEW d, NEW x \in Station, NEW i \in Nat, FlowTypes,
           At(x, i, c), At(x, i, d), Held[x] = {} \/ \E e : Held[x] = {e}
    PROVE  c = d
<1>1. Past[x] \in Nat
  BY DEF FlowTypes
<1> QED
  BY <1>1 DEF At

LEMMA TakesItem ==
    ASSUME FlowTypes, NEW x \in Station, NEW c, Takes(x), c = Next1(x)
    PROVE  /\ c \in Challenges
           /\ <<x, Past[x] + 1>> \in Items(c)
           /\ Items(c)' = (Items(c) \ {<<x, Past[x] + 1>>}) \cup {<<x, 0>>}
           /\ \A d : d # c => Items(d)' = Items(d)
<1>1. /\ Past[x] \in Nat /\ Len(Line[x]) \in Nat /\ Past[x] < Len(Line[x])
      /\ Line[x] \in Seq(Challenges) /\ Held[x] = {}
      /\ Past' = [Past EXCEPT ![x] = @ + 1] /\ Line' = Line
      /\ Held' = [Held EXCEPT ![x] = {c}]
  BY DEF Takes, Hands, FlowTypes
<1>2. c = Line[x][Past[x] + 1] /\ c \in Challenges
  BY <1>1 DEF Next1
<1>3. /\ Past'[x] = Past[x] + 1 /\ Held'[x] = {c}
      /\ \A y \in Station \ {x} : Past'[y] = Past[y] /\ Held'[y] = Held[y]
  BY <1>1 DEF FlowTypes
<1>4. ASSUME NEW y \in Station, NEW i \in Nat, NEW d
      PROVE  At(y, i, d)' <=> \/ At(y, i, d) /\ ~(y = x /\ i = Past[x] + 1)
                              \/ y = x /\ i = 0 /\ d = c
  <2>1. CASE y # x
    BY <1>1, <1>3, <2>1 DEF At
  <2>2. CASE y = x
    BY <1>1, <1>3, <2>2 DEF At
  <2> QED
    BY <2>1, <2>2
<1>5. At(x, Past[x] + 1, c)
  BY <1>1, <1>2 DEF At
<1>6. \A d : At(x, Past[x] + 1, d) => d = c
  BY <1>1, <1>2 DEF At
<1>7. <<x, Past[x] + 1>> \in Items(c)
  BY <1>1, <1>5, ItemAt
<1>8. ASSUME NEW d, NEW p
      PROVE  p \in Items(d)' <=> \/ p \in Items(d) \ {<<x, Past[x] + 1>>}
                                 \/ p = <<x, 0>> /\ d = c
  BY <1>4, ItemsAt, ItemsAtNext
<1>9. Items(c)' = (Items(c) \ {<<x, Past[x] + 1>>}) \cup {<<x, 0>>}
  BY <1>8
<1>10. ASSUME NEW d, d # c PROVE Items(d)' = Items(d)
  <2>1. <<x, Past[x] + 1>> \notin Items(d)
    BY <1>1, <1>6, <1>10, ItemAt
  <2> QED
    BY <1>8, <1>10, <2>1
<1> QED
  BY <1>2, <1>7, <1>9, <1>10

LEMMA DropsItem ==
    ASSUME FlowTypes, NEW x \in Station, NEW c, Drops(x), c = Next1(x)
    PROVE  /\ c \in Challenges
           /\ <<x, Past[x] + 1>> \in Items(c)
           /\ Items(c)' = Items(c) \ {<<x, Past[x] + 1>>}
           /\ \A d : d # c => Items(d)' = Items(d)
<1>1. /\ Past[x] \in Nat /\ Len(Line[x]) \in Nat /\ Past[x] < Len(Line[x])
      /\ Line[x] \in Seq(Challenges) /\ Held[x] = {}
      /\ Past' = [Past EXCEPT ![x] = @ + 1] /\ Line' = Line /\ Held' = Held
  BY DEF Drops, Hands, FlowTypes
<1>2. c = Line[x][Past[x] + 1] /\ c \in Challenges
  BY <1>1 DEF Next1
<1>3. /\ Past'[x] = Past[x] + 1
      /\ \A y \in Station \ {x} : Past'[y] = Past[y]
  BY <1>1 DEF FlowTypes
<1>4. ASSUME NEW y \in Station, NEW i \in Nat, NEW d
      PROVE  At(y, i, d)' <=> At(y, i, d) /\ ~(y = x /\ i = Past[x] + 1)
  <2>1. CASE y # x
    BY <1>1, <1>3, <2>1 DEF At
  <2>2. CASE y = x
    BY <1>1, <1>3, <2>2 DEF At
  <2> QED
    BY <2>1, <2>2
<1>5. At(x, Past[x] + 1, c)
  BY <1>1, <1>2 DEF At
<1>6. \A d : At(x, Past[x] + 1, d) => d = c
  BY <1>1, <1>2 DEF At
<1>7. <<x, Past[x] + 1>> \in Items(c)
  BY <1>1, <1>5, ItemAt
<1>8. ASSUME NEW d, NEW p
      PROVE  p \in Items(d)' <=> p \in Items(d) \ {<<x, Past[x] + 1>>}
  BY <1>4, ItemsAt, ItemsAtNext
<1>10. ASSUME NEW d, d # c PROVE Items(d)' = Items(d)
  <2>1. <<x, Past[x] + 1>> \notin Items(d)
    BY <1>1, <1>6, <1>10, ItemAt
  <2> QED
    BY <1>8, <2>1
<1> QED
  BY <1>2, <1>7, <1>8, <1>10

LEMMA EndsItem ==
    ASSUME FlowTypes, NEW x \in Station, NEW c, Ends(x, c)
    PROVE  /\ c \in Challenges
           /\ <<x, 0>> \in Items(c)
           /\ Items(c)' = Items(c) \ {<<x, 0>>}
           /\ \A d : d # c => Items(d)' = Items(d)
<1>1. /\ Held[x] = {c} /\ c \in Challenges
      /\ Held' = [Held EXCEPT ![x] = {}] /\ Line' = Line /\ Past' = Past
  BY DEF Ends, FlowTypes
<1>3. /\ Held'[x] = {} /\ \A y \in Station \ {x} : Held'[y] = Held[y]
      /\ \A y \in Station : Past[y] \in Nat
  BY <1>1 DEF FlowTypes
<1>4. ASSUME NEW y \in Station, NEW i \in Nat, NEW d
      PROVE  At(y, i, d)' <=> At(y, i, d) /\ ~(y = x /\ i = 0)
  <2>1. CASE y # x
    BY <1>1, <1>3, <2>1 DEF At
  <2>2. CASE y = x
    BY <1>1, <1>3, <2>2 DEF At
  <2> QED
    BY <2>1, <2>2
<1>6. At(x, 0, c) /\ \A d : At(x, 0, d) => d = c
  BY <1>1, <1>3 DEF At
<1>7. <<x, 0>> \in Items(c) /\ \A d : d # c => <<x, 0>> \notin Items(d)
  BY <1>6, ItemAt
<1>8. ASSUME NEW d, NEW p
      PROVE  p \in Items(d)' <=> p \in Items(d) \ {<<x, 0>>}
  BY <1>4, ItemsAt, ItemsAtNext
<1> QED
  BY <1>1, <1>7, <1>8

LEMMA PassesItem ==
    ASSUME FlowTypes, NEW x \in Station, NEW y \in Station, NEW c, Passes(x, y, c)
    PROVE  /\ c \in Challenges
           /\ <<x, 0>> \in Items(c)
           /\ Items(c)' = (Items(c) \ {<<x, 0>>}) \cup {<<y, Len(Line[y]) + 1>>}
           /\ \A d : d # c => Items(d)' = Items(d)
<1>1. /\ Held[x] = {c} /\ c \in Challenges /\ Past' = Past
      /\ Held' = [Held EXCEPT ![x] = {}] /\ Line' = [Line EXCEPT ![y] = Append(@, c)]
  BY DEF Passes, FlowTypes
<1>2. /\ \A z \in Station : Past[z] \in Nat /\ Len(Line[z]) \in Nat /\ Past[z] <= Len(Line[z])
      /\ Line[y] \in Seq(Challenges)
  BY DEF FlowTypes
<1>3. /\ Held'[x] = {} /\ \A z \in Station \ {x} : Held'[z] = Held[z]
      /\ \A z \in Station \ {y} : Line'[z] = Line[z]
      /\ Line'[y] = Append(Line[y], c)
  BY <1>1 DEF FlowTypes
<1>4. /\ Len(Line'[y]) = Len(Line[y]) + 1 /\ Line'[y][Len(Line[y]) + 1] = c
      /\ \A i \in 1..Len(Line[y]) : Line'[y][i] = Line[y][i]
  BY <1>1, <1>2, <1>3
<1>5. ASSUME NEW z \in Station, NEW i \in Nat, NEW d
      PROVE  At(z, i, d)' <=> \/ At(z, i, d) /\ ~(z = x /\ i = 0)
                              \/ z = y /\ i = Len(Line[y]) + 1 /\ d = c
  <2> DEFINE waits  == i \in (Past[z] + 1)..Len(Line[z]) /\ Line[z][i] = d
             waits2 == i \in (Past[z] + 1)..Len(Line'[z]) /\ Line'[z][i] = d
             holds  == i = 0 /\ d \in Held[z]
             holds2 == i = 0 /\ d \in Held'[z]
  <2>1. waits2 <=> waits \/ (z = y /\ i = Len(Line[y]) + 1 /\ d = c)
    <3>1. CASE z # y
      BY <1>3, <3>1
    <3>2. CASE z = y
      BY <1>2, <1>4, <3>2
    <3> QED
      BY <3>1, <3>2
  <2>2. holds2 <=> holds /\ z # x
    BY <1>3
  <2>3. waits => i # 0
    BY <1>2
  <2>4. At(z, i, d) <=> waits \/ holds
    BY DEF At
  <2>5. At(z, i, d)' <=> waits2 \/ holds2
    BY <1>1 DEF At
  <2> HIDE DEF waits, waits2
  <2> QED
    BY <2>1, <2>2, <2>3, <2>4, <2>5
<1>6. At(x, 0, c) /\ \A d : At(x, 0, d) => d = c
  BY <1>1, <1>2 DEF At
<1>7. <<x, 0>> \in Items(c) /\ \A d : d # c => <<x, 0>> \notin Items(d)
  BY <1>6, ItemAt
<1>8. ASSUME NEW d, NEW p
      PROVE  p \in Items(d)' <=> \/ p \in Items(d) \ {<<x, 0>>}
                                 \/ p = <<y, Len(Line[y]) + 1>> /\ d = c
  <2>1. Len(Line[y]) + 1 \in Nat
    BY <1>2
  <2> QED
    BY <1>5, <2>1, ItemsAt, ItemsAtNext
<1> QED
  BY <1>1, <1>7, <1>8

LEMMA EntersItem ==
    ASSUME FlowTypes, NEW c \in Challenges, Enters(c)
    PROVE  /\ Items(c)' = Items(c) \cup {<<"challenge", Len(Line["challenge"]) + 1>>}
           /\ \A d : d # c => Items(d)' = Items(d)
<1> DEFINE y == "challenge"
<1>0. y \in Station
  BY StationFacts
<1>1. Past' = Past /\ Held' = Held /\ Line' = [Line EXCEPT ![y] = Append(@, c)]
  BY DEF Enters
<1>2. /\ \A z \in Station : Past[z] \in Nat /\ Len(Line[z]) \in Nat /\ Past[z] <= Len(Line[z])
      /\ Line[y] \in Seq(Challenges)
  BY <1>0 DEF FlowTypes
<1>3. /\ \A z \in Station \ {y} : Line'[z] = Line[z]
      /\ Line'[y] = Append(Line[y], c)
  BY <1>0, <1>1 DEF FlowTypes
<1>4. /\ Len(Line'[y]) = Len(Line[y]) + 1 /\ Line'[y][Len(Line[y]) + 1] = c
      /\ \A i \in 1..Len(Line[y]) : Line'[y][i] = Line[y][i]
  BY <1>1, <1>2, <1>3
<1> HIDE DEF y
<1>5. ASSUME NEW z \in Station, NEW i \in Nat, NEW d
      PROVE  At(z, i, d)' <=> At(z, i, d) \/ (z = y /\ i = Len(Line[y]) + 1 /\ d = c)
  <2>1. CASE z # y
    BY <1>1, <1>3, <2>1 DEF At
  <2>2. CASE z = y
    BY <1>0, <1>1, <1>2, <1>4, <2>2 DEF At
  <2> QED
    BY <2>1, <2>2
<1>8. ASSUME NEW d, NEW p
      PROVE  p \in Items(d)' <=> p \in Items(d) \/ (p = <<y, Len(Line[y]) + 1>> /\ d = c)
  <2>1. Len(Line[y]) + 1 \in Nat
    BY <1>0, <1>2
  <2> QED
    BY <1>0, <1>5, <2>1, ItemsAt, ItemsAtNext
<1>9. Items(c)' = Items(c) \cup {<<y, Len(Line[y]) + 1>>}
  BY <1>8
<1>10. ASSUME NEW d, d # c PROVE Items(d)' = Items(d)
  <2>1. \A p : p \in Items(d)' <=> p \in Items(d)
    BY <1>8, <1>10
  <2> QED
    BY <2>1
<1> QED
  BY <1>9, <1>10 DEF y

LEMMA KeepsItems == ASSUME Keeps PROVE \A d : Items(d)' = Items(d)
  BY DEF Keeps, Items

-----------------------------------------------------------------------------
(* What the steps of the runtime do to the stations                        *)

\* A trace leaves the other topics alone.
Elsewhere(l, l2) ==
    /\ l2.challenges = l.challenges /\ l2.handoffs = l.handoffs
    /\ l2.candidates = l.candidates /\ l2.flags = l.flags /\ l2.tasks = l.tasks

LEMMA TraceAside ==
    ASSUME NEW l \in Topics, NEW c, NEW kind
    PROVE  Elsewhere(l, WithTrace(l, c, kind))
  BY DEF Topics, WithTrace, Elsewhere

LEMMA LineStays ==
    ASSUME Elsewhere(log, log')
    PROVE  Line' = Line
  BY DEF Line, Elsewhere

LEMMA LineGrowsAt ==
    ASSUME TypeOK, FlowTypes, NEW y \in Station, NEW c,
           Line'[y] = Append(Line[y], c),
           \A x \in Station \ {y} : Line'[x] = Line[x]
    PROVE  Line' = [Line EXCEPT ![y] = Append(@, c)]
<1>1. DOMAIN Line = Station /\ DOMAIN Line' = Station
  BY DEF Line
<1>2. Line = [x \in Station |-> Line[x]] /\ Line' = [x \in Station |-> Line'[x]]
  BY DEF Line
<1> QED
  BY <1>1, <1>2

LEMMA LineChallenge ==
    ASSUME TypeOK, FlowTypes, NEW c \in Challenges,
           NEW l \in Topics, l = [log EXCEPT !.challenges = Append(@, c)], Elsewhere(l, log')
    PROVE  Line' = [Line EXCEPT !["challenge"] = Append(@, c)]
<1>1. /\ log'.challenges = Append(log.challenges, c) /\ log'.handoffs = log.handoffs
      /\ log'.candidates = log.candidates /\ log'.flags = log.flags /\ log'.tasks = log.tasks
  BY DEF TypeOK, Topics, Elsewhere
<1>2. Line'["challenge"] = Append(Line["challenge"], c)
  BY <1>1, StationFacts DEF Line
<1>3. \A x \in Station \ {"challenge"} : Line'[x] = Line[x]
  BY <1>1 DEF Line
<1> QED
  BY <1>2, <1>3, LineGrowsAt, StationFacts

LEMMA LineHandoff ==
    ASSUME TypeOK, FlowTypes, NEW m \in Handoff,
           NEW l \in Topics, l = [log EXCEPT !.handoffs = Append(@, m)], Elsewhere(l, log')
    PROVE  Line' = [Line EXCEPT !["handoff"] = Append(@, m.challenge_id)]
<1>1. /\ log'.handoffs = Append(log.handoffs, m) /\ log'.challenges = log.challenges
      /\ log'.candidates = log.candidates /\ log'.flags = log.flags /\ log'.tasks = log.tasks
  BY DEF TypeOK, Topics, Elsewhere
<1>0. log.handoffs \in Seq(Handoff)
  BY SeqTypes DEF TypeOK
<1>2. Ids(Append(log.handoffs, m)) = Append(Ids(log.handoffs), m.challenge_id)
  BY <1>0, IdsTypes, IdsFacts
<1>3. Line'["handoff"] = Append(Line["handoff"], m.challenge_id)
  BY <1>1, <1>2, StationFacts DEF Line
<1>4. \A x \in Station \ {"handoff"} : Line'[x] = Line[x]
  BY <1>1 DEF Line
<1> QED
  BY <1>3, <1>4, LineGrowsAt, StationFacts

LEMMA LineFlag ==
    ASSUME TypeOK, FlowTypes, NEW m \in Candidate,
           NEW l \in Topics, l = [log EXCEPT !.flags = Append(@, m)], Elsewhere(l, log')
    PROVE  Line' = [Line EXCEPT !["flag"] = Append(@, m.challenge_id)]
<1>1. /\ log'.flags = Append(log.flags, m) /\ log'.challenges = log.challenges
      /\ log'.candidates = log.candidates /\ log'.handoffs = log.handoffs
      /\ log'.tasks = log.tasks
  BY DEF TypeOK, Topics, Elsewhere
<1>0. log.flags \in Seq(Candidate)
  BY SeqTypes DEF TypeOK
<1>2. Ids(Append(log.flags, m)) = Append(Ids(log.flags), m.challenge_id)
  BY <1>0, IdsTypes, IdsFacts
<1>3. Line'["flag"] = Append(Line["flag"], m.challenge_id)
  BY <1>1, <1>2, StationFacts DEF Line
<1>4. \A x \in Station \ {"flag"} : Line'[x] = Line[x]
  BY <1>1 DEF Line
<1> QED
  BY <1>3, <1>4, LineGrowsAt, StationFacts

LEMMA LineCandidate ==
    ASSUME TypeOK, FlowTypes, NEW m \in Candidate,
           NEW l \in Topics, l = [log EXCEPT !.candidates = Append(@, m)], Elsewhere(l, log')
    PROVE  Line' = [Line EXCEPT !["gate"] = Append(@, m.challenge_id)]
<1>1. /\ log'.candidates = Append(log.candidates, m) /\ log'.challenges = log.challenges
      /\ log'.flags = log.flags /\ log'.handoffs = log.handoffs /\ log'.tasks = log.tasks
  BY DEF TypeOK, Topics, Elsewhere
<1>0. log.candidates \in Seq(Candidate)
  BY SeqTypes DEF TypeOK
<1>2. Ids(Append(log.candidates, m)) = Append(Ids(log.candidates), m.challenge_id)
  BY <1>0, IdsTypes, IdsFacts
<1>3. Line'["gate"] = Append(Line["gate"], m.challenge_id)
  BY <1>1, <1>2, StationFacts DEF Line
<1>4. \A x \in Station \ {"gate"} : Line'[x] = Line[x]
  BY <1>1 DEF Line
<1> QED
  BY <1>3, <1>4, LineGrowsAt, StationFacts

LEMMA LineTask ==
    ASSUME TypeOK, FlowTypes, NEW k \in Categories, NEW m \in Task,
           NEW l \in Topics, l = [log EXCEPT !.tasks[k] = Append(@, m)], Elsewhere(l, log')
    PROVE  Line' = [Line EXCEPT ![k] = Append(@, m.challenge_id)]
<1>1. /\ log'.tasks = [log.tasks EXCEPT ![k] = Append(@, m)] /\ log'.challenges = log.challenges
      /\ log'.candidates = log.candidates /\ log'.flags = log.flags
      /\ log'.handoffs = log.handoffs
  BY DEF TypeOK, Topics, Elsewhere
<1>2. log.tasks \in [Categories -> Seq(Task)]
  BY SeqTypes DEF TypeOK
<1>3. Ids(Append(log.tasks[k], m)) = Append(Ids(log.tasks[k]), m.challenge_id)
  BY <1>2, IdsTypes, IdsFacts
<1>4. /\ log'.tasks[k] = Append(log.tasks[k], m)
      /\ \A j \in Categories \ {k} : log'.tasks[j] = log.tasks[j]
  BY <1>1, <1>2
<1>5. k \in Station /\ k \notin Workers /\ k # "challenge" /\ k # "handoff" /\ k # "flag" /\ k # "gate"
  BY StationFacts
<1>6. Line[k] = Ids(log.tasks[k]) /\ Line'[k] = Ids(log'.tasks[k])
  BY <1>5 DEF Line
<1>7. ASSUME NEW x \in Station \ {k} PROVE Line'[x] = Line[x]
  <2>1. CASE x \in Workers
    BY <1>1, <2>1, StationFacts DEF Line
  <2>2. CASE x \notin Workers
    <3>1. x \in Categories \ {k}
      BY <2>2 DEF Station
    <3>2. Line[x] = Ids(log.tasks[x]) /\ Line'[x] = Ids(log'.tasks[x])
      BY <2>2, StationFacts DEF Line
    <3> QED
      BY <1>4, <3>1, <3>2
  <2> QED
    BY <2>1, <2>2
<1>8. Line'[k] = Append(Line[k], m.challenge_id)
  BY <1>3, <1>4, <1>6
<1> QED
  BY <1>5, <1>7, <1>8, LineGrowsAt

\* A handler that changes leaves the others alone.
OnlyHand(x, h) == hand'[x] = h /\ \A y \in Services \ {x} : hand'[y] = hand[y]

LEMMA HandAt ==
    ASSUME TypeOK, NEW h
    PROVE  /\ hand' = [hand EXCEPT !.challenge = h] => OnlyHand("challenge", h)
           /\ hand' = [hand EXCEPT !.handoff = h] => OnlyHand("handoff", h)
           /\ hand' = [hand EXCEPT !.flag = h] => OnlyHand("flag", h)
           /\ hand' = [hand EXCEPT !.trace = h] => OnlyHand("trace", h)
           /\ hand' = [hand EXCEPT !.gate = h] => OnlyHand("gate", h)
  BY DEF TypeOK, Handlers, Services, OnlyHand

\* The three handlers that have two stages.
LEMMA StageAt ==
    ASSUME TypeOK, NEW w
    PROVE  /\ hand.challenge.stage = "store" /\ hand' = [hand EXCEPT !.challenge.stage = w]
              => OnlyHand("challenge", [stage |-> w, msg |-> hand.challenge.msg])
           /\ hand.flag.stage = "write" /\ hand' = [hand EXCEPT !.flag.stage = w]
              => OnlyHand("flag", [stage |-> w, msg |-> hand.flag.msg,
                                   board |-> hand.flag.board])
           /\ hand.gate.stage = "trace" /\ hand' = [hand EXCEPT !.gate.stage = w]
              => OnlyHand("gate", [stage |-> w, msg |-> hand.gate.msg])
  BY DEF TypeOK, Handlers, Services, Idle, OnlyHand

LEMMA HeldWorker ==
    ASSUME NEW x \in Workers, NEW h, OnlyHand(x, h), spec' = spec
    PROVE  Held' = [Held EXCEPT ![x] = IF h.stage = "idle" THEN {} ELSE {Subject(x, h.msg)}]
<1>1. hand'[x] = h /\ \A y \in Workers \ {x} : hand'[y] = hand[y]
  BY StationFacts DEF OnlyHand
<1>2. x \in Station /\ \A y \in Station : y \in Workers \/ y \notin Workers
  BY StationFacts
<1>3. Held'[x] = IF h.stage = "idle" THEN {} ELSE {Subject(x, h.msg)}
  BY <1>1, <1>2 DEF Held, Subject
<1>4. ASSUME NEW y \in Station \ {x} PROVE Held'[y] = Held[y]
  BY <1>1, <1>4 DEF Held, Subject
<1>5. /\ Held = [y \in Station |-> Held[y]] /\ Held' = [y \in Station |-> Held'[y]]
  BY DEF Held
<1> QED
  BY <1>2, <1>3, <1>4, <1>5

LEMMA HeldTrace ==
    ASSUME NEW h, OnlyHand("trace", h), spec' = spec
    PROVE  Held' = Held
<1>1. \A y \in Workers : hand'[y] = hand[y]
  BY StationFacts DEF OnlyHand
<1> QED
  BY <1>1 DEF Held, Subject

LEMMA HeldCategory ==
    ASSUME TypeOK, NEW k \in Categories, NEW h, spec' = [spec EXCEPT ![k] = h], hand' = hand
    PROVE  Held' = [Held EXCEPT ![k] = IF h.stage = "idle" THEN {} ELSE {h.task.challenge_id}]
<1>1. spec'[k] = h /\ \A y \in Categories \ {k} : spec'[y] = spec[y]
  BY DEF TypeOK
<1>2. /\ k \in Station /\ k \notin Workers
      /\ \A y \in Station : y \in Workers \/ y \in Categories
  BY StationFacts DEF Station
<1>3. Held'[k] = IF h.stage = "idle" THEN {} ELSE {h.task.challenge_id}
  BY <1>1, <1>2 DEF Held
<1>4. ASSUME NEW y \in Station \ {k} PROVE Held'[y] = Held[y]
  BY <1>1, <1>2, <1>4 DEF Held, Subject
<1>5. /\ Held = [y \in Station |-> Held[y]] /\ Held' = [y \in Station |-> Held'[y]]
  BY DEF Held
<1> QED
  BY <1>2, <1>3, <1>4, <1>5

LEMMA PastStays == ASSUME UNCHANGED <<read, taken>> PROVE Past' = Past
  BY DEF Past

LEMMA PastWorker ==
    ASSUME TypeOK, NEW x \in Workers, read' = [read EXCEPT ![x] = @ + 1], taken' = taken
    PROVE  Past' = [Past EXCEPT ![x] = @ + 1]
<1>1. read'[x] = read[x] + 1 /\ \A y \in Services \ {x} : read'[y] = read[y]
  BY StationFacts DEF TypeOK
<1>2. Past' = [y \in Station |-> IF y = x THEN Past[y] + 1 ELSE Past[y]]
  BY <1>1, StationFacts DEF Past
<1> QED
  BY <1>2, StationFacts DEF Past

LEMMA PastTrace ==
    ASSUME TypeOK, read' = [read EXCEPT !["trace"] = @ + 1], taken' = taken
    PROVE  Past' = Past
  BY StationFacts DEF TypeOK, Past, Services

LEMMA PastCategory ==
    ASSUME TypeOK, NEW k \in Categories, taken' = [taken EXCEPT ![k] = @ + 1], read' = read
    PROVE  Past' = [Past EXCEPT ![k] = @ + 1]
<1>1. taken'[k] = taken[k] + 1 /\ \A y \in Categories \ {k} : taken'[y] = taken[y]
  BY DEF TypeOK
<1>2. Past' = [y \in Station |-> IF y = k THEN Past[y] + 1 ELSE Past[y]]
  BY <1>1, StationFacts DEF Past, Station
<1> QED
  BY <1>2, StationFacts DEF Past

-----------------------------------------------------------------------------
(* The steps of the runtime                                                *)

LEMMA InboxLine ==
    ASSUME TypeOK, NEW s \in Workers
    PROVE  /\ Len(Line[s]) = Len(Inbox(s))
           /\ \A i \in 1..Len(Inbox(s)) : Line[s][i] = Subject(s, Inbox(s)[i])
<1>0. log \in Topics
  BY DEF TypeOK
<1>1. CASE s = "challenge"
  BY <1>0, <1>1, LineAt, SeqTypes DEF Inbox, Subject
<1>2. CASE s = "handoff"
  <2>1. log.handoffs \in Seq(Handoff)
    BY <1>0, SeqTypes
  <2>2. /\ Len(Ids(log.handoffs)) = Len(log.handoffs)
        /\ \A i \in 1..Len(log.handoffs) : Ids(log.handoffs)[i] = log.handoffs[i].challenge_id
    BY <2>1, IdsTypes, IdsFacts
  <2> QED
    BY <1>2, <2>2, LineAt DEF Inbox, Subject
<1>3. CASE s = "flag"
  <2>1. log.flags \in Seq(Candidate)
    BY <1>0, SeqTypes
  <2>2. /\ Len(Ids(log.flags)) = Len(log.flags)
        /\ \A i \in 1..Len(log.flags) : Ids(log.flags)[i] = log.flags[i].challenge_id
    BY <2>1, IdsTypes, IdsFacts
  <2> QED
    BY <1>3, <2>2, LineAt DEF Inbox, Subject
<1>4. CASE s = "gate"
  <2>1. log.candidates \in Seq(Candidate)
    BY <1>0, SeqTypes
  <2>2. /\ Len(Ids(log.candidates)) = Len(log.candidates)
        /\ \A i \in 1..Len(log.candidates) :
              Ids(log.candidates)[i] = log.candidates[i].challenge_id
    BY <2>1, IdsTypes, IdsFacts
  <2> QED
    BY <1>4, <2>2, LineAt DEF Inbox, Subject
<1> QED
  BY <1>1, <1>2, <1>3, <1>4, StationFacts

LEMMA TaskLine ==
    ASSUME TypeOK, NEW k \in Categories
    PROVE  /\ Len(Line[k]) = Len(log.tasks[k])
           /\ \A i \in 1..Len(log.tasks[k]) : Line[k][i] = log.tasks[k][i].challenge_id
<1>1. log.tasks[k] \in Seq(Task)
  BY SeqTypes DEF TypeOK
<1>2. /\ Len(Ids(log.tasks[k])) = Len(log.tasks[k])
      /\ \A i \in 1..Len(log.tasks[k]) : Ids(log.tasks[k])[i] = log.tasks[k][i].challenge_id
  BY <1>1, IdsTypes, IdsFacts
<1> QED
  BY <1>2, LineAt

\* A service that is handed a message is handed the next one of its station.
LEMMA ReceivesHands ==
    ASSUME TypeOK, FlowTypes, NEW s \in Workers, NEW m, Receives(s, m),
           Elsewhere(log, log'), UNCHANGED taken
    PROVE  /\ Hands(s) /\ Next1(s) = Subject(s, m)
<1>0. s \in Station /\ s \in Services
  BY StationFacts
<1>1. /\ hand[s] = Idle /\ read[s] < Len(Inbox(s)) /\ m = Inbox(s)[read[s] + 1]
      /\ read' = [read EXCEPT ![s] = @ + 1]
  BY DEF Receives
<1>2. Past[s] = read[s] /\ Past[s] \in Nat
  BY <1>0 DEF Past, FlowTypes
<1>3. Past[s] < Len(Line[s]) /\ Next1(s) = Subject(s, m)
  <2>1. Len(Inbox(s)) \in Nat
    BY <1>0, SeqTypes DEF Inbox, Services, TypeOK
  <2>2. read[s] + 1 \in 1..Len(Inbox(s))
    BY <1>1, <1>2, <2>1
  <2> QED
    BY <1>1, <1>2, <2>2, InboxLine DEF Next1
<1>4. Held[s] = {}
  BY <1>0, <1>1 DEF Held, Idle
<1>5. Line' = Line
  BY LineStays
<1>6. Past' = [Past EXCEPT ![s] = @ + 1]
  BY <1>1, PastWorker
<1> QED
  BY <1>3, <1>4, <1>5, <1>6 DEF Hands

LEMMA HoldsWorker ==
    ASSUME NEW s \in Workers, hand[s].stage # "idle"
    PROVE  Held[s] = {Subject(s, hand[s].msg)}
  BY StationFacts DEF Held

LEMMA HoldsCategory ==
    ASSUME NEW k \in Categories, spec[k].stage # "idle"
    PROVE  Held[k] = {spec[k].task.challenge_id}
  BY StationFacts DEF Held

-----------------------------------------------------------------------------
(* What the traces say of a challenge                                      *)

KindsIn(l, d) == {t.kind : t \in {e \in Range(l.traces) : e.challenge_id = d}}
Tells(c, kind) ==
    \A d : Kinds(d)' = IF d = c /\ kind \in Traced THEN Kinds(d) \cup {kind} ELSE Kinds(d)
Mute == \A d : Kinds(d)' = Kinds(d)

LEMMA KindsTold ==
    ASSUME NEW l \in Topics, NEW c \in Challenges, NEW kind \in TraceKind, NEW d
    PROVE  KindsIn(WithTrace(l, c, kind), d) =
             IF d = c /\ kind \in Traced THEN KindsIn(l, d) \cup {kind} ELSE KindsIn(l, d)
<1>1. CASE kind \notin Traced
  BY <1>1 DEF WithTrace
<1>2. CASE kind \in Traced
  <2> DEFINE e == Trace(c, kind)
             l2 == [l EXCEPT !.traces = Append(@, e)]
  <2>1. e \in TraceEvent /\ e.kind = kind /\ e.challenge_id = c
    BY DEF Trace, TraceEvent
  <2>2. WithTrace(l, c, kind) = l2
    BY <1>2 DEF WithTrace
  <2>3. l2.traces = Append(l.traces, e)
    BY DEF Topics
  <2>4. Range(l2.traces) = Range(l.traces) \cup {e}
    BY <2>1, <2>3, SeqTypes, RangeOfAppend
  <2> HIDE DEF e, l2
  <2>5. KindsIn(l2, d) = IF d = c THEN KindsIn(l, d) \cup {kind} ELSE KindsIn(l, d)
    BY <2>1, <2>4 DEF KindsIn
  <2> QED
    BY <1>2, <2>2, <2>5
<1> QED
  BY <1>1, <1>2

LEMMA KindsAre == \A d : Kinds(d) = KindsIn(log, d)
  BY DEF Kinds, KindsIn

LEMMA KindsStay ==
    ASSUME log'.traces = log.traces
    PROVE  Mute
  BY DEF Mute, Kinds

LEMMA KindsGrow ==
    ASSUME NEW l \in Topics, l.traces = log.traces,
           NEW c \in Challenges, NEW kind \in TraceKind, log' = WithTrace(l, c, kind)
    PROVE  Tells(c, kind)
<1>1. ASSUME NEW d
      PROVE  Kinds(d)' = IF d = c /\ kind \in Traced THEN Kinds(d) \cup {kind} ELSE Kinds(d)
  <2>1. KindsIn(l, d) = Kinds(d)
    BY KindsAre DEF KindsIn
  <2>2. Kinds(d)' = KindsIn(WithTrace(l, c, kind), d)
    BY DEF Kinds, KindsIn
  <2> QED
    BY <2>1, <2>2, KindsTold
<1> QED
  BY <1>1 DEF Tells

-----------------------------------------------------------------------------
(* Each action as a step of the stations and as what it says               *)

\* The topics with a message more are topics, and the traces are as they were.
LEMMA PublishAside ==
    ASSUME NEW l \in Topics
    PROVE  /\ \A c \in Challenges : LET m == [l EXCEPT !.challenges = Append(@, c)]
                                    IN  m \in Topics /\ m.traces = l.traces
           /\ \A c \in Handoff : LET m == [l EXCEPT !.handoffs = Append(@, c)]
                                 IN  m \in Topics /\ m.traces = l.traces
           /\ \A c \in Candidate : LET m == [l EXCEPT !.candidates = Append(@, c)]
                                   IN  m \in Topics /\ m.traces = l.traces
           /\ \A c \in Candidate : LET m == [l EXCEPT !.flags = Append(@, c)]
                                   IN  m \in Topics /\ m.traces = l.traces
           /\ \A k \in Categories, t \in Task :
                LET m == [l EXCEPT !.tasks[k] = Append(@, t)]
                IN  m \in Topics /\ m.traces = l.traces
<1>1. ASSUME NEW c \in Challenges
      PROVE  LET m == [l EXCEPT !.challenges = Append(@, c)]
             IN  m \in Topics /\ m.traces = l.traces
  BY ChallengeGrows DEF Grows, Topics
<1>2. ASSUME NEW c \in Handoff
      PROVE  LET m == [l EXCEPT !.handoffs = Append(@, c)]
             IN  m \in Topics /\ m.traces = l.traces
  BY HandoffGrows DEF Grows, Topics
<1>3. ASSUME NEW c \in Candidate
      PROVE  LET m == [l EXCEPT !.candidates = Append(@, c)]
             IN  m \in Topics /\ m.traces = l.traces
  BY CandidateGrows DEF Grows, Topics
<1>4. ASSUME NEW c \in Candidate
      PROVE  LET m == [l EXCEPT !.flags = Append(@, c)]
             IN  m \in Topics /\ m.traces = l.traces
  BY FlagGrows DEF Grows, Topics
<1>5. ASSUME NEW k \in Categories, NEW t \in Task
      PROVE  LET m == [l EXCEPT !.tasks[k] = Append(@, t)]
             IN  m \in Topics /\ m.traces = l.traces
  BY TaskGrows DEF Grows, Topics
<1> QED
  BY <1>1, <1>2, <1>3, <1>4, <1>5

LEMMA SubmitFlow ==
    ASSUME TypeOK, FlowTypes, NEW c \in Challenges, Submit(c)
    PROVE  Enters(c) /\ Mute
<1> DEFINE l == [log EXCEPT !.challenges = Append(@, c)]
<1>1. /\ log \in Topics /\ l \in Topics /\ l.traces = log.traces /\ log' = l
      /\ UNCHANGED <<read, taken, hand, spec>>
  BY PublishAside DEF TypeOK, Submit
<1>2. Elsewhere(l, log')
  BY <1>1 DEF Elsewhere
<1>3. Line' = [Line EXCEPT !["challenge"] = Append(@, c)]
  BY <1>1, <1>2, LineChallenge
<1>4. Past' = Past /\ Held' = Held
  BY <1>1 DEF Past, Held
<1> QED
  BY <1>1, <1>3, <1>4, KindsStay DEF Enters

LEMMA OnChallengeFlow ==
    ASSUME TypeOK, FlowTypes, OnChallenge
    PROVE  \E c \in Challenges :
             /\ c = Next1("challenge") /\ Receives("challenge", c)
             /\ \/ /\ Takes("challenge") /\ Mute
                   /\ hand' = [hand EXCEPT !.challenge = [stage |-> "store", msg |-> c]]
                \/ /\ Drops("challenge") /\ Tells(c, "challenge_rejected") /\ UNCHANGED hand
<1>1. PICK c \in Challenges :
        /\ Receives("challenge", c)
        /\ IF world[c].valid
           THEN /\ hand' = [hand EXCEPT !.challenge = [stage |-> "store", msg |-> c]]
                /\ UNCHANGED log
           ELSE /\ log' = WithTrace(log, c, "challenge_rejected")
                /\ UNCHANGED hand
        /\ UNCHANGED <<world, taken, resumed, spec, board, crashes>>
  BY DEF OnChallenge
<1>2. log \in Topics /\ "challenge" \in Workers
  BY StationFacts DEF TypeOK
<1>3. Elsewhere(log, log')
  BY <1>1, <1>2, TraceAside DEF Elsewhere
<1>4. Hands("challenge") /\ Next1("challenge") = c
  BY <1>1, <1>2, <1>3, ReceivesHands DEF Subject
<1>5. CASE world[c].valid
  <2>1. hand' = [hand EXCEPT !.challenge = [stage |-> "store", msg |-> c]] /\ spec' = spec
        /\ log' = log
    BY <1>1, <1>5
  <2> DEFINE h == [stage |-> "store", msg |-> c]
  <2>4. OnlyHand("challenge", h) /\ h.stage # "idle" /\ Subject("challenge", h.msg) = c
    BY <2>1, HandAt DEF Subject
  <2> HIDE DEF h
  <2>2. Held' = [Held EXCEPT !["challenge"] = {c}]
    BY <1>2, <2>1, <2>4, HeldWorker
  <2>3. Mute
    BY <2>1, KindsStay
  <2> QED
    BY <1>1, <1>4, <2>1, <2>2, <2>3 DEF Takes
<1>6. CASE ~world[c].valid
  <2>1. hand' = hand /\ spec' = spec /\ log' = WithTrace(log, c, "challenge_rejected")
    BY <1>1, <1>6
  <2>2. Held' = Held
    BY <2>1 DEF Held
  <2>3. Tells(c, "challenge_rejected")
    BY <1>2, <2>1, KindsGrow, TraceKinds
  <2> QED
    BY <1>1, <1>4, <2>1, <2>2, <2>3 DEF Drops
<1> QED
  BY <1>5, <1>6

LEMMA StoreBoardFlow ==
    ASSUME TypeOK, FlowTypes, StoreBoard
    PROVE  Keeps /\ Mute
<1>1. /\ hand' = [hand EXCEPT !.challenge.stage = "dispatch"]
      /\ hand.challenge.stage = "store" /\ UNCHANGED <<log, read, taken, spec>>
  BY DEF StoreBoard
<1>2. /\ OnlyHand("challenge", [stage |-> "dispatch", msg |-> hand.challenge.msg])
      /\ "challenge" \in Workers
  BY <1>1, StageAt, StationFacts
<1>4. Held' = [Held EXCEPT !["challenge"] = {hand.challenge.msg}]
  <2> DEFINE h == [stage |-> "dispatch", msg |-> hand.challenge.msg]
  <2>1. h.stage # "idle" /\ Subject("challenge", h.msg) = hand.challenge.msg
    BY DEF Subject
  <2>2. OnlyHand("challenge", h)
    BY <1>2
  <2> HIDE DEF h
  <2> QED
    BY <1>1, <1>2, <2>1, <2>2, HeldWorker
<1>5. Held["challenge"] = {hand.challenge.msg}
  BY <1>1, <1>2, HoldsWorker DEF Subject
<1>6. Held' = Held
  BY <1>2, <1>4, <1>5, StationFacts DEF FlowTypes
<1>7. Line' = Line /\ Past' = Past
  BY <1>1 DEF Line, Past
<1> QED
  BY <1>1, <1>6, <1>7, KindsStay DEF Keeps

LEMMA BusyWorker ==
    ASSUME NEW x \in Workers, NEW h, NEW c, OnlyHand(x, h), spec' = spec,
           h.stage # "idle", Subject(x, h.msg) = c
    PROVE  Held' = [Held EXCEPT ![x] = {c}]
  BY HeldWorker

LEMMA FreeWorker ==
    ASSUME NEW x \in Workers, OnlyHand(x, Idle), spec' = spec
    PROVE  Held' = [Held EXCEPT ![x] = {}]
<1> DEFINE h == Idle
<1>1. h.stage = "idle" /\ OnlyHand(x, h)
  BY DEF Idle
<1> HIDE DEF h
<1> QED
  BY <1>1, HeldWorker

LEMMA DispatchTaskFlow ==
    ASSUME TypeOK, FlowTypes, DispatchTask
    PROVE  LET c == hand.challenge.msg
               k == Route(world[c])
           IN  /\ hand.challenge.stage = "dispatch" /\ c \in Challenges /\ k \in Categories
               /\ Passes("challenge", k, c) /\ Tells(c, "routed")
<1> DEFINE c == hand.challenge.msg
           k == Route(world[c])
           t == [challenge_id |-> c, flag_format |-> world[c].flag_format, handoff_depth |-> 0]
           l == [log EXCEPT !.tasks[k] = Append(@, t)]
<1>1. /\ hand.challenge.stage = "dispatch" /\ log' = WithTrace(l, c, "routed")
      /\ hand' = [hand EXCEPT !.challenge = Idle] /\ UNCHANGED <<read, taken, spec>>
  BY DEF DispatchTask
<1>2. c \in Challenges /\ "challenge" \in Workers /\ log \in Topics
  BY <1>1, HandlerTypes, StationFacts DEF TypeOK
<1>3. k \in Categories /\ t \in Task /\ t.challenge_id = c
  BY <1>2, RouteType DEF Task
<1> HIDE DEF k, t
<1>4. l \in Topics /\ l.traces = log.traces
  BY <1>2, <1>3, PublishAside
<1> HIDE DEF c
<1>5. Elsewhere(l, log') /\ Tells(c, "routed")
  BY <1>1, <1>2, <1>4, TraceAside, KindsGrow, TraceKinds
<1>6. Line' = [Line EXCEPT ![k] = Append(@, c)]
  <2>1. Line' = [Line EXCEPT ![k] = Append(@, t.challenge_id)]
    BY <1>3, <1>4, <1>5, LineTask
  <2> QED
    BY <1>3, <2>1
<1>7. Held["challenge"] = {c}
  BY <1>1, <1>2, HoldsWorker DEF Subject, c
<1>8. Held' = [Held EXCEPT !["challenge"] = {}]
  BY <1>1, <1>2, HandAt, FreeWorker
<1>9. Past' = Past
  BY <1>1, PastStays
<1>10. hand.challenge.stage = "dispatch" /\ Passes("challenge", k, c)
  BY <1>1, <1>6, <1>7, <1>8, <1>9 DEF Passes
<1> QED
  BY <1>2, <1>3, <1>5, <1>10 DEF c, k

LEMMA OnHandoffFlow ==
    ASSUME TypeOK, FlowTypes, OnHandoff
    PROVE  Takes("handoff") /\ Mute
<1>1. PICK m \in Range(log.handoffs) :
        /\ Receives("handoff", m)
        /\ hand' = [hand EXCEPT !.handoff = [stage |-> "route", msg |-> m]]
        /\ UNCHANGED <<world, log, taken, resumed, spec, board, crashes>>
  BY DEF OnHandoff
<1>2. log \in Topics /\ "handoff" \in Workers
  BY StationFacts DEF TypeOK
<1>3. Elsewhere(log, log')
  BY <1>1 DEF Elsewhere
<1>4. Hands("handoff") /\ Next1("handoff") = Subject("handoff", m)
  BY <1>1, <1>2, <1>3, ReceivesHands
<1> DEFINE h == [stage |-> "route", msg |-> m]
<1>5. OnlyHand("handoff", h) /\ h.stage # "idle" /\ h.msg = m
  BY <1>1, HandAt
<1> HIDE DEF h
<1>6. Held' = [Held EXCEPT !["handoff"] = {Next1("handoff")}]
  BY <1>1, <1>2, <1>4, <1>5, BusyWorker
<1> QED
  BY <1>1, <1>4, <1>6, KindsStay DEF Takes

LEMMA RouteHandoffFlow ==
    ASSUME TypeOK, FlowTypes, RouteHandoff
    PROVE  LET m == hand.handoff.msg
           IN  /\ hand.handoff.stage = "route" /\ m \in Handoff
               /\ \/ Passes("handoff", m.target, m.challenge_id) /\ Mute
                  \/ /\ Ends("handoff", m.challenge_id)
                     /\ Tells(m.challenge_id, "handoff_depth_exceeded")
<1> DEFINE m == hand.handoff.msg
           t == [ challenge_id |-> m.challenge_id, flag_format |-> "none",
                  handoff_depth |-> m.handoff_depth + 1 ]
           l == [log EXCEPT !.tasks[m.target] = Append(@, t)]
<1>1. /\ hand.handoff.stage = "route"
      /\ log' = IF m.handoff_depth >= MaxHandoffDepth
                THEN WithTrace(log, m.challenge_id, "handoff_depth_exceeded")
                ELSE l
      /\ hand' = [hand EXCEPT !.handoff = Idle] /\ UNCHANGED <<read, taken, spec>>
  BY DEF RouteHandoff
<1>2. m \in Handoff /\ "handoff" \in Workers /\ log \in Topics
  BY <1>1, HandlerTypes, StationFacts DEF TypeOK
<1>3. /\ m.target \in Categories /\ t \in Task /\ t.challenge_id = m.challenge_id
      /\ m.challenge_id \in Challenges
  BY <1>2 DEF Task, Handoff
<1>4. l \in Topics /\ l.traces = log.traces
  <2> HIDE DEF t, m
  <2> QED
    BY <1>2, <1>3, PublishAside
<1>7. Held["handoff"] = {m.challenge_id}
  BY <1>1, <1>2, HoldsWorker DEF Subject
<1> HIDE DEF m, t
<1>8. Held' = [Held EXCEPT !["handoff"] = {}]
  BY <1>1, <1>2, HandAt, FreeWorker
<1>9. Past' = Past
  BY <1>1, PastStays
<1>10. CASE m.handoff_depth >= MaxHandoffDepth
  <2>1. log' = WithTrace(log, m.challenge_id, "handoff_depth_exceeded")
    BY <1>1, <1>10
  <2>2. Line' = Line /\ Tells(m.challenge_id, "handoff_depth_exceeded")
    BY <1>2, <1>3, <2>1, TraceAside, LineStays, KindsGrow, TraceKinds
  <2>3. Ends("handoff", m.challenge_id)
    BY <1>7, <1>8, <1>9, <2>2 DEF Ends
  <2> QED
    BY <1>1, <1>2, <2>2, <2>3 DEF m
<1>11. CASE ~(m.handoff_depth >= MaxHandoffDepth)
  <2>1. log' = l
    BY <1>1, <1>11
  <2>2. Elsewhere(l, log') /\ log'.traces = log.traces
    BY <1>4, <2>1 DEF Elsewhere
  <2>3. Line' = [Line EXCEPT ![m.target] = Append(@, t.challenge_id)]
    BY <1>3, <1>4, <2>2, LineTask
  <2>4. Passes("handoff", m.target, m.challenge_id) /\ Mute
    BY <1>3, <1>7, <1>8, <1>9, <2>2, <2>3, KindsStay DEF Passes
  <2> QED
    BY <1>1, <1>2, <2>4 DEF m
<1> QED
  BY <1>10, <1>11

LEMMA OnFlagFlow ==
    ASSUME TypeOK, FlowTypes, OnFlag
    PROVE  \E f \in Range(log.flags) :
             /\ Receives("flag", f) /\ Next1("flag") = f.challenge_id /\ Mute
             /\ \/ Takes("flag") /\ f.status = "solved"
                \/ Drops("flag") /\ f.status # "solved" /\ UNCHANGED hand
<1>1. PICK f \in Range(log.flags) :
        /\ Receives("flag", f)
        /\ hand' = IF f.status = "solved"
                   THEN [hand EXCEPT !.flag = [ stage |-> "write", msg |-> f,
                                               board |-> board[f.challenge_id] ]]
                   ELSE hand
        /\ UNCHANGED <<world, log, taken, resumed, spec, board, crashes>>
  BY DEF OnFlag
<1>2. log \in Topics /\ "flag" \in Workers
  BY StationFacts DEF TypeOK
<1>3. Elsewhere(log, log')
  BY <1>1 DEF Elsewhere
<1>4. Hands("flag") /\ Next1("flag") = f.challenge_id
  BY <1>1, <1>2, <1>3, ReceivesHands DEF Subject
<1>5. Mute
  BY <1>1, KindsStay
<1>6. CASE f.status = "solved"
  <2> DEFINE h == [stage |-> "write", msg |-> f, board |-> board[f.challenge_id]]
  <2>1. OnlyHand("flag", h) /\ h.stage # "idle" /\ Subject("flag", h.msg) = f.challenge_id
    BY <1>1, <1>6, HandAt DEF Subject
  <2> HIDE DEF h
  <2>2. Held' = [Held EXCEPT !["flag"] = {Next1("flag")}]
    BY <1>1, <1>2, <1>4, <2>1, BusyWorker
  <2> QED
    BY <1>1, <1>4, <1>5, <1>6, <2>2 DEF Takes
<1>7. CASE f.status # "solved"
  <2>1. hand' = hand /\ spec' = spec
    BY <1>1, <1>7
  <2>2. Held' = Held
    BY <2>1 DEF Held
  <2> QED
    BY <1>1, <1>4, <1>5, <1>7, <2>1, <2>2 DEF Drops
<1> QED
  BY <1>6, <1>7

LEMMA WriteSolvedFlow ==
    ASSUME TypeOK, FlowTypes, WriteSolved
    PROVE  Keeps /\ Mute
<1>1. /\ hand' = [hand EXCEPT !.flag.stage = "announce"]
      /\ hand.flag.stage = "write" /\ UNCHANGED <<log, read, taken, spec>>
  BY DEF WriteSolved
<1> DEFINE h == [stage |-> "announce", msg |-> hand.flag.msg, board |-> hand.flag.board]
<1>2. /\ OnlyHand("flag", h) /\ h.stage # "idle" /\ "flag" \in Workers
      /\ Subject("flag", h.msg) = hand.flag.msg.challenge_id
  BY <1>1, StageAt, StationFacts DEF Subject
<1> HIDE DEF h
<1>4. Held' = [Held EXCEPT !["flag"] = {hand.flag.msg.challenge_id}]
  BY <1>1, <1>2, BusyWorker
<1>5. Held["flag"] = {hand.flag.msg.challenge_id}
  BY <1>1, <1>2, HoldsWorker DEF Subject
<1>6. Held' = Held
  BY <1>4, <1>5, StationFacts DEF FlowTypes
<1>7. Line' = Line /\ Past' = Past
  BY <1>1 DEF Line, Past
<1> QED
  BY <1>1, <1>6, <1>7, KindsStay DEF Keeps

LEMMA AnnounceSolvedFlow ==
    ASSUME TypeOK, FlowTypes, AnnounceSolved
    PROVE  LET c == hand.flag.msg.challenge_id
           IN  /\ hand.flag.stage = "announce" /\ c \in Challenges
               /\ Ends("flag", c) /\ Tells(c, "solved")
<1> DEFINE c == hand.flag.msg.challenge_id
<1>1. /\ hand.flag.stage = "announce" /\ log' = WithTrace(log, c, "solved")
      /\ hand' = [hand EXCEPT !.flag = Idle] /\ UNCHANGED <<read, taken, spec>>
  BY DEF AnnounceSolved
<1>2. c \in Challenges /\ "flag" \in Workers /\ log \in Topics
  BY <1>1, HandlerTypes, IdsTypes, StationFacts DEF TypeOK
<1>3. Held["flag"] = {c}
  BY <1>1, <1>2, HoldsWorker DEF Subject
<1> HIDE DEF c
<1>4. Held' = [Held EXCEPT !["flag"] = {}]
  BY <1>1, <1>2, HandAt, FreeWorker
<1>5. Past' = Past /\ Line' = Line /\ Tells(c, "solved")
  BY <1>1, <1>2, PastStays, TraceAside, LineStays, KindsGrow, TraceKinds
<1> QED
  BY <1>1, <1>2, <1>3, <1>4, <1>5 DEF Ends, c

LEMMA OnTraceFlow ==
    ASSUME TypeOK, FlowTypes, OnTrace
    PROVE  Keeps /\ Mute
<1>1. /\ read' = [read EXCEPT !["trace"] = @ + 1]
      /\ UNCHANGED <<log, taken, spec>>
      /\ \/ hand' = hand
         \/ \E h : hand' = [hand EXCEPT !.trace = h]
  BY DEF OnTrace, Receives
<1>2. Held' = Held
  <2>1. CASE hand' = hand
    BY <1>1, <2>1 DEF Held
  <2>2. CASE \E h : hand' = [hand EXCEPT !.trace = h]
    BY <1>1, <2>2, HandAt, HeldTrace
  <2> QED
    BY <1>1, <2>1, <2>2
<1>3. Line' = Line /\ Past' = Past
  BY <1>1, PastTrace DEF Line
<1> QED
  BY <1>1, <1>2, <1>3, KindsStay DEF Keeps

LEMMA WriteOutcomeFlow ==
    ASSUME TypeOK, FlowTypes, WriteOutcome
    PROVE  Keeps /\ Mute
<1>1. /\ hand' = [hand EXCEPT !.trace = Idle] /\ UNCHANGED <<log, read, taken, spec>>
  BY DEF WriteOutcome
<1>2. Held' = Held /\ Line' = Line /\ Past' = Past
  BY <1>1, HandAt, HeldTrace, PastStays DEF Line
<1> QED
  BY <1>1, <1>2, KindsStay DEF Keeps

LEMMA OnCandidateFlow ==
    ASSUME TypeOK, FlowTypes, OnCandidate
    PROVE  Takes("gate") /\ Mute
<1>1. PICK m \in Range(log.candidates) :
        /\ Receives("gate", m)
        /\ hand' = [hand EXCEPT !.gate = [stage |-> "trace", msg |-> Judge(m)]]
        /\ UNCHANGED <<world, log, taken, resumed, spec, board, crashes>>
  BY DEF OnCandidate
<1>2. log \in Topics /\ "gate" \in Workers
  BY StationFacts DEF TypeOK
<1>3. Elsewhere(log, log')
  BY <1>1 DEF Elsewhere
<1>4. Hands("gate") /\ Next1("gate") = m.challenge_id
  BY <1>1, <1>2, <1>3, ReceivesHands DEF Subject
<1> DEFINE h == [stage |-> "trace", msg |-> Judge(m)]
<1>5. m \in Candidate
  BY <1>2, SeqTypes DEF Range
<1>6. OnlyHand("gate", h) /\ h.stage # "idle" /\ Subject("gate", h.msg) = m.challenge_id
  BY <1>1, <1>5, HandAt, JudgeKeepsIdentity DEF Subject
<1> HIDE DEF h
<1>7. Held' = [Held EXCEPT !["gate"] = {Next1("gate")}]
  BY <1>1, <1>2, <1>4, <1>6, BusyWorker
<1> QED
  BY <1>1, <1>4, <1>7, KindsStay DEF Takes

LEMMA AnnounceVerdictFlow ==
    ASSUME TypeOK, FlowTypes, AnnounceVerdict
    PROVE  LET m == hand.gate.msg
           IN  /\ hand.gate.stage = "trace" /\ m \in Candidate /\ Keeps
               /\ IF m.status = "solved" THEN Tells(m.challenge_id, "candidate_accepted")
                  ELSE \A d : Kinds(d)' = IF d = m.challenge_id
                        THEN Kinds(d) \cup ({"candidate_rejected", "gate_verdict"} \cap Traced)
                        ELSE Kinds(d)
<1> DEFINE m == hand.gate.msg
           c == m.challenge_id
           l == WithTrace(log, c, "candidate_rejected")
<1>1. /\ hand.gate.stage = "trace"
      /\ log' = IF m.status = "solved" THEN WithTrace(log, c, "candidate_accepted")
                ELSE WithTrace(l, c, "gate_verdict")
      /\ hand' = [hand EXCEPT !.gate.stage = "publish"] /\ UNCHANGED <<read, taken, spec>>
  BY DEF AnnounceVerdict
<1>2. m \in Candidate /\ "gate" \in Workers /\ log \in Topics
  BY <1>1, HandlerTypes, StationFacts DEF TypeOK
<1>3. c \in Challenges
  BY <1>2, IdsTypes
<1> DEFINE h == [stage |-> "publish", msg |-> m]
<1>4. OnlyHand("gate", h) /\ h.stage # "idle" /\ Subject("gate", h.msg) = c
  BY <1>1, StageAt DEF Subject
<1>5. Held["gate"] = {c}
  BY <1>1, <1>2, HoldsWorker DEF Subject
<1> HIDE DEF h, m, c
<1>6. Held' = Held
  <2>1. Held' = [Held EXCEPT !["gate"] = {c}]
    BY <1>1, <1>2, <1>4, BusyWorker
  <2> QED
    BY <1>2, <1>5, <2>1, StationFacts DEF FlowTypes
<1>7. Past' = Past
  BY <1>1, PastStays
<1>8. CASE m.status = "solved"
  <2>1. log' = WithTrace(log, c, "candidate_accepted")
    BY <1>1, <1>8
  <2>2. Line' = Line /\ Tells(c, "candidate_accepted")
    BY <1>2, <1>3, <2>1, TraceAside, LineStays, KindsGrow, TraceKinds
  <2> QED
    BY <1>1, <1>2, <1>6, <1>7, <1>8, <2>2 DEF Keeps, m, c
<1>9. CASE m.status # "solved"
  <2>1. log' = WithTrace(l, c, "gate_verdict")
    BY <1>1, <1>9
  <2>2. l \in Topics /\ Elsewhere(log, l)
    BY <1>2, <1>3, TraceGrows, TraceAside, TraceKinds DEF Grows
  <2>3. Elsewhere(log, log')
    <3>1. Elsewhere(l, log')
      BY <2>1, <2>2, TraceAside
    <3> QED
      BY <2>2, <3>1 DEF Elsewhere
  <2>4. ASSUME NEW d
        PROVE  Kinds(d)' = IF d = c
                 THEN Kinds(d) \cup ({"candidate_rejected", "gate_verdict"} \cap Traced)
                 ELSE Kinds(d)
    <3>1. Kinds(d)' = KindsIn(WithTrace(l, c, "gate_verdict"), d) /\ Kinds(d) = KindsIn(log, d)
      BY <2>1 DEF Kinds, KindsIn
    <3>2. KindsIn(WithTrace(l, c, "gate_verdict"), d) =
            IF d = c /\ "gate_verdict" \in Traced THEN KindsIn(l, d) \cup {"gate_verdict"}
            ELSE KindsIn(l, d)
      BY <1>3, <2>2, KindsTold, TraceKinds
    <3>3. KindsIn(l, d) = IF d = c /\ "candidate_rejected" \in Traced
                          THEN KindsIn(log, d) \cup {"candidate_rejected"} ELSE KindsIn(log, d)
      BY <1>2, <1>3, KindsTold, TraceKinds
    <3> HIDE DEF l
    <3> QED
      BY <3>1, <3>2, <3>3
  <2>5. Line' = Line
    BY <2>3, LineStays
  <2> QED
    BY <1>1, <1>2, <1>6, <1>7, <1>9, <2>4, <2>5 DEF Keeps, m, c
<1> QED
  BY <1>8, <1>9

LEMMA PublishFlagFlow ==
    ASSUME TypeOK, FlowTypes, PublishFlag
    PROVE  LET m == hand.gate.msg
           IN  /\ hand.gate.stage = "publish" /\ m \in Candidate /\ Mute
               /\ Passes("gate", "flag", m.challenge_id)
<1> DEFINE m == hand.gate.msg
           l == [log EXCEPT !.flags = Append(@, m)]
<1>1. /\ hand.gate.stage = "publish" /\ log' = l
      /\ hand' = [hand EXCEPT !.gate = Idle] /\ UNCHANGED <<read, taken, spec>>
  BY DEF PublishFlag
<1>2. m \in Candidate /\ "gate" \in Workers /\ log \in Topics
  BY <1>1, HandlerTypes, StationFacts DEF TypeOK
<1>3. Held["gate"] = {m.challenge_id}
  BY <1>1, <1>2, HoldsWorker DEF Subject
<1> HIDE DEF m
<1>4. l \in Topics /\ l.traces = log.traces /\ Elsewhere(l, log')
  BY <1>1, <1>2, PublishAside DEF Elsewhere
<1>5. Held' = [Held EXCEPT !["gate"] = {}]
  BY <1>1, <1>2, HandAt, FreeWorker
<1>6. Past' = Past
  BY <1>1, PastStays
<1>7. Line' = [Line EXCEPT !["flag"] = Append(@, m.challenge_id)]
  BY <1>2, <1>4, LineFlag
<1>8. Mute
  BY <1>1, <1>4, KindsStay
<1>9. Passes("gate", "flag", m.challenge_id)
  BY <1>3, <1>5, <1>6, <1>7 DEF Passes
<1> QED
  BY <1>1, <1>2, <1>8, <1>9 DEF m

-----------------------------------------------------------------------------
(* The specialists                                                         *)

LEMMA FreeCategory ==
    ASSUME TypeOK, NEW k \in Categories, spec' = [spec EXCEPT ![k] = Idle], hand' = hand
    PROVE  Held' = [Held EXCEPT ![k] = {}]
<1> DEFINE h == Idle
<1>1. h.stage = "idle" /\ spec' = [spec EXCEPT ![k] = h]
  BY DEF Idle
<1> HIDE DEF h
<1> QED
  BY <1>1, HeldCategory

LEMMA TakeTaskFlow ==
    ASSUME TypeOK, FlowTypes, NEW k \in Categories, TakeTask(k)
    PROVE  /\ Takes(k) /\ Tells(Next1(k), "task_started")
<1> DEFINE t == log.tasks[k][taken[k] + 1]
           h == [stage |-> "scan", barren |-> 0, task |-> t]
<1>1. /\ spec[k] = Idle /\ taken[k] < Len(log.tasks[k])
      /\ taken' = [taken EXCEPT ![k] = @ + 1] /\ spec' = [spec EXCEPT ![k] = h]
      /\ log' = WithTrace(log, t.challenge_id, "task_started") /\ UNCHANGED <<read, hand>>
  BY DEF TakeTask
<1>2. /\ k \in Station /\ log \in Topics /\ Past[k] = taken[k] /\ Past[k] \in Nat
      /\ Len(log.tasks[k]) \in Nat /\ log.tasks[k] \in Seq(Task)
  BY StationFacts, SeqTypes DEF TypeOK, Past
<1>3. /\ taken[k] + 1 \in 1..Len(log.tasks[k]) /\ t \in Task
      /\ t.challenge_id \in Challenges
  <2>1. taken[k] + 1 \in 1..Len(log.tasks[k])
    BY <1>1, <1>2
  <2>2. t \in Task
    BY <1>2, <2>1
  <2> QED
    BY <2>1, <2>2, IdsTypes
<1>4. Next1(k) = t.challenge_id /\ Past[k] < Len(Line[k])
  BY <1>1, <1>2, <1>3, TaskLine DEF Next1
<1>5. Held[k] = {}
  BY <1>1, <1>2, StationFacts DEF Held, Idle
<1>6. h.stage # "idle" /\ h.task = t
  OBVIOUS
<1> HIDE DEF h, t
<1>7. Held' = [Held EXCEPT ![k] = {Next1(k)}]
  <2>1. Held' = [Held EXCEPT ![k] = IF h.stage = "idle" THEN {} ELSE {h.task.challenge_id}]
    BY <1>1, HeldCategory
  <2> QED
    BY <1>4, <1>6, <2>1
<1>8. Line' = Line /\ Tells(t.challenge_id, "task_started")
  BY <1>1, <1>2, <1>3, TraceAside, LineStays, KindsGrow, TraceKinds
<1>9. Past' = [Past EXCEPT ![k] = @ + 1]
  BY <1>1, PastCategory
<1> QED
  BY <1>4, <1>5, <1>7, <1>8, <1>9 DEF Takes, Hands

\* A specialist that publishes a candidate passes its challenge to the gate.
LEMMA EmitFlow ==
    ASSUME TypeOK, FlowTypes, NEW k \in Categories, spec[k].stage # "idle",
           NEW m \in Candidate, m.challenge_id = spec[k].task.challenge_id,
           log' = WithTrace([log EXCEPT !.candidates = Append(@, m)],
                            spec[k].task.challenge_id, "candidate_emitted"),
           spec' = [spec EXCEPT ![k] = Idle], UNCHANGED <<read, taken, hand>>
    PROVE  /\ Passes(k, "gate", spec[k].task.challenge_id)
           /\ Tells(spec[k].task.challenge_id, "candidate_emitted")
<1> DEFINE c == spec[k].task.challenge_id
           l == [log EXCEPT !.candidates = Append(@, m)]
<1>1. c \in Challenges /\ log \in Topics
  BY SpecialistTypes DEF TypeOK
<1>2. Held[k] = {c}
  BY HoldsCategory
<1>3. l \in Topics /\ l.traces = log.traces /\ log' = WithTrace(l, c, "candidate_emitted")
  BY <1>1, PublishAside
<1>4. Held' = [Held EXCEPT ![k] = {}] /\ Past' = Past
  BY FreeCategory, PastStays
<1>5. c = m.challenge_id
  OBVIOUS
<1> HIDE DEF c
<1> HIDE DEF l
<1>6. Elsewhere(l, log') /\ Tells(c, "candidate_emitted")
  BY <1>1, <1>3, TraceAside, KindsGrow, TraceKinds
<1> USE DEF l
<1>7. Line' = [Line EXCEPT !["gate"] = Append(@, m.challenge_id)]
  BY <1>3, <1>6, LineCandidate
<1>8. Passes(k, "gate", c)
  BY <1>2, <1>4, <1>5, <1>7 DEF Passes
<1> QED
  BY <1>6, <1>8 DEF c

\* One that only traces the end of its task ends the work on the challenge.
LEMMA StopFlow ==
    ASSUME TypeOK, FlowTypes, NEW k \in Categories, spec[k].stage # "idle",
           NEW kind \in TraceKind, log' = WithTrace(log, spec[k].task.challenge_id, kind),
           spec' = [spec EXCEPT ![k] = Idle], UNCHANGED <<read, taken, hand>>
    PROVE  /\ Ends(k, spec[k].task.challenge_id)
           /\ Tells(spec[k].task.challenge_id, kind)
<1> DEFINE c == spec[k].task.challenge_id
<1>1. c \in Challenges /\ log \in Topics
  BY SpecialistTypes DEF TypeOK
<1>2. Held[k] = {c} /\ Held' = [Held EXCEPT ![k] = {}] /\ Past' = Past
  BY HoldsCategory, FreeCategory, PastStays
<1>3. log' = WithTrace(log, c, kind)
  OBVIOUS
<1> HIDE DEF c
<1>4. Line' = Line /\ Tells(c, kind)
  BY <1>1, <1>3, TraceAside, LineStays, KindsGrow
<1>5. Ends(k, c)
  BY <1>2, <1>4 DEF Ends
<1> QED
  BY <1>4, <1>5 DEF c

\* One that goes on keeps the challenge.
LEMMA GoOnFlow ==
    ASSUME TypeOK, FlowTypes, NEW k \in Categories, spec[k].stage # "idle",
           NEW h, h.stage # "idle", h.task = spec[k].task,
           spec' = [spec EXCEPT ![k] = h], UNCHANGED <<log, read, taken, hand>>
    PROVE  Keeps /\ Mute
<1>1. Held[k] = {spec[k].task.challenge_id}
  BY HoldsCategory
<1>2. Held' = [Held EXCEPT ![k] = {spec[k].task.challenge_id}]
  BY HeldCategory
<1>3. Held' = Held
  BY <1>1, <1>2, StationFacts DEF FlowTypes
<1>4. Past' = Past /\ Line' = Line
  BY DEF Past, Line
<1> QED
  BY <1>3, <1>4, KindsStay DEF Keeps

\* What a specialist does to the stations and says of its challenge.
LEMMA SpecialistFlow ==
    ASSUME TypeOK, FlowTypes, NEW k \in Categories, SpecialistStep(k)
    PROVE  \/ Takes(k) /\ Tells(Next1(k), "task_started")
           \/ Keeps /\ Mute
           \/ \E c \in Challenges :
                \/ Passes(k, "gate", c) /\ Tells(c, "candidate_emitted")
                \/ Passes(k, "handoff", c) /\ Tells(c, "handoff")
                \/ \E kind \in {"needs_engine", "engine_error", "error", "engine_no_candidate"} :
                     /\ Ends(k, c) /\ Tells(c, kind)
                     /\ Outcome(kind) # "none" => spec[k].stage = "engine"
<1>1. CASE TakeTask(k)
  BY <1>1, TakeTaskFlow
<1>2. CASE StaticHit(k)
  <2>1. /\ spec[k].stage = "scan" /\ world[spec[k].task.challenge_id].static # NoFlag
        /\ log' = WithTrace([log EXCEPT !.candidates = Append(@, StaticCandidate(spec[k].task))],
                            spec[k].task.challenge_id, "candidate_emitted")
        /\ spec' = [spec EXCEPT ![k] = Idle] /\ UNCHANGED <<read, taken, hand>>
    BY <1>2 DEF StaticHit, Scanning
  <2>2. /\ spec[k].stage # "idle" /\ spec[k].task \in Task
        /\ spec[k].task.challenge_id \in Challenges
    BY <2>1, SpecialistTypes
  <2>3. /\ StaticCandidate(spec[k].task) \in Candidate
        /\ StaticCandidate(spec[k].task).challenge_id = spec[k].task.challenge_id
    BY <2>1, <2>2, StaticCandidateType DEF StaticCandidate
  <2> QED
    BY <2>1, <2>2, <2>3, EmitFlow
<1>3. CASE NeedsEngine(k)
  <2>1. /\ spec[k].stage # "idle"
        /\ log' = WithTrace(log, spec[k].task.challenge_id, "needs_engine")
        /\ spec' = [spec EXCEPT ![k] = Idle] /\ UNCHANGED <<read, taken, hand>>
    BY <1>3 DEF NeedsEngine, Scanning
  <2>2. spec[k].task.challenge_id \in Challenges
    BY <2>1, SpecialistTypes
  <2> QED
    BY <2>1, <2>2, StopFlow, TraceKinds DEF Outcome
<1>4. CASE DispatchEngine(k)
  <2> DEFINE h == [spec[k] EXCEPT !.stage = "engine"]
  <2>1. /\ spec[k].stage = "scan" /\ spec' = [spec EXCEPT ![k] = h]
        /\ UNCHANGED <<log, read, taken, hand>>
    BY <1>4 DEF DispatchEngine, Scanning
  <2>2. h.stage # "idle" /\ h.task = spec[k].task
    BY <2>1, SpecialistTypes
  <2> HIDE DEF h
  <2> QED
    BY <2>1, <2>2, GoOnFlow
<1>5. CASE EngineRaises(k)
  <2>1. /\ spec[k].stage = "engine"
        /\ log' = WithTrace(log, spec[k].task.challenge_id, "engine_error")
        /\ spec' = [spec EXCEPT ![k] = Idle] /\ UNCHANGED <<read, taken, hand>>
    BY <1>5 DEF EngineRaises, EngineAnswers
  <2>2. spec[k].task.challenge_id \in Challenges
    BY <2>1, SpecialistTypes
  <2> QED
    BY <2>1, <2>2, StopFlow, TraceKinds
<1>6. CASE HandleRaises(k)
  <2>1. /\ spec[k].stage = "engine"
        /\ log' = WithTrace(log, spec[k].task.challenge_id, "error")
        /\ spec' = [spec EXCEPT ![k] = Idle] /\ UNCHANGED <<read, taken, hand>>
    BY <1>6 DEF HandleRaises, EngineAnswers
  <2>2. spec[k].task.challenge_id \in Challenges
    BY <2>1, SpecialistTypes
  <2> QED
    BY <2>1, <2>2, StopFlow, TraceKinds
<1>7. CASE EngineBarren(k)
  <2> DEFINE n == spec[k].barren + 1
             h == [spec[k] EXCEPT !.barren = n]
  <2>1. /\ spec[k].stage = "engine" /\ UNCHANGED <<read, taken, hand>>
        /\ IF n >= MaxBarren \/ n >= MaxToolSteps
           THEN /\ log' = WithTrace(log, spec[k].task.challenge_id, "engine_no_candidate")
                /\ spec' = [spec EXCEPT ![k] = Idle]
           ELSE /\ spec' = [spec EXCEPT ![k] = h] /\ UNCHANGED log
    BY <1>7 DEF EngineBarren, EngineAnswers
  <2> HIDE DEF n
  <2>2. /\ spec[k].task.challenge_id \in Challenges
        /\ h.stage = "engine" /\ h.task = spec[k].task
    <3>1. /\ spec[k] = [ stage |-> spec[k].stage, task |-> spec[k].task,
                         barren |-> spec[k].barren ]
          /\ spec[k].task.challenge_id \in Challenges
      BY <2>1, SpecialistTypes
    <3> QED
      BY <2>1, <3>1
  <2> HIDE DEF h
  <2>3. CASE n >= MaxBarren \/ n >= MaxToolSteps
    BY <2>1, <2>2, <2>3, StopFlow, TraceKinds
  <2>4. CASE ~(n >= MaxBarren \/ n >= MaxToolSteps)
    BY <2>1, <2>2, <2>4, GoOnFlow
  <2> QED
    BY <2>3, <2>4
<1>8. CASE \E target \in Categories : EngineHandsOff(k, target)
  <2> DEFINE t == spec[k].task
             c == t.challenge_id
  <2>1. PICK target \in Categories : EngineHandsOff(k, target)
    BY <1>8
  <2> DEFINE m == [ challenge_id |-> c, target |-> target, handoff_depth |-> t.handoff_depth ]
             l == [log EXCEPT !.handoffs = Append(@, m)]
  <2>2. /\ spec[k].stage = "engine" /\ log' = WithTrace(l, c, "handoff")
        /\ spec' = [spec EXCEPT ![k] = Idle] /\ UNCHANGED <<read, taken, hand>>
    BY <2>1 DEF EngineHandsOff, EngineAnswers
  <2>3. /\ t \in Task /\ c \in Challenges /\ log \in Topics /\ k \in Station
        /\ "handoff" \in Station
    BY <2>2, SpecialistTypes, StationFacts DEF TypeOK
  <2>4. m \in Handoff /\ m.challenge_id = c
    BY <2>3 DEF Task, Handoff
  <2>5. Held[k] = {c} /\ Held' = [Held EXCEPT ![k] = {}] /\ Past' = Past
    BY <2>2, HoldsCategory, FreeCategory, PastStays
  <2> HIDE DEF m, c
  <2>6. l \in Topics /\ l.traces = log.traces
    BY <2>3, <2>4, PublishAside
  <2> HIDE DEF l
  <2>7. Elsewhere(l, log') /\ Tells(c, "handoff")
    BY <2>2, <2>3, <2>6, TraceAside, KindsGrow, TraceKinds
  <2>8. Line' = [Line EXCEPT !["handoff"] = Append(@, m.challenge_id)]
    BY <2>4, <2>6, <2>7, LineHandoff DEF l
  <2>9. Passes(k, "handoff", c)
    BY <2>4, <2>5, <2>8 DEF Passes
  <2> QED
    BY <2>3, <2>7, <2>9
<1>9. CASE \E r \in Results : EngineClaims(k, r)
  <2>1. PICK r \in Results : EngineClaims(k, r)
    BY <1>9
  <2>2. /\ spec[k].stage # "idle"
        /\ log' = WithTrace([log EXCEPT !.candidates = Append(@, EngineCandidate(spec[k].task, r))],
                            spec[k].task.challenge_id, "candidate_emitted")
        /\ spec' = [spec EXCEPT ![k] = Idle] /\ UNCHANGED <<read, taken, hand>>
    BY <2>1 DEF EngineClaims, EngineAnswers
  <2>3. spec[k].task \in Task /\ spec[k].task.challenge_id \in Challenges
    BY <2>2, SpecialistTypes
  <2>4. /\ EngineCandidate(spec[k].task, r) \in Candidate
        /\ EngineCandidate(spec[k].task, r).challenge_id = spec[k].task.challenge_id
    BY <2>3, EngineCandidateType DEF EngineCandidate
  <2> QED
    BY <2>2, <2>3, <2>4, EmitFlow
<1> QED
  BY <1>1, <1>2, <1>3, <1>4, <1>5, <1>6, <1>7, <1>8, <1>9 DEF SpecialistStep

-----------------------------------------------------------------------------
(* Conservation, of the stations                                           *)

\* A challenge that was not submitted has no item; one that was has one, or
\* none and an end that was told.
Alive(c) == \E p : Items(c) = {p}
Accounted(c) ==
    IF c \in Range(Line["challenge"]) THEN Alive(c) \/ (Items(c) = {} /\ Ended(c))
    ELSE Items(c) = {}
Accounts == \A c \in Challenges : Accounted(c)
KindsGrowing == \A d : Kinds(d) \subseteq Kinds(d)'

LEMMA EndedStays == ASSUME KindsGrowing, NEW c, Ended(c) PROVE Ended(c)'
  BY DEF KindsGrowing, Ended

LEMMA TellsGrow ==
    /\ Mute => KindsGrowing
    /\ \A c, kind : Tells(c, kind) => KindsGrowing
<1>1. ASSUME Mute, NEW d PROVE Kinds(d) \subseteq Kinds(d)'
  BY <1>1 DEF Mute
<1>2. ASSUME NEW c, NEW kind, Tells(c, kind), NEW d PROVE Kinds(d) \subseteq Kinds(d)'
  BY <1>2 DEF Tells
<1> QED
  BY <1>1, <1>2 DEF KindsGrowing

\* The other challenges are accounted for as before.
LEMMA OthersCount ==
    ASSUME Accounts, KindsGrowing, Line'["challenge"] = Line["challenge"],
           NEW d \in Challenges, Items(d)' = Items(d)
    PROVE  Accounted(d)'
<1>1. Accounted(d)
  BY DEF Accounts
<1>2. Ended(d) => Ended(d)'
  BY EndedStays
<1> QED
  BY <1>1, <1>2 DEF Accounted, Alive

LEMMA KeepsCounts ==
    ASSUME Accounts, KindsGrowing, Keeps
    PROVE  Accounts'
<1>1. Line'["challenge"] = Line["challenge"] /\ \A d : Items(d)' = Items(d)
  BY KeepsItems DEF Keeps
<1>2. ASSUME NEW d \in Challenges PROVE Accounted(d)'
  BY <1>1, OthersCount
<1> QED
  BY <1>2 DEF Accounts

LEMMA TakesCounts ==
    ASSUME FlowTypes, Accounts, KindsGrowing, NEW x \in Station, Takes(x)
    PROVE  Accounts'
<1>1. Line' = Line
  BY DEF Takes, Hands
<1>2. ASSUME NEW d \in Challenges PROVE Accounted(d)'
  <2>1. PICK c : c = Next1(x)
    OBVIOUS
  <2>2. /\ <<x, Past[x] + 1>> \in Items(c)
        /\ Items(c)' = (Items(c) \ {<<x, Past[x] + 1>>}) \cup {<<x, 0>>}
        /\ \A e : e # c => Items(e)' = Items(e)
    BY <2>1, TakesItem
  <2>3. CASE d # c
    BY <1>1, <2>2, <2>3, OthersCount
  <2>4. CASE d = c
    <3>1. Alive(d) /\ d \in Range(Line["challenge"])
      BY <2>2, <2>4 DEF Accounts, Accounted
    <3>2. Items(d)' = {<<x, 0>>}
      BY <2>2, <2>4, <3>1 DEF Alive
    <3> QED
      BY <1>1, <3>1, <3>2 DEF Accounted, Alive
  <2> QED
    BY <2>3, <2>4
<1> QED
  BY <1>2 DEF Accounts

LEMMA DropsCounts ==
    ASSUME FlowTypes, Accounts, KindsGrowing, NEW x \in Station, Drops(x),
           NEW c, c = Next1(x), Ended(c)'
    PROVE  Accounts'
<1>1. Line' = Line
  BY DEF Drops, Hands
<1>2. ASSUME NEW d \in Challenges PROVE Accounted(d)'
  <2>2. /\ <<x, Past[x] + 1>> \in Items(c)
        /\ Items(c)' = Items(c) \ {<<x, Past[x] + 1>>}
        /\ \A e : e # c => Items(e)' = Items(e)
    BY DropsItem
  <2>3. CASE d # c
    BY <1>1, <2>2, <2>3, OthersCount
  <2>4. CASE d = c
    <3>1. Alive(d) /\ d \in Range(Line["challenge"])
      BY <2>2, <2>4 DEF Accounts, Accounted
    <3>2. Items(d)' = {}
      BY <2>2, <2>4, <3>1 DEF Alive
    <3> QED
      BY <1>1, <2>4, <3>1, <3>2 DEF Accounted, Alive
  <2> QED
    BY <2>3, <2>4
<1> QED
  BY <1>2 DEF Accounts

LEMMA EndsCounts ==
    ASSUME FlowTypes, Accounts, KindsGrowing, NEW x \in Station, NEW c, Ends(x, c), Ended(c)'
    PROVE  Accounts'
<1>1. Line' = Line
  BY DEF Ends
<1>2. ASSUME NEW d \in Challenges PROVE Accounted(d)'
  <2>2. /\ <<x, 0>> \in Items(c) /\ Items(c)' = Items(c) \ {<<x, 0>>}
        /\ \A e : e # c => Items(e)' = Items(e)
    BY EndsItem
  <2>3. CASE d # c
    BY <1>1, <2>2, <2>3, OthersCount
  <2>4. CASE d = c
    <3>1. Alive(d) /\ d \in Range(Line["challenge"])
      BY <2>2, <2>4 DEF Accounts, Accounted
    <3>2. Items(d)' = {}
      BY <2>2, <2>4, <3>1 DEF Alive
    <3> QED
      BY <1>1, <2>4, <3>1, <3>2 DEF Accounted, Alive
  <2> QED
    BY <2>3, <2>4
<1> QED
  BY <1>2 DEF Accounts

LEMMA PassesCounts ==
    ASSUME FlowTypes, Accounts, KindsGrowing, NEW x \in Station, NEW y \in Station, NEW c,
           Passes(x, y, c), y # "challenge"
    PROVE  Accounts'
<1>1. Line'["challenge"] = Line["challenge"]
  BY StationFacts DEF Passes, FlowTypes
<1>2. ASSUME NEW d \in Challenges PROVE Accounted(d)'
  <2>2. /\ <<x, 0>> \in Items(c)
        /\ Items(c)' = (Items(c) \ {<<x, 0>>}) \cup {<<y, Len(Line[y]) + 1>>}
        /\ \A e : e # c => Items(e)' = Items(e)
    BY PassesItem
  <2>3. CASE d # c
    BY <1>1, <2>2, <2>3, OthersCount
  <2>4. CASE d = c
    <3>1. Alive(d) /\ d \in Range(Line["challenge"])
      BY <2>2, <2>4 DEF Accounts, Accounted
    <3>2. Items(d)' = {<<y, Len(Line[y]) + 1>>}
      BY <2>2, <2>4, <3>1 DEF Alive
    <3> QED
      BY <1>1, <2>4, <3>1, <3>2 DEF Accounted, Alive
  <2> QED
    BY <2>3, <2>4
<1> QED
  BY <1>2 DEF Accounts

LEMMA EntersCounts ==
    ASSUME FlowTypes, Accounts, Mute, NEW c \in Challenges, Enters(c),
           c \notin Range(Line["challenge"])
    PROVE  Accounts'
<1>1. /\ Line["challenge"] \in Seq(Challenges)
      /\ Line'["challenge"] = Append(Line["challenge"], c)
  BY StationFacts DEF Enters, FlowTypes
<1>2. Range(Line'["challenge"]) = Range(Line["challenge"]) \cup {c}
  BY <1>1, RangeOfAppend
<1>3. ASSUME NEW d \in Challenges PROVE Accounted(d)'
  <2>2. /\ Items(c)' = Items(c) \cup {<<"challenge", Len(Line["challenge"]) + 1>>}
        /\ \A e : e # c => Items(e)' = Items(e)
    BY EntersItem
  <2>3. Accounted(d) /\ Accounted(c)
    BY DEF Accounts
  <2>4. CASE d # c
    <3>1. Items(d)' = Items(d) /\ (Ended(d) => Ended(d)')
      BY <2>2, <2>4, TellsGrow, EndedStays
    <3> QED
      BY <1>2, <2>3, <2>4, <3>1 DEF Accounted, Alive
  <2>5. CASE d = c
    <3>1. Items(c)' = {<<"challenge", Len(Line["challenge"]) + 1>>}
      BY <2>2, <2>3 DEF Accounted
    <3> QED
      BY <1>2, <2>5, <3>1 DEF Accounted, Alive
  <2> QED
    BY <2>4, <2>5
<1> QED
  BY <1>3 DEF Accounts

-----------------------------------------------------------------------------
(* Conservation, of the runtime                                            *)

\* A verdict that is not solved was told by the gate before it was published,
\* so that on_flag may drop it without a trace of its own.
ToldVerdicts ==
    /\ \A f \in Range(log.flags) :
         f.status # "solved" => "candidate_rejected" \in Kinds(f.challenge_id)
    /\ hand.gate.stage = "publish" /\ hand.gate.msg.status # "solved"
         => "candidate_rejected" \in Kinds(hand.gate.msg.challenge_id)

LEMMA ToldVerdictsStay ==
    ASSUME ToldVerdicts, KindsGrowing, log'.flags = log.flags, hand'.gate = hand.gate
    PROVE  ToldVerdicts'
  BY DEF ToldVerdicts, KindsGrowing

\* What a step of the runtime is, without crashes: one of the steps of the
\* stations.  Whatever leaves the stations was told to have ended.
LEMMA StepFlow ==
    ASSUME TypeOK, FlowTypes, ToldVerdicts, ~Durable, Next, EndKind \subseteq Traced
    PROVE  /\ KindsGrowing
           /\ \/ \E c \in Challenges : Submit(c) /\ Enters(c) /\ Mute
              \/ Keeps
              \/ \E x \in Station : Takes(x)
              \/ \E x \in Station, y \in Station, c \in Challenges :
                   Passes(x, y, c) /\ y # "challenge"
              \/ \E x \in Station, c \in Challenges :
                   \/ Drops(x) /\ c = Next1(x) /\ Ended(c)'
                   \/ Ends(x, c) /\ Ended(c)'
<1>0. /\ "challenge" \in Station /\ "handoff" \in Station /\ "flag" \in Station
      /\ "gate" \in Station /\ \A k \in Categories : k \in Station /\ k # "challenge"
  BY StationFacts
<1>1. ASSUME NEW c \in Challenges, NEW kind \in EndKind, Tells(c, kind) PROVE Ended(c)'
  <2>1. kind \in Kinds(c)'
    BY <1>1 DEF Tells
  <2> QED
    BY <2>1 DEF Ended
<1>2. CASE \E c \in Challenges : Submit(c)
  BY <1>2, SubmitFlow, TellsGrow
<1>3. CASE OnChallenge
  <2>1. PICK c \in Challenges :
          /\ c = Next1("challenge")
          /\ \/ Takes("challenge") /\ Mute
             \/ Drops("challenge") /\ Tells(c, "challenge_rejected")
    BY <1>3, OnChallengeFlow
  <2>2. CASE Takes("challenge") /\ Mute
    BY <1>0, <2>2, TellsGrow
  <2>3. CASE Drops("challenge") /\ Tells(c, "challenge_rejected")
    <3>1. Ended(c)' /\ KindsGrowing
      BY <1>1, <2>3, TellsGrow DEF EndKind
    <3> QED
      BY <1>0, <2>1, <2>3, <3>1
  <2> QED
    BY <2>1, <2>2, <2>3
<1>4. CASE StoreBoard \/ WriteSolved \/ OnTrace \/ WriteOutcome
  BY <1>4, StoreBoardFlow, WriteSolvedFlow, OnTraceFlow, WriteOutcomeFlow, TellsGrow
<1>5. CASE DispatchTask
  BY <1>0, <1>5, DispatchTaskFlow, TellsGrow
<1>6. CASE OnHandoff \/ OnCandidate
  BY <1>0, <1>6, OnHandoffFlow, OnCandidateFlow, TellsGrow
<1>7. CASE RouteHandoff
  <2>1. PICK m \in Handoff :
          \/ Passes("handoff", m.target, m.challenge_id) /\ Mute
          \/ /\ Ends("handoff", m.challenge_id)
             /\ Tells(m.challenge_id, "handoff_depth_exceeded")
    BY <1>7, RouteHandoffFlow
  <2>2. m.target \in Categories /\ m.challenge_id \in Challenges
    BY DEF Handoff
  <2>3. CASE Passes("handoff", m.target, m.challenge_id) /\ Mute
    BY <1>0, <2>2, <2>3, TellsGrow
  <2>4. CASE Ends("handoff", m.challenge_id) /\ Tells(m.challenge_id, "handoff_depth_exceeded")
    <3>1. Ended(m.challenge_id)' /\ KindsGrowing
      BY <1>1, <2>2, <2>4, TellsGrow DEF EndKind
    <3> QED
      BY <1>0, <2>2, <2>4, <3>1
  <2> QED
    BY <2>1, <2>3, <2>4
<1>8. CASE OnFlag
  <2>1. PICK f \in Range(log.flags) :
          /\ Next1("flag") = f.challenge_id /\ Mute
          /\ Takes("flag") \/ (Drops("flag") /\ f.status # "solved")
    BY <1>8, OnFlagFlow
  <2>2. KindsGrowing
    BY <2>1, TellsGrow
  <2>3. CASE Takes("flag")
    BY <1>0, <2>2, <2>3
  <2>4. CASE Drops("flag") /\ f.status # "solved"
    <3>1. "candidate_rejected" \in Kinds(f.challenge_id)
      BY <2>4 DEF ToldVerdicts
    <3>2. Ended(f.challenge_id)
      BY <3>1 DEF Ended, EndKind
    <3>3. f.challenge_id \in Challenges
      BY SeqTypes, IdsTypes DEF Range, TypeOK
    <3>4. PICK c \in Challenges : c = f.challenge_id
      BY <3>3
    <3>5. Ended(c)'
      BY <2>2, <3>2, <3>4, EndedStays
    <3> QED
      BY <1>0, <2>1, <2>2, <2>4, <3>4, <3>5
  <2> QED
    BY <2>1, <2>3, <2>4
<1>9. CASE AnnounceSolved
  <2>1. PICK c \in Challenges : Ends("flag", c) /\ Tells(c, "solved")
    BY <1>9, AnnounceSolvedFlow
  <2>2. Ended(c)' /\ KindsGrowing
    BY <1>1, <2>1, TellsGrow DEF EndKind
  <2> QED
    BY <1>0, <2>1, <2>2
<1>10. CASE AnnounceVerdict
  <2>1. Keeps /\ hand.gate.msg \in Candidate
    BY <1>10, AnnounceVerdictFlow
  <2>2. KindsGrowing
    <3>1. CASE hand.gate.msg.status = "solved"
      BY <1>10, <3>1, AnnounceVerdictFlow, TellsGrow
    <3>2. CASE hand.gate.msg.status # "solved"
      BY <1>10, <3>2, AnnounceVerdictFlow DEF KindsGrowing
    <3> QED
      BY <3>1, <3>2
  <2> QED
    BY <2>1, <2>2
<1>11. CASE PublishFlag
  <2>1. hand.gate.msg.challenge_id \in Challenges
    BY <1>11, PublishFlagFlow, IdsTypes
  <2>2. PICK c \in Challenges : c = hand.gate.msg.challenge_id
    BY <2>1
  <2> QED
    BY <1>0, <1>11, <2>2, PublishFlagFlow, TellsGrow
<1>12. ASSUME NEW k \in Categories, SpecialistStep(k)
       PROVE  /\ KindsGrowing
              /\ \/ Keeps
                 \/ Takes(k)
                 \/ \E y \in Station, c \in Challenges : Passes(k, y, c) /\ y # "challenge"
                 \/ \E c \in Challenges : Ends(k, c) /\ Ended(c)'
  <2>1. CASE Takes(k) /\ Tells(Next1(k), "task_started")
    BY <2>1, TellsGrow
  <2>2. CASE Keeps /\ Mute
    BY <2>2, TellsGrow
  <2>3. CASE \E c \in Challenges :
               \/ Passes(k, "gate", c) /\ Tells(c, "candidate_emitted")
               \/ Passes(k, "handoff", c) /\ Tells(c, "handoff")
    BY <1>0, <2>3, TellsGrow
  <2>4. CASE \E c \in Challenges :
               \E kind \in {"needs_engine", "engine_error", "error", "engine_no_candidate"} :
                  Ends(k, c) /\ Tells(c, kind)
    <3>1. PICK c \in Challenges,
               kind \in {"needs_engine", "engine_error", "error", "engine_no_candidate"} :
                  Ends(k, c) /\ Tells(c, kind)
      BY <2>4
    <3>2. kind \in EndKind
      BY DEF EndKind
    <3>3. Ended(c)' /\ KindsGrowing
      BY <1>1, <3>1, <3>2, TellsGrow
    <3> QED
      BY <3>1, <3>3
  <2> QED
    BY <1>12, <2>1, <2>2, <2>3, <2>4, SpecialistFlow
<1>13. CASE \E k \in Categories : SpecialistStep(k)
  BY <1>0, <1>12, <1>13
<1>14. ASSUME NEW p \in Deployed, Crash(p) PROVE FALSE
  BY <1>14 DEF Crash
<1> QED
  BY <1>2, <1>3, <1>4, <1>5, <1>6, <1>7, <1>8, <1>9, <1>10, <1>11, <1>13, <1>14
     DEF Next, OrchestratorStep, GateStep

LEMMA ToldVerdictsStep ==
    ASSUME TypeOK, FlowTypes, ToldVerdicts, ~Durable, Next, EndKind \subseteq Traced
    PROVE  ToldVerdicts'
<1>0. KindsGrowing
  BY StepFlow
<1>1. CASE \E c \in Challenges : Submit(c)
  BY <1>0, <1>1, SubmitFrame, ToldVerdictsStay
<1>2. CASE OrchestratorStep
  BY <1>0, <1>2, OrchestratorLog, ToldVerdictsStay
<1>3. CASE \E k \in Categories : SpecialistStep(k)
  BY <1>0, <1>3, SpecialistFrame, ToldVerdictsStay
<1>4. CASE OnCandidate
  <2>1. PICK m : OnlyHand("gate", [stage |-> "trace", msg |-> Judge(m)])
    BY <1>4, HandAt DEF OnCandidate
  <2>2. log'.flags = log.flags /\ hand'.gate.stage = "trace"
    BY <1>4, <2>1 DEF OnCandidate, OnlyHand
  <2> QED
    BY <1>0, <2>2 DEF ToldVerdicts, KindsGrowing
<1>5. CASE AnnounceVerdict
  <2>1. /\ hand.gate.stage = "trace" /\ log \in Topics
        /\ hand' = [hand EXCEPT !.gate.stage = "publish"]
    BY <1>5 DEF AnnounceVerdict, TypeOK
  <2>2. hand'.gate = [stage |-> "publish", msg |-> hand.gate.msg]
    BY <2>1, StageAt DEF OnlyHand
  <2>3. log'.flags = log.flags
    BY <1>5 DEF AnnounceVerdict, WithTrace, Topics, TypeOK
  <2>4. ASSUME hand.gate.msg.status # "solved", NEW d, d = hand.gate.msg.challenge_id
        PROVE  "candidate_rejected" \in Kinds(d)'
    BY <1>5, <2>4, AnnounceVerdictFlow DEF EndKind
  <2>5. \A f \in Range(log'.flags) :
          f.status # "solved" => "candidate_rejected" \in Kinds(f.challenge_id)'
    BY <1>0, <2>3 DEF ToldVerdicts, KindsGrowing
  <2>6. hand'.gate.msg = hand.gate.msg
    BY <2>2
  <2> QED
    BY <2>4, <2>5, <2>6 DEF ToldVerdicts
<1>6. CASE PublishFlag
  <2>1. /\ hand.gate.stage = "publish" /\ hand.gate.msg \in Candidate
    BY <1>6, PublishFlagFlow
  <2>2. /\ log'.flags = Append(log.flags, hand.gate.msg) /\ hand'.gate = Idle
    BY <1>6, HandAt DEF PublishFlag, Topics, TypeOK, OnlyHand
  <2>3. Range(log'.flags) = Range(log.flags) \cup {hand.gate.msg}
    BY <2>1, <2>2, SeqTypes, RangeOfAppend DEF TypeOK
  <2>4. ASSUME NEW f \in Range(log'.flags), f.status # "solved"
        PROVE  "candidate_rejected" \in Kinds(f.challenge_id)
    BY <2>1, <2>3, <2>4 DEF ToldVerdicts
  <2> QED
    BY <1>0, <2>2, <2>4 DEF ToldVerdicts, KindsGrowing, Idle
<1>7. ASSUME NEW p \in Deployed, Crash(p) PROVE FALSE
  BY <1>7 DEF Crash
<1> QED
  BY <1>1, <1>2, <1>3, <1>4, <1>5, <1>6, <1>7 DEF Next, GateStep

LEMMA AccountsStep ==
    ASSUME TypeOK, FlowTypes, ToldVerdicts, Accounts, ~Durable, Next, EndKind \subseteq Traced
    PROVE  Accounts'
<1>1. ASSUME NEW c \in Challenges, Submit(c), Enters(c), Mute PROVE Accounts'
  BY <1>1, EntersCounts, LineAt DEF Submit
<1>2. KindsGrowing
  BY StepFlow
<1> QED
  BY <1>1, <1>2, StepFlow, KeepsCounts, TakesCounts, PassesCounts, DropsCounts, EndsCounts

-----------------------------------------------------------------------------
(* The items of a challenge are its work items                             *)

LEMMA ItemsAreWork == ASSUME TypeOK, NEW c PROVE WorkItems(c) = Items(c)
<1> DEFINE readItems == UNION { {<<s, i>> : i \in {j \in (read[s] + 1)..Len(Inbox(s)) :
                                 Subject(s, Inbox(s)[j]) = c}} : s \in Workers }
           handItems == {<<s, 0>> : s \in {w \in Workers : hand[w] # Idle
                                                     /\ Subject(w, hand[w].msg) = c}}
           taskItems == UNION { {<<k, i>> : i \in {j \in (taken[k] + 1)..Len(log.tasks[k]) :
                                      log.tasks[k][j].challenge_id = c}} : k \in Categories }
           specItems == {<<k, 0>> : k \in {j \in Categories : spec[j] # Idle
                                                     /\ spec[j].task.challenge_id = c}}
<1>1. WorkItems(c) = readItems \cup handItems \cup taskItems \cup specItems
  BY DEF WorkItems
<1>2. FlowTypes
  BY FlowTyped
<1>3. ASSUME NEW s \in Workers
      PROVE  /\ s \in Station /\ Past[s] = read[s] /\ read[s] \in Nat
             /\ Len(Inbox(s)) \in Nat
             /\ hand[s] # Idle <=> hand[s].stage # "idle"
  <2>1. s \in Station /\ s \in Services /\ Past[s] = read[s]
    BY StationFacts DEF Past
  <2>2. Len(Inbox(s)) \in Nat
    BY <2>1, SeqTypes DEF Inbox, Services, TypeOK
  <2>3. read[s] \in Nat
    BY <2>1 DEF TypeOK
  <2>4. hand[s] # Idle <=> hand[s].stage # "idle"
    <3>1. hand \in Handlers
      BY DEF TypeOK
    <3>2. hand["challenge"] # Idle <=> hand["challenge"].stage # "idle"
      BY <3>1 DEF Handlers, Idle
    <3>3. hand["handoff"] # Idle <=> hand["handoff"].stage # "idle"
      BY <3>1 DEF Handlers, Idle
    <3>4. hand["flag"] # Idle <=> hand["flag"].stage # "idle"
      BY <3>1 DEF Handlers, Idle
    <3>5. hand["gate"] # Idle <=> hand["gate"].stage # "idle"
      BY <3>1 DEF Handlers, Idle
    <3> QED
      BY <3>2, <3>3, <3>4, <3>5, StationFacts
  <2> QED
    BY <2>1, <2>2, <2>3, <2>4
<1>4. ASSUME NEW k \in Categories
      PROVE  /\ k \in Station /\ k \notin Workers /\ Past[k] = taken[k] /\ taken[k] \in Nat
             /\ Len(log.tasks[k]) \in Nat
             /\ spec[k] # Idle <=> spec[k].stage # "idle"
  <2>1. k \in Station /\ k \notin Workers /\ Past[k] = taken[k]
    BY StationFacts DEF Past
  <2>2. Len(log.tasks[k]) \in Nat /\ taken[k] \in Nat
    BY SeqTypes DEF TypeOK
  <2>3. spec[k] # Idle <=> spec[k].stage # "idle"
    <3>1. spec[k] \in {Idle} \cup [stage : {"scan", "engine"}, task : Task, barren : Nat]
      BY DEF TypeOK, Specialist
    <3> QED
      BY <3>1 DEF Idle
  <2> QED
    BY <2>1, <2>2, <2>3
<1>5. ASSUME NEW s \in Workers, NEW i
      PROVE  i \in (read[s] + 1)..Len(Inbox(s)) /\ Subject(s, Inbox(s)[i]) = c
             <=> i \in (Past[s] + 1)..Len(Line[s]) /\ Line[s][i] = c
  BY <1>3, InboxLine
<1>6. ASSUME NEW k \in Categories, NEW i
      PROVE  i \in (taken[k] + 1)..Len(log.tasks[k]) /\ log.tasks[k][i].challenge_id = c
             <=> i \in (Past[k] + 1)..Len(Line[k]) /\ Line[k][i] = c
  BY <1>4, TaskLine
<1>7. ASSUME NEW s \in Workers
      PROVE  hand[s] # Idle /\ Subject(s, hand[s].msg) = c <=> c \in Held[s]
  BY <1>3 DEF Held
<1>8. ASSUME NEW k \in Categories
      PROVE  spec[k] # Idle /\ spec[k].task.challenge_id = c <=> c \in Held[k]
  BY <1>4 DEF Held
<1>9. ASSUME NEW x \in Station, NEW i, i \in (Past[x] + 1)..Len(Line[x]) PROVE i \in Nat
  BY <1>2, <1>9 DEF FlowTypes
<1>10. ASSUME NEW p
       PROVE  p \in Items(c)
              <=> \E x \in Station : \/ \E i \in (Past[x] + 1)..Len(Line[x]) :
                                           p = <<x, i>> /\ Line[x][i] = c
                                     \/ p = <<x, 0>> /\ c \in Held[x]
  BY <1>9, ItemsAt DEF At
<1>11. \A p : p \in readItems
               <=> \E s \in Workers : \E i \in (Past[s] + 1)..Len(Line[s]) :
                     p = <<s, i>> /\ Line[s][i] = c
  BY <1>5
<1>12. \A p : p \in taskItems
               <=> \E k \in Categories : \E i \in (Past[k] + 1)..Len(Line[k]) :
                     p = <<k, i>> /\ Line[k][i] = c
  BY <1>6
<1>13. \A p : p \in handItems <=> \E s \in Workers : p = <<s, 0>> /\ c \in Held[s]
  BY <1>7
<1>14. \A p : p \in specItems <=> \E k \in Categories : p = <<k, 0>> /\ c \in Held[k]
  BY <1>8
<1> HIDE DEF readItems, handItems, taskItems, specItems
<1>15. \A p : p \in WorkItems(c) <=> p \in Items(c)
  BY <1>1, <1>10, <1>11, <1>12, <1>13, <1>14 DEF Station
<1> QED
  BY <1>15

LEMMA OneItem == ASSUME NEW c, Alive(c) PROVE Cardinality(Items(c)) = 1
  BY FS_Singleton DEF Alive

LEMMA InitCounts == Init => Accounts /\ ToldVerdicts
<1> SUFFICES ASSUME Init PROVE Accounts /\ ToldVerdicts
  OBVIOUS
<1>1. /\ log.challenges = <<>> /\ log.handoffs = <<>> /\ log.flags = <<>>
      /\ log.candidates = <<>> /\ \A k \in Categories : log.tasks[k] = <<>>
      /\ \A s \in Services : hand[s] = Idle
      /\ \A k \in Categories : spec[k] = Idle
  BY DEF Init
<1>2. TypeOK /\ FlowTypes
  BY InitTypeOK, FlowTyped
<1>3. ASSUME NEW x \in Station PROVE Len(Line[x]) = 0 /\ Held[x] = {}
  <2>1. CASE x \in Workers
    <3>1. Inbox(x) = <<>> /\ hand[x].stage = "idle"
      BY <1>1, <2>1, StationFacts DEF Inbox, Services, Idle
    <3> QED
      BY <1>2, <2>1, <3>1, InboxLine DEF Held
  <2>2. CASE x \in Categories
    <3>1. Len(Line[x]) = 0
      BY <1>1, <1>2, <2>2, TaskLine
    <3>2. Held[x] = {}
      BY <1>1, <2>2, StationFacts DEF Held, Idle
    <3> QED
      BY <3>1, <3>2
  <2> QED
    BY <2>1, <2>2 DEF Station
<1>4. \A x \in Station : Past[x] \in Nat
  BY <1>2 DEF FlowTypes
<1>5. ASSUME NEW c \in Challenges PROVE Items(c) = {}
  BY <1>3, <1>4 DEF Items
<1>6. Range(Line["challenge"]) = {}
  BY <1>1, LineAt DEF Range
<1>7. Accounts
  BY <1>5, <1>6 DEF Accounts, Accounted
<1>8. ToldVerdicts
  BY <1>1 DEF ToldVerdicts, Range, Services, Idle
<1> QED
  BY <1>7, <1>8

\* Work on a submitted challenge is neither lost nor duplicated, in memory,
\* whatever the challenges, the categories, the engines and the depth limit: as
\* long as the ends are traced there is one message or handler for it until a
\* trace says how it ended.
THEOREM WorkStaysConserved ==
    ASSUME ~Durable, EndKind \subseteq Traced
    PROVE  Spec => []WorkIsConserved
<1> DEFINE IInv == TypeOK /\ ToldVerdicts /\ Accounts
<1>1. Init => IInv
  BY InitTypeOK, InitCounts
<1>2. TypeOK /\ TypeOK' /\ IInv /\ [Next]_vars => IInv'
  <2> SUFFICES ASSUME TypeOK, TypeOK', ToldVerdicts, Accounts, [Next]_vars
               PROVE  ToldVerdicts' /\ Accounts'
    OBVIOUS
  <2>1. FlowTypes
    BY FlowTyped
  <2>2. CASE Next
    BY <2>1, <2>2, ToldVerdictsStep, AccountsStep
  <2>3. CASE UNCHANGED vars
    <3>1. Keeps /\ Mute /\ log' = log /\ hand' = hand
      BY <2>3, KindsStay DEF vars, Keeps, Line, Past, Held
    <3>2. KindsGrowing
      BY <3>1, TellsGrow
    <3> QED
      BY <2>1, <3>1, <3>2, KeepsCounts, ToldVerdictsStay
  <2> QED
    BY <2>2, <2>3
<1>3. IInv => WorkIsConserved
  <2> SUFFICES ASSUME TypeOK, Accounts, NEW c \in Range(log.challenges)
               PROVE  Cardinality(WorkItems(c)) = 1 \/ (WorkItems(c) = {} /\ Ended(c))
    BY DEF WorkIsConserved
  <2>1. c \in Challenges
    BY SeqTypes DEF TypeOK, Range
  <2>2. Alive(c) \/ (Items(c) = {} /\ Ended(c))
    BY <2>1, LineAt DEF Accounts, Accounted
  <2> QED
    BY <2>2, OneItem, ItemsAreWork
<1> QED
  BY <1>1, <1>2, <1>3, TypeCorrect, PTL DEF Spec

-----------------------------------------------------------------------------
(* What a board, the traces and the flags say of a challenge, by the place  *)
(* its item has reached                                                    *)

Submitted(c) == c \in Range(Line["challenge"])
Judged(c) == \E f \in Range(log.flags) : f.challenge_id = c
Status(c) == board[c].board_status
Tracing(c) == hand.trace.stage = "write" /\ hand.trace.msg.challenge_id = c

\* The kinds that decide what cli.py board prints in the end.
Final == {"solved", "engine_no_candidate", "engine_error"}

\* The board status of a challenge whose item is at place p: none until
\* on_challenge has stored the board, solved once on_flag has written it.
Standing(p) ==
    IF p[1] = "challenge" /\ (p[2] # 0 \/ hand.challenge.stage = "store") THEN "none"
    ELSE IF p = <<"flag", 0>> /\ hand.flag.stage = "announce" THEN "solved"
    ELSE "running"

Story(c) ==
    /\ ~Submitted(c) => Status(c) = "none"
    /\ \A p \in Items(c) : Status(c) = Standing(p)
    /\ Judged(c) => Submitted(c) /\ \A p \in Items(c) : p[1] = "flag"
    /\ \A kind \in Kinds(c) \cap Final :
         /\ Submitted(c) /\ Items(c) = {}
         /\ kind = "solved" => Status(c) = "solved"
         /\ kind # "solved" => ~Judged(c) /\ Status(c) \in {"running", Outcome(kind)}
    /\ ~({"engine_no_candidate", "engine_error"} \subseteq Kinds(c))
    /\ Status(c) = "solved" => "solved" \in Kinds(c) \/ \E p \in Items(c) : Standing(p) = "solved"
    /\ Status(c) = "timed_out" => "engine_no_candidate" \in Kinds(c)
    /\ Status(c) = "failed" => "engine_error" \in Kinds(c)
    /\ Tracing(c) => Status(c) = "running" /\ hand.trace.msg.kind \in Kinds(c)
Stories == \A c \in Challenges : Story(c)

LEMMA StatusTypes ==
    ASSUME TypeOK, NEW c \in Challenges
    PROVE  /\ Status(c) \in {"none", "running", "solved", "timed_out", "failed"}
           /\ Status(c) = "none" <=> board[c] = NoBoard
<1>1. board[c] \in Board \cup {NoBoard}
  BY DEF TypeOK
<1> QED
  BY <1>1 DEF Board, BoardStatus, NoBoard, Status

LEMMA FinalFacts ==
    /\ Outcome("solved") = "none" /\ Outcome("engine_no_candidate") = "timed_out"
    /\ Outcome("engine_error") = "failed"
    /\ \A kind : Outcome(kind) # "none" <=> kind \in Final \ {"solved"}
    /\ Final \subseteq EndKind
  BY DEF Outcome, Final, EndKind

\* A challenge with an item has no final trace and no trace is being written
\* for it; no verdict on it is out unless the item is the verdict's.
LEMMA LiveFacts ==
    ASSUME TypeOK, NEW c, Story(c), NEW p \in Items(c)
    PROVE  /\ Kinds(c) \cap Final = {} /\ ~Tracing(c)
           /\ p[1] # "flag" => ~Judged(c)
           /\ Status(c) = Standing(p)
<1>1. Kinds(c) \cap Final = {}
  BY DEF Story
<1>2. ASSUME Tracing(c) PROVE FALSE
  <2>1. hand.trace.msg.kind \in Kinds(c)
    BY <1>2 DEF Story
  <2>2. hand.trace.msg.kind \in Final
    BY <1>2, HandlerTypes, FinalFacts DEF TypeOK, Tracing
  <2> QED
    BY <1>1, <2>1, <2>2
<1> QED
  BY <1>1, <1>2 DEF Story

\* Nothing of what a story is about changed.
Same(d) ==
    /\ Items(d)' = Items(d) /\ Kinds(d)' = Kinds(d) /\ Status(d)' = Status(d)
    /\ Submitted(d)' <=> Submitted(d)
    /\ Judged(d)' <=> Judged(d)
    /\ hand'.trace = hand.trace \/ ~Tracing(d)'
    /\ hand'.challenge.stage = hand.challenge.stage \/ <<"challenge", 0>> \notin Items(d)
    /\ hand'.flag.stage = hand.flag.stage \/ <<"flag", 0>> \notin Items(d)

LEMMA SameStory ==
    ASSUME NEW d, Story(d), Same(d)
    PROVE  Story(d)'
<1>1. \A p \in Items(d) : Standing(p)' = Standing(p)
  <2> SUFFICES ASSUME NEW p \in Items(d) PROVE Standing(p)' = Standing(p)
    OBVIOUS
  <2>1. PICK x, i : p = <<x, i>>
    BY ItemsAt
  <2>2. CASE x = "challenge" /\ i = 0
    BY <2>1, <2>2 DEF Standing, Same
  <2>3. CASE x = "flag" /\ i = 0
    BY <2>1, <2>3 DEF Standing, Same
  <2>4. CASE ~(x = "challenge" /\ i = 0) /\ ~(x = "flag" /\ i = 0)
    BY <2>1, <2>4 DEF Standing
  <2> QED
    BY <2>2, <2>3, <2>4
<1>2. Tracing(d)' => Tracing(d) /\ hand'.trace = hand.trace
  BY DEF Same, Tracing
<1> QED
  BY <1>1, <1>2 DEF Same, Story

\* The item of c moved, and nothing final was said.
LEMMA MoveStory ==
    ASSUME TypeOK, NEW c, Story(c), Items(c) # {}, NEW q, Items(c)' = {q},
           Submitted(c)', Kinds(c)' \cap Final \subseteq Kinds(c),
           Judged(c)' => q[1] = "flag", Status(c)' = Standing(q)',
           hand'.trace = hand.trace,
           Status(c)' \in {"none", "running", "solved"}
    PROVE  Story(c)'
<1>1. Kinds(c) \cap Final = {} /\ ~Tracing(c)
  BY LiveFacts
<1>2. Kinds(c)' \cap Final = {} /\ ~Tracing(c)'
  BY <1>1 DEF Tracing
<1>3. /\ "engine_no_candidate" \notin Kinds(c)' /\ "engine_error" \notin Kinds(c)'
  BY <1>2 DEF Final
<1>4. q \in Items(c)' /\ \A p \in Items(c)' : p = q
  OBVIOUS
<1>5. /\ \A p \in Items(c)' : Status(c)' = Standing(p)'
      /\ Status(c)' = "solved" => \E p \in Items(c)' : Standing(p)' = "solved"
      /\ Judged(c)' => \A p \in Items(c)' : p[1] = "flag"
  BY <1>4
<1> QED
  BY <1>2, <1>3, <1>5 DEF Story

\* The item of c is gone.  If that is told by a final trace it is the only one.
LEMMA EndStory ==
    ASSUME TypeOK, NEW c \in Challenges, Story(c), NEW p \in Items(c), Items(c)' = {},
           Submitted(c)', NEW kinds, Kinds(c)' = Kinds(c) \cup kinds,
           \/ kinds \cap Final = {} /\ Standing(p) # "solved"
           \/ kinds = {"solved"} /\ Standing(p) = "solved"
           \/ \E kind \in Final \ {"solved"} :
                kinds = {kind} /\ Standing(p) = "running" /\ p[1] # "flag",
           hand'.trace = hand.trace, Status(c)' = Status(c), Judged(c)' <=> Judged(c)
    PROVE  Story(c)'
<1>1. Kinds(c) \cap Final = {} /\ ~Tracing(c) /\ Status(c) = Standing(p)
  BY LiveFacts
<1>2. ~Tracing(c)' /\ Status(c) \in {"none", "running", "solved"}
  BY <1>1 DEF Tracing, Standing
<1>3. CASE kinds \cap Final = {} /\ Standing(p) # "solved"
  <2>1. Kinds(c)' \cap Final = {}
    BY <1>1, <1>3
  <2> QED
    BY <1>1, <1>2, <1>3, <2>1 DEF Story, Final
<1>4. CASE kinds = {"solved"} /\ Standing(p) = "solved"
  <2>1. Kinds(c)' \cap Final = {"solved"}
    BY <1>1, <1>4 DEF Final
  <2> QED
    BY <1>1, <1>2, <1>4, <2>1 DEF Story, Final
<1>5. CASE \E kind \in Final \ {"solved"} :
             kinds = {kind} /\ Standing(p) = "running" /\ p[1] # "flag"
  <2>1. PICK kind \in Final \ {"solved"} :
             kinds = {kind} /\ Standing(p) = "running" /\ p[1] # "flag"
    BY <1>5
  <2>2. Kinds(c)' \cap Final = {kind} /\ ~Judged(c)
    BY <1>1, <2>1, LiveFacts
  <2> QED
    BY <1>1, <1>2, <2>1, <2>2 DEF Story, Final
<1> QED
  BY <1>3, <1>4, <1>5

LEMMA NotInHand ==
    ASSUME FlowTypes, NEW x \in Station, NEW c, Held[x] \subseteq {c}, NEW d, d # c
    PROVE  <<x, 0>> \notin Items(d)
<1>1. Past[x] \in Nat /\ Len(Line[x]) \in Nat /\ d \notin Held[x]
  BY DEF FlowTypes
<1>2. ~At(x, 0, d)
  BY <1>1 DEF At
<1> QED
  BY <1>2, ItemAt

\* A step that is about c alone.
About(c) ==
    /\ \A d : d # c => Items(d)' = Items(d) /\ Kinds(d)' = Kinds(d)
    /\ \A d \in Challenges : d # c => Status(d)' = Status(d)
    /\ \A d : d # c => (Submitted(d)' <=> Submitted(d))
    /\ \A d : d # c => (Judged(d)' <=> Judged(d))
    /\ hand'.trace = hand.trace \/ \A d : d # c => ~Tracing(d)'
    /\ hand'.challenge.stage = hand.challenge.stage \/ Held["challenge"] \subseteq {c}
    /\ hand'.flag.stage = hand.flag.stage \/ Held["flag"] \subseteq {c}

LEMMA OtherStories ==
    ASSUME FlowTypes, Stories, NEW c, About(c), Story(c)'
    PROVE  Stories'
<1>1. ASSUME NEW d \in Challenges, d # c PROVE Story(d)'
  <2>1. Story(d) /\ "challenge" \in Station /\ "flag" \in Station
    BY StationFacts DEF Stories
  <2>2. /\ hand'.challenge.stage = hand.challenge.stage \/ <<"challenge", 0>> \notin Items(d)
        /\ hand'.flag.stage = hand.flag.stage \/ <<"flag", 0>> \notin Items(d)
    BY <1>1, <2>1, NotInHand DEF About
  <2>3. Same(d)
    BY <1>1, <2>2 DEF Same, About
  <2> QED
    BY <2>1, <2>3, SameStory
<1>2. ASSUME NEW d \in Challenges PROVE Story(d)'
  BY <1>1
<1> QED
  BY <1>2 DEF Stories

LEMMA FlagsSame == ASSUME log'.flags = log.flags PROVE \A d : Judged(d)' <=> Judged(d)
  BY DEF Judged
LEMMA SubmittedSame ==
    ASSUME Line'["challenge"] = Line["challenge"]
    PROVE  \A d : Submitted(d)' <=> Submitted(d)
  BY DEF Submitted

\* A challenge with an item was submitted, and has no other item.
LEMMA TheItem ==
    ASSUME Accounts, NEW c \in Challenges, NEW p \in Items(c)
    PROVE  Submitted(c) /\ Items(c) = {p}
  BY DEF Accounts, Accounted, Alive, Submitted

LEMMA TellsFacts ==
    ASSUME NEW c, NEW kind, Tells(c, kind)
    PROVE  /\ \A d : d # c => Kinds(d)' = Kinds(d)
           /\ Kinds(c)' = Kinds(c) \cup ({kind} \cap Traced)
  BY DEF Tells

-----------------------------------------------------------------------------
(* The steps                                                               *)

LEMMA SubmitStory ==
    ASSUME TypeOK, FlowTypes, Accounts, Stories, NEW c \in Challenges, Submit(c)
    PROVE  Stories'
<1>1. /\ ~Submitted(c) /\ UNCHANGED <<hand, board>> /\ log'.flags = log.flags
      /\ Enters(c) /\ Mute
  BY SubmitFlow, SubmitFrame, LineAt DEF Submit, Submitted
<1>2. /\ Story(c) /\ Accounted(c)
  BY DEF Stories, Accounts
<1>3. /\ Line["challenge"] \in Seq(Challenges) /\ Len(Line["challenge"]) \in Nat
      /\ Line'["challenge"] = Append(Line["challenge"], c)
  BY <1>1, StationFacts DEF Enters, FlowTypes
<1>4. \A d : Submitted(d)' <=> Submitted(d) \/ d = c
  BY <1>3, RangeOfAppend DEF Submitted
<1>5. PICK q : q = <<"challenge", Len(Line["challenge"]) + 1>>
  OBVIOUS
<1>6. /\ Items(c)' = {q} /\ \A d : d # c => Items(d)' = Items(d)
      /\ q[1] = "challenge" /\ q[2] # 0
  BY <1>1, <1>2, <1>3, <1>5, EntersItem DEF Accounted, Submitted
<1>7. /\ Standing(q)' = "none" /\ Status(c)' = "none" /\ ~Judged(c)'
      /\ Kinds(c)' \cap Final = {} /\ Status(c)' = Status(c)
  <2>1. Standing(q)' = "none"
    BY <1>6 DEF Standing
  <2>2. Status(c) = "none" /\ Status(c)' = Status(c)
    BY <1>1, <1>2 DEF Story, Status
  <2>3. ~Judged(c)'
    BY <1>1, <1>2, FlagsSame DEF Story
  <2>4. Kinds(c)' = Kinds(c) /\ Kinds(c) \cap Final = {}
    BY <1>1, <1>2 DEF Story, Mute
  <2> QED
    BY <2>1, <2>2, <2>3, <2>4
<1>8. ~Tracing(c)'
  <2>1. ASSUME Tracing(c) PROVE FALSE
    BY <1>1, <1>2, <2>1 DEF Story
  <2> QED
    BY <1>1, <2>1 DEF Tracing
<1>9. Story(c)'
  <2>1. /\ "engine_no_candidate" \notin Kinds(c)' /\ "engine_error" \notin Kinds(c)'
    BY <1>7 DEF Final
  <2>2. \A p \in Items(c)' : Status(c)' = Standing(p)'
    BY <1>6, <1>7
  <2> QED
    BY <1>4, <1>7, <1>8, <2>1, <2>2 DEF Story
<1>10. About(c)
  BY <1>1, <1>4, <1>6, FlagsSame DEF About, Mute, Status
<1> QED
  BY <1>9, <1>10, OtherStories

LEMMA OnChallengeStory ==
    ASSUME TypeOK, FlowTypes, Accounts, Stories, OnChallenge
    PROVE  Stories'
<1> DEFINE x == "challenge"
<1>0. x \in Station /\ x \in Workers
  BY StationFacts
<1>1. PICK c \in Challenges :
        /\ c = Next1(x)
        /\ \/ /\ Takes(x) /\ Mute
              /\ hand' = [hand EXCEPT !.challenge = [stage |-> "store", msg |-> c]]
           \/ /\ Drops(x) /\ Tells(c, "challenge_rejected") /\ UNCHANGED hand
  BY OnChallengeFlow
<1>2. log \in Topics /\ UNCHANGED <<spec, board>> /\ log'.flags = log.flags
  BY OrchestratorLog DEF OnChallenge, OrchestratorStep, TypeOK
<1>3. Held[x] = {} /\ Past[x] \in Nat /\ Line' = Line
  BY <1>0, <1>1 DEF Takes, Drops, Hands, FlowTypes
<1> DEFINE p == <<x, Past[x] + 1>>
<1>4. p[1] = "challenge" /\ p[2] # 0
  BY <1>3
<1>5. Story(c)
  BY DEF Stories
<1> HIDE DEF x
<1>6. CASE Takes(x) /\ Mute /\ hand' = [hand EXCEPT !.challenge = [stage |-> "store", msg |-> c]]
  <2> DEFINE q == <<x, 0>>
  <2>1. /\ p \in Items(c) /\ Items(c)' = (Items(c) \ {p}) \cup {q}
        /\ \A d : d # c => Items(d)' = Items(d)
    BY <1>0, <1>1, <1>6, TakesItem
  <2>2. Submitted(c) /\ Items(c)' = {q}
    BY <2>1, TheItem
  <2>3. OnlyHand("challenge", [stage |-> "store", msg |-> c])
    BY <1>6, HandAt
  <2>4. /\ hand'.trace = hand.trace /\ hand'.flag = hand.flag
        /\ hand'.challenge.stage = "store"
    BY <2>3 DEF OnlyHand, Services
  <2>5. q[1] = "challenge"
    BY DEF x
  <2> HIDE DEF p, q
  <2>6. Standing(p) = "none" /\ Standing(q)' = "none" /\ ~Judged(c) /\ Status(c) = "none"
    <3>1. Standing(p) = "none"
      BY <1>4 DEF Standing
    <3>2. Standing(q)' = "none"
      BY <2>4, <2>5 DEF Standing
    <3> QED
      BY <1>4, <1>5, <2>1, <3>1, <3>2, LiveFacts
  <2>7. /\ Status(c)' = "none" /\ Kinds(c)' = Kinds(c) /\ ~Judged(c)' /\ Submitted(c)'
    BY <1>2, <1>3, <1>6, <2>2, <2>6, FlagsSame, SubmittedSame DEF Status, Mute
  <2>8. Story(c)'
    BY <1>5, <2>1, <2>2, <2>4, <2>6, <2>7, MoveStory
  <2>9. About(c)
    BY <1>2, <1>3, <1>6, <2>1, <2>4, FlagsSame, SubmittedSame DEF About, Mute, Status, x
  <2> QED
    BY <2>8, <2>9, OtherStories
<1>7. CASE Drops(x) /\ Tells(c, "challenge_rejected") /\ UNCHANGED hand
  <2>1. /\ p \in Items(c) /\ Items(c)' = Items(c) \ {p}
        /\ \A d : d # c => Items(d)' = Items(d)
    BY <1>0, <1>1, <1>7, DropsItem
  <2>2. Submitted(c) /\ Items(c)' = {}
    BY <2>1, TheItem
  <2> HIDE DEF p
  <2>3. Standing(p) = "none"
    BY <1>4 DEF Standing
  <2>4. /\ Status(c)' = Status(c) /\ (Judged(c)' <=> Judged(c)) /\ Submitted(c)'
    BY <1>2, <1>3, <2>2, FlagsSame, SubmittedSame DEF Status
  <2> DEFINE kinds == {"challenge_rejected"} \cap Traced
  <2>5. Kinds(c)' = Kinds(c) \cup kinds /\ kinds \cap Final = {}
    BY <1>7, TellsFacts DEF Final
  <2> HIDE DEF kinds
  <2>6. Story(c)'
    BY <1>5, <1>7, <2>1, <2>2, <2>3, <2>4, <2>5, EndStory
  <2>7. About(c)
    BY <1>2, <1>3, <1>7, <2>1, FlagsSame, SubmittedSame, TellsFacts DEF About, Status
  <2> QED
    BY <2>6, <2>7, OtherStories
<1> QED
  BY <1>1, <1>6, <1>7

\* A station other than the first is handed a challenge.
LEMMA TakesStory ==
    ASSUME TypeOK, FlowTypes, Accounts, Stories, NEW x \in Station, NEW c, Takes(x),
           c = Next1(x), x # "challenge", \A d : d # c => Kinds(d)' = Kinds(d),
           Kinds(c)' \cap Final \subseteq Kinds(c), UNCHANGED board, log'.flags = log.flags,
           hand'.trace = hand.trace, hand'.challenge.stage = hand.challenge.stage,
           \/ hand'.flag.stage = hand.flag.stage /\ x # "flag"
           \/ x = "flag" /\ hand'.flag.stage # "announce"
    PROVE  Stories'
<1>1. /\ c \in Challenges /\ <<x, Past[x] + 1>> \in Items(c)
      /\ Items(c)' = (Items(c) \ {<<x, Past[x] + 1>>}) \cup {<<x, 0>>}
      /\ \A d : d # c => Items(d)' = Items(d)
  BY TakesItem
<1>2. Held[x] = {} /\ Past[x] \in Nat /\ Line' = Line
  BY DEF Takes, Hands, FlowTypes
<1>3. PICK p : p = <<x, Past[x] + 1>>
  OBVIOUS
<1>4. p \in Items(c) /\ p[1] = x /\ p[2] # 0 /\ p # <<"flag", 0>>
  BY <1>1, <1>2, <1>3
<1>5. Story(c) /\ Submitted(c) /\ Items(c) = {p}
  BY <1>1, <1>4, TheItem DEF Stories
<1> DEFINE q == <<x, 0>>
<1>6. Items(c)' = {q} /\ q[1] = x
  BY <1>1, <1>3, <1>5
<1>7. Standing(p) = "running"
  BY <1>4 DEF Standing
<1>8. Standing(q)' = "running"
  BY DEF Standing
<1>9. Status(c) = "running" /\ Status(c)' = "running" /\ (x # "flag" => ~Judged(c))
  BY <1>4, <1>5, <1>7, LiveFacts DEF Status
<1>10. Submitted(c)' /\ (Judged(c)' => x = "flag")
  BY <1>2, <1>5, <1>9, FlagsSame, SubmittedSame
<1> HIDE DEF q
<1>11. Story(c)'
  BY <1>4, <1>5, <1>6, <1>8, <1>9, <1>10, MoveStory
<1>12. About(c)
  BY <1>1, <1>2, FlagsSame, SubmittedSame DEF About, Status
<1> QED
  BY <1>11, <1>12, OtherStories

\* A station passes its challenge on.
LEMMA PassesStory ==
    ASSUME TypeOK, FlowTypes, Accounts, Stories, NEW x \in Station, NEW y \in Station, NEW c,
           Passes(x, y, c), y # "challenge", \A d : d # c => Kinds(d)' = Kinds(d),
           Kinds(c)' \cap Final \subseteq Kinds(c), UNCHANGED board,
           \A d : d # c => (Judged(d)' <=> Judged(d)),
           \/ y = "flag" /\ x # "flag"
           \/ log'.flags = log.flags /\ x # "flag",
           hand'.trace = hand.trace, hand'.flag.stage = hand.flag.stage,
           \/ hand'.challenge.stage = hand.challenge.stage /\ x # "challenge"
           \/ x = "challenge" /\ hand.challenge.stage = "dispatch"
    PROVE  Stories'
<1>1. /\ c \in Challenges /\ <<x, 0>> \in Items(c)
      /\ Items(c)' = (Items(c) \ {<<x, 0>>}) \cup {<<y, Len(Line[y]) + 1>>}
      /\ \A d : d # c => Items(d)' = Items(d)
  BY PassesItem
<1>2. /\ Held[x] = {c} /\ Len(Line[y]) \in Nat
      /\ Line'["challenge"] = Line["challenge"]
  BY StationFacts DEF Passes, FlowTypes
<1>3. PICK q : q = <<y, Len(Line[y]) + 1>>
  OBVIOUS
<1>4. q[1] = y /\ q[2] # 0 /\ q # <<"flag", 0>>
  BY <1>2, <1>3
<1> DEFINE p == <<x, 0>>
<1>5. p \in Items(c) /\ Story(c) /\ Submitted(c) /\ Items(c) = {p}
  BY <1>1, TheItem DEF Stories
<1>6. Items(c)' = {q}
  BY <1>1, <1>3, <1>5
<1>7. Standing(p) = "running" /\ p[1] # "flag"
  BY DEF Standing
<1>8. Standing(q)' = "running"
  BY <1>4 DEF Standing
<1> HIDE DEF p
<1>9. Status(c) = "running" /\ Status(c)' = "running" /\ ~Judged(c)
  BY <1>5, <1>7, LiveFacts DEF Status
<1>10. Submitted(c)' /\ (Judged(c)' => q[1] = "flag")
  BY <1>2, <1>4, <1>5, <1>9, FlagsSame, SubmittedSame
<1>11. Story(c)'
  BY <1>5, <1>6, <1>8, <1>9, <1>10, MoveStory
<1>12. About(c)
  BY <1>1, <1>2, SubmittedSame DEF About, Status
<1> QED
  BY <1>11, <1>12, OtherStories

\* A station is done with its challenge and says so.
LEMMA EndsStory ==
    ASSUME TypeOK, FlowTypes, Accounts, Stories, NEW x \in Station, NEW c, Ends(x, c),
           NEW kind, Tells(c, kind), Final \subseteq Traced,
           UNCHANGED board, log'.flags = log.flags, hand'.trace = hand.trace,
           hand'.challenge.stage = hand.challenge.stage, x # "challenge",
           \/ x # "flag" /\ kind # "solved" /\ hand'.flag.stage = hand.flag.stage
           \/ x = "flag" /\ kind = "solved" /\ hand.flag.stage = "announce"
    PROVE  Stories'
<1>1. /\ c \in Challenges /\ <<x, 0>> \in Items(c)
      /\ Items(c)' = Items(c) \ {<<x, 0>>}
      /\ \A d : d # c => Items(d)' = Items(d)
  BY EndsItem
<1>2. Held[x] = {c} /\ Line' = Line
  BY DEF Ends
<1> DEFINE p == <<x, 0>>
           kinds == {kind} \cap Traced
<1>3. p \in Items(c) /\ Story(c) /\ Submitted(c) /\ Items(c)' = {}
  BY <1>1, TheItem DEF Stories
<1>4. /\ p[1] = x
      /\ IF x = "flag" THEN Standing(p) = "solved" ELSE Standing(p) = "running"
  BY DEF Standing
<1>5. /\ Kinds(c)' = Kinds(c) \cup kinds
      /\ kind \notin Final => kinds \cap Final = {}
      /\ kind \in Final => kinds = {kind}
  BY TellsFacts
<1>6. Status(c)' = Status(c) /\ (Judged(c)' <=> Judged(c)) /\ Submitted(c)'
  BY <1>2, <1>3, FlagsSame, SubmittedSame DEF Status
<1> HIDE DEF p, kinds
<1>7. \/ kinds \cap Final = {} /\ Standing(p) # "solved"
      \/ kinds = {"solved"} /\ Standing(p) = "solved"
      \/ \E k \in Final \ {"solved"} :
           kinds = {k} /\ Standing(p) = "running" /\ p[1] # "flag"
  BY <1>4, <1>5 DEF Final
<1>8. Story(c)'
  BY <1>1, <1>3, <1>5, <1>6, <1>7, EndStory
<1>9. About(c)
  BY <1>1, <1>2, TellsFacts, FlagsSame, SubmittedSame DEF About, Status
<1> QED
  BY <1>8, <1>9, OtherStories

LEMMA KeepsFacts ==
    ASSUME Keeps
    PROVE  /\ \A d : Items(d)' = Items(d)
           /\ \A d : Submitted(d)' <=> Submitted(d)
  BY KeepsItems, SubmittedSame DEF Keeps

LEMMA StoreBoardStory ==
    ASSUME TypeOK, FlowTypes, Accounts, Stories, StoreBoard
    PROVE  Stories'
<1> DEFINE c == hand.challenge.msg
           p == <<"challenge", 0>>
<1>1. /\ hand.challenge.stage = "store" /\ c \in Challenges /\ Held["challenge"] = {c}
      /\ UNCHANGED log /\ "challenge" \in Station
  BY HandlerTypes, HoldsWorker, StationFacts DEF StoreBoard, TypeOK, Subject
<1>2. PICK e \in Challenges : e = c
  BY <1>1
<1>3. OnlyHand("challenge", [stage |-> "dispatch", msg |-> c])
  BY <1>1, StageAt DEF StoreBoard
<1>4. /\ hand'.trace = hand.trace /\ hand'.flag = hand.flag
      /\ hand'.challenge.stage = "dispatch"
  BY <1>3 DEF OnlyHand, Services
<1>5. /\ Status(e)' = "running"
      /\ \A d \in Challenges : d # e => Status(d)' = Status(d)
  <2>1. board' = [board EXCEPT ![e] =
                    [board_status |-> "running", status |-> "in_progress", flags |-> <<>>]]
    BY <1>2 DEF StoreBoard
  <2>2. board \in [Challenges -> Board \cup {NoBoard}]
    BY DEF TypeOK
  <2> QED
    BY <2>1, <2>2 DEF Status
<1> HIDE DEF c
<1>6. Keeps /\ Mute /\ Story(e)
  BY StoreBoardFlow DEF Stories
<1>7. p \in Items(e) /\ Submitted(e)' /\ Items(e)' = {p}
  <2>1. p \in Items(e)
    BY <1>1, <1>2, ItemAt DEF At
  <2> QED
    BY <1>6, <2>1, TheItem, KeepsFacts
<1>8. Standing(p)' = "running"
  BY <1>4 DEF Standing
<1>9. ~Judged(e)'
  BY <1>1, <1>6, <1>7, LiveFacts, FlagsSame
<1> HIDE DEF p
<1>10. Story(e)'
  BY <1>4, <1>5, <1>6, <1>7, <1>8, <1>9, MoveStory DEF Mute
<1>11. About(e)
  BY <1>1, <1>2, <1>4, <1>5, <1>6, KeepsFacts, FlagsSame DEF About, Mute
<1> QED
  BY <1>10, <1>11, OtherStories

LEMMA WriteSolvedStory ==
    ASSUME TypeOK, FlowTypes, Accounts, Stories, WriteSolved
    PROVE  Stories'
<1> DEFINE c == hand.flag.msg.challenge_id
           p == <<"flag", 0>>
<1>1. /\ hand.flag.stage = "write" /\ c \in Challenges /\ Held["flag"] = {c}
      /\ UNCHANGED log /\ "flag" \in Station
  BY HandlerTypes, IdsTypes, HoldsWorker, StationFacts DEF WriteSolved, TypeOK, Subject
<1>2. PICK e \in Challenges : e = c
  BY <1>1
<1>3. OnlyHand("flag", [stage |-> "announce", msg |-> hand.flag.msg, board |-> hand.flag.board])
  BY <1>1, StageAt DEF WriteSolved
<1>4. /\ hand'.trace = hand.trace /\ hand'.challenge = hand.challenge
      /\ hand'.flag.stage = "announce"
  BY <1>3 DEF OnlyHand, Services
<1>5. /\ Status(e)' = "solved"
      /\ \A d \in Challenges : d # e => Status(d)' = Status(d)
  <2>1. board' = [board EXCEPT ![e] =
                    [ board_status |-> "solved", status |-> "solved",
                      flags |-> Append(hand.flag.board.flags, hand.flag.msg.candidate) ]]
    BY <1>2 DEF WriteSolved
  <2>2. board \in [Challenges -> Board \cup {NoBoard}]
    BY DEF TypeOK
  <2> QED
    BY <2>1, <2>2 DEF Status
<1> HIDE DEF c
<1>6. Keeps /\ Mute /\ Story(e)
  BY WriteSolvedFlow DEF Stories
<1>7. p \in Items(e) /\ Submitted(e)' /\ Items(e)' = {p}
  <2>1. p \in Items(e)
    BY <1>1, <1>2, ItemAt DEF At
  <2> QED
    BY <1>6, <2>1, TheItem, KeepsFacts
<1>8. Standing(p)' = "solved" /\ p[1] = "flag"
  BY <1>4 DEF Standing
<1> HIDE DEF p
<1>10. Story(e)'
  BY <1>4, <1>5, <1>6, <1>7, <1>8, MoveStory DEF Mute
<1>11. About(e)
  BY <1>1, <1>2, <1>4, <1>5, <1>6, KeepsFacts, FlagsSame DEF About, Mute
<1> QED
  BY <1>10, <1>11, OtherStories

LEMMA OnTraceStory ==
    ASSUME TypeOK, FlowTypes, Stories, OnTrace
    PROVE  Stories'
<1>1. PICK t \in Range(log.traces) :
        /\ hand' = IF /\ Outcome(t.kind) # "none"
                      /\ board[t.challenge_id].board_status = "running"
                   THEN [hand EXCEPT !.trace = [ stage |-> "write", msg |-> t,
                                                board |-> board[t.challenge_id] ]]
                   ELSE hand
        /\ UNCHANGED <<log, board>>
  BY DEF OnTrace
<1>2. Keeps /\ Mute
  BY OnTraceFlow
<1>3. PICK c : c = t.challenge_id
  OBVIOUS
<1>4. CASE hand' = hand
  <2>1. ASSUME NEW d \in Challenges PROVE Story(d)'
    <3>1. Same(d)
      BY <1>1, <1>2, <1>4, KeepsFacts, FlagsSame DEF Same, Mute, Status
    <3> QED
      BY <3>1, SameStory DEF Stories
  <2> QED
    BY <2>1 DEF Stories
<1>5. CASE /\ Outcome(t.kind) # "none" /\ Status(c) = "running"
           /\ hand' = [hand EXCEPT !.trace = [ stage |-> "write", msg |-> t,
                                              board |-> board[t.challenge_id] ]]
  <2>1. OnlyHand("trace", [stage |-> "write", msg |-> t, board |-> board[t.challenge_id]])
    BY <1>5, HandAt
  <2>2. /\ hand'.challenge = hand.challenge /\ hand'.flag = hand.flag
        /\ hand'.trace.msg = t
    BY <2>1 DEF OnlyHand, Services
  <2>3. c \in Challenges /\ t.kind \in Kinds(c)
    <3>1. t \in TraceEvent
      BY SeqTypes DEF TypeOK, Range
    <3> QED
      BY <1>3, <3>1 DEF TraceEvent, Kinds
  <2>4. Story(c) /\ Status(c)' = Status(c)
    BY <1>1, <2>3 DEF Stories, Status
  <2>5. \A p : Standing(p)' = Standing(p)
    BY <2>2 DEF Standing
  <2>6. Story(c)'
    <3>1. Tracing(c)' => Status(c)' = "running" /\ hand'.trace.msg.kind \in Kinds(c)'
      BY <1>2, <1>5, <2>2, <2>3, <2>4 DEF Mute
    <3> QED
      BY <1>1, <1>2, <2>4, <2>5, <3>1, KeepsFacts, FlagsSame DEF Story, Mute
  <2>7. About(c)
    <3>1. \A d : d # c => ~Tracing(d)'
      BY <1>3, <2>2 DEF Tracing
    <3> QED
      BY <1>1, <1>2, <2>2, <3>1, KeepsFacts, FlagsSame DEF About, Mute, Status
  <2> QED
    BY <2>6, <2>7, OtherStories
<1> QED
  BY <1>1, <1>3, <1>4, <1>5 DEF Status

LEMMA WriteOutcomeStory ==
    ASSUME TypeOK, FlowTypes, Stories, WriteOutcome
    PROVE  Stories'
<1> DEFINE m == hand.trace.msg
<1>1. /\ hand.trace.stage = "write" /\ m \in TraceEvent /\ hand.trace.board \in Board
      /\ Outcome(m.kind) # "none" /\ UNCHANGED log
      /\ board' = [board EXCEPT ![m.challenge_id] =
                     [hand.trace.board EXCEPT !.board_status = Outcome(m.kind)]]
      /\ hand' = [hand EXCEPT !.trace = Idle]
  BY HandlerTypes DEF WriteOutcome, TypeOK
<1>2. PICK c \in Challenges, kind \in TraceKind : c = m.challenge_id /\ kind = m.kind
  BY <1>1 DEF TraceEvent
<1>3. /\ hand'.challenge = hand.challenge /\ hand'.flag = hand.flag
      /\ hand'.trace.stage = "idle"
  BY <1>1, HandAt DEF OnlyHand, Services, Idle
<1>4. /\ Status(c)' = Outcome(kind)
      /\ \A d \in Challenges : d # c => Status(d)' = Status(d)
  <2>1. board \in [Challenges -> Board \cup {NoBoard}]
    BY DEF TypeOK
  <2>2. board'[c] = [hand.trace.board EXCEPT !.board_status = Outcome(kind)]
    BY <1>1, <1>2, <2>1
  <2>3. board'[c].board_status = Outcome(kind)
    BY <1>1, <2>2 DEF Board
  <2>4. \A d \in Challenges : d # c => board'[d] = board[d]
    BY <1>1, <1>2, <2>1
  <2> QED
    BY <2>3, <2>4 DEF Status
<1>5. /\ Keeps /\ Mute /\ Story(c)
  BY WriteOutcomeFlow DEF Stories
<1>6. /\ Tracing(c) /\ Status(c) = "running" /\ kind \in Kinds(c) /\ kind \in Final \ {"solved"}
  BY <1>1, <1>2, <1>5, FinalFacts DEF Story, Tracing
<1>7. Items(c) = {} /\ Submitted(c) /\ ~Judged(c) /\ Kinds(c) \cap Final = {kind}
  BY <1>5, <1>6 DEF Story, Final
<1>8. /\ Items(c)' = {} /\ Submitted(c)' /\ ~Judged(c)' /\ Kinds(c)' \cap Final = {kind}
      /\ ~Tracing(c)' /\ kind \in Kinds(c)'
  BY <1>1, <1>3, <1>5, <1>6, <1>7, KeepsFacts, FlagsSame DEF Mute, Tracing
<1>9. Story(c)'
  <2>1. /\ ~({"engine_no_candidate", "engine_error"} \subseteq Kinds(c)')
        /\ Outcome(kind) \notin {"none", "solved"}
        /\ Outcome(kind) = "timed_out" => kind = "engine_no_candidate"
        /\ Outcome(kind) = "failed" => kind = "engine_error"
    BY <1>6, <1>8 DEF Final, Outcome
  <2> QED
    BY <1>4, <1>6, <1>8, <2>1 DEF Story
<1>10. About(c)
  <2>1. \A d : ~Tracing(d)'
    BY <1>3 DEF Tracing
  <2> QED
    BY <1>1, <1>3, <1>4, <1>5, <2>1, KeepsFacts, FlagsSame DEF About, Mute
<1> QED
  BY <1>9, <1>10, OtherStories

LEMMA OnFlagStory ==
    ASSUME TypeOK, FlowTypes, Accounts, Stories, OnFlag
    PROVE  Stories'
<1> DEFINE x == "flag"
<1>0. x \in Station
  BY StationFacts
<1>1. PICK f \in Range(log.flags) :
        /\ Next1(x) = f.challenge_id /\ Mute
        /\ Takes(x) \/ (Drops(x) /\ UNCHANGED hand)
  BY OnFlagFlow
<1>2. PICK c : c = f.challenge_id
  OBVIOUS
<1>3. /\ UNCHANGED <<log, board>>
      /\ hand' = hand \/ \E h : hand' = [hand EXCEPT !.flag = h] /\ h.stage = "write"
  <2>1. PICK g :
          /\ hand' = IF g.status = "solved"
                     THEN [hand EXCEPT !.flag = [ stage |-> "write", msg |-> g,
                                                 board |-> board[g.challenge_id] ]]
                     ELSE hand
          /\ UNCHANGED <<log, board>>
    BY DEF OnFlag
  <2> DEFINE h == [stage |-> "write", msg |-> g, board |-> board[g.challenge_id]]
  <2>2. hand' = hand \/ hand' = [hand EXCEPT !.flag = h]
    BY <2>1
  <2>3. h.stage = "write"
    OBVIOUS
  <2> HIDE DEF h
  <2> QED
    BY <2>1, <2>2, <2>3
<1>4. /\ hand'.trace = hand.trace /\ hand'.challenge = hand.challenge
      /\ hand' = hand \/ hand'.flag.stage = "write"
  <2>1. CASE hand' = hand
    BY <2>1
  <2>2. CASE \E h : hand' = [hand EXCEPT !.flag = h] /\ h.stage = "write"
    <3>1. PICK h : hand' = [hand EXCEPT !.flag = h] /\ h.stage = "write"
      BY <2>2
    <3>2. OnlyHand("flag", h)
      BY <3>1, HandAt
    <3> QED
      BY <3>1, <3>2 DEF OnlyHand, Services
  <2> QED
    BY <1>3, <2>1, <2>2
<1>5. CASE Takes(x)
  <2>1. hand'.flag.stage # "announce"
    <3>1. Held[x] = {} /\ Held' = [Held EXCEPT ![x] = {c}]
      BY <1>1, <1>2, <1>5 DEF Takes, Hands
    <3>2. Held' # Held
      BY <1>0, <3>1 DEF FlowTypes
    <3>3. CASE hand' = hand
      <4>1. Held' = Held
        BY <3>3 DEF OnFlag, Held
      <4> QED
        BY <3>2, <4>1
    <3> QED
      BY <1>4, <3>3
  <2> QED
    BY <1>0, <1>1, <1>2, <1>3, <1>4, <1>5, <2>1, TakesStory DEF Mute
<1>6. CASE Drops(x) /\ UNCHANGED hand
  <2>1. /\ c \in Challenges /\ <<x, Past[x] + 1>> \in Items(c)
        /\ Items(c)' = Items(c) \ {<<x, Past[x] + 1>>}
        /\ \A d : d # c => Items(d)' = Items(d)
    BY <1>0, <1>1, <1>2, <1>6, DropsItem
  <2>2. PICK p : p = <<x, Past[x] + 1>>
    OBVIOUS
  <2>3. Line' = Line /\ Past[x] \in Nat
    BY <1>0, <1>6 DEF Drops, Hands, FlowTypes
  <2>4. p \in Items(c) /\ Submitted(c) /\ Items(c)' = {} /\ Story(c)
    BY <2>1, <2>2, TheItem DEF Stories
  <2>5. Standing(p) = "running"
    BY <2>2, <2>3 DEF Standing
  <2>6. /\ Submitted(c)' /\ Status(c)' = Status(c) /\ (Judged(c)' <=> Judged(c))
        /\ Kinds(c)' = Kinds(c) \cup {}
    BY <1>1, <1>3, <2>3, <2>4, SubmittedSame, FlagsSame DEF Status, Mute
  <2> DEFINE kinds == {}
  <2>7. Kinds(c)' = Kinds(c) \cup kinds /\ kinds \cap Final = {}
    BY <2>6
  <2> HIDE DEF kinds
  <2>8. Story(c)'
    BY <1>4, <2>1, <2>4, <2>5, <2>6, <2>7, EndStory
  <2>9. About(c)
    BY <1>1, <1>3, <1>6, <2>1, <2>3, SubmittedSame, FlagsSame DEF About, Mute, Status
  <2> QED
    BY <2>8, <2>9, OtherStories
<1> QED
  BY <1>1, <1>5, <1>6

\* The gate's own steps change no board and no stage but the gate's.
LEMMA GateStory ==
    ASSUME TypeOK, FlowTypes, Accounts, Stories, GateStep
    PROVE  Stories'
<1>0. /\ "gate" \in Station /\ "flag" \in Station /\ UNCHANGED board
      /\ hand'.challenge = hand.challenge /\ hand'.flag = hand.flag
      /\ hand'.trace = hand.trace /\ log \in Topics
  BY GateFrame, StationFacts DEF TypeOK
<1>1. CASE OnCandidate
  <2>1. log' = log /\ Takes("gate") /\ Mute
    BY <1>1, OnCandidateFlow DEF OnCandidate
  <2>2. PICK c : c = Next1("gate")
    OBVIOUS
  <2> QED
    BY <1>0, <2>1, <2>2, TakesStory DEF Mute
<1>2. CASE AnnounceVerdict
  <2>1. Keeps /\ log'.flags = log.flags
    BY <1>0, <1>2, AnnounceVerdictFlow DEF AnnounceVerdict, WithTrace, Topics
  <2>2. ASSUME NEW d
        PROVE  \E kinds : Kinds(d)' = Kinds(d) \cup kinds /\ kinds \cap Final = {}
    <3>1. CASE hand.gate.msg.status = "solved"
      <4>1. Tells(hand.gate.msg.challenge_id, "candidate_accepted")
        BY <1>2, <3>1, AnnounceVerdictFlow
      <4>2. \/ Kinds(d)' = Kinds(d) \cup {}
            \/ Kinds(d)' = Kinds(d) \cup {"candidate_accepted"}
        BY <4>1 DEF Tells
      <4>3. {} \cap Final = {} /\ {"candidate_accepted"} \cap Final = {}
        BY DEF Final
      <4> QED
        BY <4>2, <4>3
    <3>2. CASE hand.gate.msg.status # "solved"
      <4>1. \/ Kinds(d)' = Kinds(d) \cup {}
            \/ Kinds(d)' = Kinds(d) \cup ({"candidate_rejected", "gate_verdict"} \cap Traced)
        BY <1>2, <3>2, AnnounceVerdictFlow
      <4>2. {} \cap Final = {} /\ ({"candidate_rejected", "gate_verdict"} \cap Traced) \cap Final = {}
        BY DEF Final
      <4> QED
        BY <4>1, <4>2
    <3> QED
      BY <3>1, <3>2
  <2>3. ASSUME NEW d \in Challenges PROVE Story(d)'
    <3>1. Kinds(d)' \cap Final = Kinds(d) \cap Final /\ Kinds(d) \subseteq Kinds(d)'
      BY <2>2
    <3>2. /\ \A kind \in Final : kind \in Kinds(d)' <=> kind \in Kinds(d)
          /\ {"engine_no_candidate", "engine_error", "solved"} \subseteq Final
      BY <3>1 DEF Final
    <3>3. /\ Items(d)' = Items(d) /\ Status(d)' = Status(d)
          /\ Submitted(d)' <=> Submitted(d)
      BY <1>0, <2>1, KeepsFacts DEF Status
    <3>4. Judged(d)' <=> Judged(d)
      BY <2>1, FlagsSame
    <3>5. \A p : Standing(p)' = Standing(p)
      BY <1>0 DEF Standing
    <3>6. Tracing(d)' => Tracing(d) /\ hand'.trace = hand.trace
      BY <1>0 DEF Tracing
    <3>7. Story(d)
      BY DEF Stories
    <3> QED
      BY <3>1, <3>2, <3>3, <3>4, <3>5, <3>6, <3>7 DEF Story
  <2> QED
    BY <2>3 DEF Stories
<1>3. CASE PublishFlag
  <2> DEFINE m == hand.gate.msg
  <2>1. m \in Candidate /\ Mute /\ Passes("gate", "flag", m.challenge_id)
    BY <1>3, PublishFlagFlow
  <2>2. PICK c : c = m.challenge_id
    OBVIOUS
  <2>3. log'.flags = Append(log.flags, m)
    BY <1>0, <1>3 DEF PublishFlag, Topics
  <2>4. Range(log'.flags) = Range(log.flags) \cup {m}
    BY <1>0, <2>1, <2>3, SeqTypes, RangeOfAppend
  <2> HIDE DEF m
  <2>5. \A d : d # c => (Judged(d)' <=> Judged(d))
    BY <2>2, <2>4 DEF Judged
  <2> QED
    BY <1>0, <2>1, <2>2, <2>5, PassesStory DEF Mute
<1> QED
  BY <1>1, <1>2, <1>3 DEF GateStep

LEMMA SpecialistStory ==
    ASSUME TypeOK, FlowTypes, Accounts, Stories, NEW k \in Categories, SpecialistStep(k),
           Final \subseteq Traced
    PROVE  Stories'
<1>0. /\ UNCHANGED <<hand, board>> /\ log'.flags = log.flags
  BY SpecialistFrame
<1>1. /\ k \in Station /\ k \notin {"challenge", "flag"}
      /\ "gate" \in Station /\ "handoff" \in Station
  BY StationFacts
<1>2. CASE Takes(k) /\ Tells(Next1(k), "task_started")
  <2>1. PICK c : c = Next1(k)
    OBVIOUS
  <2> QED
    BY <1>0, <1>1, <1>2, <2>1, TakesStory, TellsFacts DEF Final
<1>3. CASE Keeps /\ Mute
  <2>1. ASSUME NEW d \in Challenges PROVE Story(d)'
    <3>1. Same(d)
      BY <1>0, <1>3, KeepsFacts, FlagsSame DEF Same, Mute, Status
    <3> QED
      BY <3>1, SameStory DEF Stories
  <2> QED
    BY <2>1 DEF Stories
<1>4. ASSUME NEW c \in Challenges, Passes(k, "gate", c), Tells(c, "candidate_emitted")
      PROVE  Stories'
  BY <1>0, <1>1, <1>4, PassesStory, TellsFacts, FlagsSame DEF Final
<1>5. ASSUME NEW c \in Challenges, Passes(k, "handoff", c), Tells(c, "handoff")
      PROVE  Stories'
  BY <1>0, <1>1, <1>5, PassesStory, TellsFacts, FlagsSame DEF Final
<1>6. ASSUME NEW c \in Challenges,
             NEW kind \in {"needs_engine", "engine_error", "error", "engine_no_candidate"},
             Ends(k, c), Tells(c, kind)
      PROVE  Stories'
  BY <1>0, <1>1, <1>6, EndsStory
<1> QED
  BY <1>2, <1>3, <1>4, <1>5, <1>6, SpecialistFlow

LEMMA OrchestratorStory ==
    ASSUME TypeOK, FlowTypes, Accounts, Stories, OrchestratorStep, Final \subseteq Traced
    PROVE  Stories'
<1>0. /\ log'.flags = log.flags /\ "challenge" \in Station /\ "handoff" \in Station
      /\ "flag" \in Station /\ \A k \in Categories : k \in Station /\ k # "challenge"
  BY OrchestratorLog, StationFacts
<1>1. CASE DispatchTask
  <2>1. /\ UNCHANGED board /\ OnlyHand("challenge", Idle)
    BY <1>1, HandAt DEF DispatchTask
  <2>2. hand'.trace = hand.trace /\ hand'.flag = hand.flag
    BY <2>1 DEF OnlyHand, Services
  <2>3. PICK c \in Challenges, k \in Categories :
          /\ hand.challenge.stage = "dispatch"
          /\ Passes("challenge", k, c) /\ Tells(c, "routed")
    BY <1>1, DispatchTaskFlow
  <2> QED
    BY <1>0, <2>1, <2>2, <2>3, PassesStory, TellsFacts, FlagsSame DEF Final
<1>2. CASE OnHandoff
  <2>1. PICK h : UNCHANGED board /\ OnlyHand("handoff", h)
    BY <1>2, HandAt DEF OnHandoff
  <2>2. /\ hand'.trace = hand.trace /\ hand'.flag = hand.flag
        /\ hand'.challenge = hand.challenge
    BY <2>1 DEF OnlyHand, Services
  <2>3. PICK c : c = Next1("handoff")
    OBVIOUS
  <2> QED
    BY <1>0, <1>2, <2>1, <2>2, <2>3, OnHandoffFlow, TakesStory DEF Mute
<1>3. CASE RouteHandoff
  <2>1. /\ UNCHANGED board /\ OnlyHand("handoff", Idle)
    BY <1>3, HandAt DEF RouteHandoff
  <2>2. /\ hand'.trace = hand.trace /\ hand'.flag = hand.flag
        /\ hand'.challenge = hand.challenge
    BY <2>1 DEF OnlyHand, Services
  <2>3. PICK m \in Handoff :
          \/ Passes("handoff", m.target, m.challenge_id) /\ Mute
          \/ /\ Ends("handoff", m.challenge_id)
             /\ Tells(m.challenge_id, "handoff_depth_exceeded")
    BY <1>3, RouteHandoffFlow
  <2>4. m.target \in Categories
    BY DEF Handoff
  <2>5. CASE Passes("handoff", m.target, m.challenge_id) /\ Mute
    BY <1>0, <2>1, <2>2, <2>4, <2>5, PassesStory, FlagsSame DEF Mute
  <2>6. CASE /\ Ends("handoff", m.challenge_id)
             /\ Tells(m.challenge_id, "handoff_depth_exceeded")
    BY <1>0, <2>1, <2>2, <2>6, EndsStory
  <2> QED
    BY <2>3, <2>5, <2>6
<1>4. CASE AnnounceSolved
  <2>1. /\ UNCHANGED board /\ OnlyHand("flag", Idle)
    BY <1>4, HandAt DEF AnnounceSolved
  <2>2. /\ hand'.trace = hand.trace /\ hand'.challenge = hand.challenge
    BY <2>1 DEF OnlyHand, Services
  <2>3. PICK c \in Challenges :
          /\ hand.flag.stage = "announce" /\ Ends("flag", c) /\ Tells(c, "solved")
    BY <1>4, AnnounceSolvedFlow
  <2> QED
    BY <1>0, <2>1, <2>2, <2>3, EndsStory
<1> QED
  BY <1>1, <1>2, <1>3, <1>4, OnChallengeStory, StoreBoardStory, OnFlagStory, WriteSolvedStory,
     OnTraceStory, WriteOutcomeStory DEF OrchestratorStep

LEMMA StoriesStep ==
    ASSUME TypeOK, FlowTypes, Accounts, Stories, ~Durable, Next, Final \subseteq Traced
    PROVE  Stories'
<1>1. ASSUME NEW p \in Deployed, Crash(p) PROVE FALSE
  BY <1>1 DEF Crash
<1> QED
  BY <1>1, SubmitStory, OrchestratorStory, GateStory, SpecialistStory DEF Next

LEMMA InitStories == Init => Stories
<1> SUFFICES ASSUME Init PROVE Stories
  OBVIOUS
<1>1. /\ \A c \in Challenges : Status(c) = "none"
      /\ log.flags = <<>> /\ log.traces = <<>> /\ log.challenges = <<>>
      /\ hand.trace.stage = "idle"
  BY DEF Init, Status, NoBoard, Services, Idle
<1>2. \A c : Kinds(c) = {} /\ ~Judged(c) /\ ~Tracing(c) /\ ~Submitted(c)
  BY <1>1, LineAt DEF Kinds, Judged, Tracing, Submitted, Range
<1>3. \A c \in Challenges : Items(c) = {}
  BY <1>2, InitCounts DEF Accounts, Accounted, Submitted
<1> QED
  BY <1>1, <1>2, <1>3 DEF Stories, Story

-----------------------------------------------------------------------------
(* What follows                                                            *)

\* The invariant of a runtime in memory that keeps the traces of the ends.
Steady == TypeOK /\ ToldVerdicts /\ Accounts /\ Stories

LEMMA SteadyStep ==
    ASSUME ~Durable, EndKind \subseteq Traced, Steady, TypeOK', [Next]_vars
    PROVE  Steady'
<1>1. FlowTypes /\ Final \subseteq Traced
  BY FlowTyped, FinalFacts DEF Steady
<1>2. CASE Next
  BY <1>1, <1>2, ToldVerdictsStep, AccountsStep, StoriesStep DEF Steady
<1>3. CASE UNCHANGED vars
  <2>1. Keeps /\ Mute /\ log' = log /\ hand' = hand /\ board' = board
    BY <1>3, KindsStay DEF vars, Keeps, Line, Past, Held
  <2>2. KindsGrowing
    BY <2>1, TellsGrow
  <2>3. ASSUME NEW d \in Challenges PROVE Story(d)'
    <3>1. Same(d)
      BY <2>1, KeepsFacts, FlagsSame DEF Same, Mute, Status
    <3> QED
      BY <3>1, SameStory DEF Stories, Steady
  <2> QED
    BY <1>1, <2>1, <2>2, <2>3, KeepsCounts, ToldVerdictsStay DEF Steady, Stories
<1> QED
  BY <1>2, <1>3

LEMMA InitSteady == Init => Steady
  BY InitTypeOK, InitCounts, InitStories DEF Steady

LEMMA SteadyAlways == ASSUME ~Durable, EndKind \subseteq Traced PROVE Spec => []Steady
<1>1. Steady /\ TypeOK' /\ [Next]_vars => Steady'
  BY SteadyStep
<1> QED
  BY <1>1, InitSteady, TypeCorrect, PTL DEF Spec

\* Only the gate's last step publishes a verdict.
LEMMA FlagsGrow ==
    ASSUME TypeOK, ~Durable, Next
    PROVE  \/ log'.flags = log.flags
           \/ PublishFlag /\ log'.flags = Append(log.flags, hand.gate.msg)
<1>1. CASE \E c \in Challenges : Submit(c)
  BY <1>1, SubmitFrame
<1>2. CASE OrchestratorStep
  BY <1>2, OrchestratorLog
<1>3. CASE \E k \in Categories : SpecialistStep(k)
  BY <1>3, SpecialistFrame
<1>4. CASE OnCandidate \/ AnnounceVerdict
  BY <1>4 DEF OnCandidate, AnnounceVerdict, WithTrace, Topics, TypeOK
<1>5. CASE PublishFlag
  BY <1>5 DEF PublishFlag, Topics, TypeOK
<1> QED
  BY <1>1, <1>2, <1>3, <1>4, <1>5 DEF Next, GateStep, Crash

-----------------------------------------------------------------------------
(* The board's life                                                        *)

\* One board moves from one status to another.
Moves(e, from, to) ==
    /\ Status(e) = from /\ Status(e)' = to
    /\ \A d \in Challenges : d # e => Status(d)' = Status(d)

LEMMA StoreBoardMoves ==
    ASSUME Steady, FlowTypes, StoreBoard
    PROVE  \E e \in Challenges : Moves(e, "none", "running")
<1> DEFINE c == hand.challenge.msg
           p == <<"challenge", 0>>
<1>1. /\ hand.challenge.stage = "store" /\ c \in Challenges /\ Held["challenge"] = {c}
      /\ "challenge" \in Station
  BY HandlerTypes, HoldsWorker, StationFacts DEF StoreBoard, TypeOK, Subject, Steady
<1>2. PICK e \in Challenges : e = c
  BY <1>1
<1>3. /\ Status(e)' = "running"
      /\ \A d \in Challenges : d # e => Status(d)' = Status(d)
  <2>1. board' = [board EXCEPT ![e] =
                    [board_status |-> "running", status |-> "in_progress", flags |-> <<>>]]
    BY <1>2 DEF StoreBoard
  <2>2. board \in [Challenges -> Board \cup {NoBoard}]
    BY DEF TypeOK, Steady
  <2> QED
    BY <2>1, <2>2 DEF Status
<1>4. p \in Items(e)
  BY <1>1, <1>2, ItemAt DEF At
<1>5. Standing(p) = "none"
  BY <1>1 DEF Standing
<1> QED
  BY <1>3, <1>4, <1>5 DEF Steady, Stories, Story, Moves

LEMMA WriteSolvedMoves ==
    ASSUME Steady, FlowTypes, WriteSolved
    PROVE  \E e \in Challenges : Moves(e, "running", "solved")
<1> DEFINE c == hand.flag.msg.challenge_id
           p == <<"flag", 0>>
<1>1. /\ hand.flag.stage = "write" /\ c \in Challenges /\ Held["flag"] = {c}
      /\ "flag" \in Station
  BY HandlerTypes, IdsTypes, HoldsWorker, StationFacts
     DEF WriteSolved, TypeOK, Subject, Steady
<1>2. PICK e \in Challenges : e = c
  BY <1>1
<1>3. /\ Status(e)' = "solved"
      /\ \A d \in Challenges : d # e => Status(d)' = Status(d)
  <2>1. board' = [board EXCEPT ![e] =
                    [ board_status |-> "solved", status |-> "solved",
                      flags |-> Append(hand.flag.board.flags, hand.flag.msg.candidate) ]]
    BY <1>2 DEF WriteSolved
  <2>2. board \in [Challenges -> Board \cup {NoBoard}]
    BY DEF TypeOK, Steady
  <2> QED
    BY <2>1, <2>2 DEF Status
<1>4. p \in Items(e)
  BY <1>1, <1>2, ItemAt DEF At
<1>5. Standing(p) = "running"
  BY <1>1 DEF Standing
<1> QED
  BY <1>3, <1>4, <1>5 DEF Steady, Stories, Story, Moves

LEMMA WriteOutcomeMoves ==
    ASSUME Steady, WriteOutcome
    PROVE  \E e \in Challenges : \/ Moves(e, "running", "timed_out")
                                 \/ Moves(e, "running", "failed")
<1> DEFINE m == hand.trace.msg
<1>1. /\ hand.trace.stage = "write" /\ m \in TraceEvent /\ hand.trace.board \in Board
      /\ Outcome(m.kind) # "none"
      /\ board' = [board EXCEPT ![m.challenge_id] =
                     [hand.trace.board EXCEPT !.board_status = Outcome(m.kind)]]
      /\ board \in [Challenges -> Board \cup {NoBoard}]
  BY HandlerTypes DEF WriteOutcome, TypeOK, Steady
<1>2. PICK c \in Challenges, kind \in TraceKind : c = m.challenge_id /\ kind = m.kind
  BY <1>1 DEF TraceEvent
<1>3. board'[c] = [hand.trace.board EXCEPT !.board_status = Outcome(kind)]
  BY <1>1, <1>2
<1>4. Status(c)' = Outcome(kind)
  BY <1>1, <1>3 DEF Board, Status
<1>5. \A d \in Challenges : d # c => Status(d)' = Status(d)
  BY <1>1, <1>2 DEF Status
<1>6. Status(c) = "running"
  BY <1>1, <1>2 DEF Steady, Stories, Story, Tracing
<1>7. Outcome(kind) \in {"timed_out", "failed"}
  BY <1>1, <1>2 DEF Outcome
<1> QED
  BY <1>4, <1>5, <1>6, <1>7 DEF Moves

\* No other step writes a board.
LEMMA BoardStays ==
    ASSUME Next, ~Durable, ~(StoreBoard \/ WriteSolved \/ WriteOutcome)
    PROVE  UNCHANGED board
<1>1. ASSUME NEW k \in Categories, SpecialistStep(k) PROVE UNCHANGED board
  BY <1>1 DEF SpecialistStep, TakeTask, StaticHit, NeedsEngine, DispatchEngine, Scanning,
              EngineRaises, HandleRaises, EngineBarren, EngineHandsOff, EngineClaims,
              EngineAnswers
<1>2. CASE \E c \in Challenges : Submit(c)
  BY <1>2 DEF Submit
<1>3. CASE GateStep
  BY <1>3 DEF GateStep, OnCandidate, AnnounceVerdict, PublishFlag
<1>4. CASE OrchestratorStep
  BY <1>4 DEF OrchestratorStep, OnChallenge, DispatchTask, OnHandoff, RouteHandoff,
              OnFlag, AnnounceSolved, OnTrace
<1> QED
  BY <1>1, <1>2, <1>3, <1>4 DEF Next, Crash

LEMMA MoveIsDocumented ==
    ASSUME NEW e \in Challenges, NEW from, NEW to, Moves(e, from, to)
    PROVE  Lifecycle!Move(e, from, to)
  BY DEF Moves, Status, Lifecycle!Move

\* schemas.md's lifecycle of a board is implemented by the runtime in memory:
\* every board is opened once, running, and leaves that status once, although
\* three loops write whole boards back.
THEOREM LifecycleIsDocumented ==
    ASSUME ~Durable, EndKind \subseteq Traced
    PROVE  Spec => DocumentedLifecycle
<1>1. Init => Lifecycle!Init
  BY DEF Init, Lifecycle!Init, NoBoard
<1>2. ASSUME Steady, [Next]_vars
      PROVE  [Lifecycle!Next]_([c \in Challenges |-> board[c].board_status])
  <2> USE <1>2
  <2>1. CASE StoreBoard
    BY <2>1, StoreBoardMoves, MoveIsDocumented, FlowTyped
       DEF Steady, Lifecycle!Next, Lifecycle!Open
  <2>2. CASE WriteSolved
    BY <2>2, WriteSolvedMoves, MoveIsDocumented, FlowTyped
       DEF Steady, Lifecycle!Next, Lifecycle!Solve
  <2>3. CASE WriteOutcome
    BY <2>3, WriteOutcomeMoves, MoveIsDocumented
       DEF Lifecycle!Next, Lifecycle!TimeOut, Lifecycle!Fail
  <2>4. CASE ~(StoreBoard \/ WriteSolved \/ WriteOutcome)
    BY <2>4, BoardStays DEF vars
  <2> QED
    BY <2>1, <2>2, <2>3, <2>4
<1> QED
  BY <1>1, <1>2, SteadyAlways, PTL
     DEF Spec, DocumentedLifecycle, Lifecycle!Spec


-----------------------------------------------------------------------------
(* Topics only grow: no trace is ever taken back                           *)

Extends(s, t) == Len(s) <= Len(t) /\ \A i \in 1..Len(s) : t[i] = s[i]

LEMMA AppendExtends ==
    ASSUME NEW s \in Seq(TraceEvent), NEW e \in TraceEvent
    PROVE  Extends(s, Append(s, e))
  BY DEF Extends

LEMMA TraceExtends ==
    ASSUME NEW l \in Topics, NEW c \in Challenges, NEW kind \in TraceKind
    PROVE  /\ WithTrace(l, c, kind) \in Topics
           /\ Extends(l.traces, WithTrace(l, c, kind).traces)
<1>1. WithTrace(l, c, kind) \in Topics
  BY TraceGrows DEF Grows
<1>2. CASE kind \notin Traced
  BY <1>1, <1>2, SeqTypes DEF WithTrace, Extends
<1>3. CASE kind \in Traced
  <2>1. Trace(c, kind) \in TraceEvent
    BY DEF Trace, TraceEvent
  <2>2. WithTrace(l, c, kind).traces = Append(l.traces, Trace(c, kind))
    BY <1>3 DEF WithTrace, Topics
  <2>3. l.traces \in Seq(TraceEvent)
    BY SeqTypes
  <2> QED
    BY <1>1, <2>1, <2>2, <2>3, AppendExtends
<1> QED
  BY <1>1, <1>2, <1>3

\* A message and a trace that tells of it.
LEMMA PublishExtends ==
    ASSUME NEW l \in Topics, l.traces = log.traces, NEW c \in Challenges,
           NEW kind \in TraceKind, log' = WithTrace(l, c, kind)
    PROVE  Extends(log.traces, log'.traces)
  BY TraceExtends

LEMMA ExtendsTransitive ==
    ASSUME NEW r \in Seq(TraceEvent), NEW s \in Seq(TraceEvent), NEW t \in Seq(TraceEvent),
           Extends(r, s), Extends(s, t)
    PROVE  Extends(r, t)
<1>1. Len(r) \in Nat /\ Len(s) \in Nat /\ Len(t) \in Nat
  OBVIOUS
<1>2. Len(r) <= Len(t)
  BY <1>1 DEF Extends
<1>3. ASSUME NEW i \in 1..Len(r) PROVE t[i] = r[i]
  <2>1. i \in 1..Len(s)
    BY <1>1 DEF Extends
  <2> QED
    BY <2>1 DEF Extends
<1> QED
  BY <1>2, <1>3 DEF Extends

LEMMA OrchestratorExtends ==
    ASSUME TypeOK, OrchestratorStep
    PROVE  Extends(log.traces, log'.traces)
<1>0. log \in Topics /\ log.traces \in Seq(TraceEvent) /\ Extends(log.traces, log.traces)
      /\ hand \in Handlers
  BY SeqTypes DEF TypeOK, Extends
<1>1. CASE OnChallenge
  <2>1. PICK c \in Challenges : log' = log \/ log' = WithTrace(log, c, "challenge_rejected")
    BY <1>1 DEF OnChallenge
  <2> QED
    BY <1>0, <2>1, PublishExtends, TraceKinds
<1>2. CASE StoreBoard \/ OnHandoff \/ OnFlag \/ WriteSolved \/ OnTrace \/ WriteOutcome
  BY <1>0, <1>2 DEF StoreBoard, OnHandoff, OnFlag, WriteSolved, OnTrace, WriteOutcome
<1>3. CASE DispatchTask
  <2> DEFINE c == hand.challenge.msg
             k == Route(world[c])
             t == [ challenge_id |-> c, flag_format |-> world[c].flag_format,
                    handoff_depth |-> 0 ]
             l == [log EXCEPT !.tasks[k] = Append(@, t)]
  <2>1. c \in Challenges /\ log' = WithTrace(l, c, "routed")
    BY <1>0, <1>3, HandlerTypes DEF DispatchTask
  <2>2. k \in Categories /\ t \in Task
    BY <2>1, RouteType DEF Task
  <2> HIDE DEF c, k, t
  <2>3. l \in Topics /\ l.traces = log.traces
    BY <1>0, <2>2, PublishAside
  <2> HIDE DEF l
  <2> QED
    BY <2>1, <2>3, PublishExtends, TraceKinds
<1>4. CASE RouteHandoff
  <2> DEFINE h == hand.handoff.msg
             t == [ challenge_id |-> h.challenge_id, flag_format |-> "none",
                    handoff_depth |-> h.handoff_depth + 1 ]
             l == [log EXCEPT !.tasks[h.target] = Append(@, t)]
  <2>1. log' = l \/ log' = WithTrace(log, h.challenge_id, "handoff_depth_exceeded")
    BY <1>4 DEF RouteHandoff
  <2>2. h \in Handoff
    BY <1>0, <1>4, HandlerTypes DEF RouteHandoff
  <2>3. h.target \in Categories /\ t \in Task /\ h.challenge_id \in Challenges
    BY <2>2 DEF Task, Handoff
  <2> HIDE DEF h, t
  <2>4. l.traces = log.traces
    BY <1>0, <2>3, PublishAside
  <2> HIDE DEF l
  <2> QED
    BY <1>0, <2>1, <2>3, <2>4, PublishExtends, TraceKinds
<1>5. CASE AnnounceSolved
  <2>1. hand.flag.msg.challenge_id \in Challenges
    BY <1>0, <1>5, HandlerTypes, IdsTypes DEF AnnounceSolved
  <2> QED
    BY <1>0, <1>5, <2>1, PublishExtends, TraceKinds DEF AnnounceSolved
<1> QED
  BY <1>1, <1>2, <1>3, <1>4, <1>5 DEF OrchestratorStep

LEMMA GateExtends ==
    ASSUME TypeOK, GateStep
    PROVE  Extends(log.traces, log'.traces)
<1>0. log \in Topics /\ log.traces \in Seq(TraceEvent) /\ Extends(log.traces, log.traces)
  BY SeqTypes DEF TypeOK, Extends
<1>1. CASE OnCandidate \/ PublishFlag
  <2>1. log'.traces = log.traces
    BY <1>0, <1>1 DEF OnCandidate, PublishFlag, Topics
  <2> QED
    BY <1>0, <2>1
<1>2. CASE AnnounceVerdict
  <2> DEFINE m == hand.gate.msg
             l == WithTrace(log, m.challenge_id, "candidate_rejected")
  <2>1. m.challenge_id \in Challenges
    BY <1>2, HandlerTypes, IdsTypes DEF AnnounceVerdict, TypeOK
  <2>2. \/ log' = WithTrace(log, m.challenge_id, "candidate_accepted")
        \/ log' = WithTrace(l, m.challenge_id, "gate_verdict")
    BY <1>2 DEF AnnounceVerdict
  <2>3. l \in Topics /\ Extends(log.traces, l.traces) /\ l.traces \in Seq(TraceEvent)
    BY <1>0, <2>1, TraceExtends, SeqTypes, TraceKinds
  <2> HIDE DEF m, l
  <2>4. CASE log' = WithTrace(log, m.challenge_id, "candidate_accepted")
    BY <1>0, <2>1, <2>4, TraceExtends, TraceKinds
  <2>5. CASE log' = WithTrace(l, m.challenge_id, "gate_verdict")
    <3>1. log' \in Topics /\ Extends(l.traces, log'.traces)
      BY <2>1, <2>3, <2>5, TraceExtends, TraceKinds
    <3> QED
      BY <1>0, <2>3, <3>1, SeqTypes, ExtendsTransitive
  <2> QED
    BY <2>2, <2>4, <2>5
<1> QED
  BY <1>1, <1>2 DEF GateStep

LEMMA SpecialistExtends ==
    ASSUME TypeOK, NEW k \in Categories, SpecialistStep(k)
    PROVE  Extends(log.traces, log'.traces)
<1> DEFINE t == spec[k].task
           c == t.challenge_id
<1>0. log \in Topics /\ log.traces \in Seq(TraceEvent) /\ Extends(log.traces, log.traces)
  BY SeqTypes DEF TypeOK, Extends
<1>1. CASE TakeTask(k)
  <2>1. log.tasks[k][taken[k] + 1].challenge_id \in Challenges
    BY <1>0, <1>1, SeqTypes, IdsTypes DEF TakeTask, TypeOK
  <2> QED
    BY <1>0, <1>1, <2>1, PublishExtends, TraceKinds DEF TakeTask
<1>2. CASE spec[k].stage # "idle" /\ UNCHANGED log
  BY <1>0, <1>2
<1>3. ASSUME spec[k].stage # "idle", NEW kind \in TraceKind, log' = WithTrace(log, c, kind)
      PROVE  Extends(log.traces, log'.traces)
  BY <1>0, <1>3, SpecialistTypes, PublishExtends
<1>4. CASE StaticHit(k)
  <2> DEFINE l == [log EXCEPT !.candidates = Append(@, StaticCandidate(t))]
  <2>1. t \in Task /\ c \in Challenges
    BY <1>4, SpecialistTypes DEF StaticHit, Scanning
  <2>2. StaticCandidate(t) \in Candidate
    BY <1>4, <2>1, StaticCandidateType DEF StaticHit
  <2>3. l \in Topics /\ l.traces = log.traces
    BY <1>0, <2>2, PublishAside
  <2> QED
    BY <1>4, <2>1, <2>3, PublishExtends, TraceKinds DEF StaticHit
<1>5. ASSUME NEW target \in Categories, EngineHandsOff(k, target)
      PROVE  Extends(log.traces, log'.traces)
  <2> DEFINE h == [ challenge_id |-> c, target |-> target,
                    handoff_depth |-> t.handoff_depth ]
             l == [log EXCEPT !.handoffs = Append(@, h)]
  <2>1. t \in Task /\ c \in Challenges
    BY <1>5, SpecialistTypes DEF EngineHandsOff, EngineAnswers
  <2>2. h \in Handoff
    BY <2>1 DEF Task, Handoff
  <2>3. log' = WithTrace(l, c, "handoff")
    BY <1>5 DEF EngineHandsOff
  <2> HIDE DEF h
  <2>4. l \in Topics /\ l.traces = log.traces
    BY <1>0, <2>2, PublishAside
  <2> QED
    BY <2>1, <2>3, <2>4, PublishExtends, TraceKinds
<1>6. ASSUME NEW r \in Results, EngineClaims(k, r)
      PROVE  Extends(log.traces, log'.traces)
  <2> DEFINE l == [log EXCEPT !.candidates = Append(@, EngineCandidate(t, r))]
  <2>1. t \in Task /\ c \in Challenges
    BY <1>6, SpecialistTypes DEF EngineClaims, EngineAnswers
  <2>2. EngineCandidate(t, r) \in Candidate
    BY <2>1, EngineCandidateType
  <2>3. l \in Topics /\ l.traces = log.traces
    BY <1>0, <2>2, PublishAside
  <2> QED
    BY <1>6, <2>1, <2>3, PublishExtends, TraceKinds DEF EngineClaims
<1>7. CASE NeedsEngine(k)
  BY <1>3, <1>7, TraceKinds DEF NeedsEngine, Scanning
<1>8. CASE DispatchEngine(k)
  BY <1>2, <1>8 DEF DispatchEngine, Scanning
<1>9. CASE EngineRaises(k) \/ HandleRaises(k)
  BY <1>3, <1>9, TraceKinds DEF EngineRaises, HandleRaises, EngineAnswers
<1>10. CASE EngineBarren(k)
  BY <1>2, <1>3, <1>10, TraceKinds DEF EngineBarren, EngineAnswers
<1> QED
  BY <1>1, <1>4, <1>5, <1>6, <1>7, <1>8, <1>9, <1>10 DEF SpecialistStep

LEMMA TracesExtend ==
    ASSUME TypeOK, ~Durable, [Next]_vars
    PROVE  Extends(log.traces, log'.traces)
<1>1. CASE \E c \in Challenges : Submit(c)
  <2>1. log'.traces = log.traces /\ log.traces \in Seq(TraceEvent)
    BY <1>1, SeqTypes DEF Submit, TypeOK, Topics
  <2> QED
    BY <2>1 DEF Extends
<1>2. CASE UNCHANGED vars
  BY <1>2, SeqTypes DEF vars, Extends, TypeOK
<1> QED
  BY <1>1, <1>2, OrchestratorExtends, GateExtends, SpecialistExtends DEF Next, Crash


-----------------------------------------------------------------------------
(* What the traces and the board say in the end                            *)

\* An outcome that on_trace has read is on the board or about to be, unless it
\* came too late to find the board running.
Followed(c) ==
    (/\ Status(c) = "running"
     /\ \E i \in 1..read["trace"] :
          log.traces[i].challenge_id = c /\ Outcome(log.traces[i].kind) # "none")
    => Tracing(c)
AllFollowed == \A c \in Challenges : Followed(c)

\* Reading an outcome twice tells nothing new.
LEMMA FollowedStays ==
    ASSUME TypeOK, Extends(log.traces, log'.traces), NEW c, Followed(c),
           read'["trace"] = read["trace"],
           Status(c)' = "running" => Status(c) = "running",
           hand'.trace = hand.trace
    PROVE  Followed(c)'
<1>1. read["trace"] \in Nat /\ read["trace"] <= Len(log.traces) /\ Len(log.traces) \in Nat
  BY SeqTypes DEF TypeOK, Services, Inbox
<1>2. \A i \in 1..read["trace"] : log'.traces[i] = log.traces[i]
  BY <1>1 DEF Extends
<1> QED
  BY <1>2 DEF Followed, Tracing

LEMMA FollowedRead ==
    ASSUME Steady, AllFollowed, OnTrace
    PROVE  AllFollowed'
<1>1. PICK t \in Range(log.traces) :
        /\ Receives("trace", t)
        /\ hand' = IF /\ Outcome(t.kind) # "none"
                      /\ board[t.challenge_id].board_status = "running"
                   THEN [hand EXCEPT !.trace = [ stage |-> "write", msg |-> t,
                                                board |-> board[t.challenge_id] ]]
                   ELSE hand
        /\ UNCHANGED <<log, board>>
  BY DEF OnTrace
<1>2. /\ read["trace"] \in Nat /\ read'["trace"] = read["trace"] + 1
      /\ t = log.traces[read["trace"] + 1] /\ hand.trace = Idle
  BY <1>1 DEF Receives, Inbox, Steady, TypeOK, Services
<1>3. \A d : ~Tracing(d)
  BY <1>2 DEF Tracing, Idle
<1>4. ASSUME NEW d \in Challenges, Status(d)' = "running", NEW i \in 1..read'["trace"],
             log'.traces[i].challenge_id = d, Outcome(log'.traces[i].kind) # "none"
      PROVE  Tracing(d)'
  <2>1. Status(d) = "running" /\ log' = log
    BY <1>1, <1>4 DEF Status
  <2>2. i \notin 1..read["trace"]
    BY <1>3, <1>4, <2>1 DEF AllFollowed, Followed
  <2>3. log.traces[i] = t
    BY <1>2, <2>2
  <2>4. /\ t.challenge_id = d /\ Outcome(t.kind) # "none"
    BY <1>4, <2>1, <2>3
  <2>5. hand' = [hand EXCEPT !.trace = [ stage |-> "write", msg |-> t,
                                          board |-> board[t.challenge_id] ]]
    BY <1>1, <2>1, <2>4 DEF Status
  <2>6. hand'.trace.stage = "write" /\ hand'.trace.msg = t
    BY <2>5, HandAt DEF OnlyHand, Steady, TypeOK
  <2> QED
    BY <2>4, <2>6 DEF Tracing
<1> QED
  BY <1>4 DEF AllFollowed, Followed

LEMMA FollowedWritten ==
    ASSUME Steady, AllFollowed, WriteOutcome
    PROVE  AllFollowed'
<1> DEFINE m == hand.trace.msg
<1>1. /\ hand.trace.stage = "write" /\ m \in TraceEvent /\ hand.trace.board \in Board
      /\ Outcome(m.kind) # "none" /\ UNCHANGED <<log, read>>
      /\ board' = [board EXCEPT ![m.challenge_id] =
                     [hand.trace.board EXCEPT !.board_status = Outcome(m.kind)]]
      /\ board \in [Challenges -> Board \cup {NoBoard}]
  BY HandlerTypes DEF WriteOutcome, TypeOK, Steady
<1>2. PICK c \in Challenges, kind \in TraceKind : c = m.challenge_id /\ kind = m.kind
  BY <1>1 DEF TraceEvent
<1>3. board'[c] = [hand.trace.board EXCEPT !.board_status = Outcome(kind)]
  BY <1>1, <1>2
<1>4. Status(c)' = Outcome(kind) /\ Outcome(kind) # "running"
  BY <1>1, <1>3 DEF Board, Status, Outcome
<1>5. ASSUME NEW d \in Challenges, d # c PROVE Status(d)' = Status(d) /\ ~Tracing(d)
  BY <1>1, <1>2, <1>5 DEF Status, Tracing
<1>6. ASSUME NEW d \in Challenges PROVE Followed(d)'
  BY <1>1, <1>4, <1>5 DEF AllFollowed, Followed
<1> QED
  BY <1>6 DEF AllFollowed

LEMMA TraceHandStays ==
    ASSUME Steady, Next, ~Durable, ~OnTrace, ~WriteOutcome
    PROVE  hand'.trace = hand.trace /\ read'["trace"] = read["trace"]
<1>0. hand \in Handlers /\ read \in [Services -> Nat]
  BY DEF Steady, TypeOK
<1>1. CASE \E c \in Challenges : Submit(c)
  BY <1>1 DEF Submit
<1>2. ASSUME NEW k \in Categories, SpecialistStep(k) PROVE UNCHANGED <<hand, read>>
  BY <1>2 DEF SpecialistStep, TakeTask, StaticHit, NeedsEngine, DispatchEngine, Scanning,
              EngineRaises, HandleRaises, EngineBarren, EngineHandsOff, EngineClaims,
              EngineAnswers
<1>3. CASE GateStep
  <2>1. hand'.trace = hand.trace
    BY <1>3, GateFrame DEF Steady
  <2> QED
    BY <1>0, <1>3, <2>1 DEF GateStep, OnCandidate, AnnounceVerdict, PublishFlag, Receives, Services
<1>4. CASE OrchestratorStep
  <2>1. hand'.trace = hand.trace
    BY <1>0, <1>4 DEF OrchestratorStep, OnChallenge, StoreBoard, DispatchTask, OnHandoff,
                      RouteHandoff, OnFlag, WriteSolved, AnnounceSolved, Handlers
  <2>2. read'["trace"] = read["trace"]
    BY <1>0, <1>4 DEF OrchestratorStep, OnChallenge, StoreBoard, DispatchTask, OnHandoff,
                      RouteHandoff, OnFlag, WriteSolved, AnnounceSolved, Receives, Services
  <2> QED
    BY <2>1, <2>2
<1> QED
  BY <1>1, <1>2, <1>3, <1>4 DEF Next, Crash

LEMMA FollowedStep ==
    ASSUME ~Durable, EndKind \subseteq Traced, Steady, AllFollowed, [Next]_vars
    PROVE  AllFollowed'
<1>0. TypeOK /\ FlowTypes /\ Extends(log.traces, log'.traces)
  BY FlowTyped, TracesExtend DEF Steady
<1>1. CASE OnTrace
  BY <1>1, FollowedRead
<1>2. CASE WriteOutcome
  BY <1>2, FollowedWritten
<1>3. ASSUME Next, ~OnTrace, ~WriteOutcome,
             \A c \in Challenges : Status(c)' = "running" => Status(c) = "running"
      PROVE  AllFollowed'
  BY <1>0, <1>3, TraceHandStays, FollowedStays DEF AllFollowed
<1>4. CASE StoreBoard
  <2>1. PICK e \in Challenges : Moves(e, "none", "running")
    BY <1>0, <1>4, StoreBoardMoves
  <2>2. Kinds(e) \cap Final = {}
    <3>1. ASSUME NEW kind \in Kinds(e) \cap Final PROVE FALSE
      BY <2>1, <3>1, FinalFacts DEF Moves, Steady, Stories, Story
    <3> QED
      BY <3>1
  <2>3. \A i \in 1..Len(log.traces) :
          log.traces[i].challenge_id = e => log.traces[i].kind \in Kinds(e)
    BY <1>0, SeqTypes DEF TypeOK, Kinds, Range
  <2>4. /\ log' = log /\ read'["trace"] = read["trace"] /\ hand'.trace = hand.trace
        /\ read["trace"] \in Nat /\ read["trace"] <= Len(log.traces)
        /\ Len(log.traces) \in Nat
    <3>1. OnlyHand("challenge", [stage |-> "dispatch", msg |-> hand.challenge.msg])
      BY <1>0, <1>4, StageAt DEF StoreBoard, TypeOK
    <3> QED
      BY <1>0, <1>4, <3>1, SeqTypes DEF StoreBoard, OnlyHand, Services, TypeOK, Inbox
  <2>5. Followed(e)'
    BY <2>2, <2>3, <2>4, FinalFacts DEF Followed
  <2>6. ASSUME NEW d \in Challenges, d # e PROVE Followed(d)'
    BY <1>0, <2>1, <2>4, <2>6, FollowedStays DEF AllFollowed, Moves
  <2> QED
    BY <2>5, <2>6 DEF AllFollowed
<1>5. CASE WriteSolved
  <2>1. PICK e \in Challenges : Moves(e, "running", "solved")
    BY <1>0, <1>5, WriteSolvedMoves
  <2>2. \A d \in Challenges : Status(d)' = "running" => Status(d) = "running"
    BY <2>1 DEF Moves
  <2>3. hand'.trace = hand.trace /\ read'["trace"] = read["trace"]
    <3>1. OnlyHand("flag", [ stage |-> "announce", msg |-> hand.flag.msg,
                             board |-> hand.flag.board ])
      BY <1>0, <1>5, StageAt DEF WriteSolved, TypeOK
    <3> QED
      BY <1>5, <3>1 DEF WriteSolved, OnlyHand, Services
  <2> QED
    BY <1>0, <2>2, <2>3, FollowedStays DEF AllFollowed
<1>6. CASE Next /\ ~(StoreBoard \/ WriteSolved \/ WriteOutcome \/ OnTrace)
  <2>1. \A d \in Challenges : Status(d)' = Status(d)
    BY <1>6, BoardStays DEF Status
  <2> QED
    BY <1>3, <1>6, <2>1
<1>7. CASE UNCHANGED vars
  <2>1. /\ log' = log /\ read' = read /\ hand' = hand /\ board' = board
    BY <1>7 DEF vars
  <2> QED
    BY <1>0, <2>1, FollowedStays DEF AllFollowed, Status
<1> QED
  BY <1>1, <1>2, <1>4, <1>5, <1>6, <1>7


LEMMA FollowedAlways == ASSUME ~Durable, EndKind \subseteq Traced PROVE Spec => []AllFollowed
<1>1. Init => AllFollowed
  BY DEF Init, AllFollowed, Followed, Status, NoBoard
<1> QED
  BY <1>1, FollowedStep, SteadyAlways, PTL DEF Spec

-----------------------------------------------------------------------------
(* Natural numbers, by a set                                               *)

\* A set that holds 0 and with every number the next holds them all: otherwise
\* the numbers up to one outside it that are outside too, a finite set, would
\* be mapped into themselves by i |-> i - 1, one-to-one but not onto.
LEMMA NatSetInduction ==
    ASSUME NEW S, 0 \in S, \A n \in Nat : n \in S => n + 1 \in S
    PROVE  \A n \in Nat : n \in S
<1> SUFFICES ASSUME NEW n \in Nat, n \notin S PROVE FALSE
  OBVIOUS
<1> DEFINE D == {i \in 0..n : i \notin S}
           f == [i \in D |-> i - 1]
<1>1. IsFiniteSet(D)
  <2>1. IsFiniteSet(0..n)
    BY FS_Interval
  <2> QED
    BY <2>1, FS_Subset
<1>2. \A i \in D : i - 1 \in D
  <2> SUFFICES ASSUME NEW i \in D PROVE i - 1 \in D
    OBVIOUS
  <2>1. i # 0 /\ i \in Nat
    OBVIOUS
  <2>2. i - 1 \in Nat /\ i = (i - 1) + 1
    BY <2>1
  <2>3. i - 1 \notin S
    BY <2>2
  <2> QED
    BY <2>2, <2>3
<1>3. f \in Injection(D, D)
  BY <1>2 DEF Injection, IsInjective
<1>4. f \in Surjection(D, D)
  BY <1>1, <1>3, FS_Injection
<1>5. n \in D
  OBVIOUS
<1>6. PICK i \in D : f[i] = n
  BY <1>4, <1>5 DEF Surjection
<1> QED
  BY <1>6


-----------------------------------------------------------------------------
(* cli.py board                                                            *)

\* The printed status after the first n traces is f[n].
StatusAt(c, st, i) ==
    IF log.traces[i].challenge_id # c THEN st ELSE StatusAfter(st, log.traces[i].kind)
Prints(c, n, f) ==
    f = [i \in 0..n |-> IF i = 0 THEN "unknown" ELSE StatusAt(c, f[i - 1], i)]

LEMMA PrintsExist == ASSUME NEW c, NEW n \in Nat PROVE \E f : Prints(c, n, f)
<1> DEFINE S == {m \in Nat : \E f : Prints(c, m, f)}
<1>1. 0 \in S
  <2> DEFINE f == [i \in 0..0 |-> "unknown"]
  <2>1. Prints(c, 0, f)
    BY DEF Prints
  <2> QED
    BY <2>1
<1>2. ASSUME NEW m \in Nat, m \in S PROVE m + 1 \in S
  <2>1. PICK f : Prints(c, m, f)
    BY <1>2
  <2> DEFINE g == [i \in 0..(m + 1) |-> IF i <= m THEN f[i] ELSE StatusAt(c, f[m], m + 1)]
             h == [i \in 0..(m + 1) |-> IF i = 0 THEN "unknown" ELSE StatusAt(c, g[i - 1], i)]
  <2>2. \A i \in 0..m : g[i] = f[i]
    OBVIOUS
  <2>3. \A i \in 0..m : f[i] = IF i = 0 THEN "unknown" ELSE StatusAt(c, f[i - 1], i)
    BY <2>1 DEF Prints
  <2>4. ASSUME NEW i \in 0..(m + 1) PROVE g[i] = h[i]
    <3>1. CASE i = 0
      BY <2>3, <3>1
    <3>2. CASE i \in 1..m
      <4>1. i - 1 \in 0..m /\ i \in 0..m /\ i # 0
        BY <3>2
      <4> QED
        BY <2>2, <2>3, <4>1
    <3>3. CASE i = m + 1
      <4>1. i - 1 = m /\ m \in 0..m /\ ~(i <= m) /\ i # 0
        BY <3>3
      <4> QED
        BY <2>2, <3>3, <4>1
    <3> QED
      BY <3>1, <3>2, <3>3
  <2>5. g = h
    BY <2>4
  <2> HIDE DEF g
  <2>6. Prints(c, m + 1, g)
    BY <2>5 DEF Prints
  <2> QED
    BY <2>6
<1> HIDE DEF S
<1>3. n \in S
  BY <1>1, <1>2, NatSetInduction
<1> QED
  BY <1>3 DEF S

LEMMA CliPrints ==
    ASSUME NEW c, Len(log.traces) \in Nat
    PROVE  \E f : Prints(c, Len(log.traces), f) /\ CliStatus(c) = f[Len(log.traces)]
<1>1. \E f : Prints(c, Len(log.traces), f)
  BY PrintsExist
<1>2. Prints(c, Len(log.traces), CHOOSE f : Prints(c, Len(log.traces), f))
  BY <1>1
<1>3. CliStatus(c) = (CHOOSE f : Prints(c, Len(log.traces), f))[Len(log.traces)]
  BY DEF CliStatus, Prints, StatusAt
<1> QED
  BY <1>2, <1>3

Told(c, kind, n) ==
    \E i \in 1..n : log.traces[i].challenge_id = c /\ log.traces[i].kind = kind
Undecided == {"unknown", "needs_engine", "running"}

\* The printed status is the solved trace's, or else that of the engine's end.
PrintsRight(c, n, st) ==
    /\ Told(c, "solved", n) => st = "solved"
    /\ ~Told(c, "solved", n) /\ Told(c, "engine_no_candidate", n) => st = "timed_out"
    /\ ~Told(c, "solved", n) /\ Told(c, "engine_error", n) => st = "failed"
    /\ st \in Undecided \cup {"solved", "timed_out", "failed"}
    /\ st = "solved" => Told(c, "solved", n)
    /\ st = "timed_out" => Told(c, "engine_no_candidate", n)
    /\ st = "failed" => Told(c, "engine_error", n)

LEMMA PrintsTell ==
    ASSUME NEW c, NEW m \in Nat, NEW f, Prints(c, m, f),
           ~(Told(c, "engine_no_candidate", m) /\ Told(c, "engine_error", m))
    PROVE  PrintsRight(c, m, f[m])
<1> DEFINE S == {n \in Nat : n <= m => PrintsRight(c, n, f[n])}
<1>1. /\ f[0] = "unknown"
      /\ \A n \in Nat : n + 1 <= m => f[n + 1] = StatusAt(c, f[n], n + 1)
  BY DEF Prints
<1>2. 0 \in S
  BY <1>1 DEF PrintsRight, Told, Undecided
<1>3. ASSUME NEW n \in Nat, n \in S PROVE n + 1 \in S
  <2> SUFFICES ASSUME n + 1 <= m PROVE PrintsRight(c, n + 1, f[n + 1])
    OBVIOUS
  <2>1. PrintsRight(c, n, f[n]) /\ f[n + 1] = StatusAt(c, f[n], n + 1)
    BY <1>1, <1>3
  <2> DEFINE e == log.traces[n + 1]
  <2>2. ASSUME NEW kind
        PROVE  Told(c, kind, n + 1) <=> Told(c, kind, n) \/ (e.challenge_id = c /\ e.kind = kind)
    <3>1. 1..(n + 1) = 1..n \cup {n + 1}
      OBVIOUS
    <3> QED
      BY <3>1 DEF Told
  <2>3. ASSUME NEW kind, Told(c, kind, n + 1) PROVE Told(c, kind, m)
    <3>1. 1..(n + 1) \subseteq 1..m
      OBVIOUS
    <3> QED
      BY <2>3, <3>1 DEF Told
  <2>4. ~(Told(c, "engine_no_candidate", n + 1) /\ Told(c, "engine_error", n + 1))
    BY <2>3
  <2>5. CASE e.challenge_id # c
    BY <2>1, <2>2, <2>5 DEF StatusAt, PrintsRight
  <2>6. CASE e.challenge_id = c
    <3>1. f[n + 1] = StatusAfter(f[n], e.kind)
      BY <2>1, <2>6 DEF StatusAt
    <3>2. \A kind : Told(c, kind, n + 1) <=> Told(c, kind, n) \/ e.kind = kind
      BY <2>2, <2>6
    <3> HIDE DEF e
    <3>3. CASE e.kind = "solved"
      <4>1. f[n + 1] = "solved" /\ Told(c, "solved", n + 1)
        BY <3>1, <3>2, <3>3 DEF StatusAfter
      <4> QED
        BY <4>1 DEF PrintsRight
    <3>4. CASE e.kind = "engine_no_candidate"
      <4>1. /\ Told(c, "engine_no_candidate", n + 1) /\ ~Told(c, "engine_error", n + 1)
            /\ Told(c, "solved", n + 1) <=> Told(c, "solved", n)
        BY <2>4, <3>2, <3>4
      <4>2. f[n + 1] = IF f[n] = "solved" THEN "solved" ELSE "timed_out"
        BY <2>1, <3>1, <3>4 DEF StatusAfter, PrintsRight, Undecided
      <4> QED
        BY <2>1, <4>1, <4>2 DEF PrintsRight
    <3>5. CASE e.kind = "engine_error"
      <4>1. /\ Told(c, "engine_error", n + 1) /\ ~Told(c, "engine_no_candidate", n + 1)
            /\ Told(c, "solved", n + 1) <=> Told(c, "solved", n)
        BY <2>4, <3>2, <3>5
      <4>2. f[n + 1] = IF f[n] = "solved" THEN "solved" ELSE "failed"
        BY <2>1, <3>1, <3>5 DEF StatusAfter, PrintsRight, Undecided
      <4> QED
        BY <2>1, <4>1, <4>2 DEF PrintsRight
    <3>6. CASE e.kind \notin {"solved", "engine_no_candidate", "engine_error"}
      <4>1. \A kind \in {"solved", "engine_no_candidate", "engine_error"} :
              Told(c, kind, n + 1) <=> Told(c, kind, n)
        BY <3>2, <3>6
      <4>2. f[n + 1] = f[n] \/ (f[n] = "unknown" /\ f[n + 1] \in Undecided)
        BY <2>1, <3>1, <3>6 DEF StatusAfter, Undecided
      <4>3. /\ Told(c, "solved", n + 1) <=> Told(c, "solved", n)
            /\ Told(c, "engine_no_candidate", n + 1) <=> Told(c, "engine_no_candidate", n)
            /\ Told(c, "engine_error", n + 1) <=> Told(c, "engine_error", n)
        BY <4>1
      <4> QED
        BY <2>1, <4>2, <4>3 DEF PrintsRight, Undecided
    <3> QED
      BY <3>3, <3>4, <3>5, <3>6
  <2> QED
    BY <2>5, <2>6
<1> HIDE DEF S
<1>4. m \in S
  BY <1>2, <1>3, NatSetInduction
<1> QED
  BY <1>4 DEF S

LEMMA ToldKinds ==
    ASSUME TypeOK, NEW c, NEW kind
    PROVE  Told(c, kind, Len(log.traces)) <=> kind \in Kinds(c)
<1>1. DOMAIN log.traces = 1..Len(log.traces)
  BY SeqTypes DEF TypeOK
<1> QED
  BY <1>1 DEF Told, Kinds, Range

\* Whatever order the loops ran in: once nothing is left to do for a challenge
\* and its traces are read, the trace file and the board tell the same outcome.
THEOREM TracesStayWithBoard ==
    ASSUME ~Durable, EndKind \subseteq Traced
    PROVE  Spec => []TracesAgreeWithBoard
<1>1. ASSUME Steady, AllFollowed PROVE TracesAgreeWithBoard
  <2> SUFFICES ASSUME NEW c \in Challenges, WorkItems(c) = {},
                      read["trace"] = Len(log.traces), hand.trace = Idle
               PROVE  \/ CliStatus(c) = board[c].board_status
                      \/ /\ CliStatus(c) \in {"unknown", "needs_engine", "running"}
                         /\ board[c].board_status \in {"none", "running"}
    BY DEF TracesAgreeWithBoard
  <2>1. Story(c) /\ Items(c) = {} /\ TypeOK /\ Len(log.traces) \in Nat /\ ~Tracing(c)
    BY <1>1, ItemsAreWork, SeqTypes DEF Steady, Stories, TypeOK, Tracing, Idle
  <2>2. ~("engine_no_candidate" \in Kinds(c) /\ "engine_error" \in Kinds(c))
    BY <2>1 DEF Story
  <2>3. PICK f : Prints(c, Len(log.traces), f) /\ CliStatus(c) = f[Len(log.traces)]
    BY <2>1, CliPrints
  <2>4. PrintsRight(c, Len(log.traces), CliStatus(c))
    BY <2>1, <2>2, <2>3, ToldKinds, PrintsTell
  <2>5. CASE "solved" \in Kinds(c)
    BY <2>1, <2>4, <2>5, ToldKinds DEF Story, PrintsRight, Final, Status
  <2>6. ASSUME NEW kind \in {"engine_no_candidate", "engine_error"}, kind \in Kinds(c)
        PROVE  Status(c) = Outcome(kind) /\ "solved" \notin Kinds(c)
    <3>1. Outcome(kind) \notin {"none", "running", "solved"}
      BY <2>6 DEF Outcome
    <3>2. kind \in Kinds(c) \cap Final /\ kind # "solved"
      BY <2>6 DEF Final
    <3>3. Status(c) \in {"running", Outcome(kind)}
      BY <2>1, <3>2 DEF Story
    <3>4. Status(c) # "running"
      <4>1. Told(c, kind, Len(log.traces))
        BY <2>1, <2>6, ToldKinds
      <4> QED
        BY <1>1, <2>1, <3>1, <4>1 DEF Told, AllFollowed, Followed
    <3>5. "solved" \notin Kinds(c)
      <4>1. "solved" \in Final
        BY DEF Final
      <4> QED
        BY <2>1, <3>1, <3>3, <3>4, <4>1 DEF Story
    <3> QED
      BY <3>3, <3>4, <3>5
  <2>7. CASE "engine_no_candidate" \in Kinds(c)
    BY <2>1, <2>4, <2>6, <2>7, ToldKinds DEF PrintsRight, Outcome, Status
  <2>8. CASE "engine_error" \in Kinds(c)
    BY <2>1, <2>4, <2>6, <2>8, ToldKinds DEF PrintsRight, Outcome, Status
  <2>9. CASE Kinds(c) \cap Final = {}
    <3>1. /\ "solved" \notin Kinds(c) /\ "engine_no_candidate" \notin Kinds(c)
          /\ "engine_error" \notin Kinds(c)
      BY <2>9 DEF Final
    <3>2. Status(c) \in {"none", "running"}
      BY <2>1, <3>1, StatusTypes DEF Story
    <3>3. CliStatus(c) \in {"unknown", "needs_engine", "running"}
      BY <2>1, <2>4, <3>1, ToldKinds DEF PrintsRight, Undecided
    <3> QED
      BY <3>2, <3>3 DEF Status
  <2> QED
    BY <2>5, <2>7, <2>8, <2>9 DEF Final
<1> QED
  BY <1>1, SteadyAlways, FollowedAlways, PTL
=============================================================================
