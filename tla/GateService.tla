---------------------------- MODULE GateService ----------------------------
(***************************************************************************)
(* Gate.run: one consumer takes candidates off ctf.candidates in order,     *)
(* evaluates each, publishes its trace events, records it in working memory *)
(* and publishes the verdict on ctf.flags.  Every await of the handler is a *)
(* step of its own, and an exception anywhere ends the loop.                *)
(***************************************************************************)
EXTENDS Gate, Sequences

CONSTANTS
    Topics,      \* what producers may publish on ctf.candidates, in order
    MaxInputs    \* how many candidates that is at most

ASSUME TopicsAssumption ==
    /\ Topics \subseteq Seq(Candidate) /\ MaxInputs \in Nat
    /\ \A t \in Topics : Len(t) <= MaxInputs

VARIABLES
    verifier, \* whether this gate was built with a verifier
    topic,    \* ctf.candidates: every candidate as its producer published it
    taken,    \* how many of them the loop has consumed
    stage,    \* where the handler stands
    cand,     \* the candidate in hand, mutated in place as in the code
    traces,   \* trace events published for the candidate in hand
    ledger,   \* candidates recorded in working memory
    flags     \* verdicts published on ctf.flags

vars == <<verifier, topic, taken, stage, cand, traces, ledger, flags>>

NoCandidate == [challenge_id |-> "none"]
Stages == {"idle", "verify", "judge", "trace", "verdict", "record", "publish", "dead"}

TypeOK ==
    /\ verifier \in BOOLEAN
    /\ topic \in Seq(Candidate) /\ taken \in 0..Len(topic)
    /\ stage \in Stages
    /\ stage # "idle" => cand \in Candidate /\ taken # 0
    /\ traces \in Seq({"candidate_rejected", "candidate_accepted", "gate_verdict"})
    /\ ledger \subseteq Candidate
    /\ flags \in Seq(Candidate)

Init ==
    /\ verifier \in BOOLEAN
    /\ topic \in Topics /\ taken = 0
    /\ stage = "idle"
    /\ cand = NoCandidate
    /\ traces = <<>> /\ ledger = {} /\ flags = <<>>

Consume ==
    /\ stage = "idle" /\ taken < Len(topic)
    /\ taken' = taken + 1
    /\ cand' = topic[taken']
    /\ traces' = <<>>
    /\ stage' = IF NeedsVerification(verifier, topic[taken']) THEN "verify" ELSE "judge"
    /\ UNCHANGED <<verifier, topic, ledger, flags>>

\* await self.verifier.verify(...)
AwaitVerifier ==
    /\ stage = "verify"
    /\ \E v \in Verify(cand) :
         IF v = "raised"
         THEN stage' = "dead" /\ UNCHANGED cand
         ELSE stage' = "judge" /\ cand' = Override(cand, v = "verified")
    /\ UNCHANGED <<verifier, topic, taken, traces, ledger, flags>>

\* The checks and the promotion, up to the first await after them.
JudgeCandidate ==
    /\ stage = "judge"
    /\ cand' = Judge(cand)
    /\ stage' = IF FinalAnswerChecks(cand) # {} THEN "trace" ELSE "verdict"
    /\ UNCHANGED <<verifier, topic, taken, traces, ledger, flags>>

\* A rejection publishes candidate_rejected and then gate_verdict.
PublishRejection ==
    /\ stage = "trace"
    /\ traces' = Append(traces, "candidate_rejected")
    /\ stage' = "verdict"
    /\ UNCHANGED <<verifier, topic, taken, cand, ledger, flags>>

PublishVerdictOnly ==   \* a slip: the verdict goes out before it is recorded
    /\ stage = "verdict"
    /\ flags' = Append(flags, cand)
    /\ stage' = "record"
    /\ UNCHANGED <<verifier, topic, taken, cand, traces, ledger>>

PublishVerdict ==
    /\ stage = "verdict"
    /\ traces' = Append(traces,
                   IF cand.status \in {"solved", "locally_verified"}
                   THEN "candidate_accepted" ELSE "gate_verdict")
    /\ stage' = "record"
    /\ UNCHANGED <<verifier, topic, taken, cand, ledger, flags>>

RecordCandidate ==
    /\ stage = "record"
    /\ ledger' = ledger \cup {cand}
    /\ stage' = "publish"
    /\ UNCHANGED <<verifier, topic, taken, cand, traces, flags>>

PublishFlagUnlessRejected ==   \* a slip: a rejected candidate gets no verdict
    /\ stage = "publish"
    /\ flags' = IF cand.status = "raw" THEN flags ELSE Append(flags, cand)
    /\ stage' = "idle"
    /\ cand' = NoCandidate
    /\ UNCHANGED <<verifier, topic, taken, traces, ledger>>

\* Every verdict goes to ctf.flags, the rejected ones too.
PublishFlag ==
    /\ stage = "publish"
    /\ flags' = Append(flags, cand)
    /\ stage' = "idle"
    /\ cand' = NoCandidate
    /\ UNCHANGED <<verifier, topic, taken, traces, ledger>>

Next ==
    \/ Consume \/ AwaitVerifier \/ JudgeCandidate \/ PublishRejection
    \/ PublishVerdict \/ RecordCandidate \/ PublishFlag

Spec == Init /\ [][Next]_vars /\ WF_vars(Next)

-----------------------------------------------------------------------------
(* Properties                                                              *)

Verdicts == {flags[i] : i \in DOMAIN flags}
Solved   == {c \in Verdicts : c.status = "solved"}

\* schemas.md: a candidate is solved only on an oracle's pass, or on a local
\* pass when there is no oracle.  Several independent checks of
\* _final_answer_checks have to combine for that; none states it.
SolvedIsProven == \A c \in Solved : Proven(c)

\* What a reader of ctf.flags may rely on: the verdict was recorded in working
\* memory and announced on ctf.traces first, and the announcement agrees.
VerdictsAreRecordedAndTraced ==
    /\ Verdicts \subseteq ledger
    /\ stage = "publish" =>
         traces = IF cand.status = "solved" THEN <<"candidate_accepted">>
                  ELSE <<"candidate_rejected", "gate_verdict">>

\* A text the verifying gate solves as reproduced is one the artifact accepts,
\* provided its recipe names the artifact's accepting exit code.
VerifiedSolveIsGenuine ==
    verifier => \A c \in Solved :
        c.validation_level = "reproduced" /\ c.expect_exit = "accept"
            => c.candidate \in GenuineFlags

\* The n-th message of ctf.flags is a verdict on the n-th candidate published.
Judged(n) == n \in DOMAIN flags /\ flags[n] \in Evaluate(verifier, topic[n])

\* None is skipped, judged twice or answered with the verdict of another.
VerdictsFollowTheTopic ==
    /\ Len(flags) = IF stage = "idle" THEN taken ELSE taken - 1
    /\ \A n \in DOMAIN flags : Judged(n)

\* The loop ended on a candidate whose verification can raise: that one and those
\* behind it are lost, and nobody is told.
LostFrom(m) ==
    /\ stage = "dead" /\ taken = m
    /\ NeedsVerification(verifier, topic[m]) /\ topic[m].method \in Executable

\* Every published candidate gets its own verdict on ctf.flags, the rejected ones
\* too, at the place of its publication; the only ones that get none are a
\* candidate whose own verification raised, out of Gate.run, and those behind it.
EveryCandidateIsJudged ==
    \A n \in 1..MaxInputs :
        <>(n \in DOMAIN topic => Judged(n) \/ \E m \in 1..n : LostFrom(m))

=============================================================================
