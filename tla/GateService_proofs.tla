------------------------- MODULE GateService_proofs -------------------------
(***************************************************************************)
(* What a verdict on ctf.flags is worth, for any texts, any candidates and  *)
(* any number of them.  The judgement is a matter of constants and comes    *)
(* first; the invariant then follows the candidate through the awaits of    *)
(* the handler.                                                            *)
(***************************************************************************)
EXTENDS GateService, SequenceTheorems, TLAPS

\* A sequence of one and an element more make a sequence of two.
LEMMA AppendToOne ==
    ASSUME NEW a, NEW b
    PROVE  Append(<<a>>, b) = <<a, b>>
<1>1. <<a>> \in Seq({a, b}) /\ <<a, b>> \in Seq({a, b})
  OBVIOUS
<1>2. Append(<<a>>, b) \in Seq({a, b})
  BY <1>1
<1>3. Len(<<a, b>>) = 2 /\ Len(Append(<<a>>, b)) = 2
  BY <1>1
<1>4. Append(<<a>>, b)[1] = a /\ Append(<<a>>, b)[2] = b
  BY <1>1
<1>5. \A i \in 1..2 : Append(<<a>>, b)[i] = <<a, b>>[i]
  BY <1>4
<1> QED
  BY <1>1, <1>2, <1>3, <1>5, SeqEqual

\* What a candidate that passes Gate._final_answer_checks has in common.
LEMMA Passing ==
    ASSUME NEW c \in Candidate, FinalAnswerChecks(c) = {}
    PROVE  /\ c.oracle_validation # "failed"
           /\ c.validation_level \in {"reproduced", "oracle_accepted"}
           /\ c.local_validation = "passed" \/ c.oracle_validation = "passed"
<1>1. "reject_oracle_failed" \notin FinalAnswerChecks(c)
  OBVIOUS
<1>2. "reject_no_reproduction_path" \notin FinalAnswerChecks(c)
  OBVIOUS
<1>3. "reject_unverified_candidate" \notin FinalAnswerChecks(c)
  OBVIOUS
<1>4. c.oracle_validation # "failed"
  BY <1>1 DEF FinalAnswerChecks
<1>5. c.validation_level \notin {"observed", "format_ok"}
  BY <1>2 DEF FinalAnswerChecks
<1>6. c.local_validation = "passed" \/ c.oracle_validation = "passed"
  BY <1>3 DEF FinalAnswerChecks
<1>7. c.validation_level \in ValidationLevel
  BY DEF Candidate
<1> QED
  BY <1>4, <1>5, <1>6, <1>7 DEF ValidationLevel

\* A candidate stays one through the override and the judgement.
LEMMA StaysCandidate ==
    ASSUME NEW c \in Candidate, NEW b \in BOOLEAN
    PROVE  Override(c, b) \in Candidate /\ Judge(c) \in Candidate
<1>1. Override(c, b) \in Candidate
  BY DEF Override, Candidate, LocalValidation, ValidationLevel
<1>2. Promote(c) \in Candidate
  BY DEF Promote, Candidate, CandidateStatus, ValidationLevel, FormatMatch
<1>3. Judge(c) \in Candidate
  BY <1>2 DEF Judge, Candidate, CandidateStatus
<1> QED
  BY <1>1, <1>3

\* A judged candidate is solved when no check speaks and raw otherwise: the
\* two other statuses of the promotion are out of reach.
LEMMA SolvedOrRaw ==
    ASSUME NEW c \in Candidate
    PROVE  Judge(c).status = IF FinalAnswerChecks(c) = {} THEN "solved" ELSE "raw"
<1>1. CASE FinalAnswerChecks(c) # {}
  BY <1>1 DEF Judge, Candidate
<1>2. CASE FinalAnswerChecks(c) = {}
  <2>1. /\ c.oracle_validation # "failed"
        /\ c.validation_level \in {"reproduced", "oracle_accepted"}
        /\ c.local_validation = "passed" \/ c.oracle_validation = "passed"
    BY <1>2, Passing
  <2>2. c.oracle_validation \in OracleValidation
    BY DEF Candidate
  <2>3. Promote(c).status = "solved"
    BY <2>1, <2>2 DEF Promote, Candidate, OracleValidation
  <2> QED
    BY <1>2, <2>3 DEF Judge
<1> QED
  BY <1>1, <1>2

\* Solved means proven.
LEMMA JudgedIsProven ==
    ASSUME NEW c \in Candidate, Judge(c).status = "solved"
    PROVE  Proven(Judge(c))
<1>1. FinalAnswerChecks(c) = {}
  BY SolvedOrRaw
<1>2. /\ c.oracle_validation # "failed"
      /\ c.validation_level \in {"reproduced", "oracle_accepted"}
      /\ c.local_validation = "passed" \/ c.oracle_validation = "passed"
  BY <1>1, Passing
<1>3. c.oracle_validation \in OracleValidation
  BY DEF Candidate
<1>4. /\ Judge(c).oracle_validation = c.oracle_validation
      /\ Judge(c).local_validation = c.local_validation
  BY <1>1 DEF Judge, Promote, Candidate
<1> QED
  BY <1>2, <1>3, <1>4 DEF Proven, OracleValidation

\* Only a run of the artifact itself, or its own bytes, can verify a candidate.
LEMMA VerifiedIsGenuine ==
    ASSUME NEW c \in Candidate, "verified" \in Verify(c), c.expect_exit = "accept"
    PROVE  c.candidate \in GenuineFlags
<1>1. CASE c.method = "reencode_xor"
  BY <1>1 DEF Verify, Answers, VerifyReencodeXor
<1>2. CASE c.method # "reencode_xor"
  <2>1. PICK run \in RunSandboxed(c) : VerifySandboxExec(c, run)
    BY <1>2 DEF Verify, Answers
  <2>2. run.exit = "accept"
    BY <2>1 DEF VerifySandboxExec
  <2>3. \A m \in BOOLEAN :
          /\ \A x \in Unstarted : run # [exit |-> x, timed_out |-> FALSE, marked |-> m]
          /\ run # [exit |-> "killed", timed_out |-> TRUE, marked |-> m]
    BY <2>2 DEF Unstarted
  <2>4. \E m \in BOOLEAN :
          run = [exit |-> IF c.candidate \in GenuineFlags THEN "accept" ELSE "reject",
                 timed_out |-> FALSE, marked |-> m]
    BY <2>1, <2>3 DEF RunSandboxed
  <2> QED
    BY <2>2, <2>4
<1> QED
  BY <1>1, <1>2

\* What the verifying gate knows of a candidate it is about to judge.
Examined(c) ==
    c.validation_level = "reproduced" /\ c.local_validation = "passed"
        /\ c.expect_exit = "accept" => c.candidate \in GenuineFlags

\* What its verdict is worth.
Honest(c) ==
    c.validation_level = "reproduced" /\ c.expect_exit = "accept"
        => c.candidate \in GenuineFlags

\* An examined candidate that is solved as reproduced was reproduced: an
\* oracle's pass would have raised its level.
LEMMA JudgedIsHonest ==
    ASSUME NEW c \in Candidate, Examined(c), Judge(c).status = "solved"
    PROVE  Honest(Judge(c))
<1>1. FinalAnswerChecks(c) = {}
  BY SolvedOrRaw
<1>2. c.local_validation = "passed" \/ c.oracle_validation = "passed"
  BY <1>1, Passing
<1>3. Judge(c) = Promote(c)
  BY <1>1 DEF Judge
<1>4. CASE c.oracle_validation = "passed" \/ c.validation_level = "oracle_accepted"
  <2>1. Promote(c).validation_level = "oracle_accepted"
    BY <1>4 DEF Promote, Candidate
  <2> QED
    BY <1>3, <2>1 DEF Honest
<1>5. CASE ~(c.oracle_validation = "passed" \/ c.validation_level = "oracle_accepted")
  <2>1. /\ Promote(c).validation_level = c.validation_level
        /\ Promote(c).expect_exit = c.expect_exit
        /\ Promote(c).candidate = c.candidate
    BY <1>5 DEF Promote, Candidate
  <2> QED
    BY <1>2, <1>3, <1>5, <2>1 DEF Honest, Examined
<1> QED
  BY <1>4, <1>5

-----------------------------------------------------------------------------
(* The invariant of the loop.                                              *)

\* Where the handler holds a judged candidate.
AfterJudgement == {"trace", "verdict", "record", "publish"}

Worthy(c) == c.status = "solved" => Proven(c) /\ (verifier => Honest(c))

\* The announcement a verdict ends with.
Announcement(c) ==
    IF c.status = "solved" THEN <<"candidate_accepted">>
    ELSE <<"candidate_rejected", "gate_verdict">>

\* The announcements so far fit the stage and the judgement.
Told ==
    /\ stage \in {"verify", "judge", "trace"} => traces = <<>>
    /\ stage = "trace" => cand.status = "raw"
    /\ stage \in AfterJudgement => cand.status \in {"solved", "raw"}
    /\ stage = "verdict" => traces = IF cand.status = "solved" THEN <<>>
                                     ELSE <<"candidate_rejected">>
    /\ stage \in {"record", "publish"} => traces = Announcement(cand)

\* What is published was recorded before.
Recorded ==
    /\ stage = "publish" => cand \in ledger
    /\ \A i \in DOMAIN flags : flags[i] \in ledger

\* The candidate is examined when it is judged, and worthy from then on.
Earned ==
    /\ stage = "judge" /\ verifier => Examined(cand)
    /\ stage \in AfterJudgement => Worthy(cand)
    /\ \A i \in DOMAIN flags : Worthy(flags[i])

\* What is in hand comes from the candidate that was taken last, which it answers
\* once it is judged; what was published answers those before it.
Follows ==
    /\ stage = "verify" => cand = topic[taken] /\ NeedsVerification(verifier, topic[taken])
    /\ stage = "judge" => Judge(cand) \in Evaluate(verifier, topic[taken])
    /\ stage \in AfterJudgement => cand \in Evaluate(verifier, topic[taken])
    /\ VerdictsFollowTheTopic

GateInv == TypeOK /\ Told /\ Recorded /\ Earned /\ Follows

LEMMA GateInvInit == Init => GateInv
<1> SUFFICES ASSUME Init PROVE GateInv
  OBVIOUS
<1>1. topic \in Seq(Candidate)
  BY TopicsAssumption DEF Init
<1>2. TypeOK
  BY <1>1 DEF Init, TypeOK, Stages
<1>3. Follows
  BY DEF Init, Follows, AfterJudgement, VerdictsFollowTheTopic
<1> QED
  BY <1>2, <1>3 DEF Init, GateInv, Told, Recorded, Earned, AfterJudgement

LEMMA ConsumeKeeps ==
    ASSUME GateInv, Consume PROVE GateInv'
<1> DEFINE c == topic[taken + 1]
<1>1. c \in Candidate /\ taken' \in 0..Len(topic) /\ taken' # 0 /\ taken' = taken + 1
  BY DEF GateInv, TypeOK, Consume
<1>2. /\ cand' = c /\ topic'[taken'] = c /\ traces' = <<>>
      /\ stage' = IF NeedsVerification(verifier, c) THEN "verify" ELSE "judge"
      /\ stage' \in {"verify", "judge"} /\ stage = "idle"
      /\ UNCHANGED <<verifier, topic, ledger, flags>>
  BY DEF Consume
<1>3. stage' = "judge" /\ verifier => c.validation_level # "reproduced"
  BY DEF Consume, NeedsVerification
<1> HIDE DEF c
<1>4. TypeOK'
  BY <1>1, <1>2 DEF GateInv, TypeOK, Stages
<1>5. Told' /\ Recorded'
  BY <1>2 DEF GateInv, Told, Recorded, AfterJudgement
<1>6. Earned'
  BY <1>2, <1>3 DEF GateInv, Earned, Examined, AfterJudgement, Worthy
<1>7. Follows'
  <2>1. stage' = "judge" => Judge(cand)' \in Evaluate(verifier, topic[taken])'
    BY <1>2 DEF Evaluate
  <2>2. VerdictsFollowTheTopic'
    BY <1>1, <1>2 DEF GateInv, TypeOK, Follows, VerdictsFollowTheTopic, Judged
  <2> QED
    BY <1>2, <2>1, <2>2 DEF Follows, AfterJudgement
<1> QED
  BY <1>4, <1>5, <1>6, <1>7 DEF GateInv

\* Steps between taking and publishing leave the verdicts published alone.
LEMMA VerdictsStay ==
    ASSUME GateInv, UNCHANGED <<verifier, topic, taken, flags>>, stage # "idle", stage' # "idle"
    PROVE  VerdictsFollowTheTopic'
BY DEF GateInv, Follows, VerdictsFollowTheTopic, Judged

LEMMA AwaitVerifierKeeps ==
    ASSUME GateInv, AwaitVerifier PROVE GateInv'
<1>1. stage = "verify" /\ cand \in Candidate 
  BY DEF GateInv, TypeOK, AwaitVerifier
<1>2. UNCHANGED <<verifier, topic, taken, traces, ledger, flags>>
  BY DEF AwaitVerifier
<1>3. PICK v \in Verify(cand) :
        IF v = "raised" THEN stage' = "dead" /\ cand' = cand
        ELSE stage' = "judge" /\ cand' = Override(cand, v = "verified")
  BY DEF AwaitVerifier
<1>4. CASE v = "raised"
  <2>1. stage' = "dead" /\ cand' = cand
    BY <1>3, <1>4
  <2> QED
    BY <1>1, <1>2, <2>1, VerdictsStay
       DEF GateInv, TypeOK, Stages, Told, Recorded, Earned, Follows, AfterJudgement, Worthy
<1>5. CASE v # "raised"
  <2>1. stage' = "judge" /\ cand' = Override(cand, v = "verified")
    BY <1>3, <1>5
  <2>2. cand' \in Candidate
    BY <1>1, <2>1, StaysCandidate
  <2>3. Examined(cand')
    <3>1. CASE v = "verified"
      <4>1. cand.expect_exit = "accept" => cand.candidate \in GenuineFlags
        BY <1>1, <3>1, VerifiedIsGenuine
      <4>2. cand'.expect_exit = cand.expect_exit /\ cand'.candidate = cand.candidate
        BY <1>1, <2>1 DEF Override, Candidate
      <4> QED
        BY <4>1, <4>2 DEF Examined
    <3>2. CASE v # "verified"
      <4>1. cand'.local_validation = "failed"
        BY <1>1, <2>1, <3>2 DEF Override, Candidate
      <4> QED
        BY <4>1 DEF Examined
    <3> QED
      BY <3>1, <3>2
  <2>4. TypeOK'
    BY <1>1, <1>2, <2>1, <2>2 DEF GateInv, TypeOK, Stages
  <2>5. Told' /\ Recorded'
    BY <1>1, <1>2, <2>1 DEF GateInv, Told, Recorded, AfterJudgement
  <2>6. Earned'
    BY <1>2, <2>1, <2>3 DEF GateInv, Earned, AfterJudgement, Worthy
  <2>7. Follows'
    <3>1. cand = topic[taken] /\ NeedsVerification(verifier, topic[taken])
      BY <1>1 DEF GateInv, Follows
    <3>2. Judge(Override(cand, v = "verified")) \in Evaluate(verifier, topic[taken])
      BY <1>5, <3>1 DEF Evaluate
    <3>3. Judge(cand)' \in Evaluate(verifier, topic[taken])'
      BY <1>2, <2>1, <3>2
    <3> QED
      BY <1>1, <1>2, <2>1, <3>3, VerdictsStay DEF Follows, AfterJudgement
  <2> QED
    BY <2>4, <2>5, <2>6, <2>7 DEF GateInv
<1> QED
  BY <1>4, <1>5

LEMMA JudgeKeeps ==
    ASSUME GateInv, JudgeCandidate PROVE GateInv'
<1>1. stage = "judge" /\ cand \in Candidate  /\ traces = <<>>
  BY DEF GateInv, TypeOK, Told, JudgeCandidate
<1>2. UNCHANGED <<verifier, topic, taken, traces, ledger, flags>>
  BY DEF JudgeCandidate
<1>3. /\ cand' = Judge(cand)
      /\ stage' = IF FinalAnswerChecks(cand) # {} THEN "trace" ELSE "verdict"
  BY DEF JudgeCandidate
<1>4. cand' \in Candidate
  BY <1>1, <1>3, StaysCandidate
<1>5. cand'.status = IF stage' = "trace" THEN "raw" ELSE "solved"
  BY <1>1, <1>3, SolvedOrRaw
<1>6. Worthy(cand')
  <2>1. cand'.status = "solved" => Proven(cand')
    BY <1>1, <1>3, JudgedIsProven
  <2>2. cand'.status = "solved" /\ verifier => Honest(cand')
    BY <1>1, <1>3, JudgedIsHonest DEF GateInv, Earned
  <2> QED
    BY <2>1, <2>2 DEF Worthy
<1>7. stage' \in {"trace", "verdict"}
  BY <1>3
<1>8. TypeOK'
  BY <1>2, <1>4, <1>7, <1>1 DEF GateInv, TypeOK, Stages
<1>9. Told' /\ Recorded'
  BY <1>1, <1>2, <1>5, <1>7 DEF GateInv, Told, Recorded, AfterJudgement
<1>10. Earned'
  <2>1. Worthy(cand)'
    BY <1>2, <1>6 DEF Worthy
  <2>2. \A i \in DOMAIN flags' : Worthy(flags[i])'
    BY <1>2 DEF GateInv, Earned, Worthy
  <2> QED
    BY <1>7, <2>1, <2>2 DEF Earned
<1>11. Follows'
  <2>1. cand' \in Evaluate(verifier, topic[taken])
    BY <1>1, <1>3 DEF GateInv, Follows
  <2>2. (cand \in Evaluate(verifier, topic[taken]))'
    BY <1>2, <2>1
  <2> QED
    BY <1>1, <1>2, <1>7, <2>2, VerdictsStay DEF Follows
<1> QED
  BY <1>8, <1>9, <1>10, <1>11 DEF GateInv

\* Announcing and recording leave the judgement alone.
LEMMA AnnounceKeeps ==
    ASSUME GateInv, PublishRejection \/ PublishVerdict \/ RecordCandidate
    PROVE  GateInv'
<1>1. /\ stage \in {"trace", "verdict", "record"} /\ stage' \in {"verdict", "record", "publish"}
      /\ UNCHANGED <<verifier, topic, taken, cand, flags>>
  BY DEF PublishRejection, PublishVerdict, RecordCandidate
<1>2. cand \in Candidate /\ cand.status \in {"solved", "raw"}
  BY <1>1 DEF GateInv, TypeOK, Told, AfterJudgement
<1>3. Earned' /\ Follows'
  <2>1. Earned'
    BY <1>1 DEF GateInv, Earned, AfterJudgement, Worthy
  <2>2. (cand \in Evaluate(verifier, topic[taken]))'
    BY <1>1 DEF GateInv, Follows, AfterJudgement
  <2>3. Follows'
    BY <1>1, <2>2, VerdictsStay DEF Follows
  <2> QED
    BY <2>1, <2>3
<1>4. CASE PublishRejection
  <2>1. traces' = <<"candidate_rejected">> /\ stage' = "verdict" /\ ledger' = ledger
        /\ cand.status = "raw"
    BY <1>4 DEF PublishRejection, GateInv, Told
  <2> QED
    BY <1>1, <1>2, <1>3, <2>1 DEF GateInv, TypeOK, Stages, Told, Recorded, AfterJudgement
<1>5. CASE PublishVerdict
  <2>1. stage' = "record" /\ ledger' = ledger
    BY <1>5 DEF PublishVerdict
  <2>2. traces' = Announcement(cand)
    <3>1. CASE cand.status = "solved"
      <4>1. traces = <<>> /\ traces' = Append(traces, "candidate_accepted")
        BY <1>5, <3>1 DEF PublishVerdict, GateInv, Told
      <4>2. traces' = <<"candidate_accepted">>
        BY <4>1
      <4> QED
        BY <3>1, <4>2 DEF Announcement
    <3>2. CASE cand.status = "raw"
      <4>1. traces = <<"candidate_rejected">> /\ traces' = Append(traces, "gate_verdict")
        BY <1>5, <3>2 DEF PublishVerdict, GateInv, Told
      <4>2. traces' = <<"candidate_rejected", "gate_verdict">>
        BY <4>1, AppendToOne
      <4> QED
        BY <3>2, <4>2 DEF Announcement
    <3> QED
      BY <1>2, <3>1, <3>2
  <2>3. traces' \in Seq({"candidate_rejected", "candidate_accepted", "gate_verdict"})
    BY <1>5 DEF PublishVerdict, GateInv, TypeOK
  <2>4. TypeOK'
    BY <1>1, <2>1, <2>3 DEF GateInv, TypeOK, Stages
  <2>5. Told' /\ Recorded'
    BY <1>1, <1>2, <2>1, <2>2 DEF GateInv, Told, Recorded, AfterJudgement, Announcement
  <2> QED
    BY <1>3, <2>4, <2>5 DEF GateInv
<1>6. CASE RecordCandidate
  <2>1. stage' = "publish" /\ ledger' = ledger \cup {cand} /\ traces' = traces
        /\ stage = "record"
    BY <1>6 DEF RecordCandidate
  <2>2. TypeOK'
    BY <1>1, <1>2, <2>1 DEF GateInv, TypeOK, Stages
  <2>3. Told' /\ Recorded'
    BY <1>1, <1>2, <2>1 DEF GateInv, Told, Recorded, AfterJudgement, Announcement
  <2> QED
    BY <1>3, <2>2, <2>3 DEF GateInv
<1> QED
  BY <1>4, <1>5, <1>6

LEMMA PublishFlagKeeps ==
    ASSUME GateInv, PublishFlag PROVE GateInv'
<1>1. /\ stage = "publish" /\ stage' = "idle"
      /\ flags' = Append(flags, cand)
      /\ UNCHANGED <<verifier, topic, taken, traces, ledger>>
  BY DEF PublishFlag
<1>2. cand \in Candidate /\ cand \in ledger /\ Worthy(cand)
  BY <1>1 DEF GateInv, TypeOK, Recorded, Earned, AfterJudgement
<1>3. flags \in Seq(Candidate)
  BY DEF GateInv, TypeOK
<1>4. \A i \in DOMAIN flags' : flags'[i] = cand \/ (i \in DOMAIN flags /\ flags'[i] = flags[i])
  BY <1>1, <1>3
<1>5. TypeOK'
  BY <1>1, <1>2, <1>3 DEF GateInv, TypeOK, Stages
<1>6. Told' /\ Recorded'
  BY <1>1, <1>2, <1>4 DEF GateInv, Told, Recorded, AfterJudgement
<1>7. Earned'
  BY <1>1, <1>2, <1>4 DEF GateInv, Earned, AfterJudgement, Worthy
<1>8. Follows'
  <2>1. /\ Len(flags) = taken - 1 /\ \A n \in DOMAIN flags : Judged(n)
        /\ cand \in Evaluate(verifier, topic[taken]) /\ taken \in Nat \ {0}
    BY <1>1 DEF GateInv, TypeOK, Follows, VerdictsFollowTheTopic, AfterJudgement
  <2>2. Len(flags') = taken /\ DOMAIN flags' = 1..taken /\ DOMAIN flags = 1..(taken - 1)
    BY <1>1, <1>2, <1>3, <2>1
  <2>3. flags'[taken] = cand /\ \A n \in 1..(taken - 1) : flags'[n] = flags[n]
    BY <1>1, <1>2, <1>3, <2>1
  <2>4. ASSUME NEW n \in DOMAIN flags' PROVE Judged(n)'
    <3>1. CASE n = taken
      BY <1>1, <2>1, <2>3, <2>4, <3>1 DEF Judged
    <3>2. CASE n # taken
      <4>1. n \in 1..(taken - 1)
        BY <2>1, <2>2, <2>4, <3>2
      <4> QED
        BY <1>1, <2>1, <2>2, <2>3, <2>4, <4>1 DEF Judged
    <3> QED
      BY <3>1, <3>2
  <2>5. VerdictsFollowTheTopic'
    BY <1>1, <2>2, <2>4 DEF VerdictsFollowTheTopic
  <2> QED
    BY <1>1, <2>5 DEF Follows, AfterJudgement
<1> QED
  BY <1>5, <1>6, <1>7, <1>8 DEF GateInv

LEMMA GateInvStep == GateInv /\ [Next]_vars => GateInv'
<1> SUFFICES ASSUME GateInv, [Next]_vars PROVE GateInv'
  OBVIOUS
<1>1. CASE Consume
  BY <1>1, ConsumeKeeps
<1>2. CASE AwaitVerifier
  BY <1>2, AwaitVerifierKeeps
<1>3. CASE JudgeCandidate
  BY <1>3, JudgeKeeps
<1>4. CASE PublishRejection \/ PublishVerdict \/ RecordCandidate
  BY <1>4, AnnounceKeeps
<1>5. CASE PublishFlag
  BY <1>5, PublishFlagKeeps
<1>6. CASE UNCHANGED vars
  BY <1>6 DEF vars, GateInv, TypeOK, Told, Recorded, Earned, Worthy, Follows,
               VerdictsFollowTheTopic, Judged
<1> QED
  BY <1>1, <1>2, <1>3, <1>4, <1>5, <1>6 DEF Next

LEMMA GateInvAlways == Spec => []GateInv
  BY GateInvInit, GateInvStep, PTL DEF Spec

-----------------------------------------------------------------------------
(* Theorems                                                                *)

\* The state of the loop has its types, whatever is published to the gate.
THEOREM TypeCorrect == Spec => []TypeOK
<1>1. GateInv => TypeOK
  BY DEF GateInv
<1> QED
  BY <1>1, GateInvAlways, PTL

\* _final_answer_checks and the promotion together: what is called solved
\* passed the oracle, or passed locally where there is no oracle.
THEOREM SolvedIsProvenAlways == Spec => []SolvedIsProven
<1>1. GateInv => SolvedIsProven
  BY DEF GateInv, Earned, Worthy, SolvedIsProven, Solved, Verdicts
<1> QED
  BY <1>1, GateInvAlways, PTL

\* The order of Gate.evaluate's writes: announced and recorded, then published.
THEOREM RecordedAndTracedAlways == Spec => []VerdictsAreRecordedAndTraced
<1>1. GateInv => VerdictsAreRecordedAndTraced
  BY DEF GateInv, Told, Recorded, Announcement, VerdictsAreRecordedAndTraced, Verdicts
<1> QED
  BY <1>1, GateInvAlways, PTL

\* The n-th verdict on ctf.flags is one on the n-th candidate published, and none
\* before the one in hand is missing: Gate.run takes the topic in its order and
\* publishes whatever evaluate returns.
THEOREM VerdictsAlwaysFollow == Spec => []VerdictsFollowTheTopic
<1>1. GateInv => VerdictsFollowTheTopic
  BY DEF GateInv, Follows
<1> QED
  BY <1>1, GateInvAlways, PTL

\* With a verifier no producer's claim is enough: what is solved as reproduced
\* on the artifact's accepting exit is a text the artifact accepts.
THEOREM VerifiedIsGenuineAlways == Spec => []VerifiedSolveIsGenuine
<1>1. GateInv => VerifiedSolveIsGenuine
  BY DEF GateInv, Earned, Worthy, Honest, VerifiedSolveIsGenuine, Solved, Verdicts
<1> QED
  BY <1>1, GateInvAlways, PTL
=============================================================================
