-------------------------------- MODULE Gate --------------------------------
(***************************************************************************)
(* The judgement of runtime/ctfrt/gate.py and runtime/ctfrt/verify.py: what *)
(* the gate makes of one candidate flag.  Constant operators only; the      *)
(* consumer loop around them is GateService, the whole runtime CtfRuntime.  *)
(*                                                                         *)
(* A candidate text is a member of Flags.  What the text IS, independently  *)
(* of what anyone claims, is given by two subsets: GenuineFlags are the     *)
(* texts the artifact itself accepts, FormattedFlags those that match the   *)
(* challenge's declared flag_format (re.fullmatch, or containment when the  *)
(* pattern does not compile).                                              *)
(***************************************************************************)
EXTENDS Naturals, FiniteSets

CONSTANTS
    Challenges,       \* challenge ids
    Flags,            \* candidate texts
    GenuineFlags,     \* the texts the artifact accepts
    FormattedFlags    \* the texts that match a declared flag_format

ASSUME FlagsAssumption ==
    /\ GenuineFlags \subseteq Flags
    /\ FormattedFlags \subseteq Flags

ValidationLevel  == {"observed", "format_ok", "reproduced", "oracle_accepted"}
LocalValidation  == {"passed", "failed", "not_attempted"}
OracleValidation == {"passed", "failed", "not_available"}
CandidateStatus  == {"raw", "format_ok", "locally_verified", "solved"}

\* The reproduction recipe is its method and, for sandbox_exec, whether the
\* exit code it names is the artifact's accepting one.  evidence and patched
\* are the two facts the checks read from the evidence list and from source.
Candidate ==
    [ challenge_id      : Challenges,
      candidate         : Flags,
      flag_format       : {"none", "declared"},
      validation_level  : ValidationLevel,
      local_validation  : LocalValidation,
      oracle_validation : OracleValidation,
      status            : CandidateStatus,
      evidence          : BOOLEAN,
      patched           : BOOLEAN,
      method            : {"none", "reencode_xor", "sandbox_exec", "other"},
      expect_exit       : {"accept", "reject"} ]

FormatMatch(c) ==
    IF c.flag_format = "none" THEN "unknown"
    ELSE IF c.candidate \in FormattedFlags THEN "match" ELSE "mismatch"

-----------------------------------------------------------------------------
(* verify.py                                                               *)

\* bytes(ord(ch) ^ key) against the blob stored in the artifact.
VerifyReencodeXor(c) == c.candidate \in GenuineFlags

\* sandbox.run_sandboxed on the candidate: the results a run of the artifact may
\* have.  A path that leaves the workspace never starts (-126), nor does a
\* container the host cannot run (-127); a run past its timeout is killed (-1);
\* otherwise the exit code is the artifact's own.  Only a ValueError of the path
\* check is caught: a file that does not exist raises (see Verify).
Unstarted == {"unsafe_path", "no_container"}

RunSandboxed(c) ==
    {[exit |-> x, timed_out |-> FALSE, marked |-> m] : x \in Unstarted, m \in BOOLEAN}
    \cup {[exit |-> "killed", timed_out |-> TRUE, marked |-> m] : m \in BOOLEAN}
    \cup {[exit |-> IF c.candidate \in GenuineFlags THEN "accept" ELSE "reject",
           timed_out |-> FALSE, marked |-> m] : m \in BOOLEAN}

\* The run exits with the code the recipe names, within its time, and its output
\* holds the recipe's success_marker, if there is one (`marked').
VerifySandboxExec(c, run) == run.exit = c.expect_exit /\ ~run.timed_out /\ run.marked

\* The ends of Verifier.verify.  An unreadable artifact refutes a claim that is
\* in fact right.  Re-encoding a text that leaves the byte range raises, and so
\* does a sandbox run of a file that is not there: nothing here catches it.
Executable == {"reencode_xor", "sandbox_exec"}

Answers(c, runs) ==
    {v \in {"refuted"} : c.method # "sandbox_exec"}
    \cup {v \in {"verified"} : c.method = "reencode_xor" /\ VerifyReencodeXor(c)}
    \cup {IF VerifySandboxExec(c, run) THEN "verified" ELSE "refuted" :
             run \in {r \in runs : c.method = "sandbox_exec"}}

Verify(c) ==
    Answers(c, RunSandboxed(c)) \cup {v \in {"raised"} : c.method \in Executable}

-----------------------------------------------------------------------------
(* gate.py                                                                 *)

\* `attached' is whether the gate was built with a verifier.
NeedsVerification(attached, c) ==
    attached /\ c.validation_level = "reproduced"

\* A slip: a refuted claim keeps its level.
OverrideKeepsLevel(c, verified) == [c EXCEPT !.local_validation = "passed"]

\* The verifier's answer overrides what the producer claimed.
Override(c, verified) ==
    IF verified
    THEN [c EXCEPT !.local_validation = "passed"]
    ELSE [c EXCEPT !.local_validation = "failed", !.validation_level = "format_ok"]

ReproducedViaSandbox(c) ==
    /\ c.validation_level = "reproduced"
    /\ c.local_validation = "passed"
    /\ c.method = "sandbox_exec"

\* A slip: the oracle's refusal is overlooked.
ChecksWithoutOracle(c) ==
    {r \in {"reject_no_reproduction_path"} :
        c.validation_level \in {"observed", "format_ok"}}
    \cup {r \in {"reject_unverified_candidate"} : c.local_validation # "passed"}

\* The reasons to reject; the empty set passes.
FinalAnswerChecks(c) ==
    {r \in {"reject_oracle_failed"} : c.oracle_validation = "failed"}
    \cup {r \in {"reject_no_flag_format"} :
            /\ c.oracle_validation = "not_available"
            /\ FormatMatch(c) = "mismatch"
            /\ ~ReproducedViaSandbox(c)}
    \cup {r \in {"reject_no_reproduction_path"} :
            c.validation_level \in {"observed", "format_ok"}}
    \cup {r \in {"reject_unverified_candidate"} :
            c.local_validation # "passed" /\ c.oracle_validation # "passed"}
    \cup {r \in {"reject_no_evidence_ledger"} : ~c.evidence}
    \cup {r \in {"reject_patched_binary_success"} :
            c.patched /\ c.oracle_validation # "passed"}

\* The status the gate stamps on a candidate after the checks.
Promote(c) ==
    IF c.oracle_validation = "passed" \/ c.validation_level = "oracle_accepted"
    THEN [c EXCEPT !.status = "solved", !.validation_level = "oracle_accepted"]
    ELSE IF c.local_validation = "passed" /\ c.validation_level = "reproduced"
    THEN [c EXCEPT !.status = IF c.oracle_validation = "not_available"
                              THEN "solved" ELSE "locally_verified"]
    ELSE IF FormatMatch(c) # "mismatch" THEN [c EXCEPT !.status = "format_ok"]
    ELSE c

Judge(c) ==
    IF FinalAnswerChecks(c) # {} THEN [c EXCEPT !.status = "raw"] ELSE Promote(c)

\* Gate.evaluate as a whole: every verdict it may reach on a candidate.
Evaluate(attached, c) ==
    IF NeedsVerification(attached, c)
    THEN {Judge(Override(c, v = "verified")) : v \in Verify(c) \ {"raised"}}
    ELSE {Judge(c)}

-----------------------------------------------------------------------------
\* The ground on which shared/schemas.md lets a candidate be called solved.
Proven(c) ==
    \/ c.oracle_validation = "passed"
    \/ c.local_validation = "passed" /\ c.oracle_validation = "not_available"
=============================================================================
