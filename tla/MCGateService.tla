--------------------------- MODULE MCGateService ---------------------------
(***************************************************************************)
(* GateService over every candidate a producer may publish: all levels,     *)
(* claims, formats, recipes and evidence, for texts that are genuine or     *)
(* not and formatted or not.  A candidate is always published raw.  Then    *)
(* over two candidates, one behind the other.                               *)
(***************************************************************************)
EXTENDS GateService

MCFlags     == {"flag", "bare", "decoy", "noise"}
MCGenuine   == {"flag", "bare"}
MCFormatted == {"flag", "decoy"}

RawCandidates == {c \in Candidate : c.status = "raw"}

\* Alone on the topic each of them is judged.  What a candidate leaves to the next
\* turns on how its own handling ends: solved by an exam or on its level, rejected,
\* or with an exception.
Telling ==
    {c \in RawCandidates :
        /\ c.candidate \in {"flag", "decoy"} /\ c.flag_format = "none"
        /\ c.validation_level \in {"format_ok", "reproduced", "oracle_accepted"}
        /\ c.local_validation = "passed" /\ c.oracle_validation = "not_available"
        /\ c.evidence /\ ~c.patched /\ c.expect_exit = "accept"}

MCTopics == {<<c>> : c \in RawCandidates} \cup {<<c, d>> : c, d \in Telling}
=============================================================================
