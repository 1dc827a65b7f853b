---------------------------- MODULE MCSolveLocal ----------------------------
(***************************************************************************)
(* solve-local --category crypto-attack: the deterministic engine of that   *)
(* category, and misc, which it may hand over to and which does not run.    *)
(***************************************************************************)
EXTENDS SolveLocal

MCFlags     == {"flag", "decoy"}
MCGenuine   == {"flag"}
MCFormatted == {"flag"}
MCTraced    == TraceKind

Ciphertext == [ valid |-> TRUE, hint |-> "crypto-attack",
                artifacts |-> <<[magic |-> "none", suffix |-> ".txt"]>>, text |-> "none",
                flag_format |-> "declared", static |-> NoFlag ]
MCWorlds ==
    {Ciphertext, [Ciphertext EXCEPT !.static = "flag"], [Ciphertext EXCEPT !.valid = FALSE]}

MCResults ==
    { [candidate |-> "flag", reproduced |-> TRUE, evidence |-> TRUE, method |-> "none"],
      [candidate |-> "decoy", reproduced |-> TRUE, evidence |-> TRUE, method |-> "none"] }

\* A first run, and one after a run that solved a challenge of that name.
MCEarlierRuns ==
    { {}, {"routed", "task_started", "candidate_emitted", "candidate_accepted", "solved"} }
=============================================================================
