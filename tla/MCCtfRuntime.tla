--------------------------- MODULE MCCtfRuntime ---------------------------
(***************************************************************************)
(* Instances of CtfRuntime.                                                *)
(***************************************************************************)
EXTENDS CtfRuntimeProps

MCFlags     == {"flag", "decoy"}
MCGenuine   == {"flag"}
MCFormatted == {"flag"}

\* The kinds on_trace or the command line acts on, and those that end the work
\* on a challenge.
MCTraced == EndKind \cup {"handoff"}

\* A binary that hides its flag; one with the flag in plain sight; a script,
\* which goes to a specialist without an engine; a challenge whose paths leave
\* the workspace.
Binary == [ valid |-> TRUE, hint |-> "none",
            artifacts |-> <<[magic |-> "elf", suffix |-> ""]>>, text |-> "none",
            flag_format |-> "declared", static |-> NoFlag ]
MCWorlds ==
    { Binary,
      [Binary EXCEPT !.static = "flag"],
      [Binary EXCEPT !.artifacts = <<[magic |-> "none", suffix |-> ".py"]>>,
                     !.flag_format = "none"],
      [Binary EXCEPT !.valid = FALSE] }

\* An engine that reproduced the right text, one that vouches for a text of
\* the wrong shape, one that only observed something.
MCResults ==
    { [candidate |-> "flag", reproduced |-> TRUE, evidence |-> TRUE, method |-> "none"],
      [candidate |-> "decoy", reproduced |-> TRUE, evidence |-> TRUE, method |-> "none"],
      [candidate |-> "flag", reproduced |-> FALSE, evidence |-> TRUE, method |-> "none"] }

\* Under crashes: one binary that hides its flag, and fewer traces.
CrashWorlds == {Binary}
CrashTraced == EndKind
=============================================================================
