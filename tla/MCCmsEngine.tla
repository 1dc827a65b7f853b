---------------------------- MODULE MCCmsEngine -----------------------------
(***************************************************************************)
(* Instances of CmsEngine.                                                 *)
(***************************************************************************)
EXTENDS CmsEngineProps, TLC

\* One utterance that two rules fire on, and one that none does.
MCUtterances ==
    { [ratio |-> 300, certainty |-> 90, intent |-> 50],
      [ratio |-> 0, certainty |-> 50, intent |-> 50] }

MCSymmetry == Permutations(Sessions)
=============================================================================
