--------------------------- MODULE MCBeliefService ---------------------------
(***************************************************************************)
(* An instance of BeliefService and of the views of it.                     *)
(***************************************************************************)
EXTENDS StateView, TLC

Utterance(ratio, certainty, closed) ==
    [observation |-> [ratio |-> ratio, certainty |-> certainty, intent |-> 50], closed |-> closed]

\* Certain; certain just at the threshold, for a score of zero, and of a high
\* ratio; hedging, and ending a short episode, which is weak evidence.
MCTurns ==
    { Utterance(0, 90, <<>>),
      Utterance(300, 75, <<>>),
      Utterance(0, 10, <<[length |-> 4, surprise |-> TRUE]>>) }

\* Everything; what one scope holds; what one rule says of an episode.
MCQuestions ==
    { [scope |-> Anything, subscope |-> Anything, kind |-> Anything],
      [scope |-> "epistemic_style", subscope |-> Anything, kind |-> Anything],
      [scope |-> "interaction_stability", subscope |-> "ep_dynamics_rupture", kind |-> "episode"] }

MCSymmetry == Permutations(Contexts)
=============================================================================
