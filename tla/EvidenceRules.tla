---------------------------- MODULE EvidenceRules ----------------------------
(***************************************************************************)
(* The rule pack of cms/l3/rules.py and the belief dimensions it feeds      *)
(* (cms/l3/belief.py) as constant operators.  Ratios, certainties, intents  *)
(* and support scores are hundredths.                                      *)
(***************************************************************************)
EXTENDS Integers, Sequences

\* clip01
Clip(x) == IF x < 0 THEN 0 ELSE IF x > 100 THEN 100 ELSE x

\* What a rule feeds: the dimension its scope maps to, and the direction its
\* subscope has there.
Feeds ==
    [ obs_pragmatic_high_ratio    |-> [dimension |-> "pragmatic_style",       direction |->  1],
      obs_epistemic_certainty     |-> [dimension |-> "epistemic_style",       direction |->  1],
      obs_epistemic_hedging       |-> [dimension |-> "epistemic_style",       direction |-> -1],
      obs_social_self_reference   |-> [dimension |-> "social_orientation",    direction |-> -1],
      obs_social_other_reference  |-> [dimension |-> "social_orientation",    direction |->  1],
      ep_dynamics_rupture         |-> [dimension |-> "interaction_stability", direction |-> -1],
      ep_dynamics_sustained       |-> [dimension |-> "interaction_stability", direction |->  1] ]
Rules == DOMAIN Feeds
Dimensions == {Feeds[r].dimension : r \in Rules}

Polarity(dimension) == IF dimension = "pragmatic_style" THEN "magnitude" ELSE "signed"

Fired(condition, rule, score) ==
    IF condition THEN <<[rule |-> rule, score |-> Clip(score)]>> ELSE <<>>

\* DEFAULT_OBSERVATION_RULES on an utterance with these coordinates, in order.
ObservationFirings(o) ==
    Fired(o.ratio >= 150, "obs_pragmatic_high_ratio", ((o.ratio - 150) * 100) \div 150)
    \o Fired(o.certainty >= 75, "obs_epistemic_certainty", (o.certainty - 75) * 4)
    \o Fired(o.certainty <= 35, "obs_epistemic_hedging", ((35 - o.certainty) * 100) \div 35)
    \o Fired(o.intent <= 35, "obs_social_self_reference", ((35 - o.intent) * 100) \div 35)
    \o Fired(o.intent >= 75, "obs_social_other_reference", (o.intent - 75) * 4)

\* DEFAULT_EPISODE_RULES on a closed episode.  The third one reads a signature
\* that nobody writes: EpisodeService leaves trajectory_signature empty.
EpisodeFirings(e) ==
    Fired(e.length <= 5 /\ e.surprise, "ep_dynamics_rupture", 100 - (e.length - 1) * 25)
    \o Fired(e.length >= 10 /\ ~e.surprise, "ep_dynamics_sustained", (e.length - 10) * 5)
=============================================================================
