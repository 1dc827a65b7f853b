--------------------------- MODULE CmsEngineProps ---------------------------
(***************************************************************************)
(* The properties of CmsEngine.                                            *)
(***************************************************************************)
EXTENDS CmsEngine

Turn(id) == observations[id].turn
InOrder(ids) == \A i, j \in DOMAIN ids : i < j => Turn(ids[i]) < Turn(ids[j])
Before(ids, others) == \A i \in ToSet(ids), j \in ToSet(others) : Turn(i) < Turn(j)

\* l2/episode.py: an episode is a coherent stretch of one conversation, its
\* observations in arrival order.  So an episode and what is still open of its
\* session refer to stored observations of that session in the order they came,
\* two episodes of a session lie one after the other, and no observation counts
\* to two of them, whatever failed on the way.
EpisodesAreRegimes ==
    /\ \A e \in ToSet(episodes) :
          /\ \A o \in ToSet(e.obs_ids) :
                o \in DOMAIN observations /\ observations[o].session = e.session
          /\ InOrder(e.obs_ids)
          /\ Before(e.obs_ids, open[e.session])
    /\ \A s \in Sessions : InOrder(open[s])
    /\ \A k, l \in DOMAIN episodes :
          k # l /\ episodes[k].session = episodes[l].session =>
              \/ Before(episodes[k].obs_ids, episodes[l].obs_ids)
              \/ Before(episodes[l].obs_ids, episodes[k].obs_ids)

\* l2/service.py: "the triggering observation belongs to the NEW episode".  As long
\* as nothing fails, every observation is in an episode or open between two calls.
NothingIsLeftOut ==
    job = Idle /\ faults = 0 =>
        \A o \in DOMAIN observations :
            \/ o \in ToSet(open[observations[o].session])
            \/ \E e \in ToSet(episodes) : o \in ToSet(e.obs_ids)

\* README.md, "Provenance is mandatory": the object a record names is on file,
\* and the rule the record names fires on what is on file, even if a crash came
\* between any two writes.
EvidenceIsTraceable ==
    \A r \in evidence :
        \/ /\ r.kind = "observation" /\ r.id \in DOMAIN observations
           /\ r \in ToSet(ObservationFilings(r.id, observations[r.id]))
        \/ /\ r.kind = "episode" /\ r.id \in DOMAIN episodes
           /\ r \in ToSet(EpisodeFilings(r.id, episodes[r.id]))

\* engine.py, process_turn and end_session: between two calls, as long as nothing
\* fails, the rules have run over every object and the beliefs know every record.
EverythingIsFed ==
    job = Idle /\ faults = 0 =>
        /\ fed = evidence
        /\ \A o \in DOMAIN observations : ToSet(ObservationFilings(o, observations[o])) \subseteq fed
        /\ \A e \in DOMAIN episodes : ToSet(EpisodeFilings(e, episodes[e])) \subseteq fed

\* l1/observation.py: an observation is "the immutable record of one utterance's
\* interpretation".  What is on file is never replaced.
ObservationsAreImmutable ==
    [][\A o \in DOMAIN observations :
          o \in DOMAIN observations' /\ observations'[o] = observations[o]]_vars
=============================================================================
