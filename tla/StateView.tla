------------------------------ MODULE StateView ------------------------------
(***************************************************************************)
(* What the CMS runtime shows of itself: cms/runtime/retrieval.py ranks the *)
(* records of the stores, cms/runtime/assembler.py makes a RuntimeStateView *)
(* of them.  Both only read.  With the clock of BeliefService, which counts *)
(* days, only the evidence has an age.                                     *)
(***************************************************************************)
EXTENDS BeliefProps

CONSTANTS
    Questions,           \* the filters build is asked with
    ObservationLimit, EpisodeLimit, EvidenceLimit,   \* RetrievalPolicy
    LeastPool,           \* the least number of candidates asked of the store
    RecentEvidence       \* recent_evidence_seconds, in days

Anything == "any"        \* None

\* A scope is what feeds one dimension, a subscope one rule of it.
Question ==
    [ scope : Dimensions \cup {Anything}, subscope : Rules \cup {Anything},
      kind : {"observation", "episode", Anything} ]

ASSUME ViewAssumption ==
    /\ Questions \subseteq Question
    /\ ObservationLimit \in Nat /\ EpisodeLimit \in Nat /\ EvidenceLimit \in Nat
    /\ LeastPool \in Nat /\ RecentEvidence \in Nat

First(s, n) == SubSeq(s, 1, IF Len(s) < n THEN Len(s) ELSE n)

\* The first n of a set in an order that is total on it: the k-th is the one that
\* k - 1 others come before.
Best(S, n, Before(_, _)) ==
    [ k \in 1..(IF Cardinality(S) < n THEN Cardinality(S) ELSE n) |->
        CHOOSE i \in S : Cardinality({j \in S : Before(j, i)}) = k - 1 ]

-----------------------------------------------------------------------------
(* observation_store.py, episode_store.py: latest_for_session              *)

RecentObservations ==
    First(Reverse([n \in DOMAIN turns |-> turns[n].observation]), ObservationLimit)
RecentEpisodes ==
    First(Reverse(FlattenSeq([n \in DOMAIN turns |-> turns[n].closed])), EpisodeLimit)

-----------------------------------------------------------------------------
(* evidence_store.py: search                                               *)

Asked(wanted, value) == wanted \in {Anything, value}
Matches(q, i) ==
    /\ Asked(q.scope, Feeds[evidence[i].rule].dimension)
    /\ Asked(q.subscope, evidence[i].rule)
    /\ Asked(q.kind, evidence[i].source.kind)

\* created_at, support_score and memory_id, all descending.
Precedes(i, j) ==
    \/ evidence[i].day > evidence[j].day
    \/ evidence[i].day = evidence[j].day /\ evidence[i].score > evidence[j].score
    \/ evidence[i].day = evidence[j].day /\ evidence[i].score = evidence[j].score /\ i > j

\* A slip: what was asked for is looked for among the newest records only.
SearchAmongNewest(q, limit) ==
    SelectSeq(Best(Ids, limit, Precedes), LAMBDA i : Matches(q, i))

Search(q, limit) == Best({i \in Ids : Matches(q, i)}, limit, Precedes)

-----------------------------------------------------------------------------
(* retrieval.py: search_evidence                                           *)

\* The exactness of scope and subscope as the sort key has it.  Records are never
\* pinned: nothing writes that key of their metadata.
Exactness(q, i) ==
    << q.scope = Feeds[evidence[i].rule].dimension, q.subscope = evidence[i].rule >>
Rank(q, i, j) ==
    LET a == Exactness(q, i)  b == Exactness(q, j) IN
    \/ a[1] /\ ~b[1]
    \/ a[1] = b[1] /\ a[2] /\ ~b[2]
    \/ a = b /\ Precedes(i, j)

Pool == IF 4 * EvidenceLimit > LeastPool THEN 4 * EvidenceLimit ELSE LeastPool

SearchEvidence(q) ==
    Best(ToSet(Search(q, Pool)), EvidenceLimit, LAMBDA i, j : Rank(q, i, j))

-----------------------------------------------------------------------------
(* assembler.py: build                                                     *)

InStatus(status) == {l \in Lanes : beliefs[l].status = status}

\* The view.  The code keeps the beliefs of the context None apart from all others;
\* here those of every context are kept apart.
Build(q) ==
    LET found == SearchEvidence(q)
        byContext(status) == [c \in Contexts |-> {l \in InStatus(status) : l.context = c}]
    IN  [ observations |-> RecentObservations, episodes |-> RecentEpisodes,
          current |-> First(RecentObservations, 1),
          evidence |-> found,
          active |-> byContext("active"), tentative |-> byContext("tentative"),
          stale |-> Cardinality(InStatus("stale")),
          invalidated |-> Cardinality(InStatus("invalidated")),
          has_recent_evidence |->
              found # <<>> /\ day - evidence[Head(found)].day <= RecentEvidence ]

-----------------------------------------------------------------------------
\* retrieval.py, "Deterministic ordering": whatever is asked between two calls, and
\* however much else has been filed since, the view shows as much of it as there
\* is up to the limit, leaves out nothing newer or stronger than what it shows, and
\* calls its evidence recent just when any that was asked for is.
ViewShowsTheLatest ==
    job = Idle /\ EvidenceLimit > 0 =>
        \A q \in Questions :
            LET v == Build(q)
                asked == {i \in Ids : Matches(q, i)}
                shown == ToSet(v.evidence)
            IN  /\ shown \subseteq asked
                /\ Len(v.evidence) = EvidenceLimit \/ shown = asked
                /\ \A i \in shown, j \in asked \ shown : Precedes(i, j)
                /\ v.has_recent_evidence <=>
                       \E i \in asked : evidence[i].day >= day - RecentEvidence
=============================================================================
