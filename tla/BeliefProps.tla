----------------------------- MODULE BeliefProps -----------------------------
(***************************************************************************)
(* The properties of BeliefService.                                        *)
(***************************************************************************)
EXTENDS BeliefService

\* Guardrails A and B: a record is counted once, on one side of one belief, the
\* one of its own dimension and context, whatever is repeated or cut short.
CountedOnceInItsLane ==
    \A l \in Lanes :
        LET ledger == beliefs[l].supports \o beliefs[l].contras IN
        /\ IsInjective(ledger)
        /\ \A i \in ToSet(ledger) : LaneOf(i) = l

\* What the ledgers of a lane should hold, from its history alone: the first
\* record that points anywhere gives the direction, everything up to it
\* supports, and everything after it that points elsewhere or nowhere opposes.
History(l) == {i \in Ids : LaneOf(i) = l}
Pointing(l) == {i \in History(l) : Contribution(i) # 0}
Opposing(l) ==
    {i \in History(l) :
        /\ Polarity(l.dimension) = "signed"
        /\ \E first \in Pointing(l) :
             /\ \A j \in Pointing(l) : first <= j
             /\ first < i
             /\ Contribution(first) * Contribution(i) <= 0}
Increasing(s) == \A i, j \in DOMAIN s : i < j => s[i] < s[j]

\* Between two calls the ledgers hold all the evidence there is and tell its
\* history, whether it was processed turn by turn or by recompute_for_user, which
\* is how what a crash lost is made good.
LedgersTellHistory ==
    job = Idle /\ ~lost =>
        \A l \in Lanes :
            /\ ToSet(beliefs[l].contras) = Opposing(l)
            /\ ToSet(beliefs[l].supports) = History(l) \ Opposing(l)
            /\ Increasing(beliefs[l].supports) /\ Increasing(beliefs[l].contras)

\* belief.py, "Status lifecycle": a belief that is presented as active has been
\* supported often and strongly enough, and is not outweighed by what contradicts
\* it, although it may stay active on thresholds it no longer meets.
ActiveIsSupported ==
    \A l \in {k \in Lanes : beliefs[k].status = "active"} :
        LET b == beliefs[l] IN
        /\ Cardinality(Strong(ToSet(b.supports))) >= ActiveMinSupport
        /\ Cardinality(Live(b, b.contras)) <= Cardinality(Live(b, b.supports))

\* belief_events.py: whoever follows the events knows which beliefs are active.
ActiveIsAnnounced ==
    job = Idle /\ ~lost =>
        \A l \in Lanes : beliefs[l].status = "active" <=> told[l] = "active"
=============================================================================
