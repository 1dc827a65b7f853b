---------------------------- MODULE InMemoryBus ----------------------------
(***************************************************************************)
(* bus.py: InMemoryBus, one topic of it.  A subscriber of a group has a     *)
(* queue of its own; a message is put into one queue of every group, in     *)
(* turn.  publish and the first step of subscribe never suspend: each is    *)
(* one action.                                                             *)
(***************************************************************************)
EXTENDS Naturals, SequencesExt

CONSTANTS
    Groups,
    Subscribers,
    GroupOf,       \* the group each of them subscribes for
    BacklogLimit,  \* backlog_limit
    MaxMessages    \* bound on the messages of one behaviour

ASSUME BusAssumption ==
    /\ GroupOf \in [Subscribers -> Groups]
    /\ BacklogLimit \in Nat \ {0}
    /\ MaxMessages \in Nat

VARIABLES
    published,  \* messages published so far; the n-th is the number n
    known,      \* the keys of _groups[topic], and of _seen_groups
    members,    \* _groups[topic]: the queues of each group, in order
    turn,       \* _rr
    backlog,    \* _backlog[topic]
    queue,      \* what each subscriber's queue holds
    got,        \* what each subscriber was handed
    share       \* history: messages put into each queue since its group changed

vars == <<published, known, members, turn, backlog, queue, got, share>>

Init ==
    /\ published = 0
    /\ known = {}
    /\ members = [g \in Groups |-> <<>>]
    /\ turn = [g \in Groups |-> 0]
    /\ backlog = <<>>
    /\ queue = [s \in Subscribers |-> <<>>]
    /\ got = [s \in Subscribers |-> <<>>]
    /\ share = [s \in Subscribers |-> 0]

Members(g) == Range(members[g])
Live == UNION {Members(g) : g \in Groups}

\* The queue of group g whose turn it is.
Chosen(g) == members[g][(turn[g] % Len(members[g])) + 1]
Served == {g \in known : members[g] # <<>>}

\* The last BacklogLimit elements of q.
Newest(q) == SubSeq(q, IF Len(q) > BacklogLimit THEN Len(q) - BacklogLimit + 1 ELSE 1, Len(q))

\* publish on a topic nobody has ever subscribed to.
PublishToBacklog ==
    /\ published < MaxMessages /\ known = {}
    /\ published' = published + 1
    /\ backlog' = Newest(Append(backlog, published'))
    /\ UNCHANGED <<known, members, turn, queue, got, share>>

\* A slip: the turn is not passed on.
PublishToFirst ==
    LET receivers == {Chosen(g) : g \in Served} IN
    /\ published < MaxMessages /\ known # {}
    /\ published' = published + 1
    /\ queue' = [s \in Subscribers |->
                    IF s \in receivers THEN Append(queue[s], published') ELSE queue[s]]
    /\ share' = [s \in Subscribers |-> IF s \in receivers THEN share[s] + 1 ELSE share[s]]
    /\ UNCHANGED <<known, members, turn, backlog, got>>
\* A slip: one group without a queue stops the message for all.
PublishIfAllServed ==
    LET receivers == {Chosen(g) : g \in {h \in Served : known = Served}} IN
    /\ published < MaxMessages /\ known # {}
    /\ published' = published + 1
    /\ queue' = [s \in Subscribers |->
                    IF s \in receivers THEN Append(queue[s], published') ELSE queue[s]]
    /\ share' = [s \in Subscribers |-> IF s \in receivers THEN share[s] + 1 ELSE share[s]]
    /\ turn' = [g \in Groups |-> IF g \in Served THEN turn[g] + 1 ELSE turn[g]]
    /\ UNCHANGED <<known, members, backlog, got>>
\* publish otherwise: a group without a queue is skipped.
PublishToGroups ==
    LET receivers == {Chosen(g) : g \in Served} IN
    /\ published < MaxMessages /\ known # {}
    /\ published' = published + 1
    /\ queue' = [s \in Subscribers |->
                    IF s \in receivers THEN Append(queue[s], published') ELSE queue[s]]
    /\ share' = [s \in Subscribers |-> IF s \in receivers THEN share[s] + 1 ELSE share[s]]
    /\ turn' = [g \in Groups |-> IF g \in Served THEN turn[g] + 1 ELSE turn[g]]
    /\ UNCHANGED <<known, members, backlog, got>>

\* The group's history starts afresh when its members change.
NewShares(g) == [s \in Subscribers |-> IF GroupOf[s] = g THEN 0 ELSE share[s]]

\* subscribe, up to its first queue.get: the first subscriber of a group finds
\* the backlog in its queue.
Subscribe(s) ==
    LET g == GroupOf[s] IN
    /\ s \notin Live /\ got[s] = <<>> /\ queue[s] = <<>>
    /\ members' = [members EXCEPT ![g] = Append(@, s)]
    /\ known' = known \cup {g}
    /\ queue' = [queue EXCEPT ![s] = IF g \in known THEN <<>> ELSE backlog]
    /\ share' = NewShares(g)
    /\ UNCHANGED <<published, turn, backlog, got>>

\* A slip: a message is taken and not handed out.
GetAndDrop(s) ==
    /\ s \in Live /\ queue[s] # <<>>
    /\ queue' = [queue EXCEPT ![s] = Tail(@)]
    /\ UNCHANGED <<published, known, members, turn, backlog, got, share>>
\* The subscriber is handed the next message of its queue.
Get(s) ==
    /\ s \in Live /\ queue[s] # <<>>
    /\ got' = [got EXCEPT ![s] = Append(@, Head(queue[s]))]
    /\ queue' = [queue EXCEPT ![s] = Tail(@)]
    /\ UNCHANGED <<published, known, members, turn, backlog, share>>

\* The subscription is cancelled or closed: its queue leaves the group, with
\* what it still holds.
Unsubscribe(s) ==
    LET g == GroupOf[s] IN
    /\ s \in Live
    /\ \E i \in DOMAIN members[g] :
         /\ members[g][i] = s
         /\ members' = [members EXCEPT ![g] = RemoveAt(@, i)]
    /\ queue' = [queue EXCEPT ![s] = <<>>]
    /\ share' = NewShares(g)
    /\ UNCHANGED <<published, known, turn, backlog, got>>

Next ==
    \/ PublishToBacklog \/ PublishToGroups
    \/ \E s \in Subscribers : Subscribe(s) \/ Get(s) \/ Unsubscribe(s)

\* A subscriber keeps asking for messages.
Spec == Init /\ [][Next]_vars /\ \A s \in Subscribers : WF_vars(Get(s))

-----------------------------------------------------------------------------
(* Properties                                                              *)

\* bus.py: "Subscribers sharing a group split the work in round-robin order".
\* While nobody joins or leaves, no member is more than one message ahead.
WorkIsShared ==
    \A g \in Groups : \A s, t \in Members(g) : share[s] <= share[t] + 1

\* The topic keeps the promise of GroupDelivery: a message to one member of every
\* group that is there, the newest ones to every group if none had come, each
\* handed out once in a group, and none dropped but with a member that leaves.
Of(g) == {s \in Subscribers : GroupOf[s] = g}
Pending == [s \in Subscribers |-> Range(queue[s])]
Handed(g) == UNION {Range(got[s]) : s \in Of(g)}
Delivery == INSTANCE GroupDelivery
    WITH kept <- Range(backlog), came <- known, live <- Live,
         pending <- Pending, handed <- [g \in Groups |-> Handed(g)]
DeliversToGroups == Delivery!Spec

\* What lies in a queue is handed out, or its subscriber leaves.
QueuedIsHandedOut ==
    \A s \in Subscribers : \A m \in 1..MaxMessages :
        (m \in Range(queue[s])) ~> (m \in Range(got[s]) \/ s \notin Live)
=============================================================================
