--------------------------- MODULE GroupDelivery ---------------------------
(***************************************************************************)
(* What a topic of the bus promises its consumer groups.  A message is owed *)
(* to every group that has a member when it is published, and to one member *)
(* of each; what is published before any group has come is kept for all of  *)
(* them, up to the newest BacklogLimit.  A group is handed a message at     *)
(* most once, and misses one only when the member it was owed to leaves.    *)
(*                                                                         *)
(* This is less than the words of bus.py ("Different groups each receive a  *)
(* copy of every message ... retained until the first subscriber for a      *)
(* group appears"): a group that comes after another one misses what was    *)
(* published since, and so does one whose last member has left.  There is   *)
(* no action that would owe such a group anything, and none that forgets a  *)
(* group that is there.                                                    *)
(***************************************************************************)
EXTENDS Naturals

CONSTANTS Groups, Subscribers, GroupOf, BacklogLimit

VARIABLES
    published,  \* messages published so far: the n-th is the number n
    kept,       \* those kept for groups that have not come yet
    came,       \* the groups that have had a member
    live,       \* the subscribers that are members now
    pending,    \* what each of them is still to be handed
    handed      \* what each group was handed

gvars == <<published, kept, came, live, pending, handed>>

Init ==
    /\ published = 0 /\ kept = {} /\ came = {} /\ live = {}
    /\ pending = [s \in Subscribers |-> {}]
    /\ handed = [g \in Groups |-> {}]

\* Before any group has come the message is kept, and only what the limit forces
\* out is dropped.
Keep ==
    /\ came = {}
    /\ published' = published + 1
    /\ kept' = {m \in 1..published' : m + BacklogLimit > published'}
    /\ UNCHANGED <<came, live, pending, handed>>

\* One member of every group that has one, and nobody else.
OneOfEachGroup(R) ==
    /\ R \subseteq live
    /\ \A s \in live : \E r \in R : GroupOf[r] = GroupOf[s]
    /\ \A r, t \in R : GroupOf[r] = GroupOf[t] => r = t

FanOut ==
    /\ came # {}
    /\ published' = published + 1
    /\ \E R \in SUBSET live :
         /\ OneOfEachGroup(R)
         /\ pending' = [s \in Subscribers |-> IF s \in R THEN pending[s] \cup {published'}
                                              ELSE pending[s]]
    /\ UNCHANGED <<kept, came, live, handed>>

\* The first member a group ever has is owed what was kept.
Come(s) ==
    /\ s \notin live
    /\ live' = live \cup {s} /\ came' = came \cup {GroupOf[s]}
    /\ pending' = [pending EXCEPT ![s] = IF GroupOf[s] \in came THEN {} ELSE kept]
    /\ UNCHANGED <<published, kept, handed>>

Hand(s, m) ==
    /\ s \in live /\ m \in pending[s] /\ m \notin handed[GroupOf[s]]
    /\ pending' = [pending EXCEPT ![s] = @ \ {m}]
    /\ handed' = [handed EXCEPT ![GroupOf[s]] = @ \cup {m}]
    /\ UNCHANGED <<published, kept, came, live>>

\* A member that leaves takes with it what it was owed, and nothing else.
Leave(s) ==
    /\ s \in live
    /\ live' = live \ {s}
    /\ pending' = [pending EXCEPT ![s] = {}]
    /\ UNCHANGED <<published, kept, came, handed>>

Next ==
    \/ Keep \/ FanOut
    \/ \E s \in Subscribers : Come(s) \/ Leave(s) \/ \E m \in pending[s] : Hand(s, m)

Spec == Init /\ [][Next]_gvars
=============================================================================
