------------------------- MODULE InMemoryBus_proofs -------------------------
(***************************************************************************)
(* Proofs about one topic of InMemoryBus, for any groups and subscribers,   *)
(* any backlog limit and any number of messages.                           *)
(***************************************************************************)
EXTENDS InMemoryBus, SequenceTheorems, TLAPS

-----------------------------------------------------------------------------
(* Types, and whose queues a group holds                                   *)

BusTypes ==
    /\ published \in Nat
    /\ known \subseteq Groups
    /\ members \in [Groups -> Seq(Subscribers)]
    /\ turn \in [Groups -> Nat]
    /\ backlog \in Seq(Nat)
    /\ queue \in [Subscribers -> Seq(Nat)]
    /\ got \in [Subscribers -> Seq(Nat)]
    /\ share \in [Subscribers -> Nat]

\* A queue is in the list of its subscriber's group, once, while the
\* subscription lasts, and a group with a queue is known.
Membership ==
    /\ \A g \in Groups : \A i, j \in 1..Len(members[g]) :
         /\ GroupOf[members[g][i]] = g
         /\ members[g][i] = members[g][j] => i = j
    /\ \A g \in Groups \ known : members[g] = <<>>
    /\ \A s \in Subscribers : queue[s] # <<>> => s \in Live

\* Whose turn it is in a group, counted from 0.
Next0(g) == turn[g] % Len(members[g])

LEMMA AppendBus ==
    ASSUME NEW S, NEW q \in Seq(S), NEW x \in S
    PROVE  /\ Append(q, x) \in Seq(S) /\ Append(q, x) # <<>>
           /\ Len(q) \in Nat /\ Len(Append(q, x)) = Len(q) + 1
           /\ Append(q, x)[Len(q) + 1] = x
           /\ \A i \in 1..Len(q) : Append(q, x)[i] = q[i]
           /\ Range(Append(q, x)) = Range(q) \cup {x}
<1>1. /\ Append(q, x) \in Seq(S) /\ Append(q, x) # <<>>
      /\ Len(q) \in Nat /\ Len(Append(q, x)) = Len(q) + 1
      /\ Append(q, x)[Len(q) + 1] = x
      /\ \A i \in 1..Len(q) : Append(q, x)[i] = q[i]
  OBVIOUS
<1>2. DOMAIN Append(q, x) = 1..(Len(q) + 1) /\ DOMAIN q = 1..Len(q)
  OBVIOUS
<1>3. ASSUME NEW i \in 1..(Len(q) + 1) PROVE Append(q, x)[i] \in Range(q) \cup {x}
  BY <1>1, <1>2 DEF Range
<1>4. ASSUME NEW i \in 1..Len(q) PROVE q[i] \in Range(Append(q, x))
  BY <1>1, <1>2 DEF Range
<1>5. x \in Range(Append(q, x))
  BY <1>1, <1>2 DEF Range
<1>6. Range(Append(q, x)) \subseteq Range(q) \cup {x}
  BY <1>2, <1>3 DEF Range
<1>7. Range(q) \subseteq Range(Append(q, x))
  BY <1>2, <1>4 DEF Range
<1> QED
  BY <1>1, <1>5, <1>6, <1>7

\* What is left of a list without its i-th element.
LEMMA RemoveAtFacts ==
    ASSUME NEW S, NEW q \in Seq(S), NEW i \in 1..Len(q)
    PROVE  /\ RemoveAt(q, i) \in Seq(S) /\ Len(RemoveAt(q, i)) = Len(q) - 1
           /\ \A j \in 1..(Len(q) - 1) :
                RemoveAt(q, i)[j] = q[IF j < i THEN j ELSE j + 1]
<1> DEFINE a == SubSeq(q, 1, i - 1)
           b == SubSeq(q, i + 1, Len(q))
<1>1. /\ Len(q) \in Nat /\ i \in Nat \ {0} /\ i <= Len(q)
  OBVIOUS
<1>2. /\ a \in Seq(S) /\ Len(a) = i - 1 /\ \A j \in 1..(i - 1) : a[j] = q[j]
  BY <1>1
<1>3. /\ b \in Seq(S) /\ Len(b) = Len(q) - i
      /\ \A j \in 1..(Len(q) - i) : b[j] = q[j + i]
  BY <1>1
<1> HIDE DEF a, b
<1>4. RemoveAt(q, i) = a \o b
  BY DEF RemoveAt, a, b
<1>5. /\ a \o b \in Seq(S) /\ Len(a \o b) = Len(q) - 1
  <2>1. /\ a \o b \in Seq(S)
        /\ Len(a \o b) = Len(a) + Len(b)
    BY <1>2, <1>3, ConcatProperties
  <2>2. (i - 1) + (Len(q) - i) = Len(q) - 1
    BY <1>1
  <2>3. a \o b \in Seq(S) /\ Len(a \o b) = (i - 1) + (Len(q) - i)
    BY <1>2, <1>3, <2>1
  <2> QED
    BY <2>2, <2>3
<1>6. ASSUME NEW j \in 1..(Len(q) - 1)
      PROVE  (a \o b)[j] = q[IF j < i THEN j ELSE j + 1]
  <2>1. CASE j < i
    BY <1>1, <1>2, <1>3, <2>1
  <2>2. CASE ~(j < i)
    <3>1. (a \o b)[j] = b[j - (i - 1)] /\ j - (i - 1) \in 1..(Len(q) - i)
      BY <1>1, <1>2, <1>3, <2>2
    <3>2. b[j - (i - 1)] = q[(j - (i - 1)) + i] /\ (j - (i - 1)) + i = j + 1
      BY <1>1, <1>3, <3>1
    <3> QED
      BY <2>2, <3>1, <3>2
  <2> QED
    BY <2>1, <2>2
<1> QED
  BY <1>4, <1>5, <1>6

LEMMA NextTurn ==
    ASSUME NEW n \in Nat, NEW k \in Nat \ {0}
    PROVE  /\ n % k \in 0..(k - 1)
           /\ (n % k) + 1 = k => (n + 1) % k = 0
           /\ (n % k) + 1 # k => (n + 1) % k = (n % k) + 1
<1> DEFINE q == n \div k
           r == n % k
<1>1. q \in Nat /\ r \in 0..(k - 1)
  OBVIOUS
<1>2. n \in Int /\ k \in Int /\ k > 0
  OBVIOUS
<1>3. r = n - k * q
  BY <1>2, Z3
<1> HIDE DEF q, r
<1>4. k * q \in Nat /\ k * (q + 1) = k * q + k
  BY <1>1
<1>5. n + 1 = k * q + (r + 1)
  BY <1>1, <1>3, <1>4
<1>6. r + 1 = k => (n + 1) % k = 0
  <2> SUFFICES ASSUME r + 1 = k PROVE (n + 1) % k = 0
    OBVIOUS
  <2>1. n + 1 = k * (q + 1) + 0 /\ q + 1 \in Nat /\ 0 \in 0..(k - 1) /\ n + 1 \in Nat
    BY <1>1, <1>4, <1>5
  <2>2. ASSUME NEW p \in Nat, NEW m \in Nat, m = k * p + 0 PROVE m % k = 0
    BY <2>2, <2>1
  <2> QED
    BY <2>1, <2>2, Zenon
<1>7. r + 1 # k => (n + 1) % k = r + 1
  <2> SUFFICES ASSUME r + 1 # k PROVE (n + 1) % k = r + 1
    OBVIOUS
  <2>1. r + 1 \in 0..(k - 1) /\ n + 1 \in Nat
    BY <1>1
  <2>2. ASSUME NEW p \in Nat, NEW x \in 0..(k - 1), NEW m \in Nat, m = k * p + x
        PROVE  m % k = x
    BY <2>2
  <2> QED
    BY <1>1, <1>5, <2>1, <2>2, Zenon
<1> QED
  BY <1>1, <1>6, <1>7, Zenon DEF r

-----------------------------------------------------------------------------
(* Types                                                                   *)

LEMMA NewestFacts ==
    ASSUME NEW S, NEW q \in Seq(S), q # <<>>
    PROVE  /\ Newest(q) \in Seq(S)
           /\ \E k \in Nat : /\ k < Len(q) /\ Len(Newest(q)) = Len(q) - k
                             /\ \A i \in 1..(Len(q) - k) : Newest(q)[i] = q[i + k]
<1>1. Len(q) \in Nat \ {0} /\ BacklogLimit \in Nat \ {0}
  BY BusAssumption
<1>2. PICK k \in Nat : /\ k = IF Len(q) > BacklogLimit THEN Len(q) - BacklogLimit ELSE 0
                       /\ k < Len(q)
  <2>1. CASE Len(q) > BacklogLimit
    <3>1. Len(q) - BacklogLimit \in Nat /\ Len(q) - BacklogLimit < Len(q)
      BY <1>1, <2>1
    <3> QED
      BY <2>1, <3>1
  <2>2. CASE ~(Len(q) > BacklogLimit)
    BY <1>1, <2>2
  <2> QED
    BY <2>1, <2>2
<1>3. Newest(q) = SubSeq(q, k + 1, Len(q))
  BY <1>1, <1>2 DEF Newest
<1>4. /\ SubSeq(q, k + 1, Len(q)) \in Seq(S)
      /\ Len(SubSeq(q, k + 1, Len(q))) = Len(q) - k
      /\ \A i \in 1..(Len(q) - k) : SubSeq(q, k + 1, Len(q))[i] = q[i + k]
  <2>1. PICK m \in Nat : m = k + 1
    BY <1>2
  <2>2. m \in 1..(Len(q) + 1) /\ Len(q) \in (m - 1)..Len(q)
    BY <1>1, <1>2, <2>1
  <2>3. /\ SubSeq(q, m, Len(q)) \in Seq(S)
        /\ Len(SubSeq(q, m, Len(q))) = Len(q) - m + 1
        /\ \A i \in 1..(Len(q) - m + 1) : SubSeq(q, m, Len(q))[i] = q[m + i - 1]
    BY <2>2, SubSeqProperties
  <2>4. Len(q) - m + 1 = Len(q) - k
    BY <1>1, <1>2, <2>1
  <2>5. ASSUME NEW i \in 1..(Len(q) - k) PROVE SubSeq(q, m, Len(q))[i] = q[i + k]
    <3>1. m + i - 1 = i + k
      BY <1>2, <2>1
    <3> QED
      BY <2>3, <2>4, <3>1
  <2> QED
    BY <2>1, <2>3, <2>4, <2>5
<1> QED
  BY <1>2, <1>3, <1>4

\* What a step of a subscriber does to its own queue and to its group's list.
LEMMA TypesStep == ASSUME BusTypes, [Next]_vars PROVE BusTypes'
<1>0. /\ published \in Nat /\ known \subseteq Groups
      /\ members \in [Groups -> Seq(Subscribers)] /\ turn \in [Groups -> Nat]
      /\ backlog \in Seq(Nat) /\ queue \in [Subscribers -> Seq(Nat)]
      /\ got \in [Subscribers -> Seq(Nat)] /\ share \in [Subscribers -> Nat]
      /\ GroupOf \in [Subscribers -> Groups]
      /\ \A n \in Nat : n + 1 \in Nat
  BY BusAssumption DEF BusTypes
<1>1. CASE PublishToBacklog
  <2>1. published' \in Nat /\ Append(backlog, published') \in Seq(Nat)
        /\ Append(backlog, published') # <<>>
    <3>1. published' \in Nat
      BY <1>0, <1>1 DEF PublishToBacklog
    <3>2. backlog \in Seq(Nat)
      BY <1>0
    <3>3. ASSUME NEW n \in Nat
          PROVE  Append(backlog, n) \in Seq(Nat) /\ Append(backlog, n) # <<>>
      BY <3>2, AppendBus
    <3> QED
      BY <3>1, <3>3
  <2>2. backlog' \in Seq(Nat)
    BY <1>1, <2>1, NewestFacts DEF PublishToBacklog
  <2> QED
    BY <1>0, <1>1, <2>1, <2>2 DEF PublishToBacklog, BusTypes
<1>2. CASE PublishToGroups
  <2>1. published' \in Nat
    BY <1>0, <1>2 DEF PublishToGroups
  <2>2. \A s \in Subscribers : Append(queue[s], published') \in Seq(Nat)
    BY <1>0, <2>1, AppendBus
  <2>3. queue' \in [Subscribers -> Seq(Nat)]
    BY <1>0, <1>2, <2>2 DEF PublishToGroups
  <2>4. share' \in [Subscribers -> Nat]
    BY <1>0, <1>2 DEF PublishToGroups
  <2>5. turn' \in [Groups -> Nat]
    BY <1>0, <1>2 DEF PublishToGroups
  <2> QED
    BY <1>0, <1>2, <2>1, <2>3, <2>4, <2>5 DEF PublishToGroups, BusTypes
<1>3. ASSUME NEW s \in Subscribers PROVE NewShares(GroupOf[s]) \in [Subscribers -> Nat]
  BY <1>0 DEF NewShares
<1>4. ASSUME NEW s \in Subscribers, Subscribe(s) PROVE BusTypes'
  <2>1. GroupOf[s] \in Groups /\ Append(members[GroupOf[s]], s) \in Seq(Subscribers)
    BY <1>0, AppendBus
  <2>2. members' \in [Groups -> Seq(Subscribers)] /\ known' \subseteq Groups
    BY <1>0, <1>4, <2>1 DEF Subscribe
  <2>3. queue' \in [Subscribers -> Seq(Nat)]
    BY <1>0, <1>4 DEF Subscribe
  <2> QED
    BY <1>0, <1>3, <1>4, <2>2, <2>3 DEF Subscribe, BusTypes
<1>5. ASSUME NEW s \in Subscribers, Get(s) PROVE BusTypes'
  <2>1. /\ queue[s] \in Seq(Nat) /\ queue[s] # <<>> /\ got[s] \in Seq(Nat)
    BY <1>0, <1>5 DEF Get
  <2>2. Head(queue[s]) \in Nat /\ Tail(queue[s]) \in Seq(Nat)
    BY <2>1
  <2>3. Append(got[s], Head(queue[s])) \in Seq(Nat)
    BY <2>1, <2>2
  <2> QED
    BY <1>0, <1>5, <2>2, <2>3 DEF Get, BusTypes
<1>6. ASSUME NEW s \in Subscribers, Unsubscribe(s) PROVE BusTypes'
  <2>1. PICK i \in DOMAIN members[GroupOf[s]] :
          members' = [members EXCEPT ![GroupOf[s]] = RemoveAt(@, i)]
    BY <1>6 DEF Unsubscribe
  <2>2. RemoveAt(members[GroupOf[s]], i) \in Seq(Subscribers)
    BY <1>0, <2>1, RemoveAtFacts
  <2>3. members' \in [Groups -> Seq(Subscribers)]
    BY <1>0, <2>1, <2>2
  <2>4. queue' \in [Subscribers -> Seq(Nat)]
    BY <1>0, <1>6 DEF Unsubscribe
  <2>5. share' \in [Subscribers -> Nat]
    BY <1>3, <1>6 DEF Unsubscribe
  <2> QED
    BY <1>0, <1>6, <2>3, <2>4, <2>5 DEF Unsubscribe, BusTypes
<1>7. CASE UNCHANGED vars
  BY <1>7 DEF vars, BusTypes
<1> QED
  BY <1>1, <1>2, <1>4, <1>5, <1>6, <1>7 DEF Next

-----------------------------------------------------------------------------
(* Membership                                                              *)

\* The list of one group.
LEMMA ListFacts ==
    ASSUME Membership, NEW g \in Groups
    PROVE  /\ \A i \in 1..Len(members[g]) : GroupOf[members[g][i]] = g
           /\ \A i, j \in 1..Len(members[g]) : members[g][i] = members[g][j] => i = j
<1>1. ASSUME NEW i \in 1..Len(members[g]) PROVE GroupOf[members[g][i]] = g
  BY DEF Membership
<1>2. ASSUME NEW i \in 1..Len(members[g]), NEW j \in 1..Len(members[g]),
             members[g][i] = members[g][j]
      PROVE  i = j
  BY <1>2 DEF Membership
<1> QED
  BY <1>1, <1>2

LEMMA LiveMeans ==
    ASSUME BusTypes
    PROVE  \A s : s \in Live <=> \E g \in Groups : \E i \in 1..Len(members[g]) : members[g][i] = s
<1>1. \A g \in Groups : DOMAIN members[g] = 1..Len(members[g])
  BY DEF BusTypes
<1> QED
  BY <1>1 DEF Live, Members, Range

\* A live subscriber has its place in its own group's list.
LEMMA OwnGroup ==
    ASSUME BusTypes, Membership, NEW s \in Live
    PROVE  /\ s \in Subscribers /\ GroupOf[s] \in Groups /\ GroupOf[s] \in known
           /\ \E i \in 1..Len(members[GroupOf[s]]) : members[GroupOf[s]][i] = s
<1>0. PICK g \in Groups : \E i \in 1..Len(members[g]) : members[g][i] = s
  BY LiveMeans
<1>1. PICK i \in 1..Len(members[g]) : members[g][i] = s
  BY <1>0
<1>2. members[g] \in Seq(Subscribers)
  BY <1>1 DEF BusTypes
<1>3. s \in Subscribers /\ GroupOf[s] = g /\ members[g] # <<>>
  BY <1>1, <1>2 DEF Membership
<1> QED
  BY <1>1, <1>3 DEF Membership

\* Whom a message is put before: of each served group, the one whose turn it is.
LEMMA Receivers ==
    ASSUME BusTypes, Membership, NEW g \in Groups, NEW i \in 1..Len(members[g])
    PROVE  /\ Next0(g) \in 0..(Len(members[g]) - 1) /\ Len(members[g]) \in Nat \ {0}
           /\ g \in Served
           /\ (members[g][i] \in {Chosen(h) : h \in Served}) <=> (i = Next0(g) + 1)
<1>1. /\ members[g] \in Seq(Subscribers) /\ turn[g] \in Nat
      /\ Len(members[g]) \in Nat \ {0} /\ members[g] # <<>>
  BY DEF BusTypes
<1>2. Next0(g) \in 0..(Len(members[g]) - 1)
  BY <1>1, NextTurn DEF Next0
<1>3. g \in Served
  BY <1>1 DEF Served, Membership
<1>4. Chosen(g) = members[g][Next0(g) + 1] /\ Next0(g) + 1 \in 1..Len(members[g])
  BY <1>1, <1>2 DEF Chosen, Next0
<1>5. ASSUME NEW h \in Served, Chosen(h) = members[g][i] PROVE h = g
  <2>1. h \in Groups /\ members[h] # <<>> /\ members[h] \in Seq(Subscribers) /\ turn[h] \in Nat
    BY DEF Served, BusTypes
  <2>2. Len(members[h]) \in Nat \ {0}
    BY <2>1
  <2>3. Next0(h) \in 0..(Len(members[h]) - 1)
    BY <2>1, <2>2, NextTurn DEF Next0
  <2>4. Next0(h) + 1 \in 1..Len(members[h]) /\ Chosen(h) = members[h][Next0(h) + 1]
    BY <2>2, <2>3 DEF Chosen, Next0
  <2>5. GroupOf[Chosen(h)] = h /\ GroupOf[members[g][i]] = g
    BY <2>1, <2>4 DEF Membership
  <2> QED
    BY <1>5, <2>5
<1>6. members[g][i] \in {Chosen(h) : h \in Served} => i = Next0(g) + 1
  BY <1>4, <1>5 DEF Membership
<1>7. i = Next0(g) + 1 => members[g][i] \in {Chosen(h) : h \in Served}
  BY <1>3, <1>4
<1> QED
  BY <1>1, <1>2, <1>3, <1>6, <1>7

LEMMA MembershipStep ==
    ASSUME BusTypes, Membership, [Next]_vars
    PROVE  Membership'
<1>0. /\ members \in [Groups -> Seq(Subscribers)] /\ queue \in [Subscribers -> Seq(Nat)]
      /\ GroupOf \in [Subscribers -> Groups] /\ known \subseteq Groups
  BY BusAssumption DEF BusTypes
<1>1. \A t : t \in Live' <=> \E g \in Groups : \E i \in 1..Len(members'[g]) : members'[g][i] = t
  <2>1. BusTypes'
    BY TypesStep
  <2>2. \A g \in Groups : DOMAIN members'[g] = 1..Len(members'[g])
    BY <2>1 DEF BusTypes
  <2> QED
    BY <2>2 DEF Live, Members, Range
<1>2. CASE UNCHANGED <<members, known, queue>>
  <2>1. Live' = Live
    BY <1>2 DEF Live, Members
  <2> QED
    BY <1>2, <2>1 DEF Membership
<1>3. CASE PublishToGroups
  <2>1. UNCHANGED <<members, known>> /\ Live' = Live
    BY <1>3 DEF PublishToGroups, Live, Members
  <2>2. ASSUME NEW s \in Subscribers, queue'[s] # <<>> PROVE s \in Live
    <3>1. CASE s \in {Chosen(g) : g \in Served}
      <4>1. PICK g \in Served : s = Chosen(g)
        BY <3>1
      <4>2. /\ g \in Groups /\ members[g] \in Seq(Subscribers) /\ members[g] # <<>>
            /\ turn[g] \in Nat
        BY <1>0 DEF Served, BusTypes
      <4>3. Len(members[g]) \in Nat \ {0}
        BY <4>2
      <4>4. (turn[g] % Len(members[g])) \in 0..(Len(members[g]) - 1)
        BY <4>2, <4>3, NextTurn
      <4>5. (turn[g] % Len(members[g])) + 1 \in 1..Len(members[g])
        BY <4>3, <4>4
      <4> QED
        BY <4>1, <4>2, <4>5, LiveMeans DEF Chosen
    <3>2. CASE s \notin {Chosen(g) : g \in Served}
      <4>1. queue'[s] = queue[s]
        BY <1>3, <3>2 DEF PublishToGroups
      <4> QED
        BY <2>2, <4>1 DEF Membership
    <3> QED
      BY <3>1, <3>2
  <2> QED
    BY <2>1, <2>2 DEF Membership
<1>4. ASSUME NEW s \in Subscribers, Subscribe(s) PROVE Membership'
  <2> DEFINE g == GroupOf[s]
  <2>1. /\ g \in Groups /\ members[g] \in Seq(Subscribers)
        /\ members'[g] = Append(members[g], s) /\ known' = known \cup {g}
        /\ \A h \in Groups \ {g} : members'[h] = members[h]
        /\ s \notin Live
    BY <1>0, <1>4 DEF Subscribe
  <2>2. /\ Len(members[g]) \in Nat /\ Len(members'[g]) = Len(members[g]) + 1
        /\ members'[g][Len(members[g]) + 1] = s
        /\ \A i \in 1..Len(members[g]) : members'[g][i] = members[g][i]
    BY <2>1, AppendBus
  <2> HIDE DEF g
  <2>3. \A i \in 1..Len(members[g]) : members[g][i] # s
    BY <2>1, LiveMeans
  <2>4. ASSUME NEW h \in Groups, NEW i \in 1..Len(members'[h]), NEW j \in 1..Len(members'[h])
        PROVE  /\ GroupOf[members'[h][i]] = h
               /\ members'[h][i] = members'[h][j] => i = j
    <3>1. CASE h = g
      <4>1. i \in 1..Len(members[g]) \/ i = Len(members[g]) + 1
        BY <2>2, <3>1
      <4>2. j \in 1..Len(members[g]) \/ j = Len(members[g]) + 1
        BY <2>2, <3>1
      <4>3. GroupOf[s] = g
        BY DEF g
      <4>4. /\ \A m \in 1..Len(members[g]) : GroupOf[members[g][m]] = g
            /\ \A m, n \in 1..Len(members[g]) : members[g][m] = members[g][n] => m = n
        BY <2>1, ListFacts
      <4>5. CASE i \in 1..Len(members[g]) /\ j \in 1..Len(members[g])
        <5>1. members'[h][i] = members[g][i] /\ members'[h][j] = members[g][j]
          BY <2>2, <3>1, <4>5
        <5> QED
          BY <3>1, <4>4, <4>5, <5>1
      <4>6. CASE i \in 1..Len(members[g]) /\ j = Len(members[g]) + 1
        <5>1. members'[h][i] = members[g][i] /\ members'[h][j] = s
          BY <2>2, <3>1, <4>6
        <5> QED
          BY <2>3, <3>1, <4>4, <4>6, <5>1
      <4>7. CASE i = Len(members[g]) + 1 /\ j \in 1..Len(members[g])
        <5>1. members'[h][j] = members[g][j] /\ members'[h][i] = s
          BY <2>2, <3>1, <4>7
        <5> QED
          BY <2>3, <3>1, <4>3, <4>7, <5>1
      <4>8. CASE i = Len(members[g]) + 1 /\ j = Len(members[g]) + 1
        BY <2>2, <3>1, <4>3, <4>8
      <4> QED
        BY <4>1, <4>2, <4>5, <4>6, <4>7, <4>8
    <3>2. CASE h # g
      BY <2>1, <3>2 DEF Membership
    <3> QED
      BY <3>1, <3>2
  <2>5. \A h \in Groups \ known' : members'[h] = <<>>
    BY <2>1 DEF Membership
  <2>6. ASSUME NEW t \in Subscribers, queue'[t] # <<>> PROVE t \in Live'
    <3>1. CASE t = s
      <4>1. /\ g \in Groups /\ Len(members[g]) + 1 \in 1..Len(members'[g])
            /\ members'[g][Len(members[g]) + 1] = t
        BY <2>1, <2>2, <3>1
      <4>2. \E h \in Groups : \E i \in 1..Len(members'[h]) : members'[h][i] = t
        BY <4>1
      <4> QED
        BY <1>1, <4>2
    <3>2. CASE t # s
      <4>1. queue[t] # <<>>
        BY <1>0, <1>4, <2>6, <3>2 DEF Subscribe
      <4>0. PICK h \in Groups : \E i \in 1..Len(members[h]) : members[h][i] = t
        BY <4>1, LiveMeans DEF Membership
      <4>2. PICK i \in 1..Len(members[h]) : members[h][i] = t
        BY <4>0
      <4>3. i \in 1..Len(members'[h]) /\ members'[h][i] = t
        BY <2>1, <2>2, <4>2
      <4> QED
        BY <1>1, <4>2, <4>3
    <3> QED
      BY <3>1, <3>2
  <2> QED
    BY <2>4, <2>5, <2>6 DEF Membership
<1>5. ASSUME NEW s \in Subscribers, Get(s) PROVE Membership'
  <2>1. UNCHANGED <<members, known>> /\ Live' = Live /\ s \in Live
    BY <1>5 DEF Get, Live, Members
  <2>2. \A t \in Subscribers \ {s} : queue'[t] = queue[t]
    BY <1>0, <1>5 DEF Get
  <2> QED
    BY <2>1, <2>2 DEF Membership
<1>6. ASSUME NEW s \in Subscribers, Unsubscribe(s) PROVE Membership'
  <2> DEFINE g == GroupOf[s]
  <2>1. PICK k \in DOMAIN members[g] :
          members[g][k] = s /\ members' = [members EXCEPT ![g] = RemoveAt(@, k)]
    BY <1>6 DEF Unsubscribe
  <2>2. /\ g \in Groups /\ members[g] \in Seq(Subscribers) /\ k \in 1..Len(members[g])
        /\ members'[g] = RemoveAt(members[g], k) /\ known' = known
        /\ \A h \in Groups \ {g} : members'[h] = members[h]
        /\ Len(members[g]) \in Nat /\ members[g] # <<>>
    BY <1>0, <1>6, <2>1 DEF Unsubscribe
  <2>3. /\ Len(members'[g]) = Len(members[g]) - 1
        /\ \A j \in 1..(Len(members[g]) - 1) :
             members'[g][j] = members[g][IF j < k THEN j ELSE j + 1]
    <3> HIDE DEF g
    <3>1. PICK q \in Seq(Subscribers) : q = members[g]
      BY <2>2
    <3>2. /\ k \in 1..Len(q) /\ members'[g] = RemoveAt(q, k)
      BY <2>2, <3>1
    <3>3. /\ Len(RemoveAt(q, k)) = Len(q) - 1
          /\ \A j \in 1..(Len(q) - 1) : RemoveAt(q, k)[j] = q[IF j < k THEN j ELSE j + 1]
      BY <3>2, RemoveAtFacts
    <3> QED
      BY <3>1, <3>2, <3>3
  <2> HIDE DEF g
  <2>4. ASSUME NEW h \in Groups, NEW i \in 1..Len(members'[h]), NEW j \in 1..Len(members'[h])
        PROVE  /\ GroupOf[members'[h][i]] = h
               /\ members'[h][i] = members'[h][j] => i = j
    <3>1. CASE h = g
      <4>1. PICK a \in 1..Len(members[g]) :
              a = (IF i < k THEN i ELSE i + 1) /\ members'[g][i] = members[g][a]
        <5>1. i \in 1..(Len(members[g]) - 1) /\ Len(members[g]) \in Nat /\ k \in Nat
          BY <2>2, <2>3, <3>1
        <5>2. (IF i < k THEN i ELSE i + 1) \in 1..Len(members[g])
          BY <5>1
        <5> QED
          BY <2>3, <5>1, <5>2
      <4>2. PICK b \in 1..Len(members[g]) :
              b = (IF j < k THEN j ELSE j + 1) /\ members'[g][j] = members[g][b]
        <5>1. j \in 1..(Len(members[g]) - 1) /\ Len(members[g]) \in Nat /\ k \in Nat
          BY <2>2, <2>3, <3>1
        <5>2. (IF j < k THEN j ELSE j + 1) \in 1..Len(members[g])
          BY <5>1
        <5> QED
          BY <2>3, <5>1, <5>2
      <4>3. i \in Int /\ j \in Int /\ k \in Int /\ (a = b => i = j)
        BY <2>2, <4>1, <4>2
      <4>4. /\ GroupOf[members[g][a]] = g
            /\ members[g][a] = members[g][b] => a = b
        BY <2>2, ListFacts
      <4> QED
        BY <3>1, <4>1, <4>2, <4>3, <4>4
    <3>2. CASE h # g
      BY <2>2, <3>2 DEF Membership
    <3> QED
      BY <3>1, <3>2
  <2>5. \A h \in Groups \ known' : members'[h] = <<>>
    BY <2>2 DEF Membership
  <2>6. ASSUME NEW t \in Subscribers, queue'[t] # <<>> PROVE t \in Live'
    <3>1. t # s /\ queue[t] # <<>>
      BY <1>0, <1>6, <2>6 DEF Unsubscribe
    <3>0. PICK h \in Groups : \E i \in 1..Len(members[h]) : members[h][i] = t
      BY <3>1, LiveMeans DEF Membership
    <3>2. PICK i \in 1..Len(members[h]) : members[h][i] = t
      BY <3>0
    <3>3. CASE h = g
      <4>1. i # k
        BY <2>1, <3>1, <3>2, <3>3
      <4>2. PICK j \in 1..(Len(members[g]) - 1) : (IF j < k THEN j ELSE j + 1) = i
        <5>1. CASE i < k
          BY <2>2, <5>1
        <5>2. CASE ~(i < k)
          <6>1. i - 1 \in 1..(Len(members[g]) - 1) /\ ~(i - 1 < k) /\ (i - 1) + 1 = i
            BY <2>2, <3>2, <3>3, <4>1, <5>2
          <6> QED
            BY <6>1
        <5> QED
          BY <5>1, <5>2
      <4>3. j \in 1..Len(members'[g]) /\ members'[g][j] = t
        BY <2>3, <3>2, <3>3, <4>2
      <4> QED
        BY <1>1, <2>2, <4>3
    <3>4. CASE h # g
      BY <1>1, <2>2, <3>2, <3>4
    <3> QED
      BY <3>3, <3>4
  <2> QED
    BY <2>4, <2>5, <2>6 DEF Membership
<1> QED
  BY <1>2, <1>3, <1>4, <1>5, <1>6 DEF Next, vars, PublishToBacklog

-----------------------------------------------------------------------------
(* Round robin                                                             *)

\* How far the members of a group have got: within one message of each other,
\* those whose turn has passed in front, and each side in the order of the list.
Rotation(g) ==
    /\ \A i, j \in 1..Len(members[g]) :
         i <= j /\ (j <= Next0(g) \/ Next0(g) < i) =>
           /\ share[members[g][i]] <= share[members[g][j]]
           /\ share[members[g][j]] <= share[members[g][i]] + 1
    /\ \A i, j \in 1..Len(members[g]) :
         i <= Next0(g) /\ Next0(g) < j =>
           /\ share[members[g][j]] <= share[members[g][i]]
           /\ share[members[g][i]] <= share[members[g][j]] + 1

\* A group whose history starts afresh.
LEMMA RotationAfresh ==
    ASSUME BusTypes', NEW g \in Groups,
           \A i \in 1..Len(members'[g]) : share'[members'[g][i]] = 0
    PROVE  Rotation(g)'
<1>1. ASSUME NEW i \in 1..Len(members'[g]), NEW j \in 1..Len(members'[g])
      PROVE  /\ share'[members'[g][i]] <= share'[members'[g][j]]
             /\ share'[members'[g][j]] <= share'[members'[g][i]] + 1
  BY <1>1
<1> QED
  BY <1>1 DEF Rotation

\* The message goes to the member whose turn it is, and the turn to the next.
LEMMA RotationServed ==
    ASSUME BusTypes, Membership, PublishToGroups, NEW g \in Groups, Rotation(g)
    PROVE  Rotation(g)'
<1> DEFINE n == Len(members[g])
           r == Next0(g)
           x(i) == share[members[g][i]]
           y(i) == share'[members'[g][i]]
<1>1. members' = members /\ members[g] \in Seq(Subscribers) /\ n \in Nat
  BY DEF PublishToGroups, BusTypes
<1>2. CASE members[g] = <<>>
  <2>1. n = 0
    BY <1>2
  <2> QED
    BY <1>1, <2>1 DEF Rotation
<1>3. CASE members[g] # <<>>
  <2>1. n \in Nat \ {0} /\ 1 \in 1..n
    BY <1>1, <1>3
  <2>2. r \in 0..(n - 1) /\ g \in Served
    BY <2>1, Receivers
  <2>3. turn'[g] = turn[g] + 1 /\ turn[g] \in Nat
    BY <2>2 DEF PublishToGroups, BusTypes
  <2>4. Next0(g)' = (turn[g] + 1) % n
    BY <1>1, <2>3 DEF Next0
  <2>5. /\ r + 1 = n => Next0(g)' = 0
        /\ r + 1 # n => Next0(g)' = r + 1
    BY <2>1, <2>3, <2>4, NextTurn DEF Next0
  <2>6. ASSUME NEW i \in 1..n
        PROVE  /\ x(i) \in Nat
               /\ i = r + 1 => y(i) = x(i) + 1
               /\ i # r + 1 => y(i) = x(i)
    <3>1. members[g][i] \in Subscribers
      BY <1>1
    <3>2. (members[g][i] \in {Chosen(h) : h \in Served}) <=> (i = r + 1)
      BY Receivers
    <3> QED
      BY <1>1, <3>1, <3>2 DEF PublishToGroups, BusTypes
  <2>7. /\ \A i, j \in 1..n : i <= j /\ (j <= r \/ r < i) => x(i) <= x(j) /\ x(j) <= x(i) + 1
        /\ \A i, j \in 1..n : i <= r /\ r < j => x(j) <= x(i) /\ x(i) <= x(j) + 1
    BY DEF Rotation
  <2>8. UNCHANGED n
    BY <1>1
  <2> DEFINE q == Next0(g)'
  <2>9. SUFFICES /\ \A i, j \in 1..n :
                      i <= j /\ (j <= q \/ q < i) => y(i) <= y(j) /\ y(j) <= y(i) + 1
                 /\ \A i, j \in 1..n : i <= q /\ q < j => y(j) <= y(i) /\ y(i) <= y(j) + 1
    BY <1>1 DEF Rotation
  <2>10. /\ q = IF r + 1 = n THEN 0 ELSE r + 1
         /\ n \in Nat \ {0} /\ r \in 0..(n - 1) /\ r + 1 \in 1..n
    BY <2>1, <2>2, <2>5
  <2> HIDE DEF x, y, q, r, n
  <2>11. ASSUME NEW i \in 1..n, NEW j \in 1..n, i <= j, j <= q \/ q < i
         PROVE  y(i) <= y(j) /\ y(j) <= y(i) + 1
    <3>1. CASE i = r + 1 /\ j = r + 1
      BY <2>6, <3>1
    <3>2. CASE i = r + 1 /\ j # r + 1
      BY <2>6, <2>7, <2>10, <2>11, <3>2
    <3>3. CASE i # r + 1 /\ j = r + 1
      BY <2>6, <2>7, <2>10, <2>11, <3>3
    <3>4. CASE i # r + 1 /\ j # r + 1
      BY <2>6, <2>7, <2>10, <2>11, <3>4
    <3> QED
      BY <3>1, <3>2, <3>3, <3>4
  <2>12. ASSUME NEW i \in 1..n, NEW j \in 1..n, i <= q, q < j
         PROVE  y(j) <= y(i) /\ y(i) <= y(j) + 1
    <3>1. CASE i = r + 1
      BY <2>6, <2>7, <2>10, <2>12, <3>1
    <3>2. CASE i # r + 1
      BY <2>6, <2>7, <2>10, <2>12, <3>2
    <3> QED
      BY <3>1, <3>2
  <2> QED
    BY <2>11, <2>12
<1> QED
  BY <1>2, <1>3

LEMMA RotationStep ==
    ASSUME BusTypes, Membership, [Next]_vars, NEW g \in Groups, Rotation(g)
    PROVE  Rotation(g)'
<1>0. /\ BusTypes' /\ Membership'
  BY TypesStep, MembershipStep
<1>1. CASE PublishToGroups
  BY <1>1, RotationServed
<1>2. CASE UNCHANGED <<members, turn, share>>
  BY <1>2 DEF Rotation, Next0
<1>3. ASSUME NEW s \in Subscribers, share' = NewShares(GroupOf[s]), turn' = turn,
             \A h \in Groups \ {GroupOf[s]} : members'[h] = members[h]
      PROVE  Rotation(g)'
  <2>1. \A i \in 1..Len(members'[g]) : /\ members'[g][i] \in Subscribers
                                       /\ GroupOf[members'[g][i]] = g
    BY <1>0 DEF BusTypes, Membership
  <2>2. CASE g = GroupOf[s]
    <3>1. \A i \in 1..Len(members'[g]) : share'[members'[g][i]] = 0
      BY <1>3, <2>1, <2>2 DEF NewShares
    <3> QED
      BY <1>0, <3>1, RotationAfresh
  <2>3. CASE g # GroupOf[s]
    <3>1. members'[g] = members[g] /\ turn'[g] = turn[g]
      BY <1>3, <2>3
    <3>2. \A i \in 1..Len(members[g]) : share'[members'[g][i]] = share[members[g][i]]
      BY <1>3, <2>1, <2>3, <3>1 DEF NewShares
    <3> QED
      BY <3>1, <3>2 DEF Rotation, Next0
  <2> QED
    BY <2>2, <2>3
<1>4. ASSUME NEW s \in Subscribers, Subscribe(s) PROVE Rotation(g)'
  BY <1>3, <1>4 DEF Subscribe, BusTypes
<1>5. ASSUME NEW s \in Subscribers, Unsubscribe(s) PROVE Rotation(g)'
  BY <1>3, <1>5 DEF Unsubscribe, BusTypes
<1> QED
  BY <1>1, <1>2, <1>4, <1>5 DEF Next, vars, PublishToBacklog, Get

RoundRobin ==
    /\ BusTypes
    /\ Membership
    /\ \A g \in Groups : Rotation(g)

LEMMA RoundRobinAlways == Spec => []RoundRobin
<1>1. Init => RoundRobin
  <2> SUFFICES ASSUME Init PROVE RoundRobin
    OBVIOUS
  <2>1. BusTypes
    BY DEF Init, BusTypes
  <2>2. \A g \in Groups : Len(members[g]) = 0
    BY DEF Init
  <2>3. Membership
    BY <2>2 DEF Init, Membership
  <2> QED
    BY <2>1, <2>2, <2>3 DEF RoundRobin, Rotation
<1>2. RoundRobin /\ [Next]_vars => RoundRobin'
  BY TypesStep, MembershipStep, RotationStep DEF RoundRobin
<1> QED
  BY <1>1, <1>2, PTL DEF Spec

\* Subscribers that share a group share its work: while nobody joins or leaves,
\* no member is more than one message ahead, for any number of members,
\* messages and other groups.
THEOREM WorkStaysShared == Spec => []WorkIsShared
<1>1. RoundRobin => WorkIsShared
  <2> SUFFICES ASSUME RoundRobin, NEW g \in Groups, NEW s \in Members(g), NEW t \in Members(g)
               PROVE  share[s] <= share[t] + 1
    BY DEF WorkIsShared
  <2>1. members[g] \in Seq(Subscribers) /\ BusTypes /\ Membership
    BY DEF RoundRobin, BusTypes
  <2>2. PICK i \in 1..Len(members[g]) : members[g][i] = s
    BY <2>1 DEF Members, Range
  <2>3. PICK j \in 1..Len(members[g]) : members[g][j] = t
    BY <2>1 DEF Members, Range
  <2>4. s \in Subscribers /\ t \in Subscribers
    BY <2>1, <2>2, <2>3
  <2>5. share[s] \in Nat /\ share[t] \in Nat
    BY <2>4 DEF RoundRobin, BusTypes
  <2>6. Next0(g) \in Nat
    BY <2>1, <2>2, Receivers
  <2>7. Rotation(g)
    BY DEF RoundRobin
  <2>8. i \in Nat /\ j \in Nat
    OBVIOUS
  <2>9. CASE i <= j
    BY <2>2, <2>3, <2>5, <2>6, <2>7, <2>8, <2>9 DEF Rotation
  <2>10. CASE j < i
    BY <2>2, <2>3, <2>5, <2>6, <2>7, <2>8, <2>10 DEF Rotation
  <2> QED
    BY <2>8, <2>9, <2>10
<1> QED
  BY <1>1, RoundRobinAlways, PTL

-----------------------------------------------------------------------------
(* Delivery                                                                *)

LEMMA RangeFacts ==
    ASSUME NEW S, NEW q \in Seq(S)
    PROVE  /\ \A x : x \in Range(q) <=> \E i \in 1..Len(q) : q[i] = x
           /\ q # <<>> => /\ Head(q) = q[1] /\ Head(q) \in S /\ Tail(q) \in Seq(S)
                          /\ Len(Tail(q)) = Len(q) - 1 /\ 1 \in 1..Len(q)
                          /\ \A i \in 1..(Len(q) - 1) : Tail(q)[i] = q[i + 1]
                          /\ Range(q) = {Head(q)} \cup Range(Tail(q))
<1>1. DOMAIN q = 1..Len(q) /\ Len(q) \in Nat
  OBVIOUS
<1>2. \A x : x \in Range(q) <=> \E i \in 1..Len(q) : q[i] = x
  BY <1>1 DEF Range
<1>3. ASSUME q # <<>>
      PROVE  /\ Head(q) = q[1] /\ Head(q) \in S /\ Tail(q) \in Seq(S)
             /\ Len(Tail(q)) = Len(q) - 1 /\ 1 \in 1..Len(q)
             /\ \A i \in 1..(Len(q) - 1) : Tail(q)[i] = q[i + 1]
  BY <1>3
<1>4. ASSUME q # <<>> PROVE Range(q) = {Head(q)} \cup Range(Tail(q))
  <2>1. DOMAIN Tail(q) = 1..(Len(q) - 1)
    BY <1>3, <1>4
  <2>2. ASSUME NEW i \in 1..Len(q) PROVE q[i] \in {Head(q)} \cup Range(Tail(q))
    <3>1. CASE i = 1
      BY <1>3, <1>4, <3>1
    <3>2. CASE i # 1
      <4>1. i - 1 \in 1..(Len(q) - 1) /\ (i - 1) + 1 = i
        BY <1>1, <3>2
      <4>2. Tail(q)[i - 1] = q[i]
        BY <1>3, <1>4, <4>1
      <4> QED
        BY <2>1, <4>1, <4>2 DEF Range
    <3> QED
      BY <3>1, <3>2
  <2>3. ASSUME NEW i \in 1..(Len(q) - 1) PROVE Tail(q)[i] \in Range(q)
    <3>1. i + 1 \in 1..Len(q)
      BY <1>1
    <3> QED
      BY <1>1, <1>3, <1>4, <3>1 DEF Range
  <2>4. Head(q) \in Range(q)
    BY <1>2, <1>3, <1>4
  <2>5. Range(Tail(q)) \subseteq Range(q)
    BY <2>1, <2>3 DEF Range
  <2>6. Range(q) \subseteq {Head(q)} \cup Range(Tail(q))
    BY <1>1, <2>2 DEF Range
  <2> QED
    BY <2>4, <2>5, <2>6
<1> QED
  BY <1>2, <1>3, <1>4

LEMMA EmptyRange == Range(<<>>) = {}
  BY DEF Range

\* Messages are numbered, and each is in one queue of a group and in the backlog
\* at most once.
Single(q) == \A i, j \in 1..Len(q) : q[i] = q[j] => i = j
Once ==
    /\ \A s \in Subscribers : /\ \A m \in Range(queue[s]) : m \in 1..published
                              /\ Single(queue[s])
    /\ \A s, t \in Subscribers :
         GroupOf[s] = GroupOf[t] /\ s # t => Range(queue[s]) \cap Range(queue[t]) = {}
    /\ \A m \in Range(backlog) : m \in 1..published
    /\ Single(backlog)

LEMMA SingleAppend ==
    ASSUME NEW q \in Seq(Nat), NEW x \in Nat, Single(q), x \notin Range(q)
    PROVE  Single(Append(q, x))
<1>1. /\ Len(q) \in Nat /\ Len(Append(q, x)) = Len(q) + 1
      /\ Append(q, x)[Len(q) + 1] = x
      /\ \A i \in 1..Len(q) : Append(q, x)[i] = q[i]
  BY AppendBus
<1>2. \A i \in 1..Len(q) : q[i] # x
  BY RangeFacts
<1>3. ASSUME NEW i \in 1..(Len(q) + 1), NEW j \in 1..(Len(q) + 1),
             Append(q, x)[i] = Append(q, x)[j]
      PROVE  i = j
  <2>1. i \in 1..Len(q) \/ i = Len(q) + 1
    BY <1>1
  <2>2. j \in 1..Len(q) \/ j = Len(q) + 1
    BY <1>1
  <2>3. CASE i \in 1..Len(q) /\ j \in 1..Len(q)
    BY <1>1, <1>3, <2>3 DEF Single
  <2>4. CASE i \in 1..Len(q) /\ j = Len(q) + 1
    BY <1>1, <1>2, <1>3, <2>4
  <2>5. CASE i = Len(q) + 1 /\ j \in 1..Len(q)
    BY <1>1, <1>2, <1>3, <2>5
  <2> QED
    BY <2>1, <2>2, <2>3, <2>4, <2>5
<1> QED
  BY <1>1, <1>3 DEF Single

LEMMA SingleTail ==
    ASSUME NEW q \in Seq(Nat), q # <<>>, Single(q)
    PROVE  Single(Tail(q)) /\ Head(q) \notin Range(Tail(q))
<1>1. /\ Head(q) = q[1] /\ Tail(q) \in Seq(Nat) /\ Len(Tail(q)) = Len(q) - 1
      /\ 1 \in 1..Len(q) /\ \A i \in 1..(Len(q) - 1) : Tail(q)[i] = q[i + 1]
  BY RangeFacts
<1>2. \A i \in 1..(Len(q) - 1) : i + 1 \in 1..Len(q) /\ i + 1 # 1
  OBVIOUS
<1>3. ASSUME NEW i \in 1..(Len(q) - 1), NEW j \in 1..(Len(q) - 1), Tail(q)[i] = Tail(q)[j]
      PROVE  i = j
  <2>1. i + 1 \in 1..Len(q) /\ j + 1 \in 1..Len(q) /\ q[i + 1] = q[j + 1]
    BY <1>1, <1>2, <1>3
  <2>2. i + 1 = j + 1
    BY <2>1 DEF Single
  <2> QED
    BY <2>2
<1>4. ASSUME NEW i \in 1..(Len(q) - 1), Tail(q)[i] = Head(q) PROVE FALSE
  BY <1>1, <1>2, <1>4 DEF Single
<1>5. \A x : x \in Range(Tail(q)) <=> \E i \in 1..Len(Tail(q)) : Tail(q)[i] = x
  BY <1>1, RangeFacts
<1> QED
  BY <1>1, <1>3, <1>4, <1>5 DEF Single

\* Dropping the oldest of the backlog keeps the message that was just added.
LEMMA NewestOfBacklog ==
    ASSUME NEW q \in Seq(Nat), NEW x \in Nat, Single(q), x \notin Range(q)
    PROVE  /\ Single(Newest(Append(q, x)))
           /\ x \in Range(Newest(Append(q, x)))
           /\ Range(Newest(Append(q, x))) \subseteq Range(q) \cup {x}
<1> DEFINE p == Append(q, x)
<1>1. /\ p \in Seq(Nat) /\ p # <<>> /\ Len(p) = Len(q) + 1 /\ Len(q) \in Nat
      /\ p[Len(q) + 1] = x /\ Range(p) = Range(q) \cup {x} /\ Single(p)
  BY AppendBus, SingleAppend
<1> HIDE DEF p
<1>2. PICK k \in Nat : /\ k < Len(p) /\ Len(Newest(p)) = Len(p) - k
                       /\ \A i \in 1..(Len(p) - k) : Newest(p)[i] = p[i + k]
  BY <1>1, NewestFacts
<1>3. Newest(p) \in Seq(Nat)
  BY <1>1, NewestFacts
<1>4. \A y : y \in Range(Newest(p)) <=> \E i \in 1..(Len(p) - k) : Newest(p)[i] = y
  BY <1>2, <1>3, RangeFacts
<1>5. \A y : y \in Range(p) <=> \E i \in 1..Len(p) : p[i] = y
  BY <1>1, RangeFacts
<1>6. \A i \in 1..(Len(p) - k) : i + k \in 1..Len(p)
  BY <1>1, <1>2
<1>7. Range(Newest(p)) \subseteq Range(p)
  BY <1>2, <1>4, <1>5, <1>6
<1>8. x \in Range(Newest(p))
  <2>1. Len(p) - k \in 1..(Len(p) - k) /\ (Len(p) - k) + k = Len(q) + 1
    BY <1>1, <1>2
  <2>2. Newest(p)[Len(p) - k] = x
    BY <1>1, <1>2, <2>1
  <2> QED
    BY <1>4, <2>1, <2>2
<1>9. ASSUME NEW i \in 1..(Len(p) - k), NEW j \in 1..(Len(p) - k), Newest(p)[i] = Newest(p)[j]
      PROVE  i = j
  <2>1. i + k \in 1..Len(p) /\ j + k \in 1..Len(p) /\ p[i + k] = p[j + k]
    BY <1>2, <1>6, <1>9
  <2>2. i + k = j + k
    BY <1>1, <2>1 DEF Single
  <2> QED
    BY <1>1, <1>2, <2>2
<1>10. Single(Newest(p))
  BY <1>2, <1>9 DEF Single
<1> QED
  BY <1>1, <1>7, <1>8, <1>10 DEF p

\* Who is put a message before: one subscriber of each group that is served.
LEMMA ChosenFacts ==
    ASSUME BusTypes, Membership
    PROVE  /\ Served \subseteq Groups /\ Served \subseteq known
           /\ \A g \in Served : Chosen(g) \in Subscribers /\ GroupOf[Chosen(g)] = g
<1>1. ASSUME NEW g \in Served
      PROVE  g \in Groups /\ Chosen(g) \in Subscribers /\ GroupOf[Chosen(g)] = g
  <2>1. /\ g \in Groups /\ members[g] \in Seq(Subscribers) /\ members[g] # <<>>
        /\ turn[g] \in Nat
    BY DEF Served, BusTypes
  <2>2. Len(members[g]) \in Nat \ {0}
    BY <2>1
  <2>3. (turn[g] % Len(members[g])) + 1 \in 1..Len(members[g])
    <3>1. (turn[g] % Len(members[g])) \in 0..(Len(members[g]) - 1)
      BY <2>1, <2>2, NextTurn
    <3> QED
      BY <2>2, <3>1
  <2>4. Chosen(g) \in Subscribers
    BY <2>1, <2>3 DEF Chosen
  <2> QED
    BY <2>1, <2>3, <2>4, ListFacts DEF Chosen
<1> QED
  BY <1>1 DEF Served

\* A message reaches the queues of the chosen subscribers and no other.
LEMMA PublishedTo ==
    ASSUME BusTypes, Membership, Once, PublishToGroups, NEW s \in Subscribers
    PROVE  /\ published' = published + 1 /\ published' \in Nat /\ published' \notin Range(queue[s])
           /\ s \in {Chosen(g) : g \in Served} =>
                /\ GroupOf[s] \in Served /\ Chosen(GroupOf[s]) = s
                /\ Range(queue'[s]) = Range(queue[s]) \cup {published'}
                /\ Single(queue'[s])
           /\ s \notin {Chosen(g) : g \in Served} => queue'[s] = queue[s]
<1>1. queue[s] \in Seq(Nat) /\ published \in Nat
  BY DEF BusTypes
<1>2. published' = published + 1 /\ published' \in Nat /\ published' \notin Range(queue[s])
  <2>1. published' = published + 1
    BY DEF PublishToGroups
  <2>2. published + 1 \in Nat /\ published + 1 \notin 1..published
    BY <1>1
  <2> QED
    BY <2>1, <2>2 DEF Once
<1>3. ASSUME s \in {Chosen(g) : g \in Served}
      PROVE  /\ GroupOf[s] \in Served /\ Chosen(GroupOf[s]) = s
             /\ queue'[s] = Append(queue[s], published')
  BY <1>3, ChosenFacts DEF PublishToGroups
<1>4. ASSUME NEW n \in Nat, n \notin Range(queue[s])
      PROVE  /\ Range(Append(queue[s], n)) = Range(queue[s]) \cup {n}
             /\ Single(Append(queue[s], n))
  BY <1>1, <1>4, AppendBus, SingleAppend DEF Once
<1>5. s \notin {Chosen(g) : g \in Served} => queue'[s] = queue[s]
  BY DEF PublishToGroups
<1> QED
  BY <1>2, <1>3, <1>4, <1>5

\* The queues of a group that nobody has joined are empty, and so is that of
\* who is not subscribed.
LEMMA QueuesElsewhere ==
    ASSUME BusTypes, Membership, NEW s \in Subscribers
    PROVE  /\ s \notin Live => queue[s] = <<>>
           /\ GroupOf[s] \notin known => queue[s] = <<>>
  BY OwnGroup DEF Membership

\* What the steps of a subscriber do to its queue.
LEMMA SubscriberSteps ==
    ASSUME BusTypes, Membership, Once, NEW s \in Subscribers
    PROVE  /\ Subscribe(s) => /\ queue'[s] = IF GroupOf[s] \in known THEN <<>> ELSE backlog
                              /\ queue[s] = <<>>
           /\ Get(s) => /\ queue[s] # <<>> /\ queue'[s] = Tail(queue[s])
                        /\ Range(queue[s]) = {Head(queue[s])} \cup Range(queue'[s])
                        /\ Head(queue[s]) \notin Range(queue'[s])
                        /\ Single(queue'[s])
           /\ Unsubscribe(s) => queue'[s] = <<>>
           /\ Subscribe(s) \/ Get(s) \/ Unsubscribe(s) =>
                /\ \A t \in Subscribers \ {s} : queue'[t] = queue[t]
                /\ UNCHANGED <<published, backlog>>
<1>1. queue \in [Subscribers -> Seq(Nat)] /\ queue[s] \in Seq(Nat)
  BY DEF BusTypes
<1>2. ASSUME Get(s)
      PROVE  /\ queue[s] # <<>> /\ queue'[s] = Tail(queue[s])
             /\ Range(queue[s]) = {Head(queue[s])} \cup Range(Tail(queue[s]))
             /\ Head(queue[s]) \notin Range(Tail(queue[s]))
             /\ Single(Tail(queue[s]))
  <2>1. queue[s] # <<>> /\ queue'[s] = Tail(queue[s])
    BY <1>1, <1>2 DEF Get
  <2>2. Range(queue[s]) = {Head(queue[s])} \cup Range(Tail(queue[s]))
    BY <1>1, <2>1, RangeFacts
  <2>3. Single(queue[s])
    BY DEF Once
  <2> QED
    BY <1>1, <2>1, <2>2, <2>3, SingleTail
<1>3. Subscribe(s) => /\ queue'[s] = IF GroupOf[s] \in known THEN <<>> ELSE backlog
                      /\ queue[s] = <<>>
  BY <1>1 DEF Subscribe
<1>4. Unsubscribe(s) => queue'[s] = <<>>
  BY <1>1 DEF Unsubscribe
<1>5. Subscribe(s) \/ Get(s) \/ Unsubscribe(s) =>
        /\ \A t \in Subscribers \ {s} : queue'[t] = queue[t]
        /\ UNCHANGED <<published, backlog>>
  BY <1>1 DEF Subscribe, Get, Unsubscribe
<1> QED
  BY <1>2, <1>3, <1>4, <1>5

LEMMA OnceStep ==
    ASSUME BusTypes, Membership, Once, [Next]_vars
    PROVE  Once'
<1>0. /\ backlog \in Seq(Nat) /\ published \in Nat
  BY DEF BusTypes
<1>1. CASE PublishToBacklog
  <2>1. UNCHANGED queue /\ published' = published + 1 /\ published' \in Nat
        /\ backlog' = Newest(Append(backlog, published'))
    BY <1>0, <1>1 DEF PublishToBacklog
  <2>2. PICK n \in Nat : n = published'
    BY <2>1
  <2>3. n \notin Range(backlog) /\ \A m \in 1..published : m \in 1..n
    <3>1. n = published + 1 /\ n \notin 1..published
      BY <1>0, <2>1, <2>2
    <3> QED
      BY <1>0, <3>1 DEF Once
  <2>4. Single(backlog') /\ Range(backlog') \subseteq Range(backlog) \cup {n}
    BY <1>0, <2>1, <2>2, <2>3, NewestOfBacklog DEF Once
  <2>5. n \in 1..n
    BY <1>0, <2>1, <2>2
  <2>6. Single(backlog)'
    BY <2>4 DEF Single
  <2>7. \A m \in Range(backlog') : m \in 1..published'
    BY <2>2, <2>3, <2>4, <2>5 DEF Once
  <2>8. \A s \in Subscribers : /\ \A m \in Range(queue'[s]) : m \in 1..published'
                               /\ Single(queue'[s])
    BY <2>1, <2>2, <2>3 DEF Once
  <2> QED
    BY <2>1, <2>6, <2>7, <2>8 DEF Once, Single
<1>2. CASE PublishToGroups
  <2>1. /\ \A m \in 1..published : m \in 1..published'
        /\ published' \in 1..published'
    BY <1>0, <1>2 DEF PublishToGroups
  <2>2. ASSUME NEW s \in Subscribers
        PROVE  /\ \A m \in Range(queue'[s]) : m \in 1..published'
               /\ Single(queue'[s])
    BY <1>2, <2>1, PublishedTo DEF Once
  <2>3. ASSUME NEW s \in Subscribers, NEW t \in Subscribers, GroupOf[s] = GroupOf[t], s # t
        PROVE  Range(queue'[s]) \cap Range(queue'[t]) = {}
    <3>1. /\ Range(queue'[s]) \subseteq Range(queue[s]) \cup {published'}
          /\ Range(queue'[t]) \subseteq Range(queue[t]) \cup {published'}
          /\ published' \notin Range(queue[s]) /\ published' \notin Range(queue[t])
          /\ queue'[s] = queue[s] \/ queue'[t] = queue[t]
      BY <1>2, <2>3, PublishedTo
    <3>2. Range(queue[s]) \cap Range(queue[t]) = {}
      BY <2>3 DEF Once
    <3> QED
      BY <3>1, <3>2
  <2>4. backlog' = backlog
    BY <1>2 DEF PublishToGroups
  <2>5. \A m \in Range(backlog') : m \in 1..published'
    BY <2>1, <2>4 DEF Once
  <2> QED
    BY <2>2, <2>3, <2>4, <2>5 DEF Once, Single
<1>3. ASSUME NEW s \in Subscribers, Subscribe(s) \/ Get(s) \/ Unsubscribe(s) PROVE Once'
  <2>1. /\ \A t \in Subscribers \ {s} : queue'[t] = queue[t]
        /\ UNCHANGED <<published, backlog>>
    BY <1>3, SubscriberSteps
  <2>2. \/ queue'[s] = <<>>
        \/ queue'[s] = backlog /\ GroupOf[s] \notin known
        \/ Single(queue'[s]) /\ Range(queue'[s]) \subseteq Range(queue[s])
    BY <1>3, SubscriberSteps
  <2>3. /\ \A m \in Range(queue'[s]) : m \in 1..published
        /\ Single(queue'[s])
    BY <2>2, EmptyRange DEF Once, Single
  <2>4. ASSUME NEW t \in Subscribers, GroupOf[t] = GroupOf[s], t # s
        PROVE  Range(queue'[s]) \cap Range(queue[t]) = {}
    <3>1. GroupOf[s] \notin known => Range(queue[t]) = {}
      BY <2>4, QueuesElsewhere, EmptyRange
    <3>2. Range(queue[s]) \cap Range(queue[t]) = {}
      BY <2>4 DEF Once
    <3> QED
      BY <2>2, <3>1, <3>2, EmptyRange
  <2>5. \A t \in Subscribers : /\ \A m \in Range(queue'[t]) : m \in 1..published'
                               /\ Single(queue'[t])
    BY <2>1, <2>3 DEF Once
  <2>6. ASSUME NEW t \in Subscribers, NEW u \in Subscribers, GroupOf[t] = GroupOf[u], t # u
        PROVE  Range(queue'[t]) \cap Range(queue'[u]) = {}
    <3>1. CASE t = s
      BY <2>1, <2>4, <2>6, <3>1
    <3>2. CASE u = s
      BY <2>1, <2>4, <2>6, <3>2
    <3>3. CASE t # s /\ u # s
      BY <2>1, <2>6, <3>3 DEF Once
    <3> QED
      BY <3>1, <3>2, <3>3
  <2> QED
    BY <2>1, <2>5, <2>6 DEF Once, Single
<1>4. CASE UNCHANGED vars
  BY <1>4 DEF vars, Once, Single
<1> QED
  BY <1>1, <1>2, <1>3, <1>4 DEF Next

-----------------------------------------------------------------------------
(* What was handed out, and what is kept                                   *)

\* A message handed to a group lies in no queue of it any more, and a group that
\* nobody has joined was handed none.
HandedOnce ==
    /\ \A s \in Subscribers : \A m \in Range(got[s]) : m \in 1..published
    /\ \A s \in Subscribers : GroupOf[s] \notin known => got[s] = <<>>
    /\ \A s, t \in Subscribers :
         GroupOf[s] = GroupOf[t] => Range(queue[s]) \cap Range(got[t]) = {}

\* Until a group comes the backlog is the tail of what was published, in order.
BacklogIsNewest ==
    known = {} =>
        /\ Len(backlog) = IF published < BacklogLimit THEN published ELSE BacklogLimit
        /\ \A i \in 1..Len(backlog) : backlog[i] = (published - Len(backlog)) + i

\* Handing out the head of a queue.
LEMMA GetFacts ==
    ASSUME BusTypes, Membership, Once, NEW s \in Subscribers, Get(s)
    PROVE  \E m \in Range(queue[s]) :
             /\ Range(queue'[s]) = Range(queue[s]) \ {m}
             /\ Range(got'[s]) = Range(got[s]) \cup {m}
             /\ \A t \in Subscribers \ {s} : queue'[t] = queue[t] /\ got'[t] = got[t]
<1>1. /\ queue[s] # <<>> /\ Range(queue[s]) = {Head(queue[s])} \cup Range(queue'[s])
      /\ Head(queue[s]) \notin Range(queue'[s])
      /\ \A t \in Subscribers \ {s} : queue'[t] = queue[t]
  BY SubscriberSteps
<1>2. queue[s] \in Seq(Nat) /\ got[s] \in Seq(Nat) /\ got \in [Subscribers -> Seq(Nat)]
  BY DEF BusTypes
<1>3. PICK m \in Nat : m = Head(queue[s])
  BY <1>1, <1>2, RangeFacts
<1>4. got' = [got EXCEPT ![s] = Append(@, m)]
  BY <1>3 DEF Get
<1>5. Range(Append(got[s], m)) = Range(got[s]) \cup {m}
  BY <1>2, AppendBus
<1>6. Range(got'[s]) = Range(got[s]) \cup {m} /\ \A t \in Subscribers \ {s} : got'[t] = got[t]
  BY <1>2, <1>4, <1>5
<1>7. m \in Range(queue[s]) /\ Range(queue'[s]) = Range(queue[s]) \ {m}
  BY <1>1, <1>3
<1> QED
  BY <1>1, <1>6, <1>7

LEMMA HandedOnceStep ==
    ASSUME BusTypes, Membership, Once, HandedOnce, [Next]_vars
    PROVE  HandedOnce'
<1>0. published \in Nat /\ \A n \in 1..published : n \in 1..(published + 1)
  BY DEF BusTypes
<1>1. CASE PublishToBacklog
  <2>1. UNCHANGED <<known, queue, got>> /\ published' = published + 1
    BY <1>1 DEF PublishToBacklog
  <2> QED
    BY <1>0, <2>1 DEF HandedOnce
<1>2. CASE PublishToGroups
  <2>1. UNCHANGED <<known, got>> /\ published' = published + 1
    BY <1>2 DEF PublishToGroups
  <2>2. \A t \in Subscribers : published' \notin Range(got[t])
    BY <1>0, <2>1 DEF HandedOnce
  <2>3. \A s \in Subscribers : Range(queue'[s]) \subseteq Range(queue[s]) \cup {published'}
    BY <1>2, PublishedTo
  <2>4. ASSUME NEW s \in Subscribers, NEW t \in Subscribers, GroupOf[s] = GroupOf[t]
        PROVE  Range(queue'[s]) \cap Range(got'[t]) = {}
    BY <2>1, <2>2, <2>3, <2>4 DEF HandedOnce
  <2> QED
    BY <1>0, <2>1, <2>4 DEF HandedOnce
<1>3. ASSUME NEW s \in Subscribers, Subscribe(s) \/ Unsubscribe(s) PROVE HandedOnce'
  <2>1. /\ got' = got /\ published' = published
        /\ known \subseteq known' /\ \A t \in Subscribers \ {s} : queue'[t] = queue[t]
    BY <1>3, SubscriberSteps DEF Subscribe, Unsubscribe
  <2>2. queue'[s] = <<>> \/ GroupOf[s] \notin known
    BY <1>3, SubscriberSteps
  <2>3. ASSUME NEW t \in Subscribers, GroupOf[s] = GroupOf[t]
        PROVE  Range(queue'[s]) \cap Range(got[t]) = {}
    BY <2>2, <2>3, EmptyRange DEF HandedOnce
  <2>4. ASSUME NEW u \in Subscribers, NEW t \in Subscribers, GroupOf[u] = GroupOf[t]
        PROVE  Range(queue'[u]) \cap Range(got'[t]) = {}
    BY <2>1, <2>3, <2>4 DEF HandedOnce
  <2> QED
    BY <2>1, <2>4 DEF HandedOnce
<1>4. ASSUME NEW s \in Subscribers, Get(s) PROVE HandedOnce'
  <2>1. PICK m \in Range(queue[s]) :
          /\ Range(queue'[s]) = Range(queue[s]) \ {m}
          /\ Range(got'[s]) = Range(got[s]) \cup {m}
          /\ \A t \in Subscribers \ {s} : queue'[t] = queue[t] /\ got'[t] = got[t]
    BY <1>4, GetFacts
  <2>2. UNCHANGED <<published, known>> /\ s \in Live /\ GroupOf[s] \in known
    BY <1>4, OwnGroup DEF Get
  <2>3. m \in 1..published /\ \A t \in Subscribers \ {s} :
          GroupOf[s] = GroupOf[t] => m \notin Range(queue[t])
    BY DEF Once
  <2>4. ASSUME NEW u \in Subscribers, NEW t \in Subscribers, GroupOf[u] = GroupOf[t]
        PROVE  Range(queue'[u]) \cap Range(got'[t]) = {}
    <3>1. Range(queue[u]) \cap Range(got[t]) = {}
      BY <2>4 DEF HandedOnce
    <3>2. Range(queue'[u]) \subseteq Range(queue[u])
      BY <2>1
    <3>3. CASE t = s
      <4>1. m \notin Range(queue'[u])
        BY <2>1, <2>3, <2>4, <3>3
      <4> QED
        BY <2>1, <3>1, <3>2, <3>3, <4>1
    <3>4. CASE t # s
      BY <2>1, <3>1, <3>2, <3>4
    <3> QED
      BY <3>3, <3>4
  <2>5. \A t \in Subscribers : \A n \in Range(got'[t]) : n \in 1..published'
    BY <2>1, <2>2, <2>3 DEF HandedOnce
  <2>6. \A t \in Subscribers : GroupOf[t] \notin known' => got'[t] = <<>>
    BY <2>1, <2>2 DEF HandedOnce
  <2> QED
    BY <2>4, <2>5, <2>6 DEF HandedOnce
<1>5. CASE UNCHANGED vars
  BY <1>5 DEF vars, HandedOnce
<1> QED
  BY <1>1, <1>2, <1>3, <1>4, <1>5 DEF Next

\* One more message, and the oldest out when the limit is passed.
LEMMA BacklogIsNewestStep ==
    ASSUME BusTypes, BacklogIsNewest, [Next]_vars
    PROVE  BacklogIsNewest'
<1>1. CASE PublishToBacklog
  <2>1. /\ known = {} /\ known' = known /\ published' = published + 1
        /\ backlog' = Newest(Append(backlog, published'))
    BY <1>1 DEF PublishToBacklog
  <2>2. /\ published \in Nat /\ backlog \in Seq(Nat) /\ BacklogLimit \in Nat \ {0}
        /\ Len(backlog) \in Nat /\ published' \in Nat
    BY <2>1, BusAssumption DEF BusTypes
  <2>3. /\ Len(backlog) = IF published < BacklogLimit THEN published ELSE BacklogLimit
        /\ \A i \in 1..Len(backlog) : backlog[i] = (published - Len(backlog)) + i
    BY <2>1 DEF BacklogIsNewest
  <2> DEFINE p == Append(backlog, published')
  <2>4. /\ p \in Seq(Nat) /\ p # <<>> /\ Len(p) = Len(backlog) + 1
        /\ p[Len(backlog) + 1] = published'
        /\ \A i \in 1..Len(backlog) : p[i] = backlog[i]
    BY <2>2, AppendBus
  <2> HIDE DEF p
  <2>5. \A i \in 1..Len(p) : p[i] = (published' - Len(p)) + i
    <3> SUFFICES ASSUME NEW i \in 1..Len(p) PROVE p[i] = (published' - Len(p)) + i
      OBVIOUS
    <3>1. CASE i \in 1..Len(backlog)
      BY <2>1, <2>2, <2>3, <2>4, <3>1
    <3>2. CASE i = Len(backlog) + 1
      BY <2>1, <2>2, <2>4, <3>2
    <3> QED
      BY <2>2, <2>4, <3>1, <3>2
  <2>6. CASE Len(p) > BacklogLimit
    <3>1. Newest(p) = SubSeq(p, (Len(p) - BacklogLimit) + 1, Len(p))
      BY <2>6 DEF Newest
    <3>2. PICK b \in Nat : b = (Len(p) - BacklogLimit) + 1
      <4>1. Len(p) \in Nat /\ BacklogLimit \in Nat
        BY <2>2, <2>4
      <4>2. (Len(p) - BacklogLimit) + 1 \in Nat
        BY <2>6, <4>1
      <4> QED
        BY <4>2
    <3>3. b \in 1..(Len(p) + 1) /\ Len(p) \in (b - 1)..Len(p)
      BY <2>2, <2>4, <2>6, <3>2
    <3>4. /\ Len(SubSeq(p, b, Len(p))) = Len(p) - b + 1
          /\ \A i \in 1..(Len(p) - b + 1) : SubSeq(p, b, Len(p))[i] = p[b + i - 1]
      BY <2>4, <3>3, SubSeqProperties
    <3>5. Len(p) - b + 1 = BacklogLimit
      BY <2>2, <2>4, <3>2
    <3>6. ASSUME NEW i \in 1..BacklogLimit
          PROVE  Newest(p)[i] = (published' - BacklogLimit) + i
      <4>1. Newest(p)[i] = p[b + i - 1]
        BY <3>1, <3>2, <3>4, <3>5
      <4>2. b + i - 1 \in 1..Len(p)
        BY <2>2, <2>4, <2>6, <3>2
      <4>3. p[b + i - 1] = (published' - Len(p)) + (b + i - 1)
        BY <2>5, <4>2
      <4> QED
        BY <2>2, <2>4, <3>2, <4>1, <4>3
    <3>7. Len(backlog') = BacklogLimit /\ ~(published' < BacklogLimit)
      BY <2>1, <2>2, <2>3, <2>4, <2>6, <3>1, <3>2, <3>4, <3>5 DEF p
    <3>8. \A i \in 1..BacklogLimit : backlog'[i] = (published' - BacklogLimit) + i
      BY <2>1, <3>6 DEF p
    <3> QED
      BY <3>7, <3>8 DEF BacklogIsNewest
  <2>7. CASE ~(Len(p) > BacklogLimit)
    <3>1. Newest(p) = SubSeq(p, 1, Len(p))
      BY <2>7 DEF Newest
    <3>2. Len(p) \in Nat
      BY <2>2, <2>4
    <3>3. 1 \in 1..(Len(p) + 1) /\ Len(p) \in (1 - 1)..Len(p)
      BY <3>2
    <3>4. /\ Len(SubSeq(p, 1, Len(p))) = Len(p) - 1 + 1
          /\ \A i \in 1..(Len(p) - 1 + 1) : SubSeq(p, 1, Len(p))[i] = p[1 + i - 1]
      BY <2>4, <3>3, SubSeqProperties
    <3>5. Len(Newest(p)) = Len(p) /\ \A i \in 1..Len(p) : Newest(p)[i] = p[i]
      BY <3>1, <3>2, <3>4
    <3>6. Len(p) = IF published' < BacklogLimit THEN published' ELSE BacklogLimit
      BY <2>1, <2>2, <2>3, <2>4, <2>7
    <3>7. backlog' = Newest(p)
      BY <2>1 DEF p
    <3> QED
      BY <2>5, <3>5, <3>6, <3>7 DEF BacklogIsNewest
  <2> QED
    BY <2>6, <2>7
<1>2. CASE PublishToGroups
  BY <1>2 DEF PublishToGroups, BacklogIsNewest
<1>3. ASSUME NEW s \in Subscribers, Subscribe(s) PROVE BacklogIsNewest'
  BY <1>3 DEF Subscribe, BacklogIsNewest
<1>4. ASSUME NEW s \in Subscribers, Get(s) \/ Unsubscribe(s) PROVE BacklogIsNewest'
  BY <1>4 DEF Get, Unsubscribe, BacklogIsNewest
<1>5. CASE UNCHANGED vars
  BY <1>5 DEF vars, BacklogIsNewest
<1> QED
  BY <1>1, <1>2, <1>3, <1>4, <1>5 DEF Next

\* As a set, such a tail is what GroupDelivery keeps.
LEMMA TailMeans ==
    ASSUME NEW n \in Nat, NEW q \in Seq(Nat),
           Len(q) = IF n < BacklogLimit THEN n ELSE BacklogLimit,
           \A i \in 1..Len(q) : q[i] = (n - Len(q)) + i
    PROVE  Range(q) = {m \in 1..n : m + BacklogLimit > n}
<1>1. BacklogLimit \in Nat \ {0} /\ Len(q) \in Nat
  BY BusAssumption
<1>2. \A m : m \in Range(q) <=> \E i \in 1..Len(q) : q[i] = m
  BY RangeFacts
<1>3. ASSUME NEW i \in 1..Len(q)
      PROVE  q[i] \in 1..n /\ q[i] + BacklogLimit > n
  BY <1>1
<1>4. ASSUME NEW m \in 1..n, m + BacklogLimit > n
      PROVE  \E i \in 1..Len(q) : q[i] = m
  <2>1. m - (n - Len(q)) \in 1..Len(q)
    BY <1>1, <1>4
  <2>2. q[m - (n - Len(q))] = m
    BY <1>1, <2>1
  <2> QED
    BY <2>1, <2>2
<1> QED
  BY <1>2, <1>3, <1>4

-----------------------------------------------------------------------------
(* The topic implements GroupDelivery                                      *)

LEMMA HandedMeans ==
    /\ \A g, m : m \in Handed(g) <=> \E s \in Subscribers : GroupOf[s] = g /\ m \in Range(got[s])
    /\ \A g, m : m \in Handed(g)' <=> \E s \in Subscribers : GroupOf[s] = g /\ m \in Range(got'[s])
  BY DEF Handed, Of

LEMMA HandedStays ==
    ASSUME got' = got
    PROVE  [g \in Groups |-> Handed(g)]' = [g \in Groups |-> Handed(g)]
<1>1. \A g : Handed(g)' = Handed(g)
  BY DEF Handed
<1> QED
  BY <1>1

LEMMA LiveStays ==
    ASSUME members' = members PROVE Live' = Live
  BY DEF Live, Members

LEMMA BacklogKeeps ==
    ASSUME BusTypes, BusTypes', BacklogIsNewest, BacklogIsNewest', PublishToBacklog
    PROVE  Delivery!Keep
<1>1. /\ known = {} /\ published' = published + 1
      /\ UNCHANGED <<known, members, queue, got>>
  BY DEF PublishToBacklog
<1>2. Range(backlog)' = {m \in 1..published' : m + BacklogLimit > published'}
  <2>1. backlog' \in Seq(Nat) /\ published' \in Nat
    BY DEF BusTypes
  <2>2. /\ Len(backlog') = IF published' < BacklogLimit THEN published' ELSE BacklogLimit
        /\ \A i \in 1..Len(backlog') : backlog'[i] = (published' - Len(backlog')) + i
    BY <1>1 DEF BacklogIsNewest
  <2> QED
    BY <2>1, <2>2, TailMeans
<1>3. UNCHANGED <<Live, Pending, [g \in Groups |-> Handed(g)]>>
  BY <1>1, LiveStays, HandedStays DEF Pending
<1> QED
  BY <1>1, <1>2, <1>3 DEF Delivery!Keep

\* The queues a message is put into are those of one member of each group that
\* has one.
LEMMA ReceiversAreOneOfEach ==
    ASSUME BusTypes, Membership
    PROVE  Delivery!OneOfEachGroup({Chosen(g) : g \in Served})
<1>1. \A g \in Served : Chosen(g) \in Subscribers /\ GroupOf[Chosen(g)] = g
  BY ChosenFacts
<1>2. ASSUME NEW g \in Served PROVE Chosen(g) \in Live
  <2>1. /\ g \in Groups /\ members[g] \in Seq(Subscribers) /\ members[g] # <<>>
        /\ turn[g] \in Nat
    BY DEF Served, BusTypes
  <2>2. Len(members[g]) \in Nat \ {0}
    BY <2>1
  <2>3. (turn[g] % Len(members[g])) \in 0..(Len(members[g]) - 1)
    BY <2>1, <2>2, NextTurn
  <2>4. (turn[g] % Len(members[g])) + 1 \in 1..Len(members[g])
    BY <2>2, <2>3
  <2> QED
    BY <2>1, <2>4, LiveMeans DEF Chosen
<1>3. ASSUME NEW s \in Live PROVE GroupOf[s] \in Served
  <2>1. /\ GroupOf[s] \in Groups /\ GroupOf[s] \in known
        /\ \E i \in 1..Len(members[GroupOf[s]]) : members[GroupOf[s]][i] = s
    BY OwnGroup
  <2>2. members[GroupOf[s]] # <<>>
    BY <2>1
  <2> QED
    BY <2>1, <2>2 DEF Served
<1> QED
  BY <1>1, <1>2, <1>3 DEF Delivery!OneOfEachGroup

LEMMA GroupsFanOut ==
    ASSUME BusTypes, Membership, Once, PublishToGroups
    PROVE  Delivery!FanOut
<1> DEFINE R == {Chosen(g) : g \in Served}
<1>1. Delivery!OneOfEachGroup(R) /\ R \in SUBSET Live
  BY ReceiversAreOneOfEach DEF Delivery!OneOfEachGroup
<1>2. ASSUME NEW s \in Subscribers
      PROVE  /\ s \in R => Range(queue'[s]) = Range(queue[s]) \cup {published'}
             /\ s \notin R => Range(queue'[s]) = Range(queue[s])
  BY PublishedTo
<1>3. /\ known # {} /\ published' = published + 1
      /\ UNCHANGED <<backlog, known, members, got>>
  BY DEF PublishToGroups
<1> HIDE DEF R
<1>4. Pending' = [s \in Subscribers |-> IF s \in R THEN Pending[s] \cup {published'} ELSE Pending[s]]
  BY <1>2 DEF Pending
<1>5. UNCHANGED <<Live, [g \in Groups |-> Handed(g)]>>
  BY <1>3, LiveStays, HandedStays
<1> QED
  BY <1>1, <1>3, <1>4, <1>5 DEF Delivery!FanOut

\* Who is a member after one joined or left.
LEMMA Joined ==
    ASSUME BusTypes, BusTypes', NEW s \in Subscribers, Subscribe(s)
    PROVE  Live' = Live \cup {s}
<1> DEFINE g == GroupOf[s]
<1>1. g \in Groups /\ members[g] \in Seq(Subscribers)
  BY BusAssumption DEF BusTypes
<1>2. members'[g] = Append(members[g], s) /\ \A h \in Groups \ {g} : members'[h] = members[h]
  BY <1>1 DEF Subscribe, BusTypes
<1>3. Range(members'[g]) = Range(members[g]) \cup {s}
  BY <1>1, <1>2, AppendBus
<1> HIDE DEF g
<1>4. \A x : x \in Live <=> \E h \in Groups : x \in Range(members[h])
  BY DEF Live, Members
<1>5. \A x : x \in Live' <=> \E h \in Groups : x \in Range(members'[h])
  BY DEF Live, Members
<1> QED
  BY <1>1, <1>2, <1>3, <1>4, <1>5

LEMMA Left ==
    ASSUME BusTypes, BusTypes', Membership, Membership', NEW s \in Subscribers, Unsubscribe(s)
    PROVE  Live' = Live \ {s}
<1> DEFINE g == GroupOf[s]
<1>1. /\ g \in Groups /\ members[g] \in Seq(Subscribers) /\ Len(members[g]) \in Nat
  BY BusAssumption DEF BusTypes
<1>2. PICK i \in 1..Len(members[g]) :
        members[g][i] = s /\ members' = [members EXCEPT ![g] = RemoveAt(@, i)]
  <2>1. PICK i \in DOMAIN members[GroupOf[s]] :
          /\ members[GroupOf[s]][i] = s
          /\ members' = [members EXCEPT ![GroupOf[s]] = RemoveAt(@, i)]
    BY DEF Unsubscribe
  <2>2. DOMAIN members[g] = 1..Len(members[g])
    BY <1>1
  <2> QED
    BY <2>1, <2>2
<1> DEFINE r == RemoveAt(members[g], i)
<1>3. members'[g] = r /\ \A h \in Groups \ {g} : members'[h] = members[h]
  BY <1>1, <1>2 DEF BusTypes
<1>4. /\ r \in Seq(Subscribers) /\ Len(r) = Len(members[g]) - 1
      /\ \A j \in 1..(Len(members[g]) - 1) : r[j] = members[g][IF j < i THEN j ELSE j + 1]
  BY <1>1, <1>2, RemoveAtFacts
<1> HIDE DEF g, r
<1>5. ASSUME NEW h \in Groups, NEW x
      PROVE  /\ x \in Range(members[h]) <=> \E j \in 1..Len(members[h]) : members[h][j] = x
             /\ x \in Range(members'[h]) <=> \E j \in 1..Len(members'[h]) : members'[h][j] = x
  <2>1. members[h] \in Seq(Subscribers) /\ members'[h] \in Seq(Subscribers)
    BY <1>5 DEF BusTypes
  <2> QED
    BY <2>1, RangeFacts
<1>6. \A j, k \in 1..Len(members[g]) : members[g][j] = members[g][k] => j = k
  BY <1>1, ListFacts
<1>7. ASSUME NEW j \in 1..(Len(members[g]) - 1) PROVE r[j] # s /\ r[j] \in Range(members[g])
  <2>1. CASE j < i
    <3>1. j \in 1..Len(members[g]) /\ r[j] = members[g][j] /\ j # i
      BY <1>1, <1>2, <1>4, <2>1
    <3> QED
      BY <1>1, <1>2, <1>5, <1>6, <3>1
  <2>2. CASE ~(j < i)
    <3>1. j + 1 \in 1..Len(members[g]) /\ r[j] = members[g][j + 1] /\ j + 1 # i
      BY <1>1, <1>2, <1>4, <2>2
    <3> QED
      BY <1>1, <1>2, <1>5, <1>6, <3>1
  <2> QED
    BY <2>1, <2>2
<1>8. ASSUME NEW x \in Range(members[g]), x # s PROVE x \in Range(r)
  <2>1. PICK j \in 1..Len(members[g]) : members[g][j] = x
    BY <1>1, <1>5
  <2>2. j # i
    BY <1>2, <1>8, <2>1
  <2>3. CASE j < i
    <3>1. j \in 1..(Len(members[g]) - 1) /\ r[j] = members[g][j]
      BY <1>1, <1>2, <1>4, <2>3
    <3> QED
      BY <1>1, <1>3, <1>4, <1>5, <2>1, <3>1
  <2>4. CASE ~(j < i)
    <3>1. j - 1 \in 1..(Len(members[g]) - 1) /\ ~(j - 1 < i) /\ (j - 1) + 1 = j
      BY <1>1, <1>2, <2>2, <2>4
    <3>2. r[j - 1] = members[g][j]
      BY <1>4, <3>1
    <3> QED
      BY <1>1, <1>3, <1>4, <1>5, <2>1, <3>1, <3>2
  <2> QED
    BY <2>3, <2>4
<1>9. \A x : x \in Range(r) <=> x \in Range(members[g]) /\ x # s
  <2>1. ASSUME NEW x \in Range(r) PROVE x \in Range(members[g]) /\ x # s
    <3>1. PICK j \in 1..Len(r) : r[j] = x
      BY <1>4, RangeFacts
    <3> QED
      BY <1>4, <1>7, <3>1
  <2> QED
    BY <1>8, <2>1
<1>10. \A h \in Groups \ {g} : s \notin Range(members[h])
  <2>1. ASSUME NEW h \in Groups \ {g}, s \in Range(members[h]) PROVE FALSE
    <3>1. PICK j \in 1..Len(members[h]) : members[h][j] = s
      BY <1>5, <2>1
    <3>2. GroupOf[s] = h
      BY <3>1, ListFacts
    <3> QED
      BY <3>2 DEF g
  <2> QED
    BY <2>1
<1>11. \A x : x \in Live <=> \E h \in Groups : x \in Range(members[h])
  BY DEF Live, Members
<1>12. \A x : x \in Live' <=> \E h \in Groups : x \in Range(members'[h])
  BY DEF Live, Members
<1> QED
  BY <1>1, <1>3, <1>9, <1>10, <1>11, <1>12

LEMMA SubscribeComes ==
    ASSUME BusTypes, BusTypes', Membership, Once, NEW s \in Subscribers, Subscribe(s)
    PROVE  Delivery!Come(s)
<1>1. /\ queue'[s] = IF GroupOf[s] \in known THEN <<>> ELSE backlog
      /\ \A t \in Subscribers \ {s} : queue'[t] = queue[t]
      /\ UNCHANGED <<published, backlog>>
  BY SubscriberSteps
<1>2. s \notin Live /\ known' = known \cup {GroupOf[s]} /\ got' = got
  BY DEF Subscribe
<1>3. Live' = Live \cup {s}
  BY Joined
<1>4. Pending' = [Pending EXCEPT ![s] = IF GroupOf[s] \in known THEN {} ELSE Range(backlog)]
  BY <1>1, EmptyRange DEF Pending
<1>5. UNCHANGED [g \in Groups |-> Handed(g)]
  BY <1>2, HandedStays
<1> QED
  BY <1>1, <1>2, <1>3, <1>4, <1>5 DEF Delivery!Come

LEMMA GetHands ==
    ASSUME BusTypes, Membership, Once, HandedOnce, NEW s \in Subscribers, Get(s)
    PROVE  \E m \in Pending[s] : Delivery!Hand(s, m)
<1> DEFINE g == GroupOf[s]
           hand == [h \in Groups |-> Handed(h)]
<1>1. PICK m \in Range(queue[s]) :
        /\ Range(queue'[s]) = Range(queue[s]) \ {m}
        /\ Range(got'[s]) = Range(got[s]) \cup {m}
        /\ \A t \in Subscribers \ {s} : queue'[t] = queue[t] /\ got'[t] = got[t]
  BY GetFacts
<1>2. s \in Live /\ UNCHANGED <<published, backlog, known, members>> /\ g \in Groups
  BY BusAssumption DEF Get
<1> HIDE DEF g
<1>3. g = GroupOf[s]
  BY DEF g
<1>4. m \notin Handed(g)
  <2>1. \A t \in Subscribers : GroupOf[t] = g => m \notin Range(got[t])
    BY <1>3 DEF HandedOnce
  <2> QED
    BY <2>1, HandedMeans
<1>5. Handed(g)' = Handed(g) \cup {m}
  <2>1. ASSUME NEW x PROVE x \in Handed(g)' <=> x \in Handed(g) \cup {m}
    BY <1>1, <1>3, HandedMeans
  <2> QED
    BY <2>1
<1>6. \A h \in Groups \ {g} : Handed(h)' = Handed(h)
  <2>1. ASSUME NEW h \in Groups \ {g}, NEW x PROVE x \in Handed(h)' <=> x \in Handed(h)
    <3>1. \A t \in Subscribers : GroupOf[t] = h => got'[t] = got[t]
      BY <1>1, <1>3
    <3> QED
      BY <3>1, HandedMeans
  <2> QED
    BY <2>1
<1>7. hand' = [hand EXCEPT ![g] = @ \cup {m}] /\ m \notin hand[g]
  BY <1>2, <1>4, <1>5, <1>6
<1>8. Pending' = [Pending EXCEPT ![s] = @ \ {m}] /\ m \in Pending[s]
  BY <1>1 DEF Pending
<1>9. Live' = Live
  BY <1>2, LiveStays
<1> HIDE DEF hand
<1>10. Delivery!Hand(s, m)
  BY <1>2, <1>3, <1>7, <1>8, <1>9 DEF Delivery!Hand, hand
<1> QED
  BY <1>8, <1>10

LEMMA UnsubscribeLeaves ==
    ASSUME BusTypes, BusTypes', Membership, Membership', Once,
           NEW s \in Subscribers, Unsubscribe(s)
    PROVE  Delivery!Leave(s)
<1>1. /\ queue'[s] = <<>> /\ \A t \in Subscribers \ {s} : queue'[t] = queue[t]
      /\ UNCHANGED <<published, backlog>>
  BY SubscriberSteps
<1>2. s \in Live /\ UNCHANGED <<known, got>>
  BY DEF Unsubscribe
<1>3. Live' = Live \ {s}
  BY Left
<1>4. Pending' = [Pending EXCEPT ![s] = {}]
  BY <1>1, EmptyRange DEF Pending
<1>5. UNCHANGED [g \in Groups |-> Handed(g)]
  BY <1>2, HandedStays
<1> QED
  BY <1>1, <1>2, <1>3, <1>4, <1>5 DEF Delivery!Leave

\* What the refinement rests on.
DeliveryInv == BusTypes /\ Membership /\ Once /\ HandedOnce /\ BacklogIsNewest

LEMMA DeliveryInvStep == ASSUME DeliveryInv, [Next]_vars PROVE DeliveryInv'
<1>1. BusTypes /\ Membership /\ Once /\ HandedOnce /\ BacklogIsNewest
  BY DEF DeliveryInv
<1>2. BusTypes' /\ Membership'
  BY <1>1, TypesStep, MembershipStep
<1>3. Once' /\ HandedOnce' /\ BacklogIsNewest'
  BY <1>1, OnceStep, HandedOnceStep, BacklogIsNewestStep
<1> QED
  BY <1>2, <1>3 DEF DeliveryInv

LEMMA DeliveryStep ==
    ASSUME DeliveryInv, DeliveryInv', [Next]_vars
    PROVE  [Delivery!Next]_(Delivery!gvars)
<1>0. /\ BusTypes /\ Membership /\ Once /\ HandedOnce /\ BacklogIsNewest
      /\ BusTypes' /\ Membership' /\ BacklogIsNewest'
  BY DEF DeliveryInv
<1>1. CASE PublishToBacklog
  BY <1>0, <1>1, BacklogKeeps DEF Delivery!Next
<1>2. CASE PublishToGroups
  BY <1>0, <1>2, GroupsFanOut DEF Delivery!Next
<1>3. ASSUME NEW s \in Subscribers, Subscribe(s) PROVE Delivery!Next
  BY <1>0, <1>3, SubscribeComes DEF Delivery!Next
<1>4. ASSUME NEW s \in Subscribers, Get(s) PROVE Delivery!Next
  BY <1>0, <1>4, GetHands DEF Delivery!Next
<1>5. ASSUME NEW s \in Subscribers, Unsubscribe(s) PROVE Delivery!Next
  BY <1>0, <1>5, UnsubscribeLeaves DEF Delivery!Next
<1>6. CASE UNCHANGED vars
  <2>1. UNCHANGED <<Live, Pending, [g \in Groups |-> Handed(g)]>>
    BY <1>6, LiveStays, HandedStays DEF vars, Pending
  <2> QED
    BY <1>6, <2>1 DEF vars, Delivery!gvars
<1> QED
  BY <1>1, <1>2, <1>3, <1>4, <1>5, <1>6 DEF Next

\* The topic keeps the promise of GroupDelivery: publish puts a message before one
\* member of every group that has one, keeps the newest for all groups while none
\* has come, no group is handed a message twice, and what is dropped was owed to a
\* subscriber that left.
THEOREM TopicDelivers == Spec => DeliversToGroups
<1>1. Init => Delivery!Init
  <2> SUFFICES ASSUME Init PROVE Delivery!Init
    OBVIOUS
  <2>1. /\ \A s \in Subscribers : queue[s] = <<>> /\ got[s] = <<>>
        /\ backlog = <<>> /\ published = 0 /\ known = {}
        /\ \A g \in Groups : members[g] = <<>>
    BY DEF Init
  <2>2. \A g : Handed(g) = {}
    BY <2>1, EmptyRange, HandedMeans
  <2>3. Live = {}
    BY <2>1, EmptyRange DEF Live, Members
  <2>4. Pending = [s \in Subscribers |-> {}]
    BY <2>1, EmptyRange DEF Pending
  <2> QED
    BY <2>1, <2>2, <2>3, <2>4, EmptyRange DEF Delivery!Init
<1>2. Init /\ RoundRobin => DeliveryInv
  <2> SUFFICES ASSUME Init, RoundRobin PROVE DeliveryInv
    OBVIOUS
  <2>1. /\ \A s \in Subscribers : queue[s] = <<>> /\ got[s] = <<>>
        /\ backlog = <<>> /\ published = 0
    BY DEF Init
  <2>2. Once /\ HandedOnce
    BY <2>1, EmptyRange DEF Once, HandedOnce, Single
  <2>3. BacklogIsNewest
    BY <2>1, BusAssumption DEF BacklogIsNewest
  <2> QED
    BY <2>2, <2>3 DEF DeliveryInv, RoundRobin
<1> QED
  BY <1>1, <1>2, DeliveryInvStep, DeliveryStep, RoundRobinAlways, PTL
     DEF Spec, DeliversToGroups, Delivery!Spec
=============================================================================
