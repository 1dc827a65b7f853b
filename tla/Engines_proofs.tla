--------------------------- MODULE Engines_proofs ---------------------------
(***************************************************************************)
(* What is proved of the engines, for any tasks and any order of the       *)
(* threads' steps: the arithmetic of the reversing engine is exact, and so *)
(* are its answers to a plain task; no call takes the answer of a thread   *)
(* that another call gave up on, nor do threads and pipelines pile up      *)
(* faster than calls run into their time limit; and files that cannot be   *)
(* read change no answer.                                                  *)
(***************************************************************************)
EXTENDS Engines, FiniteSetTheorems, SequenceTheorems, WellFoundedInduction, TLAPS

-----------------------------------------------------------------------------
(* The engine's arithmetic is exact: for any width of a byte, any buffer   *)
(* and any set of printable bytes, it may answer with precisely the        *)
(* printable inputs that the program accepts.                              *)

Where(s, b) == {i \in DOMAIN s : b \in s[i]}

(* Where a bit is set can be counted. *)
LEMMA WhereIsFinite ==
  ASSUME NEW s \in Seq(Bytes), NEW b
  PROVE  /\ DOMAIN s = 1..Len(s)
         /\ Len(s) \in Nat
         /\ IsFiniteSet(DOMAIN s)
         /\ Cardinality(DOMAIN s) = Len(s)
         /\ Where(s, b) \subseteq DOMAIN s
         /\ Cardinality(Where(s, b)) \in Nat
         /\ Cardinality(Where(s, b)) <= Len(s)
<1>1. DOMAIN s = 1..Len(s) /\ Len(s) \in Nat
  OBVIOUS
<1>2. IsFiniteSet(1..Len(s)) /\ Cardinality(1..Len(s)) = Len(s)
  BY <1>1, FS_Interval
<1>3. Where(s, b) \subseteq DOMAIN s
  BY DEF Where
<1>4. /\ IsFiniteSet(Where(s, b))
      /\ Cardinality(Where(s, b)) <= Cardinality(DOMAIN s)
  BY <1>1, <1>2, <1>3, FS_Subset
<1>5. Cardinality(Where(s, b)) \in Nat
  BY <1>4, FS_CardinalityType
<1> QED
  BY <1>1, <1>2, <1>3, <1>4, <1>5

(* Masking keeps the length and stays among the bytes. *)
LEMMA MaskedType ==
  ASSUME NEW s \in Seq(Bytes), NEW key \in Bytes
  PROVE  /\ Masked(s, key) \in Seq(Bytes)
         /\ DOMAIN Masked(s, key) = DOMAIN s
         /\ Len(Masked(s, key)) = Len(s)
         /\ \A i \in DOMAIN s : Masked(s, key)[i] = Xor(s[i], key)
<1>1. DOMAIN s = 1..Len(s) /\ Len(s) \in Nat
  OBVIOUS
<1>2. \A i \in DOMAIN s : Xor(s[i], key) \in Bytes
  BY DEF Xor, Bytes
<1> QED
  BY <1>1, <1>2 DEF Masked

(* A bit that the key has is turned over in every byte, any other in none. *)
LEMMA CountMasked ==
  ASSUME NEW s \in Seq(Bytes), NEW key \in Bytes, NEW b
  PROVE  Cardinality(Where(Masked(s, key), b)) =
           IF b \in key THEN Len(s) - Cardinality(Where(s, b)) ELSE Cardinality(Where(s, b))
<1>1. /\ DOMAIN Masked(s, key) = DOMAIN s
      /\ \A i \in DOMAIN s : Masked(s, key)[i] = Xor(s[i], key)
  BY MaskedType
<1>2. CASE b \in key
  <2>1. Where(Masked(s, key), b) = DOMAIN s \ Where(s, b)
    BY <1>1, <1>2 DEF Where, Xor
  <2>2. DOMAIN s \cap Where(s, b) = Where(s, b)
    BY DEF Where
  <2>3. Cardinality(DOMAIN s \ Where(s, b)) = Cardinality(DOMAIN s) - Cardinality(DOMAIN s \cap Where(s, b))
    BY WhereIsFinite, FS_Difference
  <2> QED
    BY <1>2, <2>1, <2>2, <2>3, WhereIsFinite
<1>3. CASE b \notin key
  <2>1. Where(Masked(s, key), b) = Where(s, b)
    BY <1>1, <1>3 DEF Where, Xor
  <2> QED
    BY <1>3, <2>1
<1> QED
  BY <1>2, <1>3

LEMMA XorAllByWhere ==
  ASSUME NEW s \in Seq(Bytes)
  PROVE  /\ XorAll(s) \in Bytes
         /\ XorAll(s) = {b \in Bits : Cardinality(Where(s, b)) % 2 = 1}
BY DEF XorAll, Where, Bytes

(* Parities of a difference. *)
LEMMA Parities ==
  ASSUME NEW n \in Nat, NEW k \in Nat, k <= n
  PROVE  /\ n % 2 = 0 => ((n - k) % 2 = 1 <=> k % 2 = 1)
         /\ n % 2 # 0 => ((n - k) % 2 = 1 <=> k % 2 # 1)
<1>1. \A m \in Nat : m % 2 \in {0, 1} /\ m = 2 * (m \div 2) + (m % 2)
  BY Z3
<1>2. n - k \in Nat
  OBVIOUS
<1> QED
  BY <1>1, <1>2, Z3

(* The xor of a masked sequence. *)
LEMMA XorAllMasked ==
  ASSUME NEW s \in Seq(Bytes), NEW key \in Bytes
  PROVE  XorAll(Masked(s, key)) =
           IF Len(s) % 2 = 0 THEN XorAll(s) ELSE Xor(XorAll(s), key)
<1> DEFINE m == Masked(s, key)
<1>1. m \in Seq(Bytes)
  BY MaskedType
<1>2. ASSUME NEW b \in Bits
      PROVE  Cardinality(Where(m, b)) % 2 = 1 <=>
               IF Len(s) % 2 = 0 THEN b \in XorAll(s) ELSE b \in Xor(XorAll(s), key)
  <2> DEFINE n == Len(s)
             k == Cardinality(Where(s, b))
  <2>1. n \in Nat /\ k \in Nat /\ k <= n
    BY WhereIsFinite
  <2>2. Cardinality(Where(m, b)) = IF b \in key THEN n - k ELSE k
    BY CountMasked
  <2>3. b \in XorAll(s) <=> k % 2 = 1
    BY XorAllByWhere
  <2>4. b \in Xor(XorAll(s), key) <=> ~(b \in XorAll(s) <=> b \in key)
    BY DEF Xor
  <2>5. /\ n % 2 = 0 => ((n - k) % 2 = 1 <=> k % 2 = 1)
        /\ n % 2 # 0 => ((n - k) % 2 = 1 <=> k % 2 # 1)
    BY <2>1, Parities
  <2> HIDE DEF n, k, m
  <2>6. CASE b \in key
    <3>1. Cardinality(Where(m, b)) = n - k
      BY <2>2, <2>6
    <3> QED
      BY <3>1, <2>3, <2>4, <2>5, <2>6 DEF n
  <2>7. CASE b \notin key
    <3>1. Cardinality(Where(m, b)) = k
      BY <2>2, <2>7
    <3> QED
      BY <3>1, <2>3, <2>4, <2>5, <2>7 DEF n
  <2> QED
    BY <2>6, <2>7
<1>3. XorAll(m) = {b \in Bits : Cardinality(Where(m, b)) % 2 = 1}
  BY <1>1, XorAllByWhere
<1>4. XorAll(s) \subseteq Bits /\ Xor(XorAll(s), key) \subseteq Bits
  BY XorAllByWhere DEF Xor, Bytes
<1> HIDE DEF m
<1>5. CASE Len(s) % 2 = 0
  BY <1>2, <1>3, <1>4, <1>5 DEF m
<1>6. CASE Len(s) % 2 # 0
  BY <1>2, <1>3, <1>4, <1>6 DEF m
<1> QED
  BY <1>5, <1>6

(* Masking twice with one key changes nothing. *)
LEMMA MaskedTwice ==
  ASSUME NEW s \in Seq(Bytes), NEW key \in Bytes
  PROVE  Masked(Masked(s, key), key) = s
<1>1. /\ DOMAIN Masked(s, key) = DOMAIN s
      /\ \A i \in DOMAIN s : Masked(s, key)[i] = Xor(s[i], key)
  BY MaskedType
<1>2. ASSUME NEW i \in DOMAIN s
      PROVE  Xor(Xor(s[i], key), key) = s[i]
  BY DEF Xor
<1>3. Masked(Masked(s, key), key) = [i \in DOMAIN s |-> s[i]]
  BY <1>1, <1>2 DEF Masked
<1> QED
  BY <1>3

(* What the engine may answer with, the program accepts. *)
LEMMA SolutionsAreAccepted ==
  ASSUME NEW buf \in Seq(Bytes), NEW c \in Solutions(buf)
  PROVE  c \in Seq(Bytes) /\ IsPrintable(c) /\ Accepts(buf, c)
<1>1. PICK key \in KeysToTry(buf) : IsPrintable(Masked(buf, key)) /\ c = Masked(buf, key)
  BY DEF Solutions
<1>2. key \in Bytes
  BY <1>1, XorAllByWhere DEF KeysToTry
<1>3. XorAll(c) = key
  <2>1. CASE Len(buf) % 2 = 0
    BY <1>1, <1>2, <2>1, XorAllMasked DEF KeysToTry
  <2>2. CASE Len(buf) % 2 # 0
    <3>1. XorAll(buf) = {}
      BY <1>1, <2>2 DEF KeysToTry
    <3>2. XorAll(c) = Xor({}, key)
      BY <1>1, <1>2, <2>2, <3>1, XorAllMasked
    <3> QED
      BY <3>2 DEF Xor
  <2> QED
    BY <2>1, <2>2
<1>4. Masked(c, XorAll(c)) = buf
  BY <1>1, <1>2, <1>3, MaskedTwice
<1>5. c \in Seq(Bytes)
  BY <1>1, <1>2, MaskedType
<1> QED
  BY <1>1, <1>4, <1>5 DEF Accepts

(* And every printable input that the program accepts is among them. *)
LEMMA AcceptedAreSolutions ==
  ASSUME NEW buf \in Seq(Bytes), NEW c \in Seq(Bytes), IsPrintable(c), Accepts(buf, c)
  PROVE  c \in Solutions(buf)
<1> DEFINE key == XorAll(c)
<1>1. key \in Bytes
  BY XorAllByWhere
<1>2. buf = Masked(c, key) /\ Len(buf) = Len(c)
  BY <1>1, MaskedType DEF Accepts
<1>3. c = Masked(buf, key)
  BY <1>1, <1>2, MaskedTwice
<1>4. XorAll(buf) = IF Len(c) % 2 = 0 THEN key ELSE Xor(key, key)
  BY <1>1, <1>2, XorAllMasked
<1>5. key \in KeysToTry(buf)
  <2>1. CASE Len(buf) % 2 = 0
    BY <1>2, <1>4, <2>1 DEF KeysToTry
  <2>2. CASE Len(buf) % 2 # 0
    <3>1. XorAll(buf) = {}
      BY <1>2, <1>4, <2>2 DEF Xor
    <3> QED
      BY <1>1, <2>2, <3>1 DEF KeysToTry
  <2> QED
    BY <2>1, <2>2
<1> QED
  BY <1>3, <1>5 DEF Solutions

(* The engine's answers to a buffer are exactly the printable inputs that   *)
(* the program accepts: it neither claims a wrong one nor misses one.  This *)
(* is engines.py:276-292.                                                   *)
THEOREM SelfXorExact ==
  ASSUME NEW buf \in Seq(Bytes)
  PROVE  Solutions(buf) = {c \in Seq(Bytes) : IsPrintable(c) /\ Accepts(buf, c)}
BY SolutionsAreAccepted, AcceptedAreSolutions

(* A buffer of even length has at most one solution. *)
THEOREM EvenIsUnique ==
  ASSUME NEW buf \in Seq(Bytes), Len(buf) % 2 = 0,
         NEW c \in Seq(Bytes), IsPrintable(c), Accepts(buf, c),
         NEW d \in Seq(Bytes), IsPrintable(d), Accepts(buf, d)
  PROVE  c = d
<1>1. c \in Solutions(buf) /\ d \in Solutions(buf)
  BY AcceptedAreSolutions
<1> QED
  BY <1>1 DEF Solutions, KeysToTry

-----------------------------------------------------------------------------
(* The engines and the threads of the pipeline.                            *)

States == {"start", "build", "process", "answer", "gone"}
Claims == (UNION {Found[t] : t \in Tasks}) \cup PipelineClaims
Threads == [of : Tasks, state : States, claim : Claims]
Returns == [task : Tasks, worker : Nat, claim : Claims]

Typed ==
  /\ queue \in Seq(Tasks)
  /\ phase \in {"idle", "call", "wait"}
  /\ phase # "idle" => task \in Tasks
  /\ workers \in Seq(Threads)
  /\ answers \in Seq(Returns)
  /\ built \in Nat
  /\ pipeline = built

\* What a call returned came from a thread that is gone now, and threads are
\* heard in the order in which they were started.
Heard ==
  \A i \in DOMAIN answers :
    /\ answers[i].worker \in 0 .. Len(workers)
    /\ answers[i].worker # 0 =>
         /\ workers[answers[i].worker].state = "gone"
         /\ workers[answers[i].worker].of = answers[i].task
         /\ workers[answers[i].worker].claim = answers[i].claim
         /\ \A k \in 1 .. i - 1 : answers[k].worker < answers[i].worker

\* A call waits for the thread that was started last, and nobody heard it yet.
Awaited ==
  phase = "wait" =>
    /\ UsesPipeline(task)
    /\ Len(workers) # 0
    /\ workers[Len(workers)].of = task
    /\ \A i \in DOMAIN answers : answers[i].worker < Len(workers)

Building == {w \in DOMAIN workers : workers[w].state = "build"}
Waiting == IF phase = "wait" THEN 1 ELSE 0

Counted ==
  /\ Cardinality(Alive) <= TimedOut + Waiting
  /\ Cardinality(Building) + built <= TimedOut + 1

IInv == Typed /\ Heard /\ Awaited /\ Counted

-----------------------------------------------------------------------------
(* Counting. *)

\* The sets that are counted are finite.
LEMMA SetsAreFinite ==
  ASSUME Typed
  PROVE  /\ IsFiniteSet(Alive) /\ IsFiniteSet(Building) /\ IsFiniteSet(Unanswered)
         /\ Cardinality(Alive) \in Nat /\ Cardinality(Building) \in Nat /\ TimedOut \in Nat
         /\ Building \subseteq Alive
<1>1. DOMAIN workers = 1 .. Len(workers) /\ DOMAIN answers = 1 .. Len(answers)
  BY DEF Typed
<1>2. IsFiniteSet(1 .. Len(workers)) /\ IsFiniteSet(1 .. Len(answers))
  BY FS_Interval, LenProperties DEF Typed
<1>3. /\ Alive \subseteq 1 .. Len(workers) /\ Building \subseteq 1 .. Len(workers)
      /\ Unanswered \subseteq 1 .. Len(answers)
  BY <1>1 DEF Alive, Building, Unanswered
<1>4. IsFiniteSet(Alive) /\ IsFiniteSet(Building) /\ IsFiniteSet(Unanswered)
  BY <1>2, <1>3, FS_Subset
<1> QED BY <1>4, FS_CardinalityType DEF TimedOut, Alive, Building

\* A call that returns is counted when it timed out; no call is forgotten.
LEMMA ReturnCounts ==
  ASSUME Typed, Typed', NEW a \in Returns, answers' = Append(answers, a)
  PROVE  /\ TimedOut' \in Nat /\ TimedOut' >= TimedOut
         /\ a.worker = 0 /\ a.claim = NoClaim /\ UsesPipeline(a.task) => TimedOut' = TimedOut + 1
<1> DEFINE n == Len(answers) + 1
           late == a.worker = 0 /\ a.claim = NoClaim /\ UsesPipeline(a.task)
<1>1. /\ DOMAIN answers = 1 .. Len(answers) /\ DOMAIN answers' = 1 .. n
      /\ answers'[n] = a /\ \A i \in 1 .. Len(answers) : answers'[i] = answers[i]
      /\ Len(answers) \in Nat
  BY AppendProperties, LenProperties DEF Typed
<1>2. Unanswered' = Unanswered \cup (IF late THEN {n} ELSE {})
  BY <1>1 DEF Unanswered, UsesPipeline
<1>3. n \notin Unanswered
  BY <1>1 DEF Unanswered
<1>4. IsFiniteSet(Unanswered) /\ Cardinality(Unanswered) \in Nat
  BY SetsAreFinite DEF TimedOut
<1>5. CASE late
  <2>1. Cardinality(Unanswered') = Cardinality(Unanswered) + 1
    BY <1>2, <1>3, <1>4, <1>5, FS_AddElement
  <2> QED BY <2>1, <1>4 DEF TimedOut
<1>6. CASE ~late
  <2>1. Unanswered' = Unanswered
    BY <1>2, <1>6
  <2> QED BY <2>1, <1>4, <1>6 DEF TimedOut
<1> QED BY <1>5, <1>6

-----------------------------------------------------------------------------
(* What the steps do to threads and answers. *)

\* A thread that moves keeps its task and what it found, and leaves the others
\* alone.
LEMMA MoveKeepsThreads ==
  ASSUME Typed, NEW w, NEW from, NEW to \in States, Moves(w, from, to)
  PROVE  /\ w \in 1 .. Len(workers) /\ workers[w].state = from
         /\ workers' \in Seq(Threads) /\ Len(workers') = Len(workers) /\ Len(workers) \in Nat
         /\ DOMAIN workers' = 1 .. Len(workers) /\ DOMAIN workers = 1 .. Len(workers)
         /\ workers'[w].state = to
         /\ \A k \in 1 .. Len(workers) : /\ workers'[k].of = workers[k].of
                                         /\ workers'[k].claim = workers[k].claim
                                         /\ k # w => workers'[k] = workers[k]
<1>1. DOMAIN workers = 1 .. Len(workers) /\ Len(workers) \in Nat
  BY LenProperties DEF Typed
<1>2. w \in 1 .. Len(workers) /\ workers[w] \in Threads
  BY <1>1, ElementOfSeq DEF Moves, Typed
<1> DEFINE moved == [workers[w] EXCEPT !.state = to]
<1>3. workers' = [workers EXCEPT ![w] = moved]
  BY DEF Moves
<1>4. moved \in Threads /\ moved.state = to /\ moved.of = workers[w].of /\ moved.claim = workers[w].claim
  BY <1>2 DEF Threads
<1> HIDE DEF moved
<1>5. workers' \in Seq(Threads) /\ Len(workers') = Len(workers)
  BY <1>2, <1>3, <1>4, ExceptSeq DEF Typed
<1>6. workers'[w] = moved /\ \A k \in 1 .. Len(workers) : k # w => workers'[k] = workers[k]
  BY <1>1, <1>2, <1>3
<1>7. DOMAIN workers' = 1 .. Len(workers)
  BY <1>5, LenProperties
<1>8. workers[w].state = from
  BY DEF Moves
<1> QED BY <1>1, <1>2, <1>4, <1>5, <1>6, <1>7, <1>8

\* Threads that are gone stay as they are, so that what was heard stays heard.
LEMMA HeardStays ==
  ASSUME Typed, Heard, answers' = answers,
         Len(workers') \in Nat, Len(workers') >= Len(workers),
         \A k \in 1 .. Len(workers) : workers[k].state = "gone" => workers'[k] = workers[k]
  PROVE  Heard'
<1>1. Len(workers) \in Nat
  BY LenProperties DEF Typed
<1> SUFFICES ASSUME NEW i \in DOMAIN answers
             PROVE  /\ answers[i].worker \in 0 .. Len(workers')
                    /\ answers[i].worker # 0 =>
                         /\ workers'[answers[i].worker].state = "gone"
                         /\ workers'[answers[i].worker].of = answers[i].task
                         /\ workers'[answers[i].worker].claim = answers[i].claim
                         /\ \A k \in 1 .. i - 1 : answers[k].worker < answers[i].worker
  BY DEF Heard
<1>2. answers[i].worker \in 0 .. Len(workers)
  BY DEF Heard
<1>3. CASE answers[i].worker # 0
  <2>1. workers'[answers[i].worker] = workers[answers[i].worker]
    BY <1>1, <1>2, <1>3 DEF Heard
  <2> QED BY <1>1, <1>2, <1>3, <2>1 DEF Heard
<1> QED BY <1>1, <1>2, <1>3

\* A call that returns is heard as well, if its thread is the last one heard.
LEMMA HeardGrows ==
  ASSUME Typed, Heard, NEW a \in Returns, answers' = Append(answers, a),
         Len(workers') = Len(workers),
         \A k \in 1 .. Len(workers) : workers[k].state = "gone" => workers'[k] = workers[k],
         a.worker \in 0 .. Len(workers),
         a.worker # 0 => /\ workers'[a.worker].state = "gone"
                         /\ workers'[a.worker].of = a.task
                         /\ workers'[a.worker].claim = a.claim
                         /\ \A k \in DOMAIN answers : answers[k].worker < a.worker
  PROVE  Heard'
<1>1. Len(workers) \in Nat /\ Len(answers) \in Nat /\ DOMAIN answers = 1 .. Len(answers)
  BY LenProperties DEF Typed
<1>2. /\ DOMAIN answers' = 1 .. Len(answers) + 1 /\ answers'[Len(answers) + 1] = a
      /\ \A i \in 1 .. Len(answers) : answers'[i] = answers[i]
  BY AppendProperties DEF Typed
<1> SUFFICES ASSUME NEW i \in 1 .. Len(answers) + 1
             PROVE  /\ answers'[i].worker \in 0 .. Len(workers')
                    /\ answers'[i].worker # 0 =>
                         /\ workers'[answers'[i].worker].state = "gone"
                         /\ workers'[answers'[i].worker].of = answers'[i].task
                         /\ workers'[answers'[i].worker].claim = answers'[i].claim
                         /\ \A k \in 1 .. i - 1 : answers'[k].worker < answers'[i].worker
  BY <1>2 DEF Heard
<1>3. CASE i = Len(answers) + 1
  <2>1. answers'[i] = a
    BY <1>2, <1>3
  <2>2. \A k \in 1 .. i - 1 : k \in DOMAIN answers /\ answers'[k] = answers[k]
    BY <1>1, <1>2, <1>3
  <2> QED BY <2>1, <2>2
<1>4. CASE i \in 1 .. Len(answers)
  <2>1. i \in DOMAIN answers /\ answers'[i] = answers[i] /\ answers[i].worker \in 0 .. Len(workers)
    BY <1>1, <1>2, <1>4 DEF Heard
  <2>2. \A k \in 1 .. i - 1 : answers'[k] = answers[k]
    BY <1>1, <1>2, <1>4
  <2>3. CASE answers[i].worker # 0
    <3>1. workers'[answers[i].worker] = workers[answers[i].worker]
      BY <1>1, <2>1, <2>3 DEF Heard
    <3> QED BY <2>1, <2>2, <2>3, <3>1 DEF Heard
  <2> QED BY <2>1, <2>3
<1> QED BY <1>1, <1>3, <1>4

\* Removing one of a counted set, adding one at most, and keeping a part of it.
LEMMA Counting ==
  ASSUME NEW S, IsFiniteSet(S), NEW T
  PROVE  /\ Cardinality(S) \in Nat
         /\ T \subseteq S => Cardinality(T) <= Cardinality(S) /\ Cardinality(T) \in Nat
         /\ \A x \in S : T = S \ {x} => Cardinality(T) = Cardinality(S) - 1 /\ Cardinality(T) \in Nat
         /\ \A x : T \subseteq S \cup {x} => Cardinality(T) <= Cardinality(S) + 1 /\ Cardinality(T) \in Nat
<1>1. Cardinality(S) \in Nat
  BY FS_CardinalityType
<1>2. T \subseteq S => Cardinality(T) <= Cardinality(S) /\ Cardinality(T) \in Nat
  BY FS_Subset, FS_CardinalityType
<1>3. ASSUME NEW x \in S, T = S \ {x}
      PROVE  Cardinality(T) = Cardinality(S) - 1 /\ Cardinality(T) \in Nat
  BY <1>2, <1>3, FS_RemoveElement
<1>4. ASSUME NEW x, T \subseteq S \cup {x}
      PROVE  Cardinality(T) <= Cardinality(S) + 1 /\ Cardinality(T) \in Nat
  <2>1. IsFiniteSet(S \cup {x}) /\ Cardinality(S \cup {x}) <= Cardinality(S) + 1
    BY <1>1, FS_AddElement
  <2>2. Cardinality(T) <= Cardinality(S \cup {x}) /\ Cardinality(T) \in Nat
    BY <1>4, <2>1, FS_Subset, FS_CardinalityType
  <2>3. Cardinality(S \cup {x}) \in Nat
    BY <2>1, FS_CardinalityType
  <2> QED BY <1>1, <2>1, <2>2, <2>3
<1> QED BY <1>1, <1>2, <1>3, <1>4

-----------------------------------------------------------------------------
(* One lemma per action. *)

LEMMA InitKeeps ==
  ASSUME Init
  PROVE  IInv
<1>1. queue \in Seq(Tasks)
  BY QueuesAssumption DEF Init
<1>2. workers = <<>> /\ answers = <<>> /\ phase = "idle" /\ built = 0 /\ pipeline = 0
  BY DEF Init
<1>3. Typed
  BY <1>1, <1>2, EmptySeq DEF Typed
<1>4. Alive = {} /\ Building = {} /\ Unanswered = {}
  BY <1>2 DEF Alive, Building, Unanswered
<1>5. Cardinality(Alive) = 0 /\ Cardinality(Building) = 0 /\ TimedOut = 0
  BY <1>4, FS_EmptySet DEF TimedOut
<1>6. Counted
  BY <1>2, <1>5 DEF Counted, Waiting
<1> QED BY <1>2, <1>3, <1>6 DEF IInv, Heard, Awaited

\* What is counted does not change when threads and answers do not.
LEMMA Uncounted ==
  ASSUME workers' = workers, answers' = answers
  PROVE  Alive' = Alive /\ Building' = Building /\ TimedOut' = TimedOut /\ Unanswered' = Unanswered
BY DEF Alive, Building, TimedOut, Unanswered, UsesPipeline

\* A specialist that takes a task has no call under way.
LEMMA TakeKeeps ==
  ASSUME IInv, Take
  PROVE  IInv'
<1>1. /\ workers' = workers /\ answers' = answers /\ built' = built /\ pipeline' = pipeline
      /\ phase = "idle" /\ phase' = "call" /\ queue # <<>>
      /\ task' = Head(queue) /\ queue' = Tail(queue)
  BY DEF Take
<1>2. queue' \in Seq(Tasks) /\ task' \in Tasks
  BY <1>1, HeadTailProperties DEF IInv, Typed
<1>3. Typed'
  BY <1>1, <1>2 DEF IInv, Typed
<1>4. Heard'
  BY <1>1 DEF IInv, Heard
<1>5. Counted'
  BY <1>1, Uncounted DEF IInv, Counted, Waiting
<1> QED BY <1>1, <1>3, <1>4, <1>5 DEF IInv, Awaited

\* A call that asks the pipeline waits for the thread it starts.
LEMMA StartWorkerKeeps ==
  ASSUME IInv, phase = "call", UsesPipeline(task), StartWorker
  PROVE  IInv'
<1> DEFINE new == [of |-> task, state |-> "start", claim |-> NoClaim]
           n == Len(workers) + 1
<1>1. /\ workers' = Append(workers, new) /\ phase' = "wait" /\ answers' = answers
      /\ queue' = queue /\ task' = task /\ built' = built /\ pipeline' = pipeline
  BY DEF StartWorker
<1>2. new \in Threads /\ Len(workers) \in Nat /\ DOMAIN workers = 1 .. Len(workers)
  BY LenProperties DEF IInv, Typed, Threads, States, Claims, PipelineClaims
<1>3. /\ workers' \in Seq(Threads) /\ Len(workers') = n /\ workers'[n] = new
      /\ DOMAIN workers' = 1 .. n /\ \A k \in 1 .. Len(workers) : workers'[k] = workers[k]
  BY <1>1, <1>2, AppendProperties, LenProperties DEF IInv, Typed
<1>4. new.state = "start" /\ new.of = task
  OBVIOUS
<1> HIDE DEF new
<1>5. Typed'
  BY <1>1, <1>3 DEF IInv, Typed
<1>6. Heard'
  BY <1>1, <1>2, <1>3, HeardStays DEF IInv
<1>7. Awaited'
  <2>1. \A i \in DOMAIN answers : answers[i].worker < n
    BY <1>2 DEF IInv, Heard
  <2> QED BY <1>1, <1>2, <1>3, <1>4, <2>1 DEF Awaited, UsesPipeline
<1>8. Alive' \subseteq Alive \cup {n}
  BY <1>2, <1>3 DEF Alive
<1>9. Building' = Building
  BY <1>2, <1>3, <1>4 DEF Building
<1>10. TimedOut' = TimedOut
  BY <1>1 DEF TimedOut, Unanswered, UsesPipeline
<1>11. Cardinality(Alive') <= Cardinality(Alive) + 1 /\ Cardinality(Alive') \in Nat
  BY <1>8, SetsAreFinite, Counting DEF IInv
<1>12. Counted'
  BY <1>1, <1>9, <1>10, <1>11, SetsAreFinite DEF IInv, Counted, Waiting
<1> QED BY <1>5, <1>6, <1>7, <1>12 DEF IInv

\* What a return does apart from the threads.
LEMMA ReturnTypes ==
  ASSUME IInv, phase # "idle", NEW w \in Nat, NEW claim \in Claims, Return(w, claim),
         workers' \in Seq(Threads), built' = built, pipeline' = pipeline
  PROVE  /\ Typed' /\ phase' # "wait"
         /\ [task |-> task, worker |-> w, claim |-> claim] \in Returns
         /\ answers' = Append(answers, [task |-> task, worker |-> w, claim |-> claim])
<1> DEFINE a == [task |-> task, worker |-> w, claim |-> claim]
<1>1. answers' = Append(answers, a) /\ queue' = queue
  BY DEF Return
<1>2. \/ phase' = "idle"
      \/ phase' = "call" /\ task' = task
  BY DEF Return
<1>3. a \in Returns
  BY DEF IInv, Typed, Returns
<1>4. answers' \in Seq(Returns)
  BY <1>1, <1>3, AppendProperties DEF IInv, Typed
<1>5. Typed'
  BY <1>1, <1>2, <1>4 DEF IInv, Typed
<1> QED BY <1>1, <1>2, <1>3, <1>5

\* A call that returns by itself, with what the files answer or at its time
\* limit, starts and ends no thread.
LEMMA ReturnKeeps ==
  ASSUME IInv, phase # "idle", NEW claim \in Claims, Return(0, claim),
         UNCHANGED <<workers, pipeline, built>>,
         phase = "wait" => claim = NoClaim
  PROVE  IInv'
<1> DEFINE a == [task |-> task, worker |-> 0, claim |-> claim]
<1>1. Typed' /\ phase' # "wait" /\ a \in Returns /\ answers' = Append(answers, a)
  BY ReturnTypes DEF IInv, Typed
<1>2. a.worker = 0 /\ a.claim = claim /\ a.task = task
  OBVIOUS
<1> HIDE DEF a
<1>3. Len(workers) \in Nat /\ workers' = workers /\ built' = built
  BY LenProperties DEF IInv, Typed
<1>4. Heard'
  BY <1>1, <1>2, <1>3, HeardGrows DEF IInv
<1>5. Alive' = Alive /\ Building' = Building
  BY <1>3 DEF Alive, Building
<1>6. /\ TimedOut' \in Nat /\ TimedOut' >= TimedOut
      /\ phase = "wait" => TimedOut' = TimedOut + 1
  BY <1>1, <1>2, ReturnCounts DEF IInv, Awaited
<1>7. Cardinality(Alive) \in Nat /\ Cardinality(Building) \in Nat /\ TimedOut \in Nat
  BY SetsAreFinite DEF IInv
<1>8. Counted'
  BY <1>1, <1>3, <1>5, <1>6, <1>7 DEF IInv, Counted, Waiting, Typed
<1> QED BY <1>1, <1>4, <1>8 DEF IInv, Awaited

\* A call takes one of the answers of its task, or starts a thread.
LEMMA CallKeeps ==
  ASSUME IInv, Call
  PROVE  IInv'
<1>1. phase = "call" /\ task \in Tasks
  BY DEF Call, IInv, Typed
<1>2. PICK claim \in Found[task] :
        IF claim = NoClaim /\ UsesPipeline(task) THEN StartWorker
        ELSE Return(0, claim) /\ UNCHANGED <<workers, pipeline, built>>
  BY DEF Call
<1>3. claim \in Claims
  BY <1>1, <1>2 DEF Claims
<1>4. CASE claim = NoClaim /\ UsesPipeline(task)
  BY <1>1, <1>2, <1>4, StartWorkerKeeps
<1>5. CASE ~(claim = NoClaim /\ UsesPipeline(task))
  BY <1>1, <1>2, <1>3, <1>5, ReturnKeeps
<1> QED BY <1>4, <1>5

\* The time limit of a call.
LEMMA TimeoutKeeps ==
  ASSUME IInv, Timeout
  PROVE  IInv'
<1>1. phase = "wait" /\ Return(0, NoClaim) /\ UNCHANGED <<workers, pipeline, built>>
  BY DEF Timeout
<1>2. NoClaim \in Claims
  BY DEF Claims, PipelineClaims
<1> QED BY <1>1, <1>2, ReturnKeeps

\* A call goes on waiting while threads move.
LEMMA AwaitedStays ==
  ASSUME IInv, phase' = phase, task' = task, answers' = answers,
         Len(workers') = Len(workers),
         \A k \in 1 .. Len(workers) : workers'[k].of = workers[k].of
  PROVE  Awaited'
<1>1. Len(workers) \in Nat
  BY LenProperties DEF IInv, Typed
<1> QED BY <1>1 DEF IInv, Awaited, UsesPipeline

\* Only a thread that finds no pipeline builds one.
LEMMA EnsurePipelineKeeps ==
  ASSUME IInv, NEW w, EnsurePipeline(w)
  PROVE  IInv'
<1> DEFINE to == IF pipeline = 0 THEN "build" ELSE "process"
<1>1. /\ Moves(w, "start", to) /\ to \in States
      /\ UNCHANGED <<queue, task, phase, barren, pipeline, built, answers>>
  BY DEF EnsurePipeline, States
<1>2. to = "build" => built = 0
  BY DEF IInv, Typed
<1>3. to \in {"build", "process"}
  OBVIOUS
<1> HIDE DEF to
<1>4. /\ w \in 1 .. Len(workers) /\ workers[w].state = "start"
      /\ workers' \in Seq(Threads) /\ Len(workers') = Len(workers) /\ Len(workers) \in Nat
      /\ DOMAIN workers' = 1 .. Len(workers) /\ DOMAIN workers = 1 .. Len(workers)
      /\ workers'[w].state = to
      /\ \A k \in 1 .. Len(workers) : /\ workers'[k].of = workers[k].of
                                      /\ k # w => workers'[k] = workers[k]
  BY <1>1, MoveKeepsThreads DEF IInv
<1>5. Typed'
  BY <1>1, <1>4 DEF IInv, Typed
<1>6. Heard'
  BY <1>1, <1>4, HeardStays DEF IInv
<1>7. Awaited'
  BY <1>1, <1>4, AwaitedStays
<1>8. Alive' = Alive /\ Building' \subseteq Building \cup {w} /\ Building' \subseteq Alive'
  BY <1>3, <1>4 DEF Alive, Building
<1>9. to # "build" => Building' = Building
  BY <1>4 DEF Building
<1>10. TimedOut' = TimedOut
  BY <1>1 DEF TimedOut, Unanswered, UsesPipeline
<1>11. Cardinality(Building') <= Cardinality(Alive) /\ Cardinality(Building') \in Nat
  BY <1>8, SetsAreFinite, Counting DEF IInv
<1>12. /\ Cardinality(Alive) \in Nat /\ Cardinality(Building) \in Nat /\ TimedOut \in Nat
  BY SetsAreFinite DEF IInv
<1>13. Counted'
  BY <1>1, <1>2, <1>8, <1>9, <1>10, <1>11, <1>12 DEF IInv, Counted, Waiting, Typed
<1> QED BY <1>5, <1>6, <1>7, <1>13 DEF IInv

\* A pipeline that is built is one fewer being built.
LEMMA BuildKeeps ==
  ASSUME IInv, NEW w, Build(w)
  PROVE  IInv'
<1>1. /\ Moves(w, "build", "process") /\ "process" \in States
      /\ built' = built + 1 /\ pipeline' = built + 1
      /\ UNCHANGED <<queue, task, phase, barren, answers>>
  BY DEF Build, States
<1>2. /\ w \in 1 .. Len(workers) /\ workers[w].state = "build"
      /\ workers' \in Seq(Threads) /\ Len(workers') = Len(workers) /\ Len(workers) \in Nat
      /\ DOMAIN workers' = 1 .. Len(workers) /\ DOMAIN workers = 1 .. Len(workers)
      /\ workers'[w].state = "process"
      /\ \A k \in 1 .. Len(workers) : /\ workers'[k].of = workers[k].of
                                      /\ k # w => workers'[k] = workers[k]
  BY <1>1, MoveKeepsThreads DEF IInv
<1>3. Typed'
  BY <1>1, <1>2 DEF IInv, Typed
<1>4. Heard'
  BY <1>1, <1>2, HeardStays DEF IInv
<1>5. Awaited'
  BY <1>1, <1>2, AwaitedStays
<1>6. Alive' = Alive /\ Building' = Building \ {w} /\ w \in Building
  BY <1>2 DEF Alive, Building
<1>7. TimedOut' = TimedOut
  BY <1>1 DEF TimedOut, Unanswered, UsesPipeline
<1>8. Cardinality(Building') = Cardinality(Building) - 1
  BY <1>6, SetsAreFinite, Counting DEF IInv
<1>9. /\ Cardinality(Alive) \in Nat /\ Cardinality(Building) \in Nat /\ TimedOut \in Nat
  BY SetsAreFinite DEF IInv
<1>10. Counted'
  BY <1>1, <1>6, <1>7, <1>8, <1>9 DEF IInv, Counted, Waiting, Typed
<1> QED BY <1>3, <1>4, <1>5, <1>10 DEF IInv

\* A thread that ends its cycle has an answer nobody heard yet.
LEMMA ProcessKeeps ==
  ASSUME IInv, NEW w, Process(w)
  PROVE  IInv'
<1>1. w \in DOMAIN workers /\ workers[w].state = "process"
      /\ UNCHANGED <<queue, task, phase, barren, pipeline, built, answers>>
  BY DEF Process
<1>2. PICK c \in PipelineClaims :
        workers' = [workers EXCEPT ![w].state = "answer", ![w].claim = c]
  BY DEF Process
<1>3. DOMAIN workers = 1 .. Len(workers) /\ Len(workers) \in Nat
  BY LenProperties DEF IInv, Typed
<1>4. w \in 1 .. Len(workers) /\ workers[w] \in Threads
  BY <1>1, <1>3, ElementOfSeq DEF IInv, Typed
<1> DEFINE done == [[workers[w] EXCEPT !.state = "answer"] EXCEPT !.claim = c]
<1>5. workers' = [workers EXCEPT ![w] = done]
  BY <1>2, <1>4
<1>6. done \in Threads /\ done.state = "answer" /\ done.of = workers[w].of
  BY <1>4, <1>2 DEF Threads, States, Claims
<1> HIDE DEF done
<1>7. workers' \in Seq(Threads) /\ Len(workers') = Len(workers) /\ DOMAIN workers' = 1 .. Len(workers)
  BY <1>4, <1>5, <1>6, ExceptSeq, LenProperties DEF IInv, Typed
<1>8. workers'[w] = done /\ \A k \in 1 .. Len(workers) : k # w => workers'[k] = workers[k]
  BY <1>3, <1>4, <1>5
<1>9. Typed'
  BY <1>1, <1>7 DEF IInv, Typed
<1>10. Heard'
  BY <1>1, <1>3, <1>7, <1>8, HeardStays DEF IInv
<1>11. Awaited'
  BY <1>1, <1>6, <1>7, <1>8, AwaitedStays
<1>12. Alive' = Alive /\ Building' = Building
  BY <1>1, <1>3, <1>4, <1>6, <1>7, <1>8 DEF Alive, Building
<1>13. TimedOut' = TimedOut
  BY <1>1 DEF TimedOut, Unanswered, UsesPipeline
<1>14. Counted'
  BY <1>1, <1>12, <1>13 DEF IInv, Counted, Waiting
<1> QED BY <1>9, <1>10, <1>11, <1>14 DEF IInv

\* An answer ends its thread; only the call that waits for it hears it.
LEMMA DeliverKeeps ==
  ASSUME IInv, NEW w, Deliver(w)
  PROVE  IInv'
<1> DEFINE heard == phase = "wait" /\ w = Len(workers)
           a == [task |-> task, worker |-> w, claim |-> workers[w].claim]
<1>1. /\ Moves(w, "answer", "gone") /\ "gone" \in States
      /\ built' = built /\ pipeline' = pipeline
  BY DEF Deliver, States
<1>2. /\ w \in 1 .. Len(workers) /\ workers[w].state = "answer"
      /\ workers' \in Seq(Threads) /\ Len(workers') = Len(workers) /\ Len(workers) \in Nat
      /\ DOMAIN workers' = 1 .. Len(workers) /\ DOMAIN workers = 1 .. Len(workers)
      /\ workers'[w].state = "gone"
      /\ \A k \in 1 .. Len(workers) : /\ workers'[k].of = workers[k].of
                                      /\ workers'[k].claim = workers[k].claim
                                      /\ k # w => workers'[k] = workers[k]
  BY <1>1, MoveKeepsThreads DEF IInv
<1>3. workers[w].claim \in Claims
  <2>1. workers \in Seq(Threads)
    BY DEF IInv, Typed
  <2>2. workers[w] \in Threads
    BY <1>2, <2>1, ElementOfSeq
  <2> QED BY <2>2 DEF Threads
<1>4. Alive' = Alive \ {w} /\ w \in Alive /\ Building' = Building
  BY <1>2 DEF Alive, Building
<1>5. Cardinality(Alive') = Cardinality(Alive) - 1
  BY <1>4, SetsAreFinite, Counting DEF IInv
<1>6. Cardinality(Alive) \in Nat /\ Cardinality(Building) \in Nat /\ TimedOut \in Nat
  BY SetsAreFinite DEF IInv
<1>7. CASE heard
  <2>1. Return(w, workers[w].claim) /\ phase # "idle" /\ w \in Nat
    BY <1>2, <1>7 DEF Deliver
  <2>2. Typed' /\ phase' # "wait" /\ a \in Returns /\ answers' = Append(answers, a)
    BY <1>1, <1>2, <1>3, <2>1, ReturnTypes
  <2>3. a.worker = w /\ a.task = task /\ a.claim = workers[w].claim
    OBVIOUS
  <2> HIDE DEF a
  <2>4. workers[w].of = task /\ \A i \in DOMAIN answers : answers[i].worker < w
    BY <1>7 DEF IInv, Awaited
  <2>5. \A k \in 1 .. Len(workers) : workers[k].state = "gone" => workers'[k] = workers[k]
    BY <1>2
  <2>6. Heard'
    BY <1>2, <2>2, <2>3, <2>4, <2>5, HeardGrows DEF IInv
  <2>7. TimedOut' \in Nat /\ TimedOut' >= TimedOut
    BY <2>2, ReturnCounts DEF IInv
  <2>8. Counted'
    BY <1>1, <1>4, <1>5, <1>6, <1>7, <2>2, <2>7 DEF IInv, Counted, Waiting, Typed
  <2> QED BY <2>2, <2>6, <2>8 DEF IInv, Awaited
<1>8. CASE ~heard
  <2>1. UNCHANGED <<queue, task, phase, barren, answers>>
    BY <1>8 DEF Deliver
  <2>2. Typed'
    BY <1>1, <1>2, <2>1 DEF IInv, Typed
  <2>3. Heard'
    BY <1>2, <2>1, HeardStays DEF IInv
  <2>4. Awaited'
    BY <1>2, <2>1, AwaitedStays
  <2>5. TimedOut' = TimedOut
    BY <2>1 DEF TimedOut, Unanswered, UsesPipeline
  <2>6. Counted'
    BY <1>1, <1>4, <1>5, <1>6, <2>1, <2>5 DEF IInv, Counted, Waiting, Typed
  <2> QED BY <2>2, <2>3, <2>4, <2>6 DEF IInv
<1> QED BY <1>7, <1>8

-----------------------------------------------------------------------------

\* The strengthened invariant holds in every state.
LEMMA IInvHolds == Spec => []IInv
<1>1. Init => IInv
  BY InitKeeps
<1>2. IInv /\ [Next]_vars => IInv'
  <2> SUFFICES ASSUME IInv, [Next]_vars PROVE IInv'
    OBVIOUS
  <2>1. CASE Specialist
    BY <2>1, TakeKeeps, CallKeeps, TimeoutKeeps DEF Specialist
  <2>2. CASE Worker
    BY <2>2, EnsurePipelineKeeps, BuildKeeps, ProcessKeeps, DeliverKeeps DEF Worker
  <2>3. CASE UNCHANGED vars
    <3>1. UNCHANGED <<queue, task, phase, barren, workers, pipeline, built, answers>>
      BY <2>3 DEF vars
    <3>2. Typed' /\ Heard' /\ Awaited'
      BY <3>1 DEF IInv, Typed, Heard, Awaited, UsesPipeline
    <3>3. Counted'
      BY <3>1, Uncounted DEF IInv, Counted, Waiting
    <3> QED BY <3>2, <3>3 DEF IInv
  <2> QED BY <2>1, <2>2, <2>3 DEF Next
<1> QED BY <1>1, <1>2, PTL DEF Spec

\* No call takes the answer of a thread that another call gave up on
\* (engines.py:450-480).
THEOREM AnswersStayCurrent == Spec => []AnswersAreCurrent
<1>1. IInv => AnswersAreCurrent
  BY DEF IInv, Heard, AnswersAreCurrent
<1> QED BY <1>1, IInvHolds, PTL

\* Threads and pipelines pile up no faster than calls run into their time limit
\* (engines.py:444-480).
THEOREM OverlapNeedsTimeout == Spec => []OverlapOnlyAfterTimeout
<1>1. IInv => OverlapOnlyAfterTimeout
  <2> SUFFICES ASSUME IInv PROVE OverlapOnlyAfterTimeout
    OBVIOUS
  <2>1. Cardinality(Building) \in Nat /\ TimedOut \in Nat /\ built \in Nat
    BY SetsAreFinite DEF IInv, Typed
  <2> QED BY <2>1 DEF IInv, Counted, Waiting, OverlapOnlyAfterTimeout
<1> QED BY <1>1, IInvHolds, PTL

-----------------------------------------------------------------------------
(* With a file taken away, those behind it move up by one.                 *)

Shift(i, j) == IF j < i THEN j ELSE j + 1

LEMMA LeastNat ==
  ASSUME NEW S, S \subseteq Nat, S # {}
  PROVE  Min(S) \in S /\ \A x \in S : Min(S) <= x
<1>1. PICK n \in S : \A m \in S : ~(<<m, n>> \in OpToRel(<, Nat))
  BY NatLessThanWellFounded, WFMin
<1>2. \A m \in S : ~ (m < n)
  BY <1>1 DEF OpToRel
<1>3. \E x \in S : \A y \in S : x <= y
  BY <1>2
<1> QED
  BY <1>3, Zenon DEF Min

LEMMA MinIs ==
  ASSUME NEW S, S \subseteq Nat, NEW n \in S, \A x \in S : n <= x
  PROVE  Min(S) = n
<1>1. Min(S) \in S /\ \A x \in S : Min(S) <= x
  <2>1. S # {}
    OBVIOUS
  <2> QED
    BY <2>1, LeastNat
<1>2. n <= Min(S) /\ Min(S) <= n
  BY <1>1
<1>3. n \in Nat /\ Min(S) \in Nat
  BY <1>1
<1> HIDE <1>1
<1> QED
  BY <1>2, <1>3

LEMMA TakenAway ==
  ASSUME NEW T, NEW s \in Seq(T), NEW i \in DOMAIN s
  PROVE  LET r == RemoveAt(s, i)
         IN  /\ DOMAIN s = 1..Len(s) /\ Len(s) \in Nat
             /\ r \in Seq(T) /\ DOMAIN r = 1..(Len(s) - 1)
             /\ \A j \in DOMAIN r : Shift(i, j) \in DOMAIN s \ {i} /\ r[j] = s[Shift(i, j)]
             /\ \A k \in DOMAIN s \ {i} : \E j \in DOMAIN r : k = Shift(i, j)
<1> DEFINE a == SubSeq(s, 1, i - 1)
           b == SubSeq(s, i + 1, Len(s))
           r == RemoveAt(s, i)
           n == Len(s)
<1>1. DOMAIN s = 1..n /\ n \in Nat /\ i \in 1..n
  OBVIOUS
<1>2. a \in Seq(T) /\ Len(a) = i - 1 /\ \A j \in 1..(i - 1) : a[j] = s[j]
  BY <1>1
<1>3. b \in Seq(T) /\ Len(b) = n - i /\ \A j \in 1..(n - i) : b[j] = s[i + j]
  BY <1>1
<1>4. r = a \o b
  BY DEF RemoveAt
<1> HIDE DEF a, b, n, r
<1>5. r \in Seq(T) /\ Len(r) = n - 1
  <2>1. a \o b \in Seq(T) /\ Len(a \o b) = Len(a) + Len(b)
    BY <1>2, <1>3, ConcatProperties, Zenon
  <2>2. Len(a) + Len(b) = n - 1
    <3>1. i \in Int /\ n \in Int /\ (i - 1) + (n - i) = n - 1
      BY <1>1
    <3> QED
      BY <1>2, <1>3, <3>1
  <2> QED
    BY <1>4, <2>1, <2>2
<1>6. \A j \in 1..(n - 1) : r[j] = IF j <= i - 1 THEN a[j] ELSE b[j - (i - 1)]
  BY <1>1, <1>2, <1>3, <1>4, ConcatProperties
<1>7. DOMAIN r = 1..(n - 1)
  BY <1>5
<1>8. ASSUME NEW j \in 1..(n - 1)
      PROVE  Shift(i, j) \in 1..n /\ Shift(i, j) # i /\ r[j] = s[Shift(i, j)]
  <2>1. CASE j < i
    BY <1>1, <1>2, <1>6, <2>1 DEF Shift
  <2>2. CASE ~(j < i)
    <3>1. j - (i - 1) \in 1..(n - i) /\ i + (j - (i - 1)) = j + 1
      BY <1>1, <2>2
    <3>2. r[j] = s[j + 1]
      BY <1>1, <1>3, <1>6, <2>2, <3>1
    <3> QED
      BY <1>1, <2>2, <3>2 DEF Shift
  <2> QED
    BY <2>1, <2>2
<1>9. ASSUME NEW k \in 1..n, k # i PROVE \E j \in 1..(n - 1) : k = Shift(i, j)
  <2>1. CASE k < i
    BY <1>1, <2>1 DEF Shift
  <2>2. CASE k > i
    <3>1. k - 1 \in 1..(n - 1) /\ Shift(i, k - 1) = k
      BY <1>1, <2>2 DEF Shift
    <3> QED
      BY <3>1
  <2> QED
    BY <1>1, <1>9, <2>1, <2>2
<1> QED
  BY <1>1, <1>5, <1>7, <1>8, <1>9 DEF r, n

\* The first of some that stay is the first of them afterwards.
LEMMA FirstStays ==
  ASSUME NEW i \in Nat, NEW G, G \subseteq Nat, NEW H, H = {Shift(i, j) : j \in G}
  PROVE  /\ H = {} <=> G = {}
         /\ G # {} => Min(G) \in G /\ Min(H) \in H /\ Min(H) = Shift(i, Min(G))
<1>1. H = {} <=> G = {}
  OBVIOUS
<1>2. ASSUME G # {} PROVE Min(G) \in G /\ Min(H) \in H /\ Min(H) = Shift(i, Min(G))
  <2>1. Min(G) \in G /\ \A x \in G : Min(G) <= x
    BY <1>2, LeastNat
  <2> DEFINE g == Min(G)
  <2>0. g \in G /\ \A x \in G : g <= x
    BY <2>1
  <2> HIDE DEF g
  <2>5. ASSUME NEW j \in G PROVE Shift(i, j) \in Nat /\ Shift(i, g) <= Shift(i, j)
    <3>1. j \in Nat /\ g \in Nat /\ g <= j
      BY <2>0
    <3> QED
      BY <3>1 DEF Shift
  <2>2. H \subseteq Nat /\ Shift(i, g) \in H
    BY <2>0, <2>5
  <2>3. \A x \in H : Shift(i, g) <= x
    BY <2>5
  <2>4. Min(H) = Shift(i, g)
    BY <2>2, <2>3, MinIs
  <2> QED
    BY <2>1, <2>2, <2>4 DEF g
<1> QED
  BY <1>1, <1>2

\* qs is ps with the numbers moved up to close a gap at i.
ClosesGap(i, ps, qs) ==
  /\ DOMAIN qs \subseteq Nat
  /\ DOMAIN ps = {Shift(i, j) : j \in DOMAIN qs}
  /\ \A j \in DOMAIN qs : qs[j] = ps[Shift(i, j)]

LEMMA SameActions ==
  ASSUME NEW i \in Nat, NEW ps, NEW qs, ClosesGap(i, ps, qs)
  PROVE  NextActions(qs) = NextActions(ps)
BY Zenon DEF ClosesGap, NextActions

LEMMA SameListing ==
  ASSUME NEW i \in Nat, NEW ps, NEW qs, ClosesGap(i, ps, qs), NEW read
  PROVE  Listing(qs, read) = Listing(ps, read) /\ (DOMAIN qs = {} <=> DOMAIN ps = {})
<1>1. /\ DOMAIN ps = {} <=> DOMAIN qs = {}
      /\ DOMAIN qs # {} => /\ Min(DOMAIN qs) \in DOMAIN qs
                           /\ Min(DOMAIN ps) = Shift(i, Min(DOMAIN qs))
  BY FirstStays DEF ClosesGap
<1>2. DOMAIN qs # {} => qs[Min(DOMAIN qs)] = ps[Min(DOMAIN ps)]
  BY <1>1 DEF ClosesGap
<1> QED
  BY <1>1, <1>2 DEF Listing

LEMMA SameDump ==
  ASSUME NEW i \in Nat, NEW ps, NEW qs, ClosesGap(i, ps, qs), NEW read
  PROVE  Dump(qs, read) = Dump(ps, read) /\ (Hints(qs, read) <=> Hints(ps, read))
<1> DEFINE G == {j \in DOMAIN qs : qs[j].rodata.bytes # <<>>}
           H == {j \in DOMAIN ps : ps[j].rodata.bytes # <<>>}
<1>1. H = {Shift(i, j) : j \in G} /\ G \subseteq Nat
  BY DEF ClosesGap
<1> HIDE DEF G, H
<1>2. /\ H = {} <=> G = {}
      /\ G # {} => Min(G) \in G /\ Min(H) = Shift(i, Min(G))
  BY <1>1, FirstStays
<1>3. G # {} => qs[Min(G)] = ps[Min(H)]
  BY <1>2 DEF ClosesGap, G
<1>4. /\ Dump(qs, read) = IF "rodata" \notin read \/ G = {} THEN <<>>
                          ELSE ParseRodata(qs[Min(G)].rodata)
      /\ Dump(ps, read) = IF "rodata" \notin read \/ H = {} THEN <<>>
                          ELSE ParseRodata(ps[Min(H)].rodata)
  BY Zenon DEF Dump, G, H
<1>5. Dump(qs, read) = Dump(ps, read)
  BY <1>2, <1>3, <1>4
<1>6. Hints(qs, read) <=> Hints(ps, read)
  BY <1>2 DEF Hints, G, H
<1> QED
  BY <1>5, <1>6

LEMMA SameRefined ==
  ASSUME NEW i \in Nat, NEW ps, NEW qs, ClosesGap(i, ps, qs), NEW read, NEW actions
  PROVE  Refine(actions, qs, read) = Refine(actions, ps, read)
<1>1. (\E j \in DOMAIN qs : qs[j].compares) <=> (\E j \in DOMAIN ps : ps[j].compares)
  BY Zenon DEF ClosesGap
<1>2. (\E j \in DOMAIN qs : qs[j].inputs) <=> (\E j \in DOMAIN ps : ps[j].inputs)
  BY Zenon DEF ClosesGap
<1>3. (\E j \in DOMAIN qs : \E k \in DOMAIN qs[j].code : qs[j].code[k].op \in {"test", "call"})
      <=> (\E j \in DOMAIN ps : \E k \in DOMAIN ps[j].code : ps[j].code[k].op \in {"test", "call"})
  BY Zenon DEF ClosesGap
<1> QED
  BY <1>1, <1>2, <1>3, Zenon DEF Refine

LEMMA SameSolved ==
  ASSUME NEW i \in Nat, NEW ps, NEW qs, ClosesGap(i, ps, qs), NEW read
  PROVE  SolveSelfXor(qs, read) = SolveSelfXor(ps, read)
<1>1. Listing(qs, read) = Listing(ps, read)
  BY SameListing
<1>2. Dump(qs, read) = Dump(ps, read) /\ Hints(qs, read) = Hints(ps, read)
  BY SameDump DEF Hints
<1>3. \A code, path : Compares(qs, read, code, path) = Compares(ps, read, code, path)
  BY Zenon DEF ClosesGap, Compares
<1>4. HelperSeen(qs, read) = HelperSeen(ps, read)
  BY <1>1, <1>2, <1>3, Zenon DEF HelperSeen
<1> QED
  BY <1>1, <1>2, <1>4, Zenon DEF SolveSelfXor

LEMMA SameReverseAnswers ==
  ASSUME NEW i \in Nat, NEW ps, NEW qs, ClosesGap(i, ps, qs), NEW fate
  PROVE  ReverseAnswers(qs, fate) = ReverseAnswers(ps, fate)
<1>1. NextActions(qs) = NextActions(ps)
  BY SameActions
<1>2. \A actions, read : Refine(actions, qs, read) = Refine(actions, ps, read)
  BY SameRefined
<1>3. \A read : SolveSelfXor(qs, read) = SolveSelfXor(ps, read)
  BY SameSolved
<1> QED
  BY <1>1, <1>2, <1>3, Zenon DEF ReverseAnswers

LEMMA ReadableMove ==
  ASSUME NEW T, NEW s \in Seq(T), NEW i \in DOMAIN s, ~IsReadable(s[i])
  PROVE  LET r == RemoveAt(s, i)
         IN  /\ ReadableIn(s) = {Shift(i, j) : j \in ReadableIn(r)}
             /\ ReadableIn(r) \subseteq Nat
             /\ \A j \in ReadableIn(r) : r[j] = s[Shift(i, j)]
<1> DEFINE r == RemoveAt(s, i)
<1>1. /\ DOMAIN r = 1..(Len(s) - 1)
      /\ \A j \in DOMAIN r : Shift(i, j) \in DOMAIN s \ {i} /\ r[j] = s[Shift(i, j)]
      /\ \A k \in DOMAIN s \ {i} : \E j \in DOMAIN r : k = Shift(i, j)
  BY TakenAway
<1> HIDE DEF r
<1>2. ReadableIn(r) \subseteq Nat
  BY <1>1 DEF ReadableIn
<1>3. ASSUME NEW k \in ReadableIn(s) PROVE \E j \in ReadableIn(r) : k = Shift(i, j)
  <2>1. k \in DOMAIN s \ {i} /\ IsReadable(s[k])
    BY DEF ReadableIn
  <2>2. PICK j \in DOMAIN r : k = Shift(i, j)
    BY <1>1, <2>1
  <2>3. IsReadable(r[j])
    BY <1>1, <2>1, <2>2
  <2> QED
    BY <2>2, <2>3 DEF ReadableIn
<1>4. ASSUME NEW j \in ReadableIn(r) PROVE Shift(i, j) \in ReadableIn(s) /\ r[j] = s[Shift(i, j)]
  BY <1>1 DEF ReadableIn
<1> QED
  BY <1>2, <1>3, <1>4 DEF r

\* Of a function a on files, the first value that is one.
FirstValue(files, a) ==
  LET hits == {j \in ReadableIn(files) : a[files[j]] # NoClaim}
  IN IF hits = {} THEN NoClaim ELSE a[files[Min(hits)]]

LEMMA FirstValueStays ==
  ASSUME NEW T, NEW s \in Seq(T), NEW i \in DOMAIN s, ~IsReadable(s[i]), NEW a
  PROVE  FirstValue(RemoveAt(s, i), a) = FirstValue(s, a)
<1> DEFINE r == RemoveAt(s, i)
           G == {j \in ReadableIn(r) : a[r[j]] # NoClaim}
           H == {j \in ReadableIn(s) : a[s[j]] # NoClaim}
<1>1. i \in Nat
  OBVIOUS
<1>2. /\ ReadableIn(s) = {Shift(i, j) : j \in ReadableIn(r)}
      /\ ReadableIn(r) \subseteq Nat
      /\ \A j \in ReadableIn(r) : r[j] = s[Shift(i, j)]
  BY ReadableMove
<1> HIDE DEF r
<1>3. H = {Shift(i, j) : j \in G} /\ G \subseteq Nat
  BY <1>2
<1>4. \A j \in G : r[j] = s[Shift(i, j)]
  BY <1>2
<1> HIDE DEF G, H
<1>5. /\ H = {} <=> G = {}
      /\ G # {} => Min(G) \in G /\ Min(H) = Shift(i, Min(G))
  BY <1>1, <1>3, FirstStays
<1>6. G # {} => r[Min(G)] = s[Min(H)]
  BY <1>4, <1>5
<1>7. FirstValue(r, a) = (IF G = {} THEN NoClaim ELSE a[r[Min(G)]])
  BY Zenon DEF FirstValue, G
<1>8. FirstValue(s, a) = (IF H = {} THEN NoClaim ELSE a[s[Min(H)]])
  BY Zenon DEF FirstValue, H
<1> QED
  BY <1>5, <1>6, <1>7, <1>8 DEF r

LEMMA SpecFirst ==
  ASSUME NEW T, NEW s \in Seq(T)
  PROVE  FirstAnswer(s, SpecAnswer) = FirstValue(s, [f \in T |-> SpecAnswer(f)])
<1> DEFINE a == [f \in T |-> SpecAnswer(f)]
           H == {j \in ReadableIn(s) : SpecAnswer(s[j]) # NoClaim}
<1>1. /\ ReadableIn(s) \subseteq Nat
      /\ \A j \in ReadableIn(s) : a[s[j]] = SpecAnswer(s[j])
  BY DEF ReadableIn
<1>2. H = {j \in ReadableIn(s) : a[s[j]] # NoClaim}
  BY <1>1
<1>3. H # {} => Min(H) \in H /\ a[s[Min(H)]] = SpecAnswer(s[Min(H)])
  BY <1>1, LeastNat
<1> HIDE DEF a
<1>4. FirstValue(s, a) = (IF H = {} THEN NoClaim ELSE a[s[Min(H)]])
  BY <1>2, Zenon DEF FirstValue
<1>5. FirstAnswer(s, SpecAnswer) =
        (IF H = {} THEN NoClaim ELSE SpecAnswer(s[Min(H)]))
  BY Zenon DEF FirstAnswer, H
<1> QED
  BY <1>3, <1>4, <1>5 DEF a

LEMMA CryptoFirst ==
  ASSUME NEW T, NEW s \in Seq(T), NEW x
  PROVE  FirstAnswer(s, LAMBDA f : CryptoAnswer(f, x)) = FirstValue(s, [f \in T |-> CryptoAnswer(f, x)])
<1> DEFINE a == [f \in T |-> CryptoAnswer(f, x)]
           H == {j \in ReadableIn(s) : CryptoAnswer(s[j], x) # NoClaim}
<1>1. /\ ReadableIn(s) \subseteq Nat
      /\ \A j \in ReadableIn(s) : a[s[j]] = CryptoAnswer(s[j], x)
  BY DEF ReadableIn
<1>2. H = {j \in ReadableIn(s) : a[s[j]] # NoClaim}
  BY <1>1
<1>3. H # {} => Min(H) \in H /\ a[s[Min(H)]] = CryptoAnswer(s[Min(H)], x)
  BY <1>1, LeastNat
<1> HIDE DEF a
<1>4. FirstValue(s, a) = (IF H = {} THEN NoClaim ELSE a[s[Min(H)]])
  BY <1>2, Zenon DEF FirstValue
<1>5. FirstAnswer(s, LAMBDA f : CryptoAnswer(f, x)) =
        (IF H = {} THEN NoClaim ELSE CryptoAnswer(s[Min(H)], x))
  BY Zenon DEF FirstAnswer, H
<1> QED
  BY <1>3, <1>4, <1>5 DEF a

LEMMA SearchFirst ==
  ASSUME NEW T, NEW s \in Seq(T), NEW x
  PROVE  FirstAnswer(s, LAMBDA f : SearchAnswer(f, x)) = FirstValue(s, [f \in T |-> SearchAnswer(f, x)])
<1> DEFINE a == [f \in T |-> SearchAnswer(f, x)]
           H == {j \in ReadableIn(s) : SearchAnswer(s[j], x) # NoClaim}
<1>1. /\ ReadableIn(s) \subseteq Nat
      /\ \A j \in ReadableIn(s) : a[s[j]] = SearchAnswer(s[j], x)
  BY DEF ReadableIn
<1>2. H = {j \in ReadableIn(s) : a[s[j]] # NoClaim}
  BY <1>1
<1>3. H # {} => Min(H) \in H /\ a[s[Min(H)]] = SearchAnswer(s[Min(H)], x)
  BY <1>1, LeastNat
<1> HIDE DEF a
<1>4. FirstValue(s, a) = (IF H = {} THEN NoClaim ELSE a[s[Min(H)]])
  BY <1>2, Zenon DEF FirstValue
<1>5. FirstAnswer(s, LAMBDA f : SearchAnswer(f, x)) =
        (IF H = {} THEN NoClaim ELSE SearchAnswer(s[Min(H)], x))
  BY Zenon DEF FirstAnswer, H
<1> QED
  BY <1>3, <1>4, <1>5 DEF a

LEMMA ProgramsMove ==
  ASSUME NEW T, NEW s \in Seq(T), NEW i \in DOMAIN s, s[i].fate = "outside"
  PROVE  ClosesGap(i, Programs(s), Programs(RemoveAt(s, i)))
<1> DEFINE r == RemoveAt(s, i)
           ps == Programs(s)
           qs == Programs(r)
<1>1. /\ DOMAIN r = 1..(Len(s) - 1)
      /\ \A j \in DOMAIN r : Shift(i, j) \in DOMAIN s \ {i} /\ r[j] = s[Shift(i, j)]
      /\ \A k \in DOMAIN s \ {i} : \E j \in DOMAIN r : k = Shift(i, j)
  BY TakenAway
<1> HIDE DEF r
<1>2. /\ DOMAIN ps = {k \in DOMAIN s : s[k].fate # "outside"}
      /\ \A k \in DOMAIN ps : ps[k] = s[k].program
      /\ DOMAIN qs = {k \in DOMAIN r : r[k].fate # "outside"}
      /\ \A k \in DOMAIN qs : qs[k] = r[k].program
  BY DEF Programs
<1> HIDE DEF ps, qs
<1>3. DOMAIN qs \subseteq Nat
  BY <1>1, <1>2
<1>4. ASSUME NEW k \in DOMAIN ps PROVE \E j \in DOMAIN qs : k = Shift(i, j)
  <2>1. k \in DOMAIN s \ {i} /\ s[k].fate # "outside"
    BY <1>2
  <2>2. PICK j \in DOMAIN r : k = Shift(i, j)
    BY <1>1, <2>1
  <2>3. r[j] = s[k]
    BY <1>1, <2>2
  <2> QED
    BY <1>2, <2>1, <2>2, <2>3
<1>5. ASSUME NEW j \in DOMAIN qs PROVE Shift(i, j) \in DOMAIN ps /\ qs[j] = ps[Shift(i, j)]
  BY <1>1, <1>2
<1> QED
  BY <1>3, <1>4, <1>5 DEF ClosesGap, ps, qs, r

LEMMA AnswersStay ==
  ASSUME NEW t \in Tasks, NEW i \in DOMAIN t.files, IsPassedOver(t, t.files[i])
  PROVE  StaticAnswers([t EXCEPT !.files = RemoveAt(@, i)]) = StaticAnswers(t)
<1> DEFINE s == t.files
           r == RemoveAt(s, i)
           u == [t EXCEPT !.files = RemoveAt(@, i)]
           T == ToSet(s)
<1>1. /\ s \in Seq(T) /\ i \in DOMAIN s /\ i \in Nat
      /\ u.files = r /\ u.category = t.category /\ u.format = t.format /\ u.tools = t.tools
  BY QueuesAssumption DEF IsTask
<1>2. ~IsReadable(s[i])
  BY DEF IsPassedOver, IsReadable
<1> HIDE DEF s, T, u
<1>3. r \in Seq(T)
  BY <1>1, TakenAway
<1>4. \A a : FirstValue(r, a) = FirstValue(s, a)
  BY <1>1, <1>2, FirstValueStays
<1> HIDE DEF r
<1>5. CASE UsesPipeline(t)
  <2>1. s[i].fate = "outside"
    BY <1>5 DEF IsPassedOver, s
  <2>2. FirstAnswer(r, SpecAnswer) = FirstAnswer(s, SpecAnswer)
    BY <1>1, <1>3, <1>4, SpecFirst
  <2>3. (\E j \in DOMAIN r : r[j].fate = "missing") <=> (\E j \in DOMAIN s : s[j].fate = "missing")
    <3>1. /\ \A j \in DOMAIN r : Shift(i, j) \in DOMAIN s \ {i} /\ r[j] = s[Shift(i, j)]
          /\ \A k \in DOMAIN s \ {i} : \E j \in DOMAIN r : k = Shift(i, j)
      BY <1>1, TakenAway DEF r
    <3>2. ASSUME NEW k \in DOMAIN s, s[k].fate = "missing"
          PROVE  \E j \in DOMAIN r : r[j].fate = "missing"
      <4>1. k \in DOMAIN s \ {i}
        BY <2>1, <3>2
      <4>2. PICK j \in DOMAIN r : k = Shift(i, j)
        BY <3>1, <4>1
      <4> QED
        BY <3>1, <3>2, <4>2
    <3> QED
      BY <3>1, <3>2
  <2>4. ClosesGap(i, Programs(s), Programs(r))
    BY <1>1, <2>1, ProgramsMove DEF r
  <2>5. /\ NextActions(Programs(r)) = NextActions(Programs(s))
        /\ DOMAIN Programs(r) = {} <=> DOMAIN Programs(s) = {}
        /\ ReverseAnswers(Programs(r), t.tools) = ReverseAnswers(Programs(s), t.tools)
    BY <1>1, <2>4, SameActions, SameListing, SameReverseAnswers
  <2>6. AdapterAnswers(u) = AdapterAnswers(t)
    BY <1>1, <2>2, <2>3, <2>5, Zenon DEF AdapterAnswers, s
  <2>7. UsesPipeline(u)
    BY <1>1, <1>5 DEF UsesPipeline
  <2> QED
    BY <1>5, <2>6, <2>7 DEF StaticAnswers, u
<1>6. CASE ~UsesPipeline(t)
  <2>1. ~UsesPipeline(u)
    BY <1>1, <1>6 DEF UsesPipeline
  <2> DEFINE C(x) == [f \in T |-> CryptoAnswer(f, x)]
             D(x) == [f \in T |-> SearchAnswer(f, x)]
  <2>2. StaticAnswers(t) =
          IF t.category = "crypto" THEN {FirstValue(s, C(t.format))}
          ELSE {FirstValue(s, D(t.format))}
    <3>1. /\ FirstAnswer(s, LAMBDA f : CryptoAnswer(f, t.format)) = FirstValue(s, C(t.format))
          /\ FirstAnswer(s, LAMBDA f : SearchAnswer(f, t.format)) = FirstValue(s, D(t.format))
      BY <1>1, CryptoFirst, SearchFirst, Zenon
    <3> QED
      BY <1>6, <3>1, Zenon DEF StaticAnswers, s
  <2>3. StaticAnswers(u) =
          IF u.category = "crypto" THEN {FirstValue(r, C(u.format))}
          ELSE {FirstValue(r, D(u.format))}
    <3>1. /\ FirstAnswer(u.files, LAMBDA f : CryptoAnswer(f, u.format)) = FirstValue(u.files, C(u.format))
          /\ FirstAnswer(u.files, LAMBDA f : SearchAnswer(f, u.format)) = FirstValue(u.files, D(u.format))
      BY <1>1, <1>3, CryptoFirst, SearchFirst, Zenon
    <3>2. StaticAnswers(u) =
            IF u.category = "crypto" THEN {FirstValue(u.files, C(u.format))}
            ELSE {FirstValue(u.files, D(u.format))}
      BY <2>1, <3>1, Zenon DEF StaticAnswers
    <3> QED
      BY <1>1, <3>2, Zenon
  <2> HIDE DEF C, D
  <2>4. StaticAnswers(u) = StaticAnswers(t)
    BY <1>1, <1>4, <2>2, <2>3, Zenon
  <2> QED
    BY <2>4 DEF u, r, s
<1> QED
  BY <1>5, <1>6

\* engines.py:107-118, 700-701.  Whatever tasks come, a file outside the workspace, or
\* for the engines without a pipeline one that is missing, never changes what the other
\* files answer.
THEOREM UnreadableFilesNeverMatter == Spec => []UnreadableFilesDoNotMatter
<1>1. IInv => UnreadableFilesDoNotMatter
  <2> SUFFICES ASSUME IInv, phase = "call", NEW i \in DOMAIN task.files,
                      IsPassedOver(task, task.files[i])
               PROVE  Found[task] = StaticAnswers([task EXCEPT !.files = RemoveAt(@, i)])
    BY DEF UnreadableFilesDoNotMatter
  <2>1. task \in Tasks
    BY DEF IInv, Typed
  <2>2. Found[task] = StaticAnswers(task)
    BY <2>1 DEF Found
  <2> QED
    BY <2>1, <2>2, AnswersStay
<1> QED
  BY <1>1, IInvHolds, PTL

-----------------------------------------------------------------------------
(* The buffer that is put together from a helper is the one that the lines *)
(* leave, read one after the other.                                        *)

LEMMA NatClosed ==
  ASSUME NEW S, 0 \in S, \A n \in S \cap Nat : n + 1 \in S
  PROVE  Nat \subseteq S
<1> SUFFICES ASSUME Nat \ S # {} PROVE FALSE
  OBVIOUS
<1>1. PICK n \in Nat \ S : \A m \in Nat \ S : n <= m
  BY LeastNat
<1>2. n # 0 /\ n - 1 \in Nat /\ n - 1 \in S /\ (n - 1) + 1 = n
  BY <1>1
<1> QED
  BY <1>1, <1>2

LEMMA MaxIs ==
  ASSUME NEW S, S \subseteq Nat, NEW m \in S, \A x \in S : x <= m
  PROVE  Max(S) = m
<1>1. \E x \in S : \A y \in S : x >= y
  OBVIOUS
<1>2. Max(S) \in S /\ \A y \in S : Max(S) >= y
  BY <1>1, Zenon DEF Max
<1>3. m \in Nat /\ Max(S) \in Nat /\ Max(S) >= m /\ Max(S) <= m
  BY <1>2
<1> HIDE <1>2
<1> QED
  BY <1>3

LEMMA Greatest ==
  ASSUME NEW n \in Nat, NEW S, S \subseteq 0..n, S # {}
  PROVE  Max(S) \in S /\ \A x \in S : x <= Max(S)
<1> DEFINE D == {n - x : x \in S}
<1>1. D \subseteq Nat /\ D # {}
  <2>1. \A x \in S : n - x \in Nat
    OBVIOUS
  <2> QED
    BY <2>1
<1>2. Min(D) \in D /\ \A d \in D : Min(D) <= d
  BY <1>1, LeastNat
<1>3. PICK m \in S : \A x \in S : n - m <= n - x
  BY <1>2
<1>4. S \subseteq Nat /\ \A x \in S : x <= m
  BY <1>3
<1>5. Max(S) = m
  BY <1>4, MaxIs
<1> QED
  BY <1>4, <1>5

\* r holds what is read after each line.
IsScan(r, code, from, to, len, rodata) ==
  r = [k \in from - 1 .. to |->
         IF k = from - 1 THEN NothingRead(len) ELSE HelperLine(code[k], len, rodata, r[k - 1])]

LEMMA ScansExist ==
  ASSUME NEW code, NEW from \in Nat \ {0}, NEW len, NEW rodata
  PROVE  \A n \in Nat : \E r : IsScan(r, code, from, from - 1 + n, len, rodata)
<1> DEFINE S == {n \in Nat : \E r : IsScan(r, code, from, from - 1 + n, len, rodata)}
<1>1. 0 \in S
  <2> DEFINE r == [k \in {from - 1} |-> NothingRead(len)]
  <2>1. from - 1 .. from - 1 + 0 = {from - 1}
    OBVIOUS
  <2>2. r = [k \in {from - 1} |-> IF k = from - 1 THEN NothingRead(len)
                                  ELSE HelperLine(code[k], len, rodata, r[k - 1])]
    OBVIOUS
  <2>3. IsScan(r, code, from, from - 1 + 0, len, rodata)
    BY <2>1, <2>2, Zenon DEF IsScan
  <2> QED
    BY <2>3
<1>2. ASSUME NEW n \in S \cap Nat PROVE n + 1 \in S
  <2>1. PICK r : IsScan(r, code, from, from - 1 + n, len, rodata)
    OBVIOUS
  <2> DEFINE m == from - 1 + n
             q == [k \in from - 1 .. m + 1 |->
                     IF k = m + 1 THEN HelperLine(code[k], len, rodata, r[m]) ELSE r[k]]
             Then(k) == IF k = from - 1 THEN NothingRead(len)
                        ELSE HelperLine(code[k], len, rodata, q[k - 1])
  <2>2. m \in Nat /\ from - 1 \in Nat /\ m >= from - 1 /\ from - 1 + (n + 1) = m + 1
    OBVIOUS
  <2>3. \A k \in from - 1 .. m :
           r[k] = IF k = from - 1 THEN NothingRead(len) ELSE HelperLine(code[k], len, rodata, r[k - 1])
    BY <2>1 DEF IsScan
  <2>4. \A k \in from - 1 .. m : q[k] = r[k] /\ k # m + 1
    BY <2>2
  <2>5. ASSUME NEW k \in from - 1 .. m + 1 PROVE q[k] = Then(k)
    <3>1. CASE k = m + 1
      <4>1. k - 1 = m /\ m \in from - 1 .. m /\ k # from - 1
        BY <2>2, <3>1
      <4>2. q[k] = HelperLine(code[k], len, rodata, r[m]) /\ q[m] = r[m]
        BY <2>4, <3>1, <4>1
      <4> HIDE DEF q, m
      <4> QED
        BY <4>1, <4>2
    <3>2. CASE k # m + 1
      <4>1. k \in from - 1 .. m /\ (k # from - 1 => k - 1 \in from - 1 .. m)
        BY <2>2, <3>2
      <4>2. q[k] = r[k] /\ (k # from - 1 => q[k - 1] = r[k - 1])
        BY <2>4, <4>1
      <4> HIDE DEF q, m
      <4> QED
        BY <2>3, <4>1, <4>2
    <3> QED
      BY <3>1, <3>2
  <2>6. q = [k \in from - 1 .. m + 1 |-> q[k]]
    OBVIOUS
  <2> HIDE DEF q, m
  <2>7. IsScan(q, code, from, m + 1, len, rodata)
    BY <2>5, <2>6 DEF IsScan
  <2> QED
    BY <2>2, <2>7
<1> HIDE DEF S
<1>3. Nat \subseteq S
  BY <1>1, <1>2, NatClosed
<1> QED
  BY <1>3 DEF S

\* r holds what is read up to each line.
IsReading(r, code, from, to, len, rodata) ==
  /\ r[from - 1] = NothingRead(len)
  /\ \A k \in from .. to : r[k] = HelperLine(code[k], len, rodata, r[k - 1])

LEMMA ScanIs ==
  ASSUME NEW from \in Nat \ {0}, NEW to \in Nat, to >= from - 1, NEW code, NEW len, NEW rodata
  PROVE  \E r : /\ HelperScan(code, from, to, len, rodata) = r[to]
                /\ IsReading(r, code, from, to, len, rodata)
<1> DEFINE r == CHOOSE r : IsScan(r, code, from, to, len, rodata)
<1>1. \E x : IsScan(x, code, from, to, len, rodata)
  <2>1. to - (from - 1) \in Nat /\ from - 1 + (to - (from - 1)) = to
    OBVIOUS
  <2> QED
    BY <2>1, ScansExist
<1>2. IsScan(r, code, from, to, len, rodata)
  BY <1>1, Zenon
<1>3. HelperScan(code, from, to, len, rodata) = r[to]
  BY Zenon DEF HelperScan, IsScan
<1> HIDE DEF r
<1>4. r[from - 1] = NothingRead(len)
  BY <1>2 DEF IsScan
<1>5. \A k \in from .. to : r[k] = HelperLine(code[k], len, rodata, r[k - 1])
  <2>1. \A k \in from .. to : k \in from - 1 .. to /\ k # from - 1
    OBVIOUS
  <2> QED
    BY <1>2, <2>1 DEF IsScan
<1> QED
  BY <1>3, <1>4, <1>5, Zenon DEF IsReading

(* What is read of the lines from..k, told of the lines themselves.        *)
Having(code, from, k, op) == {i \in from .. k : code[i].op = op}
Since(code, from, k) ==
  {i \in from .. k : code[i].op = "load" /\ \A m \in i .. k : code[m].op # "store"}
Copying(code, from, k) ==
  {j \in from .. k : code[j].op = "store" /\ Since(code, from, j - 1) # {}}
CoveringAt(code, from, k, b) ==
  {j \in Copying(code, from, k) : b - code[j].n \in 0 .. Chunk - 1}
LastN(code, S) == IF S = {} THEN Unset ELSE code[Max(S)].n
SourceAt(code, from, j, b) == LastN(code, Since(code, from, j - 1)) + (b - code[j].n)

LEMMA LastOfMore ==
  ASSUME NEW from \in Nat \ {0}, NEW k \in Nat, NEW S, S \subseteq from .. k
  PROVE  Max(S \cup {k + 1}) = k + 1
<1>1. S \cup {k + 1} \subseteq Nat /\ \A x \in S \cup {k + 1} : x <= k + 1
  OBVIOUS
<1> QED
  BY <1>1, MaxIs

LEMMA HavingGrows ==
  ASSUME NEW from \in Nat \ {0}, NEW k \in Nat, k + 1 >= from, NEW code, NEW op
  PROVE  /\ Having(code, from, k, op) \subseteq from .. k
         /\ code[k + 1].op = op =>
              LastN(code, Having(code, from, k + 1, op)) = code[k + 1].n
         /\ code[k + 1].op # op =>
              LastN(code, Having(code, from, k + 1, op)) = LastN(code, Having(code, from, k, op))
<1>1. from .. k + 1 = (from .. k) \cup {k + 1}
  OBVIOUS
<1>2. Having(code, from, k, op) \subseteq from .. k
  BY DEF Having
<1>3. Max(Having(code, from, k, op) \cup {k + 1}) = k + 1
  BY <1>2, LastOfMore
<1>4. CASE code[k + 1].op = op
  <2>1. Having(code, from, k + 1, op) = Having(code, from, k, op) \cup {k + 1}
    BY <1>1, <1>4 DEF Having
  <2> QED
    BY <1>2, <1>3, <1>4, <2>1 DEF LastN
<1>5. CASE code[k + 1].op # op
  <2>1. Having(code, from, k + 1, op) = Having(code, from, k, op)
    BY <1>1, <1>5 DEF Having
  <2> QED
    BY <1>2, <1>5, <2>1 DEF LastN
<1> QED
  BY <1>4, <1>5

LEMMA SinceGrows ==
  ASSUME NEW code, NEW from \in Nat \ {0}, NEW k \in Nat, k + 1 >= from
  PROVE  /\ Since(code, from, k) \subseteq from .. k
         /\ Since(code, from, k + 1) =
              IF code[k + 1].op = "load" THEN Since(code, from, k) \cup {k + 1}
              ELSE IF code[k + 1].op = "store" THEN {} ELSE Since(code, from, k)
         /\ LastN(code, Since(code, from, k + 1)) =
              IF code[k + 1].op = "load" THEN code[k + 1].n
              ELSE IF code[k + 1].op = "store" THEN Unset ELSE LastN(code, Since(code, from, k))
<1> DEFINE A == Since(code, from, k)
           B == Since(code, from, k + 1)
<1>1. from .. k + 1 = (from .. k) \cup {k + 1} /\ k + 1 \notin from .. k
  OBVIOUS
<1>2. \A i \in from .. k : i .. k + 1 = (i .. k) \cup {k + 1}
  OBVIOUS
<1>3. (k + 1) .. (k + 1) = {k + 1}
  OBVIOUS
<1>4. A \subseteq from .. k
  BY DEF Since
<1>5. \A i \in from .. k :
        i \in B <=> /\ code[i].op = "load" /\ \A m \in i .. k : code[m].op # "store"
                    /\ code[k + 1].op # "store"
  BY <1>1, <1>2 DEF Since
<1>6. k + 1 \in B <=> code[k + 1].op = "load"
  BY <1>1, <1>3 DEF Since
<1>7. \A i \in from .. k : i \in B <=> i \in A /\ code[k + 1].op # "store"
  BY <1>5 DEF Since
<1>8. B \subseteq from .. k + 1
  BY DEF Since
<1> HIDE DEF A, B
<1>9. B = IF code[k + 1].op = "load" THEN A \cup {k + 1}
          ELSE IF code[k + 1].op = "store" THEN {} ELSE A
  <2>1. CASE code[k + 1].op = "load"
    <3>1. code[k + 1].op # "store"
      BY <2>1
    <3>2. B = A \cup {k + 1}
      BY <1>1, <1>4, <1>6, <1>7, <1>8, <2>1, <3>1
    <3> QED
      BY <2>1, <3>2
  <2>2. CASE code[k + 1].op = "store"
    <3>1. code[k + 1].op # "load"
      BY <2>2
    <3>2. B = {}
      BY <1>1, <1>4, <1>6, <1>7, <1>8, <2>2, <3>1
    <3> QED
      BY <2>2, <3>1, <3>2
  <2>3. CASE code[k + 1].op # "load" /\ code[k + 1].op # "store"
    <3>1. B = A
      BY <1>1, <1>4, <1>6, <1>7, <1>8, <2>3
    <3> QED
      BY <2>3, <3>1
  <2> QED
    BY <2>1, <2>2, <2>3
<1>10. Max(A \cup {k + 1}) = k + 1
  BY <1>4, LastOfMore
<1>11. LastN(code, B) =
         IF code[k + 1].op = "load" THEN code[k + 1].n
         ELSE IF code[k + 1].op = "store" THEN Unset ELSE LastN(code, A)
  BY <1>9, <1>10 DEF LastN
<1> QED
  BY <1>4, <1>9, <1>11 DEF A, B

IsCopy(code, from, k) == code[k].op = "store" /\ Since(code, from, k - 1) # {}
IsCover(code, from, k, b) == IsCopy(code, from, k) /\ b - code[k].n \in 0 .. Chunk - 1

LEMMA CopyingGrows ==
  ASSUME NEW from \in Nat \ {0}, NEW k \in Nat, k + 1 >= from, NEW code
  PROVE  Copying(code, from, k + 1) =
           IF IsCopy(code, from, k + 1) THEN Copying(code, from, k) \cup {k + 1}
           ELSE Copying(code, from, k)
<1>1. from .. k + 1 = (from .. k) \cup {k + 1}
  OBVIOUS
<1> QED
  BY <1>1 DEF Copying, IsCopy

LEMMA CoveringGrows ==
  ASSUME NEW from \in Nat \ {0}, NEW k \in Nat, k + 1 >= from, NEW code, NEW b
  PROVE  /\ CoveringAt(code, from, k + 1, b) =
              IF IsCover(code, from, k + 1, b) THEN CoveringAt(code, from, k, b) \cup {k + 1}
              ELSE CoveringAt(code, from, k, b)
         /\ Max(CoveringAt(code, from, k, b) \cup {k + 1}) = k + 1
<1>1. CoveringAt(code, from, k + 1, b) =
        IF IsCover(code, from, k + 1, b) THEN CoveringAt(code, from, k, b) \cup {k + 1}
        ELSE CoveringAt(code, from, k, b)
  <2>1. CASE IsCopy(code, from, k + 1)
    <3>1. Copying(code, from, k + 1) = Copying(code, from, k) \cup {k + 1}
      BY <2>1, CopyingGrows
    <3> QED
      BY <2>1, <3>1 DEF CoveringAt, IsCover
  <2>2. CASE ~IsCopy(code, from, k + 1)
    <3>1. Copying(code, from, k + 1) = Copying(code, from, k)
      BY <2>2, CopyingGrows
    <3> QED
      BY <2>2, <3>1 DEF CoveringAt, IsCover
  <2> QED
    BY <2>1, <2>2
<1>2. CoveringAt(code, from, k, b) \subseteq from .. k
  BY DEF CoveringAt, Copying
<1>3. Max(CoveringAt(code, from, k, b) \cup {k + 1}) = k + 1
  BY <1>2, LastOfMore
<1> QED
  BY <1>1, <1>3

LEMMA ListingFacts ==
  ASSUME NEW code, IsListing(code)
  PROVE  Len(code) \in Nat /\ DOMAIN code = 1 .. Len(code) /\ \A i \in 1 .. Len(code) : code[i].n \in Nat
<1>1. Len(code) \in Nat /\ DOMAIN code = 1 .. Len(code)
  BY LenProperties DEF IsListing
<1> QED
  BY <1>1 DEF IsListing

LEMMA LastNIs ==
  ASSUME NEW code, IsListing(code), NEW from \in Nat \ {0}, NEW k \in Nat, k <= Len(code),
         NEW S, S \subseteq from .. k
  PROVE  /\ LastN(code, S) = Unset <=> S = {}
         /\ S # {} => Max(S) \in S /\ Max(S) \in 1 .. Len(code) /\ LastN(code, S) = code[Max(S)].n
<1>1. CASE S = {}
  BY <1>1 DEF LastN
<1>2. CASE S # {}
  <2>1. S \subseteq 0..k
    OBVIOUS
  <2>2. Max(S) \in S
    BY <1>2, <2>1, Greatest
  <2>3. Max(S) \in from .. k /\ Len(code) \in Nat
    BY <2>2, ListingFacts
  <2>4. Max(S) \in 1 .. Len(code)
    BY <2>3
  <2>5. code[Max(S)].n \in Nat
    BY <2>4, ListingFacts
  <2>6. LastN(code, S) = code[Max(S)].n
    BY <1>2, Zenon DEF LastN
  <2>7. LastN(code, S) # Unset
    <3>1. \A n \in Nat : n # -1
      OBVIOUS
    <3> QED
      BY <2>5, <2>6, <3>1 DEF Unset
  <2> QED
    BY <1>2, <2>2, <2>4, <2>6, <2>7
<1> QED
  BY <1>1, <1>2

\* What is read of a helper up to its line k.
ReadUpTo(code, from, len, rodata, k, s) ==
  /\ s.alloc = LastN(code, Having(code, from, k, "alloc"))
  /\ s.nul = LastN(code, Having(code, from, k, "nul"))
  /\ s.pending = LastN(code, Since(code, from, k))
  /\ s.copied <=> Copying(code, from, k) # {}
  /\ s.shown <=> \A b \in 0 .. len - 1 : \A j \in CoveringAt(code, from, k, b) :
                    SourceAt(code, from, j, b) \in DOMAIN rodata
  /\ s.bytes = [b \in 0 .. len - 1 |->
                  LET over == CoveringAt(code, from, k, b)
                  IN IF over = {} THEN {} ELSE rodata[SourceAt(code, from, Max(over), b)]]

LEMMA NothingReadYet ==
  ASSUME NEW code, NEW from \in Nat \ {0}, NEW len, NEW rodata
  PROVE  ReadUpTo(code, from, len, rodata, from - 1, NothingRead(len))
<1>1. from .. from - 1 = {}
  OBVIOUS
<1>2. /\ \A op : Having(code, from, from - 1, op) = {}
      /\ Since(code, from, from - 1) = {}
      /\ Copying(code, from, from - 1) = {}
  BY <1>1 DEF Having, Since, Copying
<1>3. \A b : CoveringAt(code, from, from - 1, b) = {}
  BY <1>2 DEF CoveringAt
<1> QED
  BY <1>2, <1>3 DEF ReadUpTo, NothingRead, LastN

LEMMA OneLineMore ==
  ASSUME NEW code, IsListing(code), NEW from \in Nat \ {0}, NEW k \in Nat, k + 1 >= from,
         k + 1 <= Len(code), NEW len, NEW rodata, NEW s, ReadUpTo(code, from, len, rodata, k, s)
  PROVE  ReadUpTo(code, from, len, rodata, k + 1, HelperLine(code[k + 1], len, rodata, s))
<1> DEFINE line == code[k + 1]
           new == HelperLine(line, len, rodata, s)
           Covers(b) == IsCover(code, from, k + 1, b)
           Over(b) == CoveringAt(code, from, k, b)
           OverNow(b) == CoveringAt(code, from, k + 1, b)
           Source(b) == s.pending + (b - line.n)
<1>1. (k + 1) - 1 = k
  OBVIOUS
<1>2. s.pending = LastN(code, Since(code, from, k))
  BY DEF ReadUpTo
<1>3. IsCopy(code, from, k + 1) <=> line.op = "store" /\ s.pending # Unset
  <2>1. Since(code, from, k) \subseteq from .. k
    BY SinceGrows
  <2>2. k <= Len(code)
    BY ListingFacts
  <2>3. s.pending = Unset <=> Since(code, from, k) = {}
    BY <1>2, <2>1, <2>2, LastNIs
  <2> QED
    BY <1>1, <2>3 DEF IsCopy
<1>4. \A b : Covers(b) <=> (line.op = "store" /\ s.pending # Unset) /\ b - line.n \in 0 .. Chunk - 1
  BY <1>3 DEF IsCover
<1>5. /\ LastN(code, Having(code, from, k + 1, "alloc")) =
           IF line.op = "alloc" THEN line.n ELSE s.alloc
      /\ LastN(code, Having(code, from, k + 1, "nul")) =
           IF line.op = "nul" THEN line.n ELSE s.nul
  <2>1. /\ s.alloc = LastN(code, Having(code, from, k, "alloc"))
        /\ s.nul = LastN(code, Having(code, from, k, "nul"))
    BY DEF ReadUpTo
  <2>2. /\ line.op = "alloc" => LastN(code, Having(code, from, k + 1, "alloc")) = line.n
        /\ line.op # "alloc" => LastN(code, Having(code, from, k + 1, "alloc")) = s.alloc
    BY <2>1, HavingGrows
  <2>3. /\ line.op = "nul" => LastN(code, Having(code, from, k + 1, "nul")) = line.n
        /\ line.op # "nul" => LastN(code, Having(code, from, k + 1, "nul")) = s.nul
    BY <2>1, HavingGrows
  <2> HIDE DEF line
  <2> QED
    BY <2>2, <2>3
<1>6. LastN(code, Since(code, from, k + 1)) =
        IF line.op = "load" THEN line.n
        ELSE IF line.op = "store" THEN Unset ELSE s.pending
  BY <1>2, SinceGrows
<1>7. Copying(code, from, k + 1) # {} <=>
        s.copied \/ (line.op = "store" /\ s.pending # Unset)
  <2>1. s.copied <=> Copying(code, from, k) # {}
    BY DEF ReadUpTo
  <2>2. Copying(code, from, k + 1) =
          IF IsCopy(code, from, k + 1) THEN Copying(code, from, k) \cup {k + 1}
          ELSE Copying(code, from, k)
    BY CopyingGrows
  <2> HIDE DEF line
  <2>3. Copying(code, from, k + 1) # {} <=> Copying(code, from, k) # {} \/ IsCopy(code, from, k + 1)
    BY <2>2
  <2> QED
    BY <1>3, <2>1, <2>3
<1>8. ASSUME NEW b
      PROVE  /\ OverNow(b) = IF Covers(b) THEN Over(b) \cup {k + 1} ELSE Over(b)
             /\ Max(Over(b) \cup {k + 1}) = k + 1
             /\ SourceAt(code, from, k + 1, b) = Source(b)
  <2>1. SourceAt(code, from, k + 1, b) = Source(b)
    BY <1>1, <1>2 DEF SourceAt
  <2>2. /\ OverNow(b) = IF Covers(b) THEN Over(b) \cup {k + 1} ELSE Over(b)
        /\ Max(Over(b) \cup {k + 1}) = k + 1
    BY CoveringGrows
  <2> QED
    BY <2>1, <2>2, Zenon
<1>9. new = [alloc   |-> IF line.op = "alloc" THEN line.n ELSE s.alloc,
             nul     |-> IF line.op = "nul" THEN line.n ELSE s.nul,
             pending |-> IF line.op = "load" THEN line.n
                         ELSE IF line.op = "store" THEN Unset ELSE s.pending,
             copied  |-> s.copied \/ (line.op = "store" /\ s.pending # Unset),
             shown   |-> s.shown /\ \A b \in 0 .. len - 1 :
                                      Covers(b) => Source(b) \in DOMAIN rodata,
             bytes   |-> [b \in 0 .. len - 1 |->
                            IF Covers(b) THEN rodata[Source(b)] ELSE s.bytes[b]]]
  <2> HIDE DEF Covers
  <2> QED
    BY <1>4 DEF HelperLine
<1>10. /\ s.shown <=> \A b \in 0 .. len - 1 : \A j \in Over(b) :
                       SourceAt(code, from, j, b) \in DOMAIN rodata
       /\ s.bytes = [b \in 0 .. len - 1 |->
                      IF Over(b) = {} THEN {} ELSE rodata[SourceAt(code, from, Max(Over(b)), b)]]
  BY DEF ReadUpTo
<1> HIDE DEF line, new, Covers, Over, OverNow, Source
<1>11. /\ new.alloc = LastN(code, Having(code, from, k + 1, "alloc"))
       /\ new.nul = LastN(code, Having(code, from, k + 1, "nul"))
       /\ new.pending = LastN(code, Since(code, from, k + 1))
  BY <1>5, <1>6, <1>9
<1>12. new.copied <=> Copying(code, from, k + 1) # {}
  BY <1>7, <1>9
<1>13. new.shown <=> \A b \in 0 .. len - 1 : \A j \in OverNow(b) :
                        SourceAt(code, from, j, b) \in DOMAIN rodata
  <2>1. new.shown <=> s.shown /\ \A b \in 0 .. len - 1 : Covers(b) => Source(b) \in DOMAIN rodata
    BY <1>9
  <2>2. \A b : (\A j \in OverNow(b) : SourceAt(code, from, j, b) \in DOMAIN rodata)
          <=> /\ \A j \in Over(b) : SourceAt(code, from, j, b) \in DOMAIN rodata
              /\ Covers(b) => Source(b) \in DOMAIN rodata
    BY <1>8
  <2> QED
    BY <1>10, <2>1, <2>2
<1>14. ASSUME NEW b \in 0 .. len - 1
       PROVE  (IF Covers(b) THEN rodata[Source(b)] ELSE s.bytes[b]) =
              IF OverNow(b) = {} THEN {} ELSE rodata[SourceAt(code, from, Max(OverNow(b)), b)]
  <2>1. CASE Covers(b)
    <3>1. OverNow(b) = Over(b) \cup {k + 1} /\ Max(OverNow(b)) = k + 1 /\ OverNow(b) # {}
      BY <1>8, <2>1
    <3> QED
      BY <1>8, <2>1, <3>1
  <2>2. CASE ~Covers(b)
    BY <1>8, <1>10, <2>2
  <2> QED
    BY <2>1, <2>2
<1>15. new.bytes = [b \in 0 .. len - 1 |->
          IF OverNow(b) = {} THEN {} ELSE rodata[SourceAt(code, from, Max(OverNow(b)), b)]]
  BY <1>9, <1>14
<1> QED
  BY <1>11, <1>12, <1>13, <1>15 DEF ReadUpTo, OverNow, new, line

LEMMA HelperIsRead ==
  ASSUME NEW code, IsListing(code), NEW from \in Nat \ {0}, NEW to \in Nat, to >= from,
         to <= Len(code), NEW len, NEW rodata
  PROVE  ReadUpTo(code, from, len, rodata, to, HelperScan(code, from, to, len, rodata))
<1>1. PICK r : /\ HelperScan(code, from, to, len, rodata) = r[to]
               /\ IsReading(r, code, from, to, len, rodata)
  <2>1. to >= from - 1
    OBVIOUS
  <2> QED
    BY <2>1, ScanIs
<1> DEFINE S == {n \in Nat : from - 1 + n <= to =>
                   ReadUpTo(code, from, len, rodata, from - 1 + n, r[from - 1 + n])}
<1>2. 0 \in S
  <2>1. from - 1 + 0 = from - 1
    OBVIOUS
  <2> QED
    BY <1>1, <2>1, NothingReadYet DEF IsReading
<1>3. ASSUME NEW n \in S \cap Nat PROVE n + 1 \in S
  <2> DEFINE k == from - 1 + n
  <2>1. k \in Nat /\ k + 1 >= from /\ from - 1 + (n + 1) = k + 1
    OBVIOUS
  <2>2. ASSUME k + 1 <= to PROVE ReadUpTo(code, from, len, rodata, k + 1, r[k + 1])
    <3>1. ReadUpTo(code, from, len, rodata, k, r[k])
      BY <2>1, <2>2
    <3>2. Len(code) \in Nat /\ k + 1 <= Len(code) /\ k + 1 \in from .. to
      BY <2>1, <2>2 DEF IsListing
    <3>3. (k + 1) - 1 = k
      BY <2>1
    <3> HIDE DEF k
    <3>4. r[k + 1] = HelperLine(code[k + 1], len, rodata, r[k])
      BY <1>1, <3>2, <3>3 DEF IsReading
    <3>5. ReadUpTo(code, from, len, rodata, k + 1, HelperLine(code[k + 1], len, rodata, r[k]))
      BY <2>1, <3>1, <3>2, OneLineMore
    <3> QED
      BY <3>4, <3>5
  <2> HIDE DEF k
  <2> QED
    BY <2>1, <2>2
<1> HIDE DEF S
<1>4. Nat \subseteq S
  BY <1>2, <1>3, NatClosed
<1>5. to - (from - 1) \in Nat /\ from - 1 + (to - (from - 1)) = to
  OBVIOUS
<1>6. ReadUpTo(code, from, len, rodata, to, r[to])
  <2>1. to - (from - 1) \in S
    BY <1>4, <1>5
  <2>2. from - 1 + (to - (from - 1)) <= to
    BY <1>5
  <2>3. ReadUpTo(code, from, len, rodata, from - 1 + (to - (from - 1)),
                 r[from - 1 + (to - (from - 1))])
    BY <2>1, <2>2 DEF S
  <2> QED
    BY <1>5, <2>3
<1> QED
  BY <1>1, <1>6

LEMMA BodyIs ==
  ASSUME NEW code, IsListing(code), NEW entry \in DOMAIN code
  PROVE  LET last == Min({Len(code), entry + ScanLines - 1})
         IN /\ entry \in Nat \ {0} /\ last \in Nat /\ entry <= last /\ last <= Len(code)
            /\ Body(code, entry, ScanLines) = entry .. last
<1> DEFINE other == entry + ScanLines - 1
           last == Min({Len(code), other})
<1>1. Len(code) \in Nat /\ entry \in 1 .. Len(code)
  BY ListingFacts
<1>2. other \in Nat /\ entry <= other
  BY <1>1, ReverseAssumption
<1>3. last \in {Len(code), other}
  <2>1. {Len(code), other} \subseteq Nat /\ {Len(code), other} # {}
    BY <1>1, <1>2
  <2> HIDE DEF other
  <2> QED
    BY <2>1, LeastNat
<1>4. Body(code, entry, ScanLines) = entry .. last
  BY DEF Body
<1>5. last <= Len(code)
  <2>1. {Len(code), other} \subseteq Nat /\ {Len(code), other} # {}
    BY <1>1, <1>2
  <2> HIDE DEF other
  <2> QED
    BY <2>1, LeastNat
<1> HIDE DEF last
<1>6. entry \in Nat \ {0} /\ last \in Nat /\ entry <= last /\ last <= Len(code)
  BY <1>1, <1>2, <1>3, <1>5
<1> QED
  BY <1>4, <1>6 DEF last

\* n is the number of the line at, if there is one.
IsNumberOf(code, at, n) ==
  /\ (at # 0) <=> (n # Unset)
  /\ at # 0 => code[at].n = n /\ n \in Nat

LEMMA LastOfIs ==
  ASSUME NEW code, IsListing(code), NEW from \in Nat \ {0}, NEW to \in Nat, to <= Len(code),
         NEW op
  PROVE  IsNumberOf(code, LastOf(code, from .. to, op), LastN(code, Having(code, from, to, op)))
<1> DEFINE S == Having(code, from, to, op)
<1>1. S \subseteq from .. to
  BY DEF Having
<1>2. LastOf(code, from .. to, op) = IF S = {} THEN 0 ELSE Max(S)
  BY Zenon DEF LastOf, Having
<1> HIDE DEF S
<1>3. /\ LastN(code, S) = Unset <=> S = {}
      /\ S # {} => Max(S) \in S /\ Max(S) \in 1 .. Len(code) /\ LastN(code, S) = code[Max(S)].n
  BY <1>1, LastNIs
<1>4. S # {} => Max(S) # 0 /\ code[Max(S)].n \in Nat
  BY <1>3, ListingFacts
<1>5. /\ LastOf(code, from .. to, op) # 0 <=> LastN(code, S) # Unset
      /\ LastOf(code, from .. to, op) # 0 =>
           code[LastOf(code, from .. to, op)].n = LastN(code, S) /\ LastN(code, S) \in Nat
  BY <1>2, <1>3, <1>4
<1> QED
  BY <1>5, Zenon DEF S, IsNumberOf

LEMMA LengthIs ==
  ASSUME NEW code, IsListing(code), NEW from \in Nat \ {0}, NEW to \in Nat, to <= Len(code),
         NEW len, NEW rodata, NEW s, ReadUpTo(code, from, len, rodata, to, s)
  PROVE  BufferLength(code, from .. to) = LengthRead(s) /\ LengthRead(s) \in Nat
<1> DEFINE nul == LastOf(code, from .. to, "nul")
           alloc == LastOf(code, from .. to, "alloc")
<1>1. /\ s.nul = LastN(code, Having(code, from, to, "nul"))
      /\ s.alloc = LastN(code, Having(code, from, to, "alloc"))
  BY DEF ReadUpTo
<1>2. IsNumberOf(code, nul, LastN(code, Having(code, from, to, "nul")))
  BY LastOfIs
<1>3. IsNumberOf(code, alloc, LastN(code, Having(code, from, to, "alloc")))
  BY LastOfIs
<1> HIDE DEF nul, alloc
<1>4. IsNumberOf(code, nul, s.nul) /\ IsNumberOf(code, alloc, s.alloc)
  BY <1>1, <1>2, <1>3
<1>5. BufferLength(code, from .. to) =
        IF nul # 0 THEN code[nul].n
        ELSE IF alloc # 0 THEN Max({0, code[alloc].n - 1}) ELSE 0
  BY Zenon DEF BufferLength, nul, alloc
<1>6. s.alloc \in Nat => Max({0, s.alloc - 1}) \in Nat
  <2> SUFFICES ASSUME s.alloc \in Nat PROVE Max({0, s.alloc - 1}) \in Nat
    OBVIOUS
  <2>1. CASE s.alloc = 0
    <3>1. \E x \in {0, s.alloc - 1} : \A y \in {0, s.alloc - 1} : x >= y
      BY <2>1
    <3>2. /\ Max({0, s.alloc - 1}) \in {0, s.alloc - 1}
          /\ \A y \in {0, s.alloc - 1} : Max({0, s.alloc - 1}) >= y
      BY <3>1, Zenon DEF Max
    <3>3. Max({0, s.alloc - 1}) = 0
      BY <2>1, <3>2
    <3> QED
      BY <3>3
  <2>2. CASE s.alloc # 0
    <3>1. {0, s.alloc - 1} \subseteq 0 .. s.alloc - 1 /\ s.alloc - 1 \in Nat
      BY <2>2
    <3>2. Max({0, s.alloc - 1}) \in {0, s.alloc - 1}
      BY <3>1, Greatest
    <3> QED
      BY <3>1, <3>2
  <2> QED
    BY <2>1, <2>2
<1> QED
  BY <1>4, <1>5, <1>6 DEF LengthRead, IsNumberOf

LEMMA LoadIs ==
  ASSUME NEW code, IsListing(code), NEW from \in Nat \ {0}, NEW to \in Nat, to <= Len(code),
         NEW j \in from .. to
  PROVE  LET at == LoadFor(code, from .. to, j)
             S  == Since(code, from, j - 1)
         IN /\ (at # 0) <=> (S # {})
            /\ at # 0 => code[at].n = LastN(code, S)
<1> DEFINE S == Since(code, from, j - 1)
           R == {i \in from .. to : i < j /\ code[i].op = "load"
                                 /\ \A k \in i..j : code[k].op = "store" => k = j}
<1>1. j - 1 \in Nat /\ j - 1 <= Len(code)
  BY ListingFacts
<1>2. S \subseteq from .. j - 1
  BY DEF Since
<1>3. \A i \in from .. j - 1 : /\ i \in from .. to /\ i < j
                               /\ i .. j = (i .. j - 1) \cup {j} /\ j \notin i .. j - 1
  OBVIOUS
<1>4. R = S
  <2>1. ASSUME NEW i \in from .. j - 1 PROVE i \in R <=> i \in S
    BY <1>3 DEF Since
  <2>2. R \subseteq from .. j - 1
    OBVIOUS
  <2> HIDE DEF R, S
  <2> QED
    BY <1>2, <2>1, <2>2
<1>5. LoadFor(code, from .. to, j) = IF R = {} THEN 0 ELSE Max(R)
  BY Zenon DEF LoadFor
<1> HIDE DEF R, S
<1>6. S # {} => Max(S) \in 1 .. Len(code) /\ LastN(code, S) = code[Max(S)].n
  BY <1>1, <1>2, LastNIs
<1>7. S # {} => Max(S) # 0
  BY <1>6
<1>8. /\ (LoadFor(code, from .. to, j) # 0) <=> (S # {})
      /\ LoadFor(code, from .. to, j) # 0 => code[LoadFor(code, from .. to, j)].n = LastN(code, S)
  BY <1>4, <1>5, <1>6, <1>7
<1> QED
  BY <1>8 DEF S

(* What the engine puts together from a helper is what reading its lines one*)
(* after the other, as engines.py:235-274 does, leaves in the buffer.       *)
THEOREM ReconstructIsByLine ==
  ASSUME NEW code, IsListing(code), NEW entry \in DOMAIN code, NEW rodata
  PROVE  Reconstruct(code, entry, rodata) = ReconstructByLine(code, entry, rodata)
<1> DEFINE last == Min({Len(code), entry + ScanLines - 1})
           region == entry .. last
           len == LengthRead(HelperScan(code, entry, last, 0, rodata))
           s == HelperScan(code, entry, last, len, rodata)
           Covering(b) == CoveringAt(code, entry, last, b)
           Source(j, b) == code[LoadFor(code, region, j)].n + (b - code[j].n)
           Byte(b) == IF Covering(b) = {} THEN {} ELSE rodata[Source(Max(Covering(b)), b)]
           shown == \A b \in 0 .. len - 1 : \A j \in Covering(b) : Source(j, b) \in DOMAIN rodata
<1>1. /\ entry \in Nat \ {0} /\ last \in Nat /\ entry <= last /\ last <= Len(code)
      /\ Body(code, entry, ScanLines) = region
  BY BodyIs
<1>2. ReconstructByLine(code, entry, rodata) =
        IF s.copied /\ s.shown THEN [k \in 1 .. len |-> s.bytes[k - 1]] ELSE <<>>
  BY Zenon DEF ReconstructByLine
<1> HIDE DEF last
<1>3. ReadUpTo(code, entry, 0, rodata, last, HelperScan(code, entry, last, 0, rodata))
  BY <1>1, HelperIsRead
<1>4. BufferLength(code, region) = len /\ len \in Nat
  BY <1>1, <1>3, LengthIs
<1> HIDE DEF len
<1>5. ReadUpTo(code, entry, len, rodata, last, s)
  BY <1>1, HelperIsRead
<1>6. ASSUME NEW j \in region
      PROVE  /\ (LoadFor(code, region, j) # 0) <=> (Since(code, entry, j - 1) # {})
             /\ LoadFor(code, region, j) # 0 =>
                  code[LoadFor(code, region, j)].n = LastN(code, Since(code, entry, j - 1))
  BY <1>1, LoadIs
<1>7. Copies(code, region) = Copying(code, entry, last)
  BY <1>6 DEF Copies, Copying
<1>8. \A b : \A j \in Covering(b) :
         j \in region /\ LoadFor(code, region, j) # 0 /\ Source(j, b) = SourceAt(code, entry, j, b)
  <2> TAKE b
  <2> TAKE j \in Covering(b)
  <2>1. j \in region /\ Since(code, entry, j - 1) # {}
    BY DEF CoveringAt, Copying
  <2>2. LoadFor(code, region, j) # 0 /\
        code[LoadFor(code, region, j)].n = LastN(code, Since(code, entry, j - 1))
    BY <1>6, <2>1
  <2> QED
    BY <2>1, <2>2 DEF SourceAt
<1>9. \A b : Covering(b) = {j \in Copies(code, region) : b - code[j].n \in 0 .. Chunk - 1}
  BY <1>7, Zenon DEF CoveringAt
<1>10. Reconstruct(code, entry, rodata) =
         IF Copies(code, region) = {} \/ ~shown THEN <<>> ELSE [k \in 1 .. len |-> Byte(k - 1)]
  <2> HIDE DEF Covering, region
  <2> QED
    BY <1>1, <1>4, <1>9, Zenon DEF Reconstruct
<1>11. s.copied <=> Copies(code, region) # {}
  BY <1>5, <1>7 DEF ReadUpTo
<1> HIDE DEF Covering, region, s, Source
<1>12. s.shown <=> shown
  <2>1. s.shown <=> \A b \in 0 .. len - 1 : \A j \in Covering(b) :
                       SourceAt(code, entry, j, b) \in DOMAIN rodata
    BY <1>5 DEF ReadUpTo, Covering
  <2> QED
    BY <1>8, <2>1
<1>13. \A b : Covering(b) # {} => Max(Covering(b)) \in Covering(b)
  <2> TAKE b
  <2>1. Covering(b) \subseteq 0 .. last
    BY <1>1 DEF Covering, CoveringAt, Copying
  <2> QED
    BY <1>1, <2>1, Greatest
<1>14. ASSUME NEW k \in 1 .. len PROVE s.bytes[k - 1] = Byte(k - 1)
  <2>1. k - 1 \in 0 .. len - 1
    BY <1>4
  <2>2. s.bytes = [b \in 0 .. len - 1 |->
                     IF Covering(b) = {} THEN {} ELSE rodata[SourceAt(code, entry, Max(Covering(b)), b)]]
    BY <1>5 DEF ReadUpTo, Covering
  <2>3. s.bytes[k - 1] =
          IF Covering(k - 1) = {} THEN {}
          ELSE rodata[SourceAt(code, entry, Max(Covering(k - 1)), k - 1)]
    BY <2>1, <2>2
  <2> QED
    BY <1>8, <1>13, <2>3
<1> HIDE DEF Byte, shown
<1>15. [k \in 1 .. len |-> Byte(k - 1)] = [k \in 1 .. len |-> s.bytes[k - 1]]
  BY <1>14
<1> QED
  BY <1>2, <1>10, <1>11, <1>12, <1>15

-----------------------------------------------------------------------------
(* The answers to a plain task.                                            *)

LEMMA TasksHaveListings ==
  ASSUME NEW t \in Tasks, NEW read
  PROVE  IsListing(Listing(Programs(t.files), read))
<1> DEFINE ps == Programs(t.files)
<1>1. CASE DOMAIN ps # {} /\ "disassembly" \in read
  <2>1. DOMAIN ps \subseteq DOMAIN t.files /\ DOMAIN t.files \subseteq Nat
    BY QueuesAssumption DEF IsTask, Programs
  <2>2. Min(DOMAIN ps) \in DOMAIN ps
    <3> HIDE DEF ps
    <3> QED
      BY <1>1, <2>1, LeastNat
  <2>3. Listing(ps, read) = ps[Min(DOMAIN ps)].code
    BY <1>1 DEF Listing
  <2>4. \A i \in DOMAIN ps : ps[i] = t.files[i].program
    BY DEF Programs
  <2>5. \A i \in DOMAIN t.files : IsListing(t.files[i].program.code)
    BY QueuesAssumption DEF IsTask
  <2> HIDE DEF ps
  <2>6. Listing(ps, read) = t.files[Min(DOMAIN ps)].program.code
    BY <2>2, <2>3, <2>4
  <2>7. IsListing(Listing(ps, read))
    BY <2>1, <2>2, <2>5, <2>6
  <2> QED
    BY <2>7 DEF ps
<1>2. CASE ~(DOMAIN ps # {} /\ "disassembly" \in read)
  <2>1. Listing(ps, read) = <<>>
    BY <1>2 DEF Listing
  <2>2. IsListing(<<>>)
    BY DEF IsListing
  <2> QED
    BY <2>1, <2>2
<1> QED
  BY <1>1, <1>2

LEMMA EntryIsALine ==
  ASSUME NEW code, IsListing(code), NEW to, Entry(code, to) # 0
  PROVE  Entry(code, to) \in DOMAIN code
<1> DEFINE at == {i \in DOMAIN code : code[i].addr = to}
<1>1. Entry(code, to) = IF at = {} THEN 0 ELSE Min(at)
  BY Zenon DEF Entry
<1>2. DOMAIN code \subseteq Nat
  BY ListingFacts
<1>3. at \subseteq Nat /\ at \subseteq DOMAIN code
  BY <1>2
<1> HIDE DEF at
<1> QED
  BY <1>1, <1>3, LeastNat

LEMMA HelperIsALine ==
  ASSUME NEW ps, NEW read, IsListing(Listing(ps, read)), HelperSeen(ps, read) # 0
  PROVE  HelperSeen(ps, read) \in DOMAIN Listing(ps, read)
<1> DEFINE code == Listing(ps, read)
<1>1. PICK to : HelperSeen(ps, read) = Entry(code, to)
  BY Zenon DEF HelperSeen
<1> HIDE DEF code
<1>2. Entry(code, to) \in DOMAIN code
  BY <1>1, EntryIsALine DEF code
<1> QED
  BY <1>1, <1>2 DEF code

LEMMA NoSpecAnswer ==
  ASSUME NEW s, \A i \in DOMAIN s : s[i].spec = "none"
  PROVE  FirstAnswer(s, SpecAnswer) = NoClaim
<1>1. \A i \in DOMAIN s : SpecAnswer(s[i]) = NoClaim
  BY DEF SpecAnswer
<1>2. {i \in ReadableIn(s) : SpecAnswer(s[i]) # NoClaim} = {}
  BY <1>1 DEF ReadableIn
<1> QED
  BY <1>2, Zenon DEF FirstAnswer

\* A plain task is answered with the solutions of the buffer that it hides.
LEMMA PlainIsSolved ==
  ASSUME NEW t \in Tasks, t.category = "reverse", t.plain
  PROVE  LET buf == t.files[Len(t.files)].hides
         IN /\ buf \in Seq(Bytes)
            /\ StaticAnswers(t) = IF Solutions(buf) = {} THEN {NoClaim}
                                  ELSE {Claim(c, "sandbox_exec", TRUE) : c \in Solutions(buf)}
<1> DEFINE ps     == Programs(t.files)
           read   == Readable(SelectTools(NextActions(ps)), t.tools)
           code   == Listing(ps, read)
           helper == HelperSeen(ps, read)
           buf    == t.files[Len(t.files)].hides
<1>1. /\ \A i \in DOMAIN t.files : t.files[i].fate = "data" /\ t.files[i].spec = "none"
      /\ ~ToolRaises(SelectTools(NextActions(ps)), t.tools)
      /\ Refine(NextActions(ps), ps, read) # {}
      /\ helper # 0
      /\ buf \in Seq(Bytes) /\ buf # <<>>
      /\ buf = ReconstructByLine(code, helper, Dump(ps, read))
  <2>1. IsPlain(t)
    BY PlainAssumption
  <2> QED
    BY <2>1, Zenon DEF IsPlain
<1>2. IsListing(code)
  BY TasksHaveListings
<1> HIDE DEF ps, read, code, helper, buf
<1>3. helper \in DOMAIN code
  BY <1>1, <1>2, HelperIsALine DEF helper, code
<1>4. Reconstruct(code, helper, Dump(ps, read)) = buf
  BY <1>1, <1>2, <1>3, ReconstructIsByLine
<1>5. SolveSelfXor(ps, read) = Solutions(buf)
  BY <1>1, <1>4, Zenon DEF SolveSelfXor, helper, code
<1>6. ReverseAnswers(ps, t.tools) = Solutions(buf)
  BY <1>1, <1>5, Zenon DEF ReverseAnswers, read
<1>7. FirstAnswer(t.files, SpecAnswer) = NoClaim
  BY <1>1, NoSpecAnswer
<1>8. ~\E i \in DOMAIN t.files : t.files[i].fate = "missing"
  BY <1>1
<1>9. AdapterAnswers(t) =
        IF Solutions(buf) = {} THEN {NoClaim}
        ELSE {Claim(c, "sandbox_exec", TRUE) : c \in Solutions(buf)}
  BY <1>1, <1>6, <1>7, <1>8, Zenon DEF AdapterAnswers, ps
<1>10. StaticAnswers(t) = AdapterAnswers(t)
  BY DEF StaticAnswers, UsesPipeline
<1> QED
  BY <1>1, <1>9, <1>10, Zenon DEF buf

LEMMA AcceptedAsStrings ==
  ASSUME NEW buf \in Seq(Bytes)
  PROVE  Solutions(buf) = {c \in [1 .. Len(buf) -> Printable] : Accepts(buf, c)}
<1>1. Printable \subseteq Bytes
  BY PrintableAssumption DEF Bytes
<1>2. ASSUME NEW c \in Seq(Bytes), IsPrintable(c), Accepts(buf, c)
      PROVE  c \in [1 .. Len(buf) -> Printable]
  <2>1. DOMAIN c = DOMAIN buf
    BY <1>2 DEF Accepts, Masked
  <2>2. DOMAIN buf = 1 .. Len(buf)
    OBVIOUS
  <2>3. c = [i \in DOMAIN c |-> c[i]]
    OBVIOUS
  <2>4. \A i \in DOMAIN c : c[i] \in Printable
    BY <1>2 DEF IsPrintable
  <2> QED
    BY <2>1, <2>2, <2>3, <2>4
<1>3. ASSUME NEW c \in [1 .. Len(buf) -> Printable]
      PROVE  c \in Seq(Bytes) /\ IsPrintable(c)
  <2>1. Len(buf) \in Nat
    OBVIOUS
  <2>2. \A i \in 1 .. Len(buf) : c[i] \in Bytes
    BY <1>1
  <2>3. c \in [1 .. Len(buf) -> Bytes]
    BY <2>2
  <2>4. c \in Seq(Bytes)
    BY <2>1, <2>3, SeqDef
  <2> QED
    BY <2>4 DEF IsPrintable
<1> QED
  BY <1>2, <1>3, SelfXorExact

\* engines.py:194-331.  Whatever plain tasks come, of any length and with any number of
\* lines, bits and printable bytes, the engine may answer with just those printable
\* inputs that the program accepts.
THEOREM SelfXorIsAlwaysExact == Spec => []SelfXorIsExact
<1>1. IInv => SelfXorIsExact
  <2> SUFFICES ASSUME IInv, phase = "call", task.category = "reverse", task.plain
               PROVE  LET claims == {c \in Found[task] : c.kind = "claim"}
                          buf == task.files[Len(task.files)].hides
                      IN {c.value : c \in claims} =
                           {c \in [1 .. Len(buf) -> Printable] : Accepts(buf, c)}
    BY DEF SelfXorIsExact
  <2> DEFINE buf    == task.files[Len(task.files)].hides
             claims == {c \in Found[task] : c.kind = "claim"}
  <2>1. task \in Tasks
    BY DEF IInv, Typed
  <2>2. /\ buf \in Seq(Bytes)
        /\ StaticAnswers(task) = IF Solutions(buf) = {} THEN {NoClaim}
                                 ELSE {Claim(c, "sandbox_exec", TRUE) : c \in Solutions(buf)}
    BY <2>1, PlainIsSolved
  <2> HIDE DEF buf
  <2>3. Found[task] = IF Solutions(buf) = {} THEN {NoClaim}
                      ELSE {Claim(c, "sandbox_exec", TRUE) : c \in Solutions(buf)}
    BY <2>1, <2>2 DEF Found
  <2>4. claims = {Claim(c, "sandbox_exec", TRUE) : c \in Solutions(buf)}
    BY <2>3 DEF NoClaim, Claim
  <2> HIDE DEF claims
  <2>5. {c.value : c \in claims} = Solutions(buf)
    <3>1. \A c : Claim(c, "sandbox_exec", TRUE).value = c
      BY DEF Claim
    <3>2. ASSUME NEW x PROVE x \in {c.value : c \in claims} <=> x \in Solutions(buf)
      <4>1. x \in {c.value : c \in claims} <=>
              \E d \in Solutions(buf) : x = Claim(d, "sandbox_exec", TRUE).value
        BY <2>4
      <4> QED
        BY <3>1, <4>1, Zenon
    <3> QED
      BY <3>2, Zenon
  <2> QED
    BY <2>2, <2>5, AcceptedAsStrings DEF buf, claims
<1> QED
  BY <1>1, IInvHolds, PTL
=============================================================================
