------------------------------ MODULE Engines ------------------------------
(***************************************************************************)
(* The solve engines of engines.py as a specialist uses them: the answers  *)
(* that are found in the files of a task, and the adapter that otherwise   *)
(* asks the BioBrain pipeline in a thread of its own and waits for it no   *)
(* longer than a time limit.                                               *)
(*                                                                         *)
(* A file is [fate, spec, signals, binary, raw, xored, base64, shifted,    *)
(* program, hides]: whether it can be read, the xor-crackme description it *)
(* may hold, what the patterns find in it, the texts its decodings show and*)
(* what reverse tools see.  A text is [match, printable]: the first match  *)
(* of the task's flag format, "" if none.  `hides' is the flag in truth.   *)
(***************************************************************************)
EXTENDS ReverseStatic

CONSTANTS
  Queues,      \* the tasks a specialist may be given, in sequence, all of its category
  Masks,       \* the xor keys tried (0 to 255)
  MaxBarren    \* calls without a result before the specialist gives up (2)

Tasks == UNION {ToSet(q) : q \in Queues}

\* A task is a record, its files are a list, and so are the lines of a program.
IsTask(t) ==
  /\ DOMAIN t = {"category", "files", "format", "tools", "plain"}
  /\ t.files \in Seq(ToSet(t.files))
  /\ \A i \in DOMAIN t.files : IsListing(t.files[i].program.code)

ASSUME QueuesAssumption == Queues \subseteq Seq(Tasks) /\ \A t \in Tasks : IsTask(t)

VARIABLES
  queue,     \* the tasks still to come
  task,      \* the one in hand, or NoTask
  phase,     \* "idle", "call" or "wait"
  barren,    \* calls for the task in hand that brought nothing
  workers,   \* the threads started so far: [of, answer, state]
  pipeline,  \* which pipeline the adapter holds, 0 if none
  built,     \* how many were constructed
  answers    \* what the calls returned: [task, worker, kind, claim]

vars == <<queue, task, phase, barren, workers, pipeline, built, answers>>

NoTask == [files |-> <<>>]
NoClaim == [kind |-> "none"]
Raised == [kind |-> "raises"]
Claim(value, method, reproduced) ==
  [kind |-> "claim", value |-> value, method |-> method, reproduced |-> reproduced]

-----------------------------------------------------------------------------
(* What the files answer. *)

\* Files outside the workspace and files that are missing are passed over.
IsReadable(file) == file.fate = "data"

ReadableUpToFailure(files) ==
  {i \in DOMAIN files : \A k \in 1 .. i : IsReadable(files[k])}
ReadableIn(files) == {i \in DOMAIN files : IsReadable(files[i])}

\* The answer of the first file that has one.
FirstAnswer(files, Answer(_)) ==
  LET hits == {i \in ReadableIn(files) : Answer(files[i]) # NoClaim}
  IN IF hits = {} THEN NoClaim ELSE Answer(files[Min(hits)])

(* _solve_xor_artifact.  The engine encodes the flag again and compares it *)
(* with the file, in lower case.                                           *)
SpecAnswer(file) ==
  CASE file.spec = "none"      -> NoClaim
    [] file.spec = "malformed" -> Raised
    [] file.spec = "lower"     -> Claim(file.hides, "reencode_xor", TRUE)
    [] file.spec = "upper"     -> Claim(file.hides, "reencode_xor", FALSE)

(* CryptoEngine.  A format that is no regular expression raises as soon as *)
(* it is used.                                                             *)
CryptoActions(file) ==
  LET s == file.signals
      cipher == file.binary /\ ~s.base64 /\ ~s.rsa /\ ~s.caesar
  IN If(s.xor \/ cipher, "xor_brute_force") \cup If(s.base64 /\ ~s.rsa, "decode_base64")
       \cup If(s.caesar, "caesar_brute_force")

\* Without a format, the first key that shows a printable text.
Shows(text, format) == IF format = "none" THEN text.printable ELSE text.match # ""
Value(text, format) == IF format = "none" THEN text ELSE text.match

XorAnswer(file, format) ==
  LET keys == {k \in Masks : Shows(file.xored[k], format)}
  IN IF keys = {} THEN NoClaim ELSE Claim(Value(file.xored[Min(keys)], format), "xor_brute", TRUE)

TextAnswer(text, method) ==
  IF text.match = "" THEN NoClaim ELSE Claim(text.match, method, TRUE)

CaesarAnswer(file) ==
  LET shifts == {k \in DOMAIN file.shifted : file.shifted[k].match # ""}
  IN IF shifts = {} THEN NoClaim ELSE TextAnswer(file.shifted[Min(shifts)], "caesar")

CryptoAnswer(file, format) ==
  LET does == CryptoActions(file)
      xor    == IF "xor_brute_force" \in does THEN XorAnswer(file, format) ELSE NoClaim
      base64 == IF "decode_base64" \in does /\ format # "none"
                  THEN TextAnswer(file.base64, "base64_decode") ELSE NoClaim
      caesar == IF "caesar_brute_force" \in does /\ format # "none"
                  THEN CaesarAnswer(file) ELSE NoClaim
  IN IF format = "broken" /\ does # {} THEN Raised
     ELSE IF xor # NoClaim THEN xor
     ELSE IF base64 # NoClaim THEN base64
     ELSE caesar

(* ForensicsEngine, WebEngine, PwnEngine and JailEngine search the text. *)
SearchAnswer(file, format) ==
  CASE format = "none"   -> NoClaim
    [] format = "broken" -> Raised
    [] format = "valid"  -> TextAnswer(file.raw, "string_search")

(* The static part of the adapter.  A file that is missing, unlike one out-*)
(* side the workspace, raises in the analysis.                             *)
Programs(files) ==
  [i \in {k \in DOMAIN files : files[k].fate # "outside"} |-> files[i].program]

AdapterAnswers(t) ==
  LET spec == FirstAnswer(t.files, SpecAnswer)
      ps   == Programs(t.files)
  IN IF spec # NoClaim THEN {spec}
     ELSE IF \E i \in DOMAIN t.files : t.files[i].fate = "missing" THEN {Raised}
     ELSE IF t.category # "reverse" THEN {NoClaim}
     ELSE IF DOMAIN ps # {} /\ ToolRaises(SelectTools(NextActions(ps)), t.tools) THEN {Raised}
     ELSE LET found == ReverseAnswers(ps, t.tools)
          IN IF found = {} THEN {NoClaim} ELSE {Claim(c, "sandbox_exec", TRUE) : c \in found}

UsesPipeline(t) == t.category \in {"reverse", "misc"}

\* What a call finds in the files.
StaticAnswers(t) ==
  IF UsesPipeline(t) THEN AdapterAnswers(t)
  ELSE IF t.category = "crypto"
    THEN {FirstAnswer(t.files, LAMBDA f : CryptoAnswer(f, t.format))}
  ELSE {FirstAnswer(t.files, LAMBDA f : SearchAnswer(f, t.format))}

Found == [t \in Tasks |-> StaticAnswers(t)]

\* A plain task: the reverse engine comes to the helper that is compared, and the
\* lines of the helper leave in the memory what the last file hides.
IsPlain(t) ==
  LET ps     == Programs(t.files)
      read   == Readable(SelectTools(NextActions(ps)), t.tools)
      code   == Listing(ps, read)
      helper == HelperSeen(ps, read)
      hidden == t.files[Len(t.files)].hides
  IN /\ \A i \in DOMAIN t.files : t.files[i].fate = "data" /\ t.files[i].spec = "none"
     /\ ~ToolRaises(SelectTools(NextActions(ps)), t.tools)
     /\ Refine(NextActions(ps), ps, read) # {}
     /\ helper # 0
     /\ hidden \in Seq(Bytes) \ {<<>>}
     /\ hidden = ReconstructByLine(code, helper, Dump(ps, read))

ASSUME PlainAssumption ==
  \A t \in Tasks : t.category = "reverse" /\ t.plain => IsPlain(t)

-----------------------------------------------------------------------------
(* The specialist and its calls. *)

Init ==
  /\ queue \in Queues
  /\ task = NoTask /\ phase = "idle" /\ barren = 0
  /\ workers = <<>> /\ pipeline = 0 /\ built = 0 /\ answers = <<>>

Take ==
  /\ phase = "idle"
  /\ queue # <<>>
  /\ task' = Head(queue)
  /\ queue' = Tail(queue)
  /\ phase' = "call"
  /\ barren' = 0
  /\ UNCHANGED <<workers, pipeline, built, answers>>

\* A call returns to the specialist: a claim or an exception ends the task,
\* anything else is tried again until it was barren too often.
Return(worker, claim) ==
  /\ answers' = Append(answers, [task |-> task, worker |-> worker, claim |-> claim])
  /\ LET over == claim.kind \in {"claim", "raises"} \/ barren + 1 = MaxBarren
     IN /\ phase' = IF over THEN "idle" ELSE "call"
        /\ task' = IF over THEN NoTask ELSE task
        /\ barren' = IF over THEN 0 ELSE barren + 1
  /\ UNCHANGED queue

StartWorker ==
  /\ workers' = Append(workers, [of |-> task, state |-> "start", claim |-> NoClaim])
  /\ phase' = "wait"
  /\ UNCHANGED <<queue, task, barren, pipeline, built, answers>>

CallAlwaysAsking ==
  /\ phase = "call"
  /\ \E claim \in Found[task] :
       IF claim = NoClaim /\ UsesPipeline(task) THEN StartWorker
       ELSE /\ Return(0, claim)
            /\ workers' = IF UsesPipeline(task)
                            THEN Append(workers, [of |-> task, state |-> "start", claim |-> NoClaim])
                            ELSE workers
            /\ UNCHANGED <<pipeline, built>>
Call ==
  /\ phase = "call"
  /\ \E claim \in Found[task] :
       IF claim = NoClaim /\ UsesPipeline(task) THEN StartWorker
       ELSE Return(0, claim) /\ UNCHANGED <<workers, pipeline, built>>

-----------------------------------------------------------------------------
(* The threads.  Nothing keeps two of them from building a pipeline, and   *)
(* nothing ends them.                                                      *)

Moves(w, from, to) ==
  /\ w \in DOMAIN workers
  /\ workers[w].state = from
  /\ workers' = [workers EXCEPT ![w].state = to]

EnsurePipeline(w) ==
  /\ Moves(w, "start", IF pipeline = 0 THEN "build" ELSE "process")
  /\ UNCHANGED <<queue, task, phase, barren, pipeline, built, answers>>

Build(w) ==
  /\ Moves(w, "build", "process")
  /\ built' = built + 1
  /\ pipeline' = built + 1
  /\ UNCHANGED <<queue, task, phase, barren, answers>>

\* The cycle raises, or its text holds a flag or none.  No tool is named to the
\* pipeline, so no tool of it ever verifies anything.
PipelineClaims == {Raised, NoClaim, Claim("text", "none", FALSE)}

Process(w) ==
  /\ w \in DOMAIN workers
  /\ workers[w].state = "process"
  /\ \E c \in PipelineClaims :
       workers' = [workers EXCEPT ![w].state = "answer", ![w].claim = c]
  /\ UNCHANGED <<queue, task, phase, barren, pipeline, built, answers>>

\* The future of a call takes the answer of its own thread only; once the call
\* has given up, the answer is dropped.
DeliverToAny(w) ==
  /\ Moves(w, "answer", "gone")
  /\ IF phase = "wait" THEN Return(w, workers[w].claim)
     ELSE UNCHANGED <<queue, task, phase, barren, answers>>
  /\ UNCHANGED <<pipeline, built>>
Deliver(w) ==
  /\ Moves(w, "answer", "gone")
  /\ IF phase = "wait" /\ w = Len(workers) THEN Return(w, workers[w].claim)
     ELSE UNCHANGED <<queue, task, phase, barren, answers>>
  /\ UNCHANGED <<pipeline, built>>

TimeoutAfterBuild ==
  /\ phase = "wait"
  /\ pipeline # 0
  /\ Return(0, NoClaim)
  /\ UNCHANGED <<workers, pipeline, built>>
Timeout ==
  /\ phase = "wait"
  /\ Return(0, NoClaim)
  /\ UNCHANGED <<workers, pipeline, built>>

Worker == \E w \in DOMAIN workers : EnsurePipeline(w) \/ Build(w) \/ Process(w) \/ Deliver(w)
Specialist == Take \/ Call \/ Timeout

Next == Specialist \/ Worker

\* The event loop goes on and a time limit expires; nothing is assumed of the
\* threads.
Spec == Init /\ [][Next]_vars /\ WF_vars(Specialist)

-----------------------------------------------------------------------------
(* Properties. *)

Alive == {w \in DOMAIN workers : workers[w].state # "gone"}
Unanswered == {i \in DOMAIN answers :
                 answers[i].worker = 0 /\ answers[i].claim = NoClaim /\ UsesPipeline(answers[i].task)}
TimedOut == Cardinality(Unanswered)

\* What a call returns was found in the files of its own task, or by the thread
\* it started itself for that task, never by a thread an earlier call gave up
\* on (engines.py:450-480).
AnswersAreCurrent ==
  \A i \in DOMAIN answers :
    LET a == answers[i]
    IN a.worker # 0 => /\ workers[a.worker].of = a.task
                       /\ workers[a.worker].claim = a.claim
                       /\ \A k \in 1 .. i - 1 : answers[k].worker < a.worker

\* Without a call that ran into its time limit there is one thread at a time
\* and one pipeline; each such call leaves at most one thread more, and one
\* pipeline more (engines.py:444-448).
OverlapOnlyAfterTimeout ==
  /\ Cardinality(Alive) <= TimedOut + (IF phase = "wait" THEN 1 ELSE 0)
  /\ built <= TimedOut + 1

\* Files outside the workspace, and for the engines without a pipeline missing
\* ones too, change nothing: with any such file taken away the others answer what
\* all of them answer (engines.py:107-118, 700-701).
IsPassedOver(t, file) ==
  file.fate = "outside" \/ (~UsesPipeline(t) /\ file.fate = "missing")
UnreadableFilesDoNotMatter ==
  phase = "call" =>
    \A i \in DOMAIN task.files :
      IsPassedOver(task, task.files[i]) =>
        Found[task] = StaticAnswers([task EXCEPT !.files = RemoveAt(@, i)])

\* A plain program - its compared helper is the first one seen called, no other is
\* listed behind it, and its data is dumped in whole - is solved exactly: the engine
\* may answer with just those printable inputs that the program accepts
\* (engines.py:194-331).
SelfXorIsExact ==
  phase = "call" /\ task.category = "reverse" /\ task.plain =>
    LET claims == {c \in Found[task] : c.kind = "claim"}
        buf == task.files[Len(task.files)].hides
    IN {c.value : c \in claims} =
         {c \in [1 .. Len(buf) -> Printable] : Accepts(buf, c)}

\* Every task comes to an end, although threads may never answer
\* (engines.py:480, agent.py:201-310).
EveryTaskEnds == <>(queue = <<>> /\ phase = "idle")
=============================================================================
