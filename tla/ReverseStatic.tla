--------------------------- MODULE ReverseStatic ---------------------------
(***************************************************************************)
(* How the reverse engine reads a program without running it: the decision *)
(* rules choose the tools, the check path finds the comparison in the      *)
(* listing, the transform path the helper called before it, and the buffer *)
(* is put together from the helper's copies of constant data.              *)
(*                                                                         *)
(* A program is [marks, compares, inputs, stripped, code, rodata].  A line *)
(* of its listing is [addr, op, ...]: a "call" goes to the address `to' of *)
(* the symbol class `sym', through the PLT or not; "alloc" and "nul" carry *)
(* a size or offset n, "load" the address of constant data, "store" the    *)
(* offset it is copied to.                                                 *)
(***************************************************************************)
EXTENDS SelfXor, SequencesExt

CONSTANTS
  Chunk,            \* bytes one store copies (16 in the code)
  Word,             \* bytes of one group of the rodata dump (4)
  MaxWindows,       \* windows and calls a check path collects (12)
  MaxLoadWindows,   \* windows beyond which a load adds none (8)
  BodyLines,        \* lines of a helper the transform path reads (24)
  ScanLines         \* lines of a helper the solver reads (40)

ASSUME ReverseAssumption ==
  /\ Chunk \in Nat \ {0} /\ Word \in Nat \ {0}
  /\ MaxWindows \in Nat /\ MaxLoadWindows \in Nat
  /\ BodyLines \in Nat \ {0} /\ ScanLines \in Nat \ {0}

\* A listing is a list of lines whose sizes, offsets and addresses are no less
\* than zero.
IsListing(code) ==
  /\ code \in Seq(ToSet(code))
  /\ \A i \in DOMAIN code : code[i].n \in Nat

-----------------------------------------------------------------------------
(* The decision: what the rules make of all programs of the task, a        *)
(* function of the numbers of their files.                                 *)

If(b, action) == IF b THEN {action} ELSE {}

\* The rules whose action runs a tool.  Those that name a condition the code
\* does not know, or an empty list, match nothing.
WantedFor(p) ==
  If(p.marks, "follow_string_references") \cup If(p.compares, "string_reference_analysis")
    \cup If(p.inputs, "input_path_analysis") \cup If(p.stripped, "disassembly_summary")

NextActions(ps) == UNION {WantedFor(ps[i]) : i \in DOMAIN ps}

ToolsOf ==
  [follow_string_references  |-> {"rodata", "disassembly"},
   string_reference_analysis |-> {"rodata", "disassembly"},
   input_path_analysis       |-> {"symbols", "disassembly"},
   disassembly_summary       |-> {"disassembly"}]

SelectTools(actions) == UNION {ToolsOf[a] : a \in actions}

\* The tools of a task that leave an output to read: fate is "ok", "missing",
\* "silent" (no output within the time limit) or "partial" (some).
Readable(tools, fate) == {t \in tools : fate[t] = "ok"}

\* The output of a tool that was cut off comes as bytes, and normalising it
\* raises.
ToolRaises(tools, fate) == \E t \in tools : fate[t] = "partial"

\* What the outputs add to the actions.
Refine(actions, ps, read) ==
  LET Some(P(_)) == \E i \in DOMAIN ps : P(ps[i])
      Branches(p) == \E k \in DOMAIN p.code : p.code[k].op \in {"test", "call"}
  IN actions
       \cup If("symbols" \in read /\ Some(LAMBDA p : p.compares), "string_reference_analysis")
       \cup If("symbols" \in read /\ Some(LAMBDA p : p.inputs), "input_path_analysis")
       \cup If("disassembly" \in read /\ Some(Branches), "disassembly_summary")

\* The listing is that of the first file, although it may be empty.
Listing(ps, read) ==
  IF DOMAIN ps # {} /\ "disassembly" \in read THEN ps[Min(DOMAIN ps)].code ELSE <<>>

\* The dump shows whole groups; a shorter one at its end is skipped.
ParseRodata(r) ==
  [a \in r.base .. r.base + Word * (Len(r.bytes) \div Word) - 1 |-> r.bytes[a - r.base + 1]]
\* The first dump that is not empty, whichever file it is of.
Dump(ps, read) ==
  LET with == {i \in DOMAIN ps : ps[i].rodata.bytes # <<>>}
  IN IF "rodata" \notin read \/ with = {} THEN <<>> ELSE ParseRodata(ps[Min(with)].rodata)
Hints(ps, read) == "rodata" \in read /\ \E i \in DOMAIN ps : ps[i].rodata.bytes # <<>>

-----------------------------------------------------------------------------
(* The check path: windows of the listing around what looks like a check.  *)

HelperCall(line) == line.op = "call" /\ ~line.plt
NamedCall(line) == line.op = "call" /\ line.sym \in {"compare", "input"}

Around(code, i, before, after) == Max({1, i - before}) .. Min({Len(code), i + after})

AddWindow(ws, w) == IF Len(ws) >= MaxWindows \/ w \in ToSet(ws) THEN ws ELSE Append(ws, w)

\* A named call is shown with its surroundings, and so is the first helper
\* called up to four lines before it.
AroundCall(code, i, ws) ==
  LET before == {j \in Around(code, i, 4, 0) \ {i} : HelperCall(code[j])}
      own    == AddWindow(ws, Around(code, i, 2, 2))
  IN IF before = {} THEN own ELSE AddWindow(own, Around(code, Min(before), 2, 2))

Tests(code, i) ==
  code[i].op = "test" /\ \E j \in Around(code, i, 0, 2) \ {i} : code[j].op = "branch"

ReadLine(code, hints, path, i) ==
  IF Len(path.calls) >= MaxWindows THEN path
  ELSE [calls   |-> IF NamedCall(code[i]) THEN Append(path.calls, i) ELSE path.calls,
        windows |->
          IF NamedCall(code[i]) THEN AroundCall(code, i, path.windows)
          ELSE IF Tests(code, i) THEN AddWindow(path.windows, Around(code, i, 1, 2))
          ELSE IF code[i].op = "load" /\ hints /\ Len(path.windows) < MaxLoadWindows
                 THEN AddWindow(path.windows, Around(code, i, 2, 2))
          ELSE path.windows]

CheckPath(code, hints) ==
  FoldLeftDomain(LAMBDA path, i : ReadLine(code, hints, path, i),
                 [calls |-> <<>>, windows |-> <<>>], code)

\* Whether a compare function is known, by import or by call.
Compares(ps, read, code, path) ==
  \/ "symbols" \in read /\ \E i \in DOMAIN ps : ps[i].compares
  \/ \E i \in ToSet(path.calls) : code[i].sym = "compare"

-----------------------------------------------------------------------------
(* The transform path: the helpers called in those windows. *)

InOrder(S) == SetToSortSeq(S, <)

\* The lines of the helper calls, window by window, each once.
HelperCalls(code, ws) ==
  LET Found(w) == InOrder({i \in w : HelperCall(code[i])})
  IN FoldLeft(LAMBDA seen, i : IF i \in ToSet(seen) THEN seen ELSE Append(seen, i), <<>>,
              FlattenSeq([k \in DOMAIN ws |-> Found(ws[k])]))

\* The line a helper starts at, 0 if the listing does not show it.
Entry(code, to) ==
  LET at == {i \in DOMAIN code : code[i].addr = to} IN IF at = {} THEN 0 ELSE Min(at)

Body(code, entry, lines) == entry .. Min({Len(code), entry + lines - 1})

\* Whether some helper's body xors.
Xors(code, calls) ==
  \E k \in DOMAIN calls :
    LET e == Entry(code, code[calls[k]].to)
    IN e # 0 /\ \E i \in Body(code, e, BodyLines) \ {e} : code[i].op = "xor"

-----------------------------------------------------------------------------
(* The buffer: what the helper copies into the memory it allocates. *)

LastOf(code, region, op) ==
  LET at == {i \in region : code[i].op = op} IN IF at = {} THEN 0 ELSE Max(at)

\* The length is where the final zero goes, or one less than is allocated.
BufferLength(code, region) ==
  LET nul == LastOf(code, region, "nul")
      alloc == LastOf(code, region, "alloc")
  IN IF nul # 0 THEN code[nul].n ELSE IF alloc # 0 THEN Max({0, code[alloc].n - 1}) ELSE 0

\* The load a store copies: the last one since the store before it.
LoadFor(code, region, j) ==
  LET since == {i \in region : i < j /\ code[i].op = "load"
                                 /\ \A k \in i..j : code[k].op = "store" => k = j}
  IN IF since = {} THEN 0 ELSE Max(since)

Copies(code, region) ==
  {j \in region : code[j].op = "store" /\ LoadFor(code, region, j) # 0}

\* Later copies cover earlier ones; what none covers is zero.  <<>> if there is
\* nothing to put together or a byte of it was not dumped.
Reconstruct(code, entry, rodata) ==
  LET region == Body(code, entry, ScanLines)
      len    == BufferLength(code, region)
      Source(j, b) == code[LoadFor(code, region, j)].n + (b - code[j].n)
      Covering(b)  == {j \in Copies(code, region) : b - code[j].n \in 0 .. Chunk - 1}
      shown == \A b \in 0 .. len - 1 : \A j \in Covering(b) : Source(j, b) \in DOMAIN rodata
      Byte(b) == IF Covering(b) = {} THEN {} ELSE rodata[Source(Max(Covering(b)), b)]
  IN IF Copies(code, region) = {} \/ ~shown THEN <<>> ELSE [k \in 1 .. len |-> Byte(k - 1)]

\* The same, line by line: what is allocated, where the zero goes, the constant
\* data that waits for its store, and the bytes 0 to len - 1.
Unset == -1
NothingRead(len) ==
  [alloc |-> Unset, nul |-> Unset, pending |-> Unset, copied |-> FALSE, shown |-> TRUE,
   bytes |-> [b \in 0 .. len - 1 |-> {}]]

HelperLine(line, len, rodata, s) ==
  LET copies == line.op = "store" /\ s.pending # Unset
      Covers(b) == copies /\ b - line.n \in 0 .. Chunk - 1
      Source(b) == s.pending + (b - line.n)
  IN [alloc   |-> IF line.op = "alloc" THEN line.n ELSE s.alloc,
      nul     |-> IF line.op = "nul" THEN line.n ELSE s.nul,
      pending |-> IF line.op = "load" THEN line.n
                  ELSE IF line.op = "store" THEN Unset ELSE s.pending,
      copied  |-> s.copied \/ copies,
      shown   |-> s.shown /\ \A b \in 0 .. len - 1 : Covers(b) => Source(b) \in DOMAIN rodata,
      bytes   |-> [b \in 0 .. len - 1 |-> IF Covers(b) THEN rodata[Source(b)] ELSE s.bytes[b]]]

HelperScan(code, from, to, len, rodata) ==
  LET s[k \in from - 1 .. to] ==
        IF k = from - 1 THEN NothingRead(len) ELSE HelperLine(code[k], len, rodata, s[k - 1])
  IN s[to]

LengthRead(s) ==
  IF s.nul # Unset THEN s.nul ELSE IF s.alloc # Unset THEN Max({0, s.alloc - 1}) ELSE 0

\* The length is known when all lines are read, and the bytes are copied then.
ReconstructByLine(code, entry, rodata) ==
  LET last == Min({Len(code), entry + ScanLines - 1})
      len  == LengthRead(HelperScan(code, entry, last, 0, rodata))
      s    == HelperScan(code, entry, last, len, rodata)
  IN IF s.copied /\ s.shown THEN [k \in 1 .. len |-> s.bytes[k - 1]] ELSE <<>>

\* The line of the helper whose buffer the engine solves, 0 if it does not get so
\* far: the helper is the first of those it saw called.
HelperSeen(ps, read) ==
  LET code  == Listing(ps, read)
      path  == CheckPath(code, Hints(ps, read))
      calls == HelperCalls(code, path.windows)
      seen  == /\ path.calls # <<>> /\ Compares(ps, read, code, path)
               /\ calls # <<>> /\ Xors(code, calls) /\ Dump(ps, read) # <<>>
  IN IF seen THEN Entry(code, code[Head(calls)].to) ELSE 0

\* The answer to a task with the programs ps, {} if there is none; which of
\* several keys comes first is left open.
SolveSelfXor(ps, read) ==
  LET helper == HelperSeen(ps, read)
      buf    == IF helper = 0 THEN <<>>
                ELSE Reconstruct(Listing(ps, read), helper, Dump(ps, read))
  IN IF buf = <<>> THEN {} ELSE Solutions(buf)

\* What the tools' outputs lead to: nothing at all unless the actions, refined,
\* ask for the listing to be followed.
ReverseAnswers(ps, fate) ==
  LET actions == NextActions(ps)
      read    == Readable(SelectTools(actions), fate)
  IN IF Refine(actions, ps, read) = {} THEN {} ELSE SolveSelfXor(ps, read)
=============================================================================
