----------------------------- MODULE MCEngines -----------------------------
(***************************************************************************)
(* Instances of Engines for TLC.  Bytes have three bits; a program is laid *)
(* out as the compilers lay out the self-xor crackmes: the main function   *)
(* calls the helper, then compares, and the helper at address 9 allocates  *)
(* the buffer and copies constant data into it, the last chunk so that it  *)
(* ends with the buffer.                                                   *)
(***************************************************************************)
EXTENDS Engines

MCMasks == 0 .. 2

Blank == [match |-> "", printable |-> FALSE]
Noise == [match |-> "", printable |-> TRUE]
Shown(m) == [match |-> m, printable |-> TRUE]

Line(addr, op, n) == [addr |-> addr, op |-> op, n |-> n, to |-> 0, sym |-> "none", plt |-> FALSE]
CallOf(addr, to, sym, plt) ==
  [addr |-> addr, op |-> "call", n |-> 0, to |-> to, sym |-> sym, plt |-> plt]

Base == 20

\* The helper that builds a buffer of the given length from two chunks, at most.
Helper(addr, base, len) ==
  <<Line(addr, "alloc", len + 1), Line(addr + 1, "load", base), Line(addr + 2, "nul", len),
    Line(addr + 3, "store", 0)>>
  \o (IF len > 2 THEN <<Line(addr + 4, "load", base + len - 2), Line(addr + 5, "store", len - 2)>>
      ELSE <<>>)
  \o <<Line(addr + 6, "xor", 0)>>

CompareCall == CallOf(2, 0, "compare", TRUE)
Crackme(buf) ==
  <<CallOf(1, 9, "none", FALSE), CompareCall, Line(3, "other", 0), Line(4, "other", 0)>>
    \o Helper(9, Base, Len(buf))

Pad(buf) == [i \in 1 .. 4 |-> IF i <= Len(buf) THEN buf[i] ELSE {}]

Program(code, bytes) ==
  [marks |-> TRUE, compares |-> TRUE, inputs |-> FALSE, stripped |-> TRUE, code |-> code,
   rodata |-> [base |-> Base, bytes |-> bytes]]
NoProgram ==
  [marks |-> FALSE, compares |-> FALSE, inputs |-> FALSE, stripped |-> FALSE, code |-> <<>>,
   rodata |-> [base |-> Base, bytes |-> <<>>]]

Signals(on) == [s \in {"base64", "rsa", "xor", "caesar"} |-> s \in on]

Plain ==
  [fate |-> "data", spec |-> "none", signals |-> Signals({}), binary |-> FALSE, raw |-> Noise,
   xored |-> [k \in Masks |-> Blank], base64 |-> Blank, shifted |-> <<Noise, Noise>>,
   program |-> NoProgram, hides |-> "nothing"]
Missing == [Plain EXCEPT !.fate = "missing"]
Outside == [Plain EXCEPT !.fate = "outside"]

AllOk == [t \in {"symbols", "disassembly", "rodata"} |-> "ok"]

Task(category, files) ==
  [category |-> category, files |-> files, format |-> "valid", tools |-> AllOk, plain |-> FALSE]

(* Programs. *)
Binary(program, buf) == [Plain EXCEPT !.binary = TRUE, !.program = program, !.hides = buf]
Buffers == UNION {[1 .. n -> SUBSET Bits] : n \in 1 .. 3}
Solvable(buf) == Binary(Program(Crackme(buf), Pad(buf)), buf)
PlainTask(buf) == [Task("reverse", <<Solvable(buf)>>) EXCEPT !.plain = TRUE]

Two == <<{0}, {1}>>
Decoy ==  \* a helper of its own is called before the one that is compared
  <<CallOf(1, 30, "none", FALSE)>> \o Crackme(Two) \o Helper(30, Base + 1, 2)
Calls(first, second) ==
  <<CallOf(1, first, "none", FALSE), CompareCall, CallOf(3, second, "none", FALSE), Line(4, "other", 0)>>
\* Another helper is called after the comparison; it is listed before the one
\* that is compared, or behind it, where the scan runs into it.
Follower == Calls(30, 9) \o Helper(9, Base + 1, 2) \o Helper(30, Base, 2)
Trailed == Calls(9, 30) \o Helper(9, Base, 2) \o Helper(30, Base + 1, 2)
Unlisted ==  \* the helper is not in the listing
  <<CallOf(1, 90, "none", FALSE), CompareCall>>
Looping == \* a check without a call, and a load of constant data
  <<Line(1, "test", 0), Line(2, "branch", 0), Line(3, "load", Base)>>

ReverseTasks ==
  LET good == Solvable(Two)
      Of(program) == <<Binary(program, Two)>>
      With(tools) == [Task("reverse", <<good>>) EXCEPT !.tools = tools]
  IN {Task("reverse", Of(Program(Decoy, Pad(Two)))),
      [Task("reverse", Of(Program(Follower, Pad(Two)))) EXCEPT !.plain = TRUE],
      Task("reverse", Of(Program(Trailed, Pad(Two)))),
      Task("reverse", Of(Program(Unlisted, Pad(Two)))),
      Task("reverse", Of(Program(Looping, Pad(Two)))),
      Task("reverse", Of(Program(Crackme(Two), <<{0}>>))),
      Task("reverse", Of([Program(Crackme(Two), Pad(Two)) EXCEPT !.inputs = TRUE])),
      Task("reverse", Of([NoProgram EXCEPT !.inputs = TRUE, !.code = Crackme(Two)])),
      Task("reverse", <<Plain, good>>), Task("reverse", <<good, Plain>>),
      Task("reverse", <<Outside, good>>), Task("reverse", <<Missing, good>>),
      Task("reverse", <<Binary([NoProgram EXCEPT !.code = Looping], Two), good>>),
      With([AllOk EXCEPT !["rodata"] = "missing"]),
      With([AllOk EXCEPT !["disassembly"] = "silent"]),
      With([AllOk EXCEPT !["rodata"] = "partial"])}

SpecTasks ==
  LET Of(spec) == [Plain EXCEPT !.spec = spec, !.hides = "flag"]
  IN {Task(c, <<before, Of(s)>>) : c \in {"reverse", "misc"}, s \in {"lower", "upper", "malformed"},
                                   before \in {Plain, Missing, Outside}}

(* Ciphers. *)
Ciphered ==
  [Plain EXCEPT !.binary = TRUE, !.raw = Blank, !.hides = "flag",
                !.xored = [k \in Masks |-> IF k = 2 THEN Shown("flag") ELSE Blank]]
Encoded == [Plain EXCEPT !.signals = Signals({"base64"}), !.base64 = Shown("flag"), !.hides = "flag"]
Rotated == [Plain EXCEPT !.signals = Signals({"caesar"}), !.hides = "flag",
                         !.shifted = <<Noise, Shown("flag")>>]
Key == [Plain EXCEPT !.signals = Signals({"rsa", "base64"}), !.base64 = Shown("flag")]
Printed == [Ciphered EXCEPT !.xored[1] = Noise]

CryptoTasks ==
  {Task("crypto", fs) : fs \in {<<Ciphered>>, <<Encoded>>, <<Rotated>>, <<Key>>, <<Plain>>,
     <<Plain, Rotated>>, <<Missing, Encoded>>, <<Outside, Ciphered>>, <<Encoded, Missing>>}}
  \cup {[Task("crypto", <<f>>) EXCEPT !.format = x] :
          f \in {Ciphered, Encoded, Rotated, Printed}, x \in {"none", "broken"}}

(* Searches. *)
Written == [Plain EXCEPT !.raw = Shown("flag"), !.hides = "flag"]
SearchTasks ==
  {[Task(c, fs) EXCEPT !.format = x] :
     c \in {"forensics", "web"}, x \in {"none", "valid", "broken"},
     fs \in {<<>>, <<Plain, Written>>, <<Missing, Written>>, <<Outside>>}}

\* Nothing is found in the file, so that the pipeline is asked.
Riddle(category) == Task(category, <<Plain>>)

SingleTasks == {PlainTask(b) : b \in Buffers} \cup ReverseTasks \cup SpecTasks \cup CryptoTasks
                 \cup SearchTasks
MCQueues == {<<t>> : t \in SingleTasks}
              \cup {<<Riddle("misc"), t>> : t \in {Riddle("misc")} \cup {u \in SpecTasks : u.category = "misc"}}
              \cup {<<Riddle("reverse"), t>> : t \in {Riddle("reverse"), PlainTask(<<{0}, {0}, {}>>)}}
=============================================================================
