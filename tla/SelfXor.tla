------------------------------ MODULE SelfXor ------------------------------
(***************************************************************************)
(* The arithmetic of _solve_self_xor_compare in engines.py: a program xors *)
(* every byte of its input with the xor of all of them and compares the    *)
(* outcome with a constant buffer; the engine finds an input from the      *)
(* buffer.  A byte is the set of its one-bits, so that xor is the          *)
(* symmetric difference, and the xor of a sequence has the bits that are   *)
(* set in an odd number of its bytes.                                      *)
(***************************************************************************)
EXTENDS Integers, Sequences, FiniteSets

CONSTANTS
  Bits,       \* the bits of a byte (eight in the code)
  Printable   \* the bytes the engine accepts in an answer (33 to 126)

ASSUME PrintableAssumption == Printable \subseteq SUBSET Bits

Bytes == SUBSET Bits

Xor(a, b) == (a \ b) \cup (b \ a)

XorAll(s) == {b \in Bits : Cardinality({i \in DOMAIN s : b \in s[i]}) % 2 = 1}

Masked(s, key) == [i \in DOMAIN s |-> Xor(s[i], key)]

IsPrintable(s) == \A i \in DOMAIN s : s[i] \in Printable

\* What the program does with an input.
Accepts(buf, input) == Masked(input, XorAll(input)) = buf

\* An even number of copies of the key cancel out: the key is the xor of the
\* buffer.  With an odd number the xor of the buffer is zero and says nothing of
\* the key, and all are tried.
KeysIgnoringParity(buf) == {XorAll(buf)}
KeysToTry(buf) ==
  IF Len(buf) % 2 = 0 THEN {XorAll(buf)}
  ELSE IF XorAll(buf) = {} THEN Bytes
  ELSE {}

Solutions(buf) == {Masked(buf, key) : key \in {k \in KeysToTry(buf) : IsPrintable(Masked(buf, k))}}
=============================================================================
