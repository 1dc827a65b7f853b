--------------------------- MODULE BoardLifecycle ---------------------------
(***************************************************************************)
(* What shared/schemas.md promises of a challenge's board_status: a board   *)
(* is opened once, running, and leaves that status once, for good, by one   *)
(* of three transitions.                                                    *)
(***************************************************************************)
CONSTANT Challenges
VARIABLE status

Init == status = [c \in Challenges |-> "none"]

Move(c, from, to) ==
    /\ status[c] = from
    /\ status' = [status EXCEPT ![c] = to]

Open(c)    == Move(c, "none", "running")
Solve(c)   == Move(c, "running", "solved")
TimeOut(c) == Move(c, "running", "timed_out")
Fail(c)    == Move(c, "running", "failed")

Next == \E c \in Challenges : Open(c) \/ Solve(c) \/ TimeOut(c) \/ Fail(c)

Spec == Init /\ [][Next]_status
=============================================================================
