--------------------------- MODULE CtfRuntimeProps ---------------------------
(***************************************************************************)
(* The properties of CtfRuntime.                                           *)
(***************************************************************************)
EXTENDS CtfRuntime

-----------------------------------------------------------------------------
(* Properties of both deployments, whatever is lost or repeated            *)

Approved(c) == {f \in Range(log.flags) : f.challenge_id = c /\ f.status = "solved"}

\* gate.py: the gate is the only path to solved.  A text on a board is one that
\* the gate called solved, for that challenge, on proof.
OnlyApprovedFlags ==
    \A c \in Challenges :
        \A x \in Range(board[c].flags) :
            \E f \in Approved(c) : f.candidate = x /\ Proven(f)

Consistent(b) ==
    /\ b.board_status = "solved" <=> b.flags # <<>>
    /\ b.board_status = "solved" <=> b.status = "solved"

\* The two status fields and the list of flags of one board never disagree,
\* although on_flag and on_trace write back whole boards read earlier and a
\* replayed challenge overwrites them.
BoardIsConsistent == \A c \in Challenges : Consistent(board[c])

\* on_handoff reads workdir and artifacts from the board and does without
\* when there is none: nothing is ever worked on before its board exists.
BoardPrecedesWork ==
    \A k \in Categories : \A t \in Range(log.tasks[k]) :
        board[t.challenge_id] # NoBoard

\* No task lies deeper in a chain of handoffs than _MAX_HANDOFF_DEPTH.
HandoffDepthBounded ==
    \A k \in Categories : \A t \in Range(log.tasks[k]) :
        t.handoff_depth <= MaxHandoffDepth

-----------------------------------------------------------------------------
(* Properties of the in-memory deployment                                  *)

Subject(s, m) == IF s = "challenge" THEN m ELSE m.challenge_id
Workers == Services \ {"trace"}

\* Everything that still stands for work on challenge c: unread messages and
\* running handlers, traces aside.
WorkItems(c) ==
    (UNION { {<<s, i>> : i \in {j \in (read[s] + 1)..Len(Inbox(s)) :
                                  Subject(s, Inbox(s)[j]) = c}} : s \in Workers })
    \cup {<<s, 0>> : s \in {w \in Workers : hand[w] # Idle /\ Subject(w, hand[w].msg) = c}}
    \cup (UNION { {<<k, i>> : i \in {j \in (taken[k] + 1)..Len(log.tasks[k]) :
                                       log.tasks[k][j].challenge_id = c}} : k \in Categories })
    \cup {<<k, 0>> : k \in {j \in Categories : spec[j] # Idle /\ spec[j].task.challenge_id = c}}

Kinds(c) == {t.kind : t \in {e \in Range(log.traces) : e.challenge_id = c}}
Ended(c) == Kinds(c) \cap EndKind # {}

\* Work on a submitted challenge is never lost and never duplicated: there is
\* one message or handler for it, until a trace says how it ended.
WorkIsConserved ==
    \A c \in Range(log.challenges) :
        \/ Cardinality(WorkItems(c)) = 1
        \/ WorkItems(c) = {} /\ Ended(c)

\* cli.py board: the status printed for a challenge is derived from its trace
\* file, one event after the other.
StatusAfter(status, kind) ==
    CASE kind = "solved" -> "solved"
      [] kind = "engine_no_candidate" /\ status # "solved" -> "timed_out"
      [] kind = "engine_error" /\ status # "solved" -> "failed"
      [] kind = "needs_engine" /\ status = "unknown" -> "needs_engine"
      [] kind = "handoff" /\ status = "unknown" -> "running"
      [] OTHER -> status
CliStatus(c) ==
    LET st[n \in 0..Len(log.traces)] ==
            IF n = 0 THEN "unknown"
            ELSE IF log.traces[n].challenge_id # c THEN st[n - 1]
            ELSE StatusAfter(st[n - 1], log.traces[n].kind)
    IN  st[Len(log.traces)]

\* The trace file and the board in working memory are written by different
\* loops; once nothing is left to do they tell the same outcome.
TracesAgreeWithBoard ==
    \A c \in Challenges :
        (/\ WorkItems(c) = {}
         /\ read["trace"] = Len(log.traces) /\ hand.trace = Idle)
        => \/ CliStatus(c) = board[c].board_status
           \/ /\ CliStatus(c) \in {"unknown", "needs_engine", "running"}
              /\ board[c].board_status \in {"none", "running"}

Lifecycle == INSTANCE BoardLifecycle
    WITH status <- [c \in Challenges |-> board[c].board_status]

\* schemas.md: the documented board_status transitions, and no others.
DocumentedLifecycle == Lifecycle!Spec

\* Every challenge that is submitted comes to an end that a trace tells.
EveryChallengeEnds ==
    \A c \in Challenges : (c \in Range(log.challenges)) ~> Ended(c)

\* A solved verdict on ctf.flags reaches the board and stays there.
ApprovalReachesBoard ==
    \A c \in Challenges :
        (Approved(c) # {}) ~> [](board[c].board_status = "solved")
=============================================================================
