--------------------------- MODULE MCInMemoryBus ---------------------------
(***************************************************************************)
(* InMemoryBus with two groups, one of which has two subscribers who share  *)
(* its work.                                                               *)
(***************************************************************************)
EXTENDS InMemoryBus, TLC

CONSTANTS g1, g2, s1, s2, s3

MCGroupOf == s1 :> g1 @@ s2 :> g1 @@ s3 :> g2
=============================================================================
