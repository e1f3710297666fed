----------------------------- MODULE MCActiveActions -----------------------------
(***************************************************************************)
(* Small instances of ActiveActions: a1 is adaptive cruise, h1 and h2 are  *)
(* highway assist, c1 and c2 camp mode.                                    *)
(***************************************************************************)
EXTENDS ActiveActions, TLC

CONSTANTS a1, h1, h2, c1, c2, s1, s2

MCIntentOf ==
    [a \in Actions |->
       CASE a = a1 -> "aac"
         [] a \in {h1, h2} -> "hda"
         [] OTHER -> "camp"]

MCOneSession == [a \in Actions |-> s1]
MCTwoSessions == [a \in Actions |-> IF a = h2 THEN s2 ELSE s1]
=============================================================================
