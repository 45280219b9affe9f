------------------------------ MODULE MCCommands ------------------------------
(* Commands with key files of one and six keys, groups of two, sends of no, one  *)
(* and two messages and for ever, and two messages that may still be answered.   *)
EXTENDS Commands

MCKeyCount == {1, 6}
MCCount == {-1, 0, 1, 2}
MCSlot == 1..2
=============================================================================
