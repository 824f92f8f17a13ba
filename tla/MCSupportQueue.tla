---------------------------- MODULE MCSupportQueue ----------------------------
(* Small instances of SupportQueue: operator o1 has room for one chat and o2  *)
(* for two.                                                                   *)
EXTENDS SupportQueue, TLC

CONSTANTS c1, c2, c3, ch1, ch2, ch3, o1, o2

\* Each client has one chat ...
MCOneChatEach ==
  [ch \in Chat |-> IF ch = ch1 THEN c1 ELSE IF ch = ch2 THEN c2 ELSE c3]

\* ... or c1 has opened ch3 after ch1.
MCTwoChats == [ch \in Chat |-> IF ch = ch2 THEN c2 ELSE c1]

MCMaxChats == [o \in Operator |-> IF o = o1 THEN 1 ELSE 2]

\* Tasks differ in nothing.
TaskSymmetry == Permutations(Task)
===============================================================================
