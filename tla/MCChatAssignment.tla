--------------------------- MODULE MCChatAssignment ---------------------------
(* Small instances of ChatAssignment.                                         *)
EXTENDS ChatAssignment, TLC

CONSTANTS c1, c2, ch1, ch2, o1, o2, o3

\* Each client has one chat.
MCClientOf == [ch \in Chat |-> IF ch = ch1 THEN c1 ELSE c2]

\* o1 has room for one chat, the others for two.
MCMaxChats == [o \in Operator |-> IF o = o1 THEN 1 ELSE 2]

\* What get_operator_type answers once the stub that says "support" of everybody
\* is replaced, as the tests do.
MCLawyers == [o \in Operator |-> IF o = o3 THEN "support" ELSE "lawyer"]

\* A client is no operator, or, with the stub, c1 is o3 as well.
MCNobody == [c \in Client |-> NoOperator]
MCStub   == [c \in Client |-> IF c = c1 THEN o3 ELSE NoOperator]

TaskSymmetry == Permutations(Task)
===============================================================================
