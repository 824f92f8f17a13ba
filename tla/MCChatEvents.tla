----------------------------- MODULE MCChatEvents -----------------------------
(* A caller and the four consumers; each client has one chat.                 *)
EXTENDS ChatEvents, TLC

CONSTANTS c1, ch1, o1, o2

MCClientOf == [ch \in Chat |-> c1]

\* o1 has room for one chat, o2 for two.
MCMaxChats == [o \in Operator |-> IF o = o1 THEN 1 ELSE 2]

\* Both are lawyers, whom nothing is assigned to but by themselves.
MCLawyers == [o \in Operator |-> "lawyer"]
MCNobody  == [c \in Client |-> NoOperator]
===============================================================================
