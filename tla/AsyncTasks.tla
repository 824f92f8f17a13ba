------------------------------ MODULE AsyncTasks ------------------------------
(***************************************************************************)
(* The asyncio machine every part of the chat back-end runs on: one event  *)
(* loop, many tasks, and asyncio.Lock.                                     *)
(*                                                                         *)
(* A task is a stack of frames, its innermost coroutine on top: a frame is *)
(* a record whose field "do" names a stretch of code that runs without a   *)
(* suspension point.  The loop runs one task at a time, and a task gives   *)
(* the loop up only where it waits (for a lock; in the modules that extend *)
(* this one, also for I/O) or when it returns.  An asyncio.Lock is not     *)
(* reentrant: its holder is a task like any other if it asks for it again. *)
(* Waiters are not kept in a queue: whoever is picked when the lock is     *)
(* free may take it.  asyncio wakes them in order, which is one of these   *)
(* choices.                                                                *)
(***************************************************************************)
EXTENDS Sequences

CONSTANTS Task,     \* the tasks of the event loop
          Lock,     \* the asyncio.Lock objects
          NoTask    \* no task: the loop is idle, the lock is free

ASSUME TaskAssumption == NoTask \notin Task

VARIABLES stack,    \* stack[t]: the frames task t still has to run
          running,  \* the task the event loop is running
          holder    \* holder[l]: the task that holds lock l

asyncVars == <<stack, running, holder>>

AsyncInit ==
  /\ stack = [t \in Task |-> <<>>]
  /\ running = NoTask
  /\ holder = [l \in Lock |-> NoTask]

Busy(t) == stack[t] # <<>>
Top(t)  == Head(stack[t])

\* Task t has yielded in the middle of its work.
Suspended(t) == Busy(t) /\ running # t

\* The loop is running t, or is idle and may pick t.
Scheduled(t) == Busy(t) /\ running \in {t, NoTask}

\* The end of an "async with" block.
LeaveFrame(l) == [do |-> "leave", lock |-> l]

-----------------------------------------------------------------------------
\* An idle task is given a call to run.
Start(t, frame) ==
  /\ running = NoTask
  /\ ~Busy(t)
  /\ stack' = [stack EXCEPT ![t] = <<frame>>]
  /\ running' = t
  /\ UNCHANGED holder

\* The frame on top is done; the calls it makes, in order, take its place.
Continue(t, frames) ==
  LET rest == frames \o Tail(stack[t])
  IN  /\ stack' = [stack EXCEPT ![t] = rest]
      /\ running' = IF rest = <<>> THEN NoTask ELSE t

\* "async with" entered at once: the lock is free.
Acquire(t, l) ==
  /\ holder[l] = NoTask
  /\ holder' = [holder EXCEPT ![l] = t]

\* "async with" on a lock somebody holds: the task yields.
Wait(t, l) ==
  /\ running = t
  /\ holder[l] # NoTask
  /\ running' = NoTask
  /\ UNCHANGED <<stack, holder>>

\* The "async with" block on top ends.
Leave(t) ==
  \E l \in Lock :
    /\ Scheduled(t)
    /\ Top(t) = LeaveFrame(l)
    /\ holder' = [holder EXCEPT ![l] = NoTask]
    /\ Continue(t, <<>>)
=============================================================================
