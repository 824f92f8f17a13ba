----------------------------- MODULE PaymentCallback -----------------------------
(***************************************************************************)
(* Payments: create_payment and handle_payment_callback of                 *)
(* database/logic/balances/balance_bl.py.  No end point calls them yet.    *)
(*                                                                         *)
(* A callback is one transaction of several statements, READ COMMITTED:    *)
(* what it writes is seen by others when it commits, and a row it has      *)
(* updated or inserted before that makes them wait.  The session writes    *)
(* an attribute only if its value changes, and writes values: the balance  *)
(* it has computed, not the addition.                                      *)
(***************************************************************************)
EXTENDS Integers

CONSTANTS Callback,      \* the tasks that serve callbacks of the bank
          Payment,       \* the rows of payments_requests there will be
          User, UserOf,  \* UserOf[p]: who pays with p
          Amount,        \* Amount[p]: the amount of p
          MaxCallbacks,  \* bound of the callbacks the bank sends
          None

ASSUME PaymentAssumption ==
  /\ UserOf \in [Payment -> User]
  /\ Amount \in [Payment -> Nat]
  /\ MaxCallbacks \in Nat
  /\ None \notin Nat \cup {"completed"}

VARIABLES status,     \* status[p] of the request, None before it is there
          operations, \* operations[p]: the rows of the journal made for p
          journal,    \* journal[u]: the total of the rows of u
          balance,    \* balance[u], or None if u has no row
          task,       \* task[t]: what callback t has read and holds
          received,   \* callbacks the bank has sent
          overlapped  \* history: two callbacks have credited u at once

paymentVars == <<status, operations, journal, balance, task, received, overlapped>>

Idle == [do |-> "idle"]

PaymentInit ==
  /\ status = [p \in Payment |-> None]
  /\ operations = [p \in Payment |-> 0]
  /\ journal = [u \in User |-> 0]
  /\ balance = [u \in User |-> None]
  /\ task = [t \in Callback |-> Idle]
  /\ received = 0
  /\ overlapped = [u \in User |-> FALSE]

Crediting(u) == {t \in Callback : task[t].do = "credit" /\ UserOf[task[t].payment] = u}

\* The request is there before the bank is asked for the payment.
CreatePayment(p) ==
  /\ status[p] = None
  /\ status' = [status EXCEPT ![p] = "pending"]
  /\ UNCHANGED <<operations, journal, balance, task, received, overlapped>>

\* The status is committed when the request is read.
FaultyReadRequest(t, p, answer) ==
  /\ task[t] = Idle
  /\ status[p] # None
  /\ received < MaxCallbacks
  /\ received' = received + 1
  /\ status' = [status EXCEPT ![p] = IF answer = "CONFIRMED" THEN "completed" ELSE @]
  /\ task' = [task EXCEPT ![t] = [do |-> answer, payment |-> p, was |-> status[p]]]
  /\ UNCHANGED <<operations, journal, balance, overlapped>>

\* The bank sends what it likes as often as it likes.
ReadRequest(t, p, answer) ==
  /\ task[t] = Idle
  /\ status[p] # None
  /\ received < MaxCallbacks
  /\ received' = received + 1
  /\ task' = [task EXCEPT ![t] = [do |-> answer, payment |-> p, was |-> status[p]]]
  /\ UNCHANGED <<status, operations, journal, balance, overlapped>>

\* Another callback has updated the row of p and has not committed.
Locked(p) ==
  \E t \in Callback :
    task[t].do = "credit" /\ task[t].payment = p /\ task[t].was # "completed"

\* The word of the bank is stored as it is.
FaultyMarkFailed(t) ==
  /\ task[t].do = "FAILED"
  /\ status' = [status EXCEPT ![task[t].payment] = task[t].do]
  /\ task' = [task EXCEPT ![t] = Idle]
  /\ UNCHANGED <<operations, journal, balance, received, overlapped>>

\* Anything but CONFIRMED; it may come after the payment was completed.
MarkFailed(t) ==
  LET p == task[t].payment IN
  /\ task[t].do = "FAILED"
  /\ task[t].was = "failed" \/ ~Locked(p)
  /\ status' = IF task[t].was = "failed" THEN status
               ELSE [status EXCEPT ![p] = "failed"]
  /\ task' = [task EXCEPT ![t] = Idle]
  /\ UNCHANGED <<operations, journal, balance, received, overlapped>>

\* The select of the balance flushes the new status and the operation first.
ReadBalance(t) ==
  LET p == task[t].payment
      u == UserOf[p]
  IN
  /\ task[t].do = "CONFIRMED"
  /\ task[t].was = "completed" \/ ~Locked(p)
  /\ task' = [task EXCEPT ![t] =
       [do |-> "credit", payment |-> p, was |-> task[t].was, seen |-> balance[u], new |-> FALSE]]
  /\ overlapped' = [overlapped EXCEPT ![u] = @ \/ Crediting(u) # {}]
  /\ UNCHANGED <<status, operations, journal, balance, received>>

\* user_id is unique: the insertion waits for one that is not committed, and
\* fails if there is a row by then, and with it all of the callback.
InsertBalance(t) ==
  LET u == UserOf[task[t].payment] IN
  /\ task[t].do = "credit" /\ task[t].seen = None
  /\ \A other \in Crediting(u) : ~task[other].new
  /\ task' = [task EXCEPT ![t] = IF balance[u] = None THEN [@ EXCEPT !.seen = 0, !.new = TRUE]
                                 ELSE Idle]
  /\ UNCHANGED <<status, operations, journal, balance, received, overlapped>>

FaultyCommit(t) ==
  LET p == task[t].payment
      u == UserOf[p]
  IN
  /\ task[t].do = "credit"
  /\ balance' = [balance EXCEPT ![u] = IF task[t].seen = None THEN None ELSE task[t].seen + Amount[p]]
  /\ operations' = [operations EXCEPT ![p] = 1]
  /\ journal' = [journal EXCEPT ![u] = IF operations[p] = 0 THEN @ + Amount[p] ELSE @]
  /\ status' = [status EXCEPT ![p] = "completed"]
  /\ task' = [task EXCEPT ![t] = Idle]
  /\ UNCHANGED <<received, overlapped>>

Commit(t) ==
  LET p == task[t].payment
      u == UserOf[p]
  IN
  /\ task[t].do = "credit" /\ task[t].seen # None
  /\ balance' = [balance EXCEPT ![u] = task[t].seen + Amount[p]]
  /\ operations' = [operations EXCEPT ![p] = @ + 1]
  /\ journal' = [journal EXCEPT ![u] = @ + Amount[p]]
  /\ status' = IF task[t].was = "completed" THEN status
               ELSE [status EXCEPT ![p] = "completed"]
  /\ task' = [task EXCEPT ![t] = Idle]
  /\ UNCHANGED <<received, overlapped>>

\* The data base goes away: nothing was committed.
RollBack(t) ==
  /\ task[t] # Idle
  /\ task' = [task EXCEPT ![t] = Idle]
  /\ UNCHANGED <<status, operations, journal, balance, received, overlapped>>

PaymentNext ==
  \/ \E p \in Payment : CreatePayment(p)
  \/ \E t \in Callback, p \in Payment, answer \in {"CONFIRMED", "FAILED"} : ReadRequest(t, p, answer)
  \/ \E t \in Callback :
       MarkFailed(t) \/ ReadBalance(t) \/ InsertBalance(t) \/ Commit(t) \/ RollBack(t)

PaymentSpec == PaymentInit /\ [][PaymentNext]_paymentVars

-----------------------------------------------------------------------------
(* Properties.                                                             *)

Status == {"pending", "completed", "failed"}

PaymentTask ==
       {Idle}
  \cup [do : {"CONFIRMED", "FAILED"}, payment : Payment, was : Status]
  \cup [do : {"credit"}, payment : Payment, was : Status, seen : Nat \cup {None}, new : BOOLEAN]

\* Every variable holds what the column or the local variables it stands for can
\* hold.
PaymentTypeOK ==
  /\ status \in [Payment -> Status \cup {None}]
  /\ operations \in [Payment -> Nat]
  /\ journal \in [User -> Nat]
  /\ balance \in [User -> Nat \cup {None}]
  /\ task \in [Callback -> PaymentTask]
  /\ received \in Nat
  /\ overlapped \in [User -> BOOLEAN]

\* Nobody has money the journal does not account for, although callbacks are
\* repeated, overlap, overwrite each other's balance and fail half-way.
NoUnexplainedMoney ==
  \A u \in User : balance[u] # None => balance[u] <= journal[u]

\* The balance is what the journal says, unless two callbacks of the user were
\* crediting at once: then the later commit may overwrite the earlier.
BalanceIsJournal ==
  \A u \in User : ~overlapped[u] => (IF balance[u] = None THEN 0 ELSE balance[u]) = journal[u]

\* A payment is completed in the same transaction that credits it.
CompletedIsCredited ==
  \A p \in Payment : status[p] = "completed" => operations[p] > 0
=============================================================================
