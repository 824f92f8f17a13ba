-------------------------- MODULE PaymentCallback_proofs --------------------------
(***************************************************************************)
(* What is proved of PaymentCallback, for any payments and amounts and any *)
(* number of callbacks at once.                                            *)
(***************************************************************************)
EXTENDS PaymentCallback, TLAPS

\* What a callback has seen is covered by the journal, which only grows.
SeenIsExplained ==
  \A t \in Callback : task[t].do = "credit" /\ task[t].seen # None =>
    task[t].seen <= journal[UserOf[task[t].payment]]

MoneyInv == PaymentTypeOK /\ SeenIsExplained /\ NoUnexplainedMoney

Worth(b) == IF b = None THEN 0 ELSE b

\* A user whose callbacks never overlapped has at most one that is crediting, and
\* what that one has seen is what the balance is.
SeenIsCurrent ==
  \A u \in User : ~overlapped[u] =>
    /\ \A t, other \in Crediting(u) : t = other
    /\ \A t \in Crediting(u) : Worth(task[t].seen) = journal[u]

JournalInv == PaymentTypeOK /\ SeenIsCurrent /\ BalanceIsJournal

-----------------------------------------------------------------------------
LEMMA PaymentInitType == PaymentInit => PaymentTypeOK
BY PaymentAssumption DEF PaymentInit, PaymentTypeOK, PaymentTask, Idle

\* What a callback carries.
LEMMA CallbackArguments ==
  ASSUME PaymentTypeOK, NEW t \in Callback, task[t].do \in {"CONFIRMED", "FAILED", "credit"}
  PROVE  /\ task[t].payment \in Payment
         /\ UserOf[task[t].payment] \in User
         /\ Amount[task[t].payment] \in Nat
         /\ task[t].was \in Status
         /\ task[t].do = "credit" => task[t].seen \in Nat \cup {None} /\ task[t].new \in BOOLEAN
<1>1. task[t].payment \in Payment /\ task[t].was \in Status
  BY DEF PaymentTypeOK, PaymentTask, Idle
<1>2. task[t].do = "credit" => task[t].seen \in Nat \cup {None} /\ task[t].new \in BOOLEAN
  BY DEF PaymentTypeOK, PaymentTask, Idle
<1>3. QED
  BY <1>1, <1>2, PaymentAssumption

LEMMA PaymentNextType == PaymentTypeOK /\ [PaymentNext]_paymentVars => PaymentTypeOK'
<1> SUFFICES ASSUME PaymentTypeOK, [PaymentNext]_paymentVars PROVE PaymentTypeOK'
  OBVIOUS
<1>1. Idle \in PaymentTask
  BY DEF PaymentTask
<1>2. ASSUME NEW p \in Payment, CreatePayment(p)
      PROVE  PaymentTypeOK'
  BY <1>2 DEF PaymentTypeOK, CreatePayment, Status
<1>3. ASSUME NEW t \in Callback, NEW p \in Payment, NEW answer \in {"CONFIRMED", "FAILED"},
             ReadRequest(t, p, answer)
      PROVE  PaymentTypeOK'
  <2>1. status[p] \in Status
    BY <1>3 DEF ReadRequest, PaymentTypeOK
  <2>2. [do |-> answer, payment |-> p, was |-> status[p]] \in PaymentTask
    BY <2>1 DEF PaymentTask
  <2>3. QED
    BY <1>3, <2>2 DEF PaymentTypeOK, ReadRequest
<1>4. ASSUME NEW t \in Callback, MarkFailed(t)
      PROVE  PaymentTypeOK'
  BY <1>1, <1>4 DEF PaymentTypeOK, MarkFailed, Status
<1>5. ASSUME NEW t \in Callback, ReadBalance(t)
      PROVE  PaymentTypeOK'
  <2>1. /\ task[t].payment \in Payment /\ UserOf[task[t].payment] \in User
        /\ task[t].was \in Status
    BY <1>5, CallbackArguments DEF ReadBalance
  <2>2. [do |-> "credit", payment |-> task[t].payment, was |-> task[t].was,
         seen |-> balance[UserOf[task[t].payment]], new |-> FALSE] \in PaymentTask
    BY <2>1 DEF PaymentTypeOK, PaymentTask
  <2>3. QED
    BY <1>5, <2>2 DEF PaymentTypeOK, ReadBalance
<1>6. ASSUME NEW t \in Callback, InsertBalance(t)
      PROVE  PaymentTypeOK'
  <2>1. task[t] \in [do : {"credit"}, payment : Payment, was : Status,
                     seen : Nat \cup {None}, new : BOOLEAN]
    BY <1>6 DEF InsertBalance, PaymentTypeOK, PaymentTask, Idle
  <2>2. [task[t] EXCEPT !.seen = 0, !.new = TRUE] \in PaymentTask
    BY <2>1 DEF PaymentTask
  <2>3. QED
    BY <1>1, <1>6, <2>2 DEF PaymentTypeOK, InsertBalance
<1>7. ASSUME NEW t \in Callback, Commit(t)
      PROVE  PaymentTypeOK'
  <2>1. /\ task[t].seen \in Nat /\ task[t].payment \in Payment
        /\ UserOf[task[t].payment] \in User /\ Amount[task[t].payment] \in Nat
    BY <1>7, CallbackArguments DEF Commit
  <2>2. task[t].seen + Amount[task[t].payment] \in Nat
    BY <2>1
  <2>3. journal' \in [User -> Nat] /\ operations' \in [Payment -> Nat]
    BY <1>7, <2>1 DEF Commit, PaymentTypeOK
  <2>4. balance' \in [User -> Nat \cup {None}]
    BY <1>7, <2>1, <2>2 DEF Commit, PaymentTypeOK
  <2>5. status' \in [Payment -> Status \cup {None}]
    BY <1>7, <2>1 DEF Commit, PaymentTypeOK, Status
  <2>6. QED
    BY <1>1, <1>7, <2>3, <2>4, <2>5 DEF PaymentTypeOK, Commit
<1>8. ASSUME NEW t \in Callback, RollBack(t)
      PROVE  PaymentTypeOK'
  BY <1>1, <1>8 DEF PaymentTypeOK, RollBack
<1>9. CASE UNCHANGED paymentVars
  BY <1>9 DEF PaymentTypeOK, paymentVars
<1>10. QED
  BY <1>2, <1>3, <1>4, <1>5, <1>6, <1>7, <1>8, <1>9 DEF PaymentNext

\* Rows and callbacks hold what they can hold.
THEOREM PaymentTypeCorrect == PaymentSpec => []PaymentTypeOK
<1>1. QED
  BY PaymentInitType, PaymentNextType, PTL DEF PaymentSpec

-----------------------------------------------------------------------------
\* All but Commit leave the tables of money alone, and a callback that is crediting
\* either was already, or starts with the balance there is, or with a new row.
LEMMA OnlyCommitCredits ==
  ASSUME PaymentTypeOK, [PaymentNext]_paymentVars, \A t \in Callback : ~Commit(t)
  PROVE  /\ journal' = journal /\ balance' = balance /\ operations' = operations
         /\ \A q \in Callback : task'[q].do = "credit" =>
              \/ task'[q] = task[q]
              \/ /\ ReadBalance(q)
                 /\ task'[q].payment = task[q].payment
                 /\ task'[q].seen = balance[UserOf[task[q].payment]]
              \/ /\ InsertBalance(q)
                 /\ balance[UserOf[task[q].payment]] = None
                 /\ task'[q].payment = task[q].payment
                 /\ task'[q].seen = 0
<1>1. ASSUME NEW t \in Callback, NEW p \in Payment, NEW answer \in {"CONFIRMED", "FAILED"},
             ReadRequest(t, p, answer)
      PROVE  /\ journal' = journal /\ balance' = balance /\ operations' = operations
             /\ \A q \in Callback : task'[q].do = "credit" => task'[q] = task[q]
  BY <1>1 DEF ReadRequest, PaymentTypeOK
<1>2. ASSUME NEW t \in Callback, MarkFailed(t) \/ RollBack(t)
      PROVE  /\ journal' = journal /\ balance' = balance /\ operations' = operations
             /\ \A q \in Callback : task'[q].do = "credit" => task'[q] = task[q]
  BY <1>2 DEF MarkFailed, RollBack, Idle, PaymentTypeOK
<1>3. ASSUME NEW t \in Callback, ReadBalance(t)
      PROVE  /\ journal' = journal /\ balance' = balance /\ operations' = operations
             /\ \A q \in Callback : q # t => task'[q] = task[q]
             /\ task'[t].payment = task[t].payment
             /\ task'[t].seen = balance[UserOf[task[t].payment]]
  BY <1>3 DEF ReadBalance, PaymentTypeOK
<1>4. ASSUME NEW t \in Callback, InsertBalance(t)
      PROVE  /\ journal' = journal /\ balance' = balance /\ operations' = operations
             /\ \A q \in Callback : q # t => task'[q] = task[q]
             /\ task'[t].do = "credit" => /\ balance[UserOf[task[t].payment]] = None
                                          /\ task'[t].payment = task[t].payment
                                          /\ task'[t].seen = 0
  <2>1. task[t] \in [do : {"credit"}, payment : Payment, was : Status,
                     seen : Nat \cup {None}, new : BOOLEAN]
    BY <1>4 DEF InsertBalance, PaymentTypeOK, PaymentTask, Idle
  <2>2. CASE balance[UserOf[task[t].payment]] = None
    <3>1. task'[t] = [task[t] EXCEPT !.seen = 0, !.new = TRUE]
      BY <1>4, <2>2 DEF InsertBalance, PaymentTypeOK
    <3>2. task'[t].payment = task[t].payment /\ task'[t].seen = 0
      BY <2>1, <3>1
    <3>3. QED
      BY <1>4, <2>2, <3>2 DEF InsertBalance, PaymentTypeOK
  <2>3. CASE balance[UserOf[task[t].payment]] # None
    BY <1>4, <2>3 DEF InsertBalance, PaymentTypeOK, Idle
  <2>4. QED
    BY <2>2, <2>3
<1>5. CASE (\E p \in Payment : CreatePayment(p)) \/ UNCHANGED paymentVars
  BY <1>5 DEF CreatePayment, paymentVars
<1>6. QED
  BY <1>1, <1>2, <1>3, <1>4, <1>5 DEF PaymentNext

\* What a commit writes is what was seen and the amount.
LEMMA CommitCredits ==
  ASSUME PaymentTypeOK, NEW t \in Callback, Commit(t)
  PROVE  LET u == UserOf[task[t].payment]
             a == Amount[task[t].payment]
         IN  /\ u \in User /\ a \in Nat /\ task[t].seen \in Nat
             /\ task[t].do = "credit" /\ task'[t] = Idle
             /\ \A q \in Callback : q # t => task'[q] = task[q]
             /\ balance'[u] = task[t].seen + a
             /\ journal'[u] = journal[u] + a
             /\ \A v \in User : v # u => balance'[v] = balance[v] /\ journal'[v] = journal[v]
<1>1. /\ UserOf[task[t].payment] \in User /\ Amount[task[t].payment] \in Nat
      /\ task[t].seen \in Nat /\ task[t].do = "credit"
  BY CallbackArguments DEF Commit
<1>2. QED
  BY <1>1 DEF Commit, PaymentTypeOK

LEMMA MoneyInvNext == MoneyInv /\ [PaymentNext]_paymentVars => MoneyInv'
<1> SUFFICES ASSUME MoneyInv, [PaymentNext]_paymentVars PROVE MoneyInv'
  OBVIOUS
<1> USE DEF MoneyInv
<1>1. ASSUME NEW t \in Callback, Commit(t)
      PROVE  SeenIsExplained' /\ NoUnexplainedMoney'
  <2> DEFINE u == UserOf[task[t].payment]
             a == Amount[task[t].payment]
  <2>1. /\ u \in User /\ a \in Nat /\ task[t].seen \in Nat /\ task[t].do = "credit"
        /\ task'[t] = Idle /\ \A q \in Callback : q # t => task'[q] = task[q]
        /\ balance'[u] = task[t].seen + a /\ journal'[u] = journal[u] + a
        /\ \A v \in User : v # u => balance'[v] = balance[v] /\ journal'[v] = journal[v]
    BY <1>1, CommitCredits
  <2>2. task[t].seen <= journal[u] /\ journal[u] \in Nat
    BY <2>1, <1>1 DEF SeenIsExplained, Commit, PaymentTypeOK
  <2>3. balance'[u] <= journal'[u]
    BY <2>1, <2>2
  <2>4. NoUnexplainedMoney'
    BY <2>1, <2>3 DEF NoUnexplainedMoney
  <2>5. ASSUME NEW q \in Callback, task'[q].do = "credit", task'[q].seen # None
        PROVE  task'[q].seen <= journal'[UserOf[task'[q].payment]]
    <3>1. q # t /\ task'[q] = task[q]
      BY <2>1, <2>5 DEF Idle
    <3>2. task[q].seen <= journal[UserOf[task[q].payment]] /\ task[q].seen \in Nat
      BY <2>5, <3>1, CallbackArguments DEF SeenIsExplained
    <3>3. UserOf[task[q].payment] \in User
      BY <2>5, <3>1, CallbackArguments
    <3>4. CASE UserOf[task[q].payment] = u
      BY <2>1, <2>2, <3>1, <3>2, <3>4
    <3>5. CASE UserOf[task[q].payment] # u
      BY <2>1, <3>1, <3>2, <3>3, <3>5
    <3>6. QED
      BY <3>4, <3>5
  <2>6. QED
    BY <2>4, <2>5 DEF SeenIsExplained
<1>2. CASE \A t \in Callback : ~Commit(t)
  <2>1. journal' = journal /\ balance' = balance
    BY <1>2, OnlyCommitCredits
  <2>2. ASSUME NEW q \in Callback, task'[q].do = "credit", task'[q].seen # None
        PROVE  task'[q].seen <= journal'[UserOf[task'[q].payment]]
    <3>1. CASE task'[q] = task[q]
      BY <2>1, <2>2, <3>1 DEF SeenIsExplained
    <3>2. CASE /\ ReadBalance(q) /\ task'[q].payment = task[q].payment
               /\ task'[q].seen = balance[UserOf[task[q].payment]]
      <4>1. UserOf[task[q].payment] \in User
        BY <3>2, CallbackArguments DEF ReadBalance
      <4>2. QED
        BY <2>1, <2>2, <3>2, <4>1 DEF NoUnexplainedMoney
    <3>3. CASE /\ InsertBalance(q) /\ task'[q].payment = task[q].payment /\ task'[q].seen = 0
      <4>1. journal[UserOf[task[q].payment]] \in Nat
        BY <3>3, CallbackArguments DEF InsertBalance, PaymentTypeOK
      <4>2. QED
        BY <2>1, <3>3, <4>1
    <3>4. QED
      BY <1>2, <2>2, <3>1, <3>2, <3>3, OnlyCommitCredits
  <2>3. QED
    BY <2>1, <2>2, PaymentNextType DEF SeenIsExplained, NoUnexplainedMoney
<1>3. QED
  BY <1>1, <1>2, PaymentNextType

\* No balance exceeds what the journal accounts for, however callbacks overlap,
\* repeat and fail.
THEOREM MoneyIsExplained == PaymentSpec => []NoUnexplainedMoney
<1>1. PaymentInit => MoneyInv
  BY PaymentInitType DEF PaymentInit, MoneyInv, SeenIsExplained, NoUnexplainedMoney, Idle
<1>2. MoneyInv => NoUnexplainedMoney
  BY DEF MoneyInv
<1>3. QED
  BY <1>1, <1>2, MoneyInvNext, PTL DEF PaymentSpec

-----------------------------------------------------------------------------
\* Crediting, after a step: who is and for whom.
LEMMA CreditingMember ==
  ASSUME NEW t \in Callback
  PROVE  \A u : t \in Crediting(u) <=> task[t].do = "credit" /\ UserOf[task[t].payment] = u
BY DEF Crediting

LEMMA CreditingMemberNext ==
  ASSUME NEW t \in Callback
  PROVE  \A u : t \in Crediting(u)' <=> task'[t].do = "credit" /\ UserOf[task'[t].payment] = u
BY DEF Crediting

LEMMA SeenIsCurrentCommit ==
  ASSUME JournalInv, NEW t \in Callback, Commit(t)
  PROVE  SeenIsCurrent' /\ BalanceIsJournal'
<1> DEFINE u == UserOf[task[t].payment]
           a == Amount[task[t].payment]
<1> USE DEF JournalInv
<1>1. /\ u \in User /\ a \in Nat /\ task[t].seen \in Nat /\ task[t].do = "credit"
      /\ task'[t] = Idle /\ \A q \in Callback : q # t => task'[q] = task[q]
      /\ balance'[u] = task[t].seen + a /\ journal'[u] = journal[u] + a
      /\ \A v \in User : v # u => balance'[v] = balance[v] /\ journal'[v] = journal[v]
  BY CommitCredits
<1>2. overlapped' = overlapped /\ t \in Crediting(u)
  BY <1>1, CreditingMember DEF Commit
<1>3. ASSUME NEW v \in User, NEW q \in Crediting(v)'
      PROVE  q # t /\ task'[q] = task[q] /\ q \in Crediting(v)
  BY <1>1 DEF Crediting, Idle
<1>4. ASSUME NEW v \in User, ~overlapped'[v]
      PROVE  /\ \A q, other \in Crediting(v)' : q = other
             /\ \A q \in Crediting(v)' : Worth(task'[q].seen) = journal'[v]
             /\ Worth(balance'[v]) = journal'[v]
  <2>1. /\ \A q, other \in Crediting(v) : q = other
        /\ \A q \in Crediting(v) : Worth(task[q].seen) = journal[v]
        /\ Worth(balance[v]) = journal[v]
    BY <1>2, <1>4 DEF SeenIsCurrent, BalanceIsJournal, Worth
  <2>2. CASE v = u
    <3>1. Crediting(v)' = {}
      BY <1>2, <1>3, <2>1, <2>2
    <3>2. task[t].seen = journal[u]
      BY <1>1, <1>2, <2>1, <2>2, PaymentAssumption DEF Worth
    <3>3. balance'[u] = journal'[u] /\ balance'[u] \in Nat
      BY <1>1, <3>2
    <3>4. QED
      BY <2>2, <3>1, <3>3, PaymentAssumption DEF Worth
  <2>3. CASE v # u
    BY <1>1, <1>3, <2>1, <2>3
  <2>4. QED
    BY <2>2, <2>3
<1>5. QED
  BY <1>4 DEF SeenIsCurrent, BalanceIsJournal, Worth

\* A callback that begins to credit is alone, or the history records it.
LEMMA OverlapIsRecorded ==
  ASSUME PaymentTypeOK, [PaymentNext]_paymentVars, \A t \in Callback : ~Commit(t),
         NEW u \in User, ~overlapped'[u]
  PROVE  /\ ~overlapped[u]
         /\ \A q \in Callback : ReadBalance(q) /\ UserOf[task[q].payment] = u => Crediting(u) = {}
<1>1. ASSUME NEW q \in Callback, ReadBalance(q)
      PROVE  /\ ~overlapped[u]
             /\ UserOf[task[q].payment] = u => Crediting(u) = {}
  BY <1>1 DEF ReadBalance, PaymentTypeOK
<1>2. CASE \A q \in Callback : ~ReadBalance(q)
  BY <1>2 DEF PaymentNext, CreatePayment, ReadRequest, MarkFailed, InsertBalance, RollBack,
              paymentVars
<1>3. ASSUME NEW q \in Callback, ReadBalance(q), NEW other \in Callback, ReadBalance(other)
      PROVE  ~overlapped[u] /\ (UserOf[task[other].payment] = u => Crediting(u) = {})
  BY <1>1, <1>3
<1>4. QED
  BY <1>1, <1>2

\* At most one callback begins to credit in a step.
LEMMA OneReads ==
  ASSUME PaymentTypeOK, NEW q \in Callback, ReadBalance(q), NEW other \in Callback, other # q
  PROVE  task'[other] = task[other]
BY DEF ReadBalance, PaymentTypeOK

LEMMA SeenIsCurrentElse ==
  ASSUME JournalInv, [PaymentNext]_paymentVars, \A t \in Callback : ~Commit(t)
  PROVE  SeenIsCurrent' /\ BalanceIsJournal'
<1> USE DEF JournalInv
<1>1. journal' = journal /\ balance' = balance
  BY OnlyCommitCredits
<1>2. BalanceIsJournal'
  BY <1>1, OverlapIsRecorded DEF BalanceIsJournal
<1>3. ASSUME NEW u \in User, ~overlapped'[u]
      PROVE  /\ \A q, other \in Crediting(u)' : q = other
             /\ \A q \in Crediting(u)' : Worth(task'[q].seen) = journal'[u]
  <2>1. /\ \A q, other \in Crediting(u) : q = other
        /\ \A q \in Crediting(u) : Worth(task[q].seen) = journal[u]
        /\ Worth(balance[u]) = journal[u]
    BY <1>3, OverlapIsRecorded DEF SeenIsCurrent, BalanceIsJournal, Worth
  <2>2. ASSUME NEW q \in Crediting(u)'
        PROVE  /\ Worth(task'[q].seen) = journal'[u]
               /\ q \in Crediting(u) \/ (ReadBalance(q) /\ Crediting(u) = {})
    <3>1. q \in Callback /\ task'[q].do = "credit" /\ UserOf[task'[q].payment] = u
      BY <2>2 DEF Crediting
    <3>2. CASE task'[q] = task[q]
      BY <1>1, <2>1, <3>1, <3>2 DEF Crediting
    <3>3. CASE /\ ReadBalance(q) /\ task'[q].payment = task[q].payment
               /\ task'[q].seen = balance[UserOf[task[q].payment]]
      <4>1. UserOf[task[q].payment] = u
        BY <3>1, <3>3
      <4>2. Crediting(u) = {}
        BY <1>3, <3>1, <3>3, <4>1, OverlapIsRecorded
      <4>3. Worth(task'[q].seen) = journal'[u]
        BY <1>1, <2>1, <3>3, <4>1
      <4>4. QED
        BY <3>3, <4>2, <4>3
    <3>4. CASE /\ InsertBalance(q) /\ balance[UserOf[task[q].payment]] = None
               /\ task'[q].payment = task[q].payment /\ task'[q].seen = 0
      <4>1. q \in Crediting(u)
        BY <3>1, <3>4 DEF Crediting, InsertBalance
      <4>2. Worth(task'[q].seen) = Worth(balance[u])
        BY <3>1, <3>4, PaymentAssumption DEF Worth
      <4>3. QED
        BY <1>1, <2>1, <4>1, <4>2
    <3>5. \/ task'[q] = task[q]
          \/ /\ ReadBalance(q) /\ task'[q].payment = task[q].payment
             /\ task'[q].seen = balance[UserOf[task[q].payment]]
          \/ /\ InsertBalance(q) /\ balance[UserOf[task[q].payment]] = None
             /\ task'[q].payment = task[q].payment /\ task'[q].seen = 0
      BY <3>1, OnlyCommitCredits
    <3>6. QED
      BY <3>2, <3>3, <3>4, <3>5
  <2>3. ASSUME NEW q \in Crediting(u)', NEW other \in Crediting(u)'
        PROVE  q = other
    <3>1. q \in Callback /\ other \in Callback
      BY DEF Crediting
    <3>2. CASE q \in Crediting(u) /\ other \in Crediting(u)
      BY <2>1, <3>2
    <3>3. CASE q \notin Crediting(u)
      <4>1. ReadBalance(q) /\ Crediting(u) = {}
        BY <2>2, <3>3
      <4>2. ReadBalance(other)
        BY <2>2, <4>1
      <4>3. SUFFICES ASSUME q # other PROVE FALSE
        OBVIOUS
      <4>4. task'[other] = task[other]
        BY <3>1, <4>1, <4>3, OneReads
      <4>5. task[other].do = "CONFIRMED"
        BY <4>2 DEF ReadBalance
      <4>6. QED
        BY <4>4, <4>5 DEF Crediting
    <3>4. CASE other \notin Crediting(u)
      <4>1. ReadBalance(other) /\ Crediting(u) = {}
        BY <2>2, <3>4
      <4>2. ReadBalance(q)
        BY <2>2, <4>1
      <4>3. SUFFICES ASSUME q # other PROVE FALSE
        OBVIOUS
      <4>4. task'[q] = task[q]
        BY <3>1, <4>1, <4>3, OneReads
      <4>5. task[q].do = "CONFIRMED"
        BY <4>2 DEF ReadBalance
      <4>6. QED
        BY <4>4, <4>5 DEF Crediting
    <3>5. QED
      BY <3>2, <3>3, <3>4
  <2>4. QED
    BY <2>2, <2>3
<1>4. QED
  BY <1>2, <1>3 DEF SeenIsCurrent

\* As long as no two callbacks of a user were crediting at once, the balance is
\* what the journal says.
THEOREM BalanceFollowsJournal == PaymentSpec => []BalanceIsJournal
<1>1. PaymentInit => JournalInv
  BY PaymentInitType
    DEF PaymentInit, JournalInv, SeenIsCurrent, BalanceIsJournal, Crediting, Idle
<1>2. JournalInv /\ [PaymentNext]_paymentVars => JournalInv'
  BY PaymentNextType, SeenIsCurrentCommit, SeenIsCurrentElse DEF JournalInv
<1>3. JournalInv => BalanceIsJournal
  BY DEF JournalInv
<1>4. QED
  BY <1>1, <1>2, <1>3, PTL DEF PaymentSpec

-----------------------------------------------------------------------------
LEMMA CompletedIsCreditedNext ==
  PaymentTypeOK /\ CompletedIsCredited /\ [PaymentNext]_paymentVars => CompletedIsCredited'
<1> SUFFICES ASSUME PaymentTypeOK, CompletedIsCredited, [PaymentNext]_paymentVars
             PROVE  CompletedIsCredited'
  OBVIOUS
<1>1. ASSUME NEW t \in Callback, Commit(t)
      PROVE  CompletedIsCredited'
  <2>1. task[t].payment \in Payment
    BY <1>1, CallbackArguments DEF Commit
  <2>2. operations'[task[t].payment] > 0
    BY <1>1, <2>1 DEF Commit, PaymentTypeOK
  <2>3. \A p \in Payment : p # task[t].payment =>
          operations'[p] = operations[p] /\ status'[p] = status[p]
    BY <1>1, <2>1 DEF Commit, PaymentTypeOK
  <2>4. QED
    BY <2>2, <2>3 DEF CompletedIsCredited
<1>2. ASSUME NEW t \in Callback, MarkFailed(t)
      PROVE  CompletedIsCredited'
  <2>1. operations' = operations /\ \A p \in Payment : status'[p] \in {status[p], "failed"}
    BY <1>2 DEF MarkFailed, PaymentTypeOK
  <2>2. QED
    BY <2>1 DEF CompletedIsCredited
<1>3. ASSUME NEW p \in Payment, CreatePayment(p)
      PROVE  CompletedIsCredited'
  BY <1>3 DEF CompletedIsCredited, CreatePayment, PaymentTypeOK
<1>4. ASSUME status' = status, operations' = operations
      PROVE  CompletedIsCredited'
  BY <1>4 DEF CompletedIsCredited
<1>5. QED
  BY <1>1, <1>2, <1>3, <1>4
    DEF PaymentNext, ReadRequest, ReadBalance, InsertBalance, RollBack, paymentVars

\* Nothing that is marked as completed was not credited, whatever fails half-way.
THEOREM CompletedPaymentsAreCredited == PaymentSpec => []CompletedIsCredited
<1>1. PaymentInit => CompletedIsCredited
  BY PaymentAssumption DEF PaymentInit, CompletedIsCredited
<1>2. QED
  BY PaymentInitType, PaymentNextType, <1>1, CompletedIsCreditedNext, PTL DEF PaymentSpec
=================================================================================
