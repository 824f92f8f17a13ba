---------------------------- MODULE AuthCodes_proofs ----------------------------
(***************************************************************************)
(* The types of AuthCodes, and ResetWindow: whatever the number of users,  *)
(* requests and codes, and however long codes and permissions live, a      *)
(* password is set within CodeLife + PermissionLife of a code.             *)
(***************************************************************************)
EXTENDS AuthCodes, TLAPS

\* A code in redis expires within CodeLife of a time when one was stored ...
CodesExpire ==
  \A u \in User : redis["code_reset"][u].value # None =>
    \E at \in coded[u] : at <= now /\ redis["code_reset"][u].until <= at + CodeLife

\* ... and a permission within PermissionLife of the end of a code.
PermissionsExpire ==
  \A u \in User : redis["reset_password_permission"][u].value # None =>
    \E at \in coded[u] :
      at <= now /\ redis["reset_password_permission"][u].until <= at + CodeLife + PermissionLife

\* ResetWindow is not inductive: that the window is open when the task starts
\* follows from what redis holds.
ResetInv == CodesTypeOK /\ CodesExpire /\ PermissionsExpire /\ ResetWindow

-----------------------------------------------------------------------------
LEMMA CodesInitType == CodesInit => CodesTypeOK
BY CodesAssumption DEF CodesInit, CodesTypeOK, Key, Idle

\* What a key is given is a value with a time in the future of the clock.
LEMMA StoredType ==
  ASSUME CodesTypeOK, NEW k \in Key, NEW u \in User, NEW value \in Code \cup {"True"},
         NEW life \in Nat
  PROVE  Stored(k, u, value, life)
           \in [Key -> [User -> [value : Code \cup {None, "True"}, until : Nat]]]
<1> DEFINE entry == [value |-> value, until |-> now + life]
<1>1. entry \in [value : Code \cup {None, "True"}, until : Nat]
  BY DEF CodesTypeOK
<1>2. QED
  BY <1>1 DEF CodesTypeOK, Stored

LEMMA CodesNextType == CodesTypeOK /\ [CodesNext]_codesVars => CodesTypeOK'
<1> SUFFICES ASSUME CodesTypeOK, [CodesNext]_codesVars PROVE CodesTypeOK'
  OBVIOUS
<1>1. ASSUME NEW u \in User, NEW l \in Login, NEW p \in Password, Register(u, l, p)
      PROVE  CodesTypeOK'
  BY <1>1 DEF CodesTypeOK, Register
<1>2. ASSUME NEW u \in User, NEW c \in Code, SendMessageConfirmed(u, c)
      PROVE  CodesTypeOK'
  <2>1. redis' = Stored("code_confirmed", u, c, CodeLife) /\ "code_confirmed" \in Key
    BY <1>2 DEF SendMessageConfirmed, Key
  <2>2. redis' \in [Key -> [User -> [value : Code \cup {None, "True"}, until : Nat]]]
    BY <2>1, StoredType, CodesAssumption
  <2>3. QED
    BY <1>2, <2>2 DEF CodesTypeOK, SendMessageConfirmed, accounts
<1>3. ASSUME NEW u \in User, NEW c \in Code, MessageConfirmed(u, c)
      PROVE  CodesTypeOK'
  BY <1>3 DEF CodesTypeOK, MessageConfirmed, ActivateUser
<1>4. ASSUME NEW u \in User, NEW c \in Code, PasswordResetMailSend(u, c)
      PROVE  CodesTypeOK'
  <2>1. redis' = Stored("code_reset", u, c, CodeLife) /\ "code_reset" \in Key
    BY <1>4 DEF PasswordResetMailSend, Key
  <2>2. redis' \in [Key -> [User -> [value : Code \cup {None, "True"}, until : Nat]]]
    BY <2>1, StoredType, CodesAssumption
  <2>3. QED
    BY <1>4, <2>2 DEF CodesTypeOK, PasswordResetMailSend, accounts
<1>5. ASSUME NEW u \in User, NEW c \in Code, PasswordResetConfirmCode(u, c)
      PROVE  CodesTypeOK'
  <2>1. /\ redis' = Stored("reset_password_permission", u, "True", PermissionLife)
        /\ "reset_password_permission" \in Key
    BY <1>5 DEF PasswordResetConfirmCode, Key
  <2>2. redis' \in [Key -> [User -> [value : Code \cup {None, "True"}, until : Nat]]]
    BY <2>1, StoredType, CodesAssumption
  <2>3. QED
    BY <1>5, <2>2 DEF CodesTypeOK, PasswordResetConfirmCode, accounts
<1>6. ASSUME NEW r \in Request, NEW u \in User, NEW p \in Password,
             PasswordResetConfirm(r, u, p)
      PROVE  CodesTypeOK'
  <2>1. [do |-> "setPassword", user |-> u, password |-> p, at |-> now] \in SetPassword
    BY DEF CodesTypeOK, SetPassword
  <2>2. QED
    BY <1>6, <2>1 DEF CodesTypeOK, PasswordResetConfirm, accounts
<1>7. ASSUME NEW r \in Request, UpdateUserPassword(r)
      PROVE  CodesTypeOK'
  <2>1. task[r] \in SetPassword
    BY <1>7 DEF CodesTypeOK, UpdateUserPassword, Idle
  <2>2. QED
    BY <1>7, <2>1 DEF CodesTypeOK, UpdateUserPassword, SetPassword
<1>8. CASE Tick
  BY <1>8 DEF CodesTypeOK, Tick, accounts
<1>9. CASE UNCHANGED codesVars
  BY <1>9 DEF CodesTypeOK, codesVars, accounts
<1>10. QED
  BY <1>1, <1>2, <1>3, <1>4, <1>5, <1>6, <1>7, <1>8, <1>9 DEF CodesNext

\* The tables, redis and the requests hold what they can hold, whatever is asked
\* of the end points.
THEOREM CodesTypeCorrect == CodesSpec => []CodesTypeOK
<1>1. QED
  BY CodesInitType, CodesNextType, PTL DEF CodesSpec

-----------------------------------------------------------------------------
\* What has been promised stays promised while the clock goes on and redis, but
\* for other keys, stays as it is.
LEMMA CodesExpireNext ==
  ResetInv /\ [CodesNext]_codesVars => CodesExpire'
<1> SUFFICES ASSUME ResetInv, [CodesNext]_codesVars PROVE CodesExpire'
  OBVIOUS
<1> USE DEF ResetInv, Key
<1>1. ASSUME redis["code_reset"]' = redis["code_reset"], now <= now', now' \in Nat,
             \A u \in User : coded[u] \subseteq coded'[u]
      PROVE  CodesExpire'
  <2> SUFFICES ASSUME NEW u \in User, redis'["code_reset"][u].value # None
               PROVE  \E at \in coded'[u] :
                        at <= now' /\ redis'["code_reset"][u].until <= at + CodeLife
    BY DEF CodesExpire
  <2>1. PICK at \in coded[u] : at <= now /\ redis["code_reset"][u].until <= at + CodeLife
    BY <1>1 DEF CodesExpire
  <2>2. at \in Nat /\ now \in Nat
    BY DEF CodesTypeOK
  <2>3. at <= now'
    BY <1>1, <2>1, <2>2
  <2>4. QED
    BY <1>1, <2>1, <2>3
<1>2. ASSUME NEW u \in User, NEW c \in Code, PasswordResetMailSend(u, c)
      PROVE  CodesExpire'
  <2> SUFFICES ASSUME NEW v \in User, redis'["code_reset"][v].value # None
               PROVE  \E at \in coded'[v] :
                        at <= now' /\ redis'["code_reset"][v].until <= at + CodeLife
    BY DEF CodesExpire
  <2>1. now' = now /\ now \in Nat /\ coded[v] \subseteq coded'[v]
    BY <1>2 DEF PasswordResetMailSend, CodesTypeOK
  <2>2. CASE v = u
    <3>1. now \in coded'[v] /\ redis'["code_reset"][v].until = now + CodeLife
      BY <1>2, <2>2 DEF PasswordResetMailSend, Stored, CodesTypeOK
    <3>2. QED
      BY <2>1, <3>1, CodesAssumption
  <2>3. CASE v # u
    <3>1. redis'["code_reset"][v] = redis["code_reset"][v]
      BY <1>2, <2>3 DEF PasswordResetMailSend, Stored, CodesTypeOK
    <3>2. PICK at \in coded[v] : at <= now /\ redis["code_reset"][v].until <= at + CodeLife
      BY <3>1 DEF CodesExpire
    <3>3. QED
      BY <2>1, <3>1, <3>2
  <2>4. QED
    BY <2>2, <2>3
<1>3. ASSUME NEW u \in User, NEW c \in Code,
             SendMessageConfirmed(u, c) \/ PasswordResetConfirmCode(u, c)
      PROVE  CodesExpire'
  <2>1. redis["code_reset"]' = redis["code_reset"]
    BY <1>3 DEF SendMessageConfirmed, PasswordResetConfirmCode, Stored, CodesTypeOK
  <2>2. now' = now /\ now \in Nat /\ coded' = coded
    BY <1>3 DEF SendMessageConfirmed, PasswordResetConfirmCode, CodesTypeOK
  <2>3. QED
    BY <1>1, <2>1, <2>2
<1>4. CASE Tick
  <2>1. redis' = redis /\ coded' = coded /\ now' = now + 1 /\ now \in Nat
    BY <1>4 DEF Tick, CodesTypeOK
  <2>2. QED
    BY <1>1, <2>1
<1>5. ASSUME redis' = redis, now' = now, coded' = coded
      PROVE  CodesExpire'
  BY <1>1, <1>5 DEF CodesTypeOK
<1>6. QED
  BY <1>2, <1>3, <1>4, <1>5
    DEF CodesNext, Register, MessageConfirmed, ActivateUser, PasswordResetConfirm, UpdateUserPassword,
        codesVars, accounts

\* A permission is given while a code is good, so it ends PermissionLife after
\* that at the latest.
LEMMA PermissionsExpireNext ==
  ResetInv /\ [CodesNext]_codesVars => PermissionsExpire'
<1> SUFFICES ASSUME ResetInv, [CodesNext]_codesVars PROVE PermissionsExpire'
  OBVIOUS
<1> DEFINE key == "reset_password_permission"
<1> USE DEF ResetInv, Key
<1>1. ASSUME redis'[key] = redis[key], now <= now', now' \in Nat,
             \A u \in User : coded[u] \subseteq coded'[u]
      PROVE  PermissionsExpire'
  <2> SUFFICES ASSUME NEW u \in User, redis'[key][u].value # None
               PROVE  \E at \in coded'[u] :
                        /\ at <= now'
                        /\ redis'[key][u].until <= at + CodeLife + PermissionLife
    BY DEF PermissionsExpire
  <2>1. PICK at \in coded[u] :
          at <= now /\ redis[key][u].until <= at + CodeLife + PermissionLife
    BY <1>1 DEF PermissionsExpire
  <2>2. at \in Nat /\ now \in Nat
    BY DEF CodesTypeOK
  <2>3. at <= now'
    BY <1>1, <2>1, <2>2
  <2>4. QED
    BY <1>1, <2>1, <2>3
<1>2. ASSUME NEW u \in User, NEW c \in Code, PasswordResetConfirmCode(u, c)
      PROVE  PermissionsExpire'
  <2> SUFFICES ASSUME NEW v \in User, redis'[key][v].value # None
               PROVE  \E at \in coded'[v] :
                        /\ at <= now'
                        /\ redis'[key][v].until <= at + CodeLife + PermissionLife
    BY DEF PermissionsExpire
  <2>1. now' = now /\ now \in Nat /\ coded'[v] = coded[v] /\ coded[v] \subseteq Nat
    BY <1>2 DEF PasswordResetConfirmCode, CodesTypeOK
  <2>2. CASE v = u
    <3>1. redis'[key][v].until = now + PermissionLife
      BY <1>2, <2>2 DEF PasswordResetConfirmCode, Stored, CodesTypeOK
    <3>2. now < redis["code_reset"][u].until /\ redis["code_reset"][u].value # None
      BY <1>2, CodesAssumption DEF PasswordResetConfirmCode, Fetch
    <3>3. PICK at \in coded[u] : at <= now /\ redis["code_reset"][u].until <= at + CodeLife
      BY <3>2 DEF CodesExpire
    <3>4. redis["code_reset"][u].until \in Nat /\ at \in Nat
      BY DEF CodesTypeOK
    <3>5. now <= at + CodeLife
      BY <2>1, <3>2, <3>3, <3>4, CodesAssumption
    <3>6. now + PermissionLife <= at + CodeLife + PermissionLife
      BY <2>1, <3>4, <3>5, CodesAssumption
    <3>7. QED
      BY <2>1, <2>2, <3>1, <3>3, <3>6
  <2>3. CASE v # u
    <3>1. redis'[key][v] = redis[key][v]
      BY <1>2, <2>3 DEF PasswordResetConfirmCode, Stored, CodesTypeOK
    <3>2. PICK at \in coded[v] :
            at <= now /\ redis[key][v].until <= at + CodeLife + PermissionLife
      BY <3>1 DEF PermissionsExpire
    <3>3. QED
      BY <2>1, <3>1, <3>2
  <2>4. QED
    BY <2>2, <2>3
<1>3. ASSUME NEW u \in User, NEW c \in Code,
             SendMessageConfirmed(u, c) \/ PasswordResetMailSend(u, c)
      PROVE  PermissionsExpire'
  <2>1. redis'[key] = redis[key]
    BY <1>3 DEF SendMessageConfirmed, PasswordResetMailSend, Stored, CodesTypeOK
  <2>2. now' = now /\ now \in Nat /\ \A v \in User : coded[v] \subseteq coded'[v]
    BY <1>3 DEF SendMessageConfirmed, PasswordResetMailSend, CodesTypeOK
  <2>3. QED
    BY <1>1, <2>1, <2>2
<1>4. CASE Tick
  <2>1. redis' = redis /\ coded' = coded /\ now' = now + 1 /\ now \in Nat
    BY <1>4 DEF Tick, CodesTypeOK
  <2>2. QED
    BY <1>1, <2>1
<1>5. ASSUME redis' = redis, now' = now, coded' = coded
      PROVE  PermissionsExpire'
  BY <1>1, <1>5 DEF CodesTypeOK
<1>6. QED
  BY <1>2, <1>3, <1>4, <1>5
    DEF CodesNext, Register, MessageConfirmed, ActivateUser, PasswordResetConfirm, UpdateUserPassword,
        codesVars, accounts

\* The window is looked at when the task starts, and codes are never forgotten.
LEMMA ResetWindowNext ==
  ResetInv /\ [CodesNext]_codesVars => ResetWindow'
<1> SUFFICES ASSUME ResetInv, [CodesNext]_codesVars,
                    NEW q \in Request, task'[q].do = "setPassword"
             PROVE  \E at \in coded'[task'[q].user] :
                      at <= task'[q].at /\ task'[q].at < at + CodeLife + PermissionLife
  BY DEF ResetWindow
<1> USE DEF ResetInv
<1>1. ASSUME task'[q] = task[q], \A v \in User : coded[v] \subseteq coded'[v]
      PROVE  \E at \in coded'[task'[q].user] :
               at <= task'[q].at /\ task'[q].at < at + CodeLife + PermissionLife
  <2>1. task[q].user \in User
    BY <1>1 DEF CodesTypeOK, SetPassword, Idle
  <2>2. QED
    BY <1>1, <2>1 DEF ResetWindow
<1>2. ASSUME NEW r \in Request, NEW u \in User, NEW p \in Password,
             PasswordResetConfirm(r, u, p)
      PROVE  \E at \in coded'[task'[q].user] :
               at <= task'[q].at /\ task'[q].at < at + CodeLife + PermissionLife
  <2> DEFINE permission == redis["reset_password_permission"][u]
  <2>1. now < permission.until /\ permission.value # None
    BY <1>2, CodesAssumption DEF PasswordResetConfirm, Fetch
  <2>2. PICK at \in coded[u] :
          at <= now /\ permission.until <= at + CodeLife + PermissionLife
    BY <2>1 DEF PermissionsExpire
  <2>3. permission.until \in Nat /\ at \in Nat /\ now \in Nat
    BY DEF CodesTypeOK, Key
  <2>4. now < at + CodeLife + PermissionLife
    BY <2>1, <2>2, <2>3, CodesAssumption
  <2>5. CASE q = r
    <3>1. task'[q].user = u /\ task'[q].at = now /\ coded' = coded
      BY <1>2, <2>5 DEF PasswordResetConfirm, CodesTypeOK
    <3>2. QED
      BY <2>2, <2>4, <3>1
  <2>6. CASE q # r
    <3>1. task'[q] = task[q] /\ coded' = coded
      BY <1>2, <2>6 DEF PasswordResetConfirm, CodesTypeOK
    <3>2. QED
      BY <1>1, <3>1
  <2>7. QED
    BY <2>5, <2>6
<1>3. ASSUME NEW r \in Request, UpdateUserPassword(r)
      PROVE  \E at \in coded'[task'[q].user] :
               at <= task'[q].at /\ task'[q].at < at + CodeLife + PermissionLife
  <2>1. q # r
    BY <1>3 DEF UpdateUserPassword, CodesTypeOK, Idle
  <2>2. task'[q] = task[q] /\ coded' = coded
    BY <1>3, <2>1 DEF UpdateUserPassword, CodesTypeOK
  <2>3. QED
    BY <1>1, <2>2
<1>4. ASSUME NEW u \in User, NEW c \in Code, PasswordResetMailSend(u, c)
      PROVE  \E at \in coded'[task'[q].user] :
               at <= task'[q].at /\ task'[q].at < at + CodeLife + PermissionLife
  <2>1. task' = task /\ \A v \in User : coded[v] \subseteq coded'[v]
    BY <1>4 DEF PasswordResetMailSend, CodesTypeOK
  <2>2. QED
    BY <1>1, <2>1
<1>5. ASSUME task' = task, coded' = coded
      PROVE  \E at \in coded'[task'[q].user] :
               at <= task'[q].at /\ task'[q].at < at + CodeLife + PermissionLife
  BY <1>1, <1>5
<1>6. QED
  BY <1>2, <1>3, <1>4, <1>5
    DEF CodesNext, Register, SendMessageConfirmed, MessageConfirmed, ActivateUser, PasswordResetConfirmCode,
        Tick, codesVars, accounts

LEMMA ResetInvInit == CodesInit => ResetInv
<1> SUFFICES ASSUME CodesInit PROVE ResetInv
  OBVIOUS
<1>1. CodesExpire /\ PermissionsExpire
  BY DEF CodesInit, CodesExpire, PermissionsExpire, Key
<1>2. ResetWindow
  BY DEF CodesInit, ResetWindow, Idle
<1>3. QED
  BY CodesInitType, <1>1, <1>2 DEF ResetInv

\* A password is set on the strength of a code stored for that user less than
\* CodeLife + PermissionLife before, whichever requests overlap.
THEOREM ResetInTime == CodesSpec => []ResetWindow
<1>1. ResetInv /\ [CodesNext]_codesVars => ResetInv'
  BY CodesNextType, CodesExpireNext, PermissionsExpireNext, ResetWindowNext DEF ResetInv
<1>2. ResetInv => ResetWindow
  BY DEF ResetInv
<1>3. QED
  BY ResetInvInit, <1>1, <1>2, PTL DEF CodesSpec
=================================================================================
