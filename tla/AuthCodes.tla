------------------------------- MODULE AuthCodes -------------------------------
(***************************************************************************)
(* Accounts, and the codes that confirm them and let a new password be     *)
(* set: endpoints/auth/auth.py with database/logic/auth/auth.py.           *)
(*                                                                         *)
(* A code, and the permission to set a password, are kept in redis with a  *)
(* time to live.  Setting the password awaits the database between the     *)
(* look at the permission and the update.                                  *)
(***************************************************************************)
EXTENDS Integers

CONSTANTS Request,         \* the tasks that serve requests for a new password
          User, Login, Password, Code,
          CodeLife,        \* 300 s
          PermissionLife,  \* 600 s
          MaxTime,         \* bound of the clock
          None

ASSUME CodesAssumption ==
  /\ {CodeLife, PermissionLife, MaxTime} \subseteq Nat
  /\ None \notin Login \cup Password \cup Code \cup {"True"}

VARIABLES now,
          login,      \* table users: the login of a row, or None if there is no row
          password,   \* ... its password
          confirmed,  \* ... account_confirmed
          redis,      \* redis[key][u]: a value and when it expires
          task,       \* task[r]: the password r is about to write
          coded       \* history: when reset codes were stored for a user

accounts == <<login, password, confirmed>>
codesVars == <<now, accounts, redis, task, coded>>

Key == {"code_confirmed", "code_reset", "reset_password_permission"}
Idle == [do |-> "idle"]

CodesInit ==
  /\ now = 0
  /\ login = [u \in User |-> None]
  /\ password = [u \in User |-> None]
  /\ confirmed = [u \in User |-> FALSE]
  /\ redis = [k \in Key |-> [u \in User |-> [value |-> None, until |-> 0]]]
  /\ task = [r \in Request |-> Idle]
  /\ coded = [u \in User |-> {}]

\* get_user_by_email: scalar_one_or_none raises if several rows have the login.
FoundByLogin(u) == login[u] # None /\ \A v \in User : login[v] = login[u] => v = u
Fetch(k, u) == IF now < redis[k][u].until THEN redis[k][u].value ELSE None
Stored(k, u, value, life) ==
  [redis EXCEPT ![k][u] = [value |-> value, until |-> now + life]]

\* register_user looks for the login among the e-mail addresses, which nothing
\* ever writes, so it always finds it free.  The row is stored, and the answer is
\* an error all the same: UserResponse is not a UserRegister.
Register(u, l, p) ==
  /\ login[u] = None
  /\ login' = [login EXCEPT ![u] = l]
  /\ password' = [password EXCEPT ![u] = p]
  /\ UNCHANGED <<now, confirmed, redis, task, coded>>

\* The code is stored, whether the mail gets through or not.
SendMessageConfirmed(u, c) ==
  /\ login[u] # None
  /\ redis' = Stored("code_confirmed", u, c, CodeLife)
  /\ UNCHANGED <<now, accounts, task, coded>>

ActivateUser(u) ==
  /\ login[u] # None
  /\ confirmed' = [confirmed EXCEPT ![u] = TRUE]
  /\ UNCHANGED <<login, password>>

\* No code, no answer: None has no decode.
MessageConfirmed(u, c) ==
  /\ Fetch("code_confirmed", u) = c
  /\ ActivateUser(u)
  /\ UNCHANGED <<now, redis, task, coded>>

FaultyPasswordResetMailSend(u, c) ==
  /\ FoundByLogin(u)
  /\ redis' = Stored("code_reset", u, c, MaxTime)
  /\ coded' = [coded EXCEPT ![u] = @ \cup {now}]
  /\ UNCHANGED <<now, accounts, task>>

PasswordResetMailSend(u, c) ==
  /\ FoundByLogin(u)
  /\ redis' = Stored("code_reset", u, c, CodeLife)
  /\ coded' = [coded EXCEPT ![u] = @ \cup {now}]
  /\ UNCHANGED <<now, accounts, task>>

\* The code stays good for another confirmation.
PasswordResetConfirmCode(u, c) ==
  /\ FoundByLogin(u)
  /\ Fetch("code_reset", u) = c
  /\ redis' = Stored("reset_password_permission", u, "True", PermissionLife)
  /\ UNCHANGED <<now, accounts, task, coded>>

FaultyPasswordResetConfirm(r, u, p) ==
  /\ FoundByLogin(u)
  /\ Fetch("reset_password_permission", u) = "True"
  /\ task[r] = Idle
  /\ task' = [task EXCEPT ![r] = [do |-> "setPassword", user |-> u, password |-> None, at |-> now]]
  /\ UNCHANGED <<now, accounts, redis, coded>>

\* Neither is the permission used up, nor are the user's tokens deleted.
PasswordResetConfirm(r, u, p) ==
  /\ FoundByLogin(u)
  /\ Fetch("reset_password_permission", u) = "True"
  /\ task[r] = Idle
  /\ task' = [task EXCEPT ![r] = [do |-> "setPassword", user |-> u, password |-> p, at |-> now]]
  /\ UNCHANGED <<now, accounts, redis, coded>>

UpdateUserPassword(r) ==
  /\ task[r].do = "setPassword"
  /\ password' = [password EXCEPT ![task[r].user] = task[r].password]
  /\ task' = [task EXCEPT ![r] = Idle]
  /\ UNCHANGED <<now, login, confirmed, redis, coded>>

Tick ==
  /\ now < MaxTime
  /\ now' = now + 1
  /\ UNCHANGED <<accounts, redis, task, coded>>

CodesNext ==
  \/ \E u \in User, l \in Login, p \in Password : Register(u, l, p)
  \/ \E u \in User, c \in Code :
       \/ SendMessageConfirmed(u, c) \/ MessageConfirmed(u, c)
       \/ PasswordResetMailSend(u, c) \/ PasswordResetConfirmCode(u, c)
  \/ \E r \in Request, u \in User, p \in Password : PasswordResetConfirm(r, u, p)
  \/ \E r \in Request : UpdateUserPassword(r)
  \/ Tick

CodesSpec == CodesInit /\ [][CodesNext]_codesVars

-----------------------------------------------------------------------------
(* Properties.                                                             *)

SetPassword == [do : {"setPassword"}, user : User, password : Password, at : Nat]

\* Every variable holds what the column, the key or the local variables it stands
\* for can hold.
CodesTypeOK ==
  /\ now \in Nat
  /\ login \in [User -> Login \cup {None}]
  /\ password \in [User -> Password \cup {None}]
  /\ confirmed \in [User -> BOOLEAN]
  /\ redis \in [Key -> [User -> [value : Code \cup {None, "True"}, until : Nat]]]
  /\ task \in [Request -> {Idle} \cup SetPassword]
  /\ coded \in [User -> SUBSET Nat]

\* A new password is set on the strength of a code that was stored for this user
\* less than CodeLife + PermissionLife before: 15 minutes.
ResetWindow ==
  \A r \in Request :
    task[r].do = "setPassword" =>
      \E at \in coded[task[r].user] :
        at <= task[r].at /\ task[r].at < at + CodeLife + PermissionLife
=============================================================================
