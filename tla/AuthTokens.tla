------------------------------ MODULE AuthTokens ------------------------------
(***************************************************************************)
(* Sessions: log-in, refresh and log-out of endpoints/auth/auth.py, the    *)
(* transactions of database/logic/auth/auth.py, and utils/auth.py.         *)
(*                                                                         *)
(* A token is signed and not stored to be accepted: an access token is     *)
(* good until its last second is over.  A refresh token has to be in the   *)
(* table "tokens" as well.  Its times are whole seconds, so two pairs made *)
(* for one user at the same time are the same two strings.                 *)
(*                                                                         *)
(* A request is served by a task of its own.  It is cut where it awaits    *)
(* the database with something read and something still to be written.     *)
(* PUT and DELETE of /auth/users pass one argument too many, answer 500    *)
(* and change nothing, so nobody is banned or made inactive but by hand.   *)
(***************************************************************************)
EXTENDS Integers, FiniteSets

CONSTANTS Request,         \* the tasks that serve requests
          User,
          AccessLife,      \* ACCESS_TOKEN_EXPIRE_HOURS
          RefreshLife,     \* REFRESH_TOKEN_EXPIRE_DAYS
          MaxTime,         \* bound of the clock
          MaxSaves         \* bound of the pairs one task saves

ASSUME TokensAssumption ==
  {AccessLife, RefreshLife, MaxTime, MaxSaves} \subseteq Nat

VARIABLES now,
          barred,     \* table users: is_banned, or not is_active
          tokens,     \* table tokens
          issued,     \* the signed pairs users were given
          task,       \* task[r]: what request r has read and is about to write
          saves,      \* saves[r]: how many pairs request task r has saved
          out         \* history: the user logged out, nobody was logging in

sessions == <<tokens, issued, saves, out>>
tokensVars == <<now, barred, sessions, task>>

Idle == [do |-> "idle"]

TokensInit ==
  /\ now = 0
  /\ barred = [u \in User |-> FALSE]
  /\ tokens = {}
  /\ issued = {}
  /\ task = [r \in Request |-> Idle]
  /\ saves = [r \in Request |-> 0]
  /\ out = [u \in User |-> FALSE]

Rows(u) == {row \in tokens : row.user = u}
Goes(r, next) == task[r] = Idle /\ task' = [task EXCEPT ![r] = next]
Ends(r) == task' = [task EXCEPT ![r] = Idle]
Saving(u) == \E r \in Request : task[r].do \in {"select", "save"} /\ task[r].user = u

-----------------------------------------------------------------------------
\* The password is right, and the login that of one row (AuthCodes);
\* authenticate_user asks neither for a ban nor for a confirmed account.
LoginUser(r, u) ==
  /\ Goes(r, [do |-> "select", user |-> u])
  /\ out' = [out EXCEPT ![u] = FALSE]
  /\ UNCHANGED <<now, barred, tokens, issued, saves>>

\* verify_token: signed here, of the kind asked for, not expired.
VerifyToken(pair, life) == pair \in issued /\ now <= pair.at + life

\* user_verification_by_token raises if two rows hold the same refresh token.
UserVerificationByToken(pair) ==
  /\ Cardinality({row \in Rows(pair.user) : row.at = pair.at}) = 1
  /\ ~barred[pair.user]

\* user_get_by_token asks for no row: the access token need not be stored.
UserGetByToken(u) == ~barred[u]

\* get_current_user, get_current_active_user.
CurrentUser(pair) == VerifyToken(pair, AccessLife) /\ UserGetByToken(pair.user)

FaultyRefreshToken(r, pair) ==
  /\ VerifyToken(pair, RefreshLife)
  /\ ~barred[pair.user]
  /\ Goes(r, [do |-> "select", user |-> pair.user])
  /\ UNCHANGED <<now, barred, sessions>>

RefreshToken(r, pair) ==
  /\ VerifyToken(pair, RefreshLife)
  /\ UserVerificationByToken(pair)
  /\ Goes(r, [do |-> "select", user |-> pair.user])
  /\ UNCHANGED <<now, barred, sessions>>

FaultySelectTokens(r) ==
  LET u == task[r].user IN
  /\ task[r].do = "select"
  /\ saves[r] < MaxSaves
  /\ task' = [task EXCEPT ![r] = [do |-> "save", user |-> u, at |-> now,
                                 seen |-> {pair \in issued : pair.user = u}]]
  /\ UNCHANGED <<now, barred, sessions>>

\* The tokens are signed, and save_token reads the rows it will replace.
SelectTokens(r) ==
  LET u == task[r].user IN
  /\ task[r].do = "select"
  /\ saves[r] < MaxSaves
  /\ task' = [task EXCEPT ![r] = [do |-> "save", user |-> u, at |-> now, seen |-> Rows(u)]]
  /\ UNCHANGED <<now, barred, sessions>>

Pair(r) == [user |-> task[r].user, at |-> task[r].at]
NewRow(r) == [user |-> task[r].user, at |-> task[r].at, by |-> r, n |-> saves[r]]

FaultySaveToken(r) ==
  /\ task[r].do = "save"
  /\ tokens' = tokens \cup {NewRow(r)}
  /\ issued' = issued \cup {Pair(r)}
  /\ saves' = [saves EXCEPT ![r] = @ + 1]
  /\ Ends(r)
  /\ UNCHANGED <<now, barred, out>>

\* A row that another request has deleted meanwhile is no error.  The user is
\* answered after the commit.
SaveToken(r) ==
  /\ task[r].do = "save"
  /\ tokens' = (tokens \ task[r].seen) \cup {NewRow(r)}
  /\ issued' = issued \cup {Pair(r)}
  /\ saves' = [saves EXCEPT ![r] = @ + 1]
  /\ Ends(r)
  /\ UNCHANGED <<now, barred, out>>

LogoutUser(r, pair) ==
  /\ CurrentUser(pair)
  /\ Goes(r, [do |-> "logout", user |-> pair.user])
  /\ UNCHANGED <<now, barred, sessions>>

SelectTokensOfUser(r) ==
  /\ task[r].do = "logout"
  /\ task' = [task EXCEPT ![r] =
                [do |-> "delete", user |-> task[r].user, seen |-> Rows(task[r].user)]]
  /\ UNCHANGED <<now, barred, sessions>>

DeleteTokens(r) ==
  LET u == task[r].user IN
  /\ task[r].do = "delete"
  /\ tokens' = tokens \ task[r].seen
  /\ out' = [out EXCEPT ![u] = ~Saving(u) /\ Rows(u) \subseteq task[r].seen]
  /\ Ends(r)
  /\ UNCHANGED <<now, barred, issued, saves>>

-----------------------------------------------------------------------------
(* The system.                                                             *)

\* is_banned and is_active are set by hand.
Bar(u) ==
  /\ barred' = [barred EXCEPT ![u] = ~@]
  /\ UNCHANGED <<now, sessions, task>>

Tick ==
  /\ now < MaxTime
  /\ now' = now + 1
  /\ UNCHANGED <<barred, sessions, task>>

TokensNext ==
  \/ \E r \in Request, u \in User : LoginUser(r, u)
  \/ \E r \in Request, pair \in issued : RefreshToken(r, pair) \/ LogoutUser(r, pair)
  \/ \E r \in Request :
       SelectTokens(r) \/ SaveToken(r) \/ SelectTokensOfUser(r) \/ DeleteTokens(r)
  \/ \E u \in User : Bar(u)
  \/ Tick

TokensSpec == TokensInit /\ [][TokensNext]_tokensVars

-----------------------------------------------------------------------------
(* Properties.                                                             *)

Row == [user : User, at : Nat, by : Request, n : Nat]

Task ==
       {Idle}
  \cup [do : {"select", "logout"}, user : User]
  \cup [do : {"save"}, user : User, at : Nat, seen : SUBSET Row]
  \cup [do : {"delete"}, user : User, seen : SUBSET Row]

\* Every variable holds what the column or the local variables it stands for can
\* hold.
TokensTypeOK ==
  /\ now \in Nat
  /\ barred \in [User -> BOOLEAN]
  /\ tokens \subseteq Row
  /\ issued \subseteq [user : User, at : Nat]
  /\ task \in [Request -> Task]
  /\ saves \in [Request -> Nat]
  /\ out \in [User -> BOOLEAN]

\* The rows one task has saved for a user replace each other, however the selects
\* and the commits of other tasks fall between: a user has never more rows than
\* requests were served at once.
RowsReplaced ==
  \A x, y \in tokens : x.user = y.user /\ x.by = y.by => x = y

\* After a log-out that no log-in and no refresh overlapped nobody is logged in
\* until somebody gives the password: no refresh token brings a session back.
LoggedOutStaysOut ==
  \A u \in User : out[u] => Rows(u) = {}
=============================================================================
