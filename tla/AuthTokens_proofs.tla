---------------------------- MODULE AuthTokens_proofs ----------------------------
(***************************************************************************)
(* What is proved of AuthTokens, for any users, any number of requests at  *)
(* once and any life of the tokens.                                        *)
(***************************************************************************)
EXTENDS AuthTokens, FiniteSetTheorems, TLAPS

\* A task about to save has read all the rows it has saved for this user before:
\* nobody else adds a row of its, however long it waits.
OwnRowsSeen ==
  \A r \in Request : task[r].do = "save" =>
    \A row \in tokens : row.user = task[r].user /\ row.by = r => row \in task[r].seen

\* Once a user is out, nobody is about to save a pair for that user either.
OutAndNotSaving ==
  \A u \in User : out[u] => Rows(u) = {} /\ ~Saving(u)

-----------------------------------------------------------------------------
LEMMA TokensInitType == TokensInit => TokensTypeOK
BY DEF TokensInit, TokensTypeOK, Task, Idle

\* What each do of a task carries.
LEMMA TaskArguments ==
  ASSUME TokensTypeOK, NEW r \in Request
  PROVE  /\ task[r].do \in {"select", "save", "logout", "delete"} => task[r].user \in User
         /\ task[r].do = "save" => task[r].at \in Nat /\ task[r].seen \subseteq Row
         /\ task[r].do = "delete" => task[r].seen \subseteq Row
BY DEF TokensTypeOK, Task, Idle

LEMMA RowsType ==
  ASSUME TokensTypeOK, NEW u \in User
  PROVE  Rows(u) \in SUBSET Row
BY DEF TokensTypeOK, Rows

LEMMA TokensNextType == TokensTypeOK /\ [TokensNext]_tokensVars => TokensTypeOK'
<1> SUFFICES ASSUME TokensTypeOK, [TokensNext]_tokensVars PROVE TokensTypeOK'
  OBVIOUS
<1>1. ASSUME NEW r \in Request, NEW u \in User, LoginUser(r, u)
      PROVE  TokensTypeOK'
  <2>1. [do |-> "select", user |-> u] \in Task
    BY DEF Task
  <2>2. QED
    BY <1>1, <2>1 DEF TokensTypeOK, LoginUser, Goes
<1>2. ASSUME NEW r \in Request, NEW pair \in issued, RefreshToken(r, pair)
      PROVE  TokensTypeOK'
  <2>1. [do |-> "select", user |-> pair.user] \in Task
    BY DEF Task, TokensTypeOK
  <2>2. QED
    BY <1>2, <2>1 DEF TokensTypeOK, RefreshToken, Goes, sessions
<1>3. ASSUME NEW r \in Request, NEW pair \in issued, LogoutUser(r, pair)
      PROVE  TokensTypeOK'
  <2>1. [do |-> "logout", user |-> pair.user] \in Task
    BY DEF Task, TokensTypeOK
  <2>2. QED
    BY <1>3, <2>1 DEF TokensTypeOK, LogoutUser, Goes, sessions
<1>4. ASSUME NEW r \in Request, SelectTokens(r)
      PROVE  TokensTypeOK'
  <2>1. task[r].user \in User
    BY <1>4, TaskArguments DEF SelectTokens
  <2>2. [do |-> "save", user |-> task[r].user, at |-> now, seen |-> Rows(task[r].user)] \in Task
    BY <2>1, RowsType DEF Task, TokensTypeOK
  <2>3. QED
    BY <1>4, <2>2 DEF TokensTypeOK, SelectTokens, sessions
<1>5. ASSUME NEW r \in Request, SaveToken(r)
      PROVE  TokensTypeOK'
  <2>1. task[r].user \in User /\ task[r].at \in Nat
    BY <1>5, TaskArguments DEF SaveToken
  <2>2. NewRow(r) \in Row /\ Pair(r) \in [user : User, at : Nat]
    BY <2>1 DEF NewRow, Pair, Row, TokensTypeOK
  <2>3. Idle \in Task
    BY DEF Task
  <2>4. QED
    BY <1>5, <2>2, <2>3 DEF TokensTypeOK, SaveToken, Ends
<1>6. ASSUME NEW r \in Request, SelectTokensOfUser(r)
      PROVE  TokensTypeOK'
  <2>1. task[r].user \in User
    BY <1>6, TaskArguments DEF SelectTokensOfUser
  <2>2. [do |-> "delete", user |-> task[r].user, seen |-> Rows(task[r].user)] \in Task
    BY <2>1, RowsType DEF Task
  <2>3. QED
    BY <1>6, <2>2 DEF TokensTypeOK, SelectTokensOfUser, sessions
<1>7. ASSUME NEW r \in Request, DeleteTokens(r)
      PROVE  TokensTypeOK'
  <2>1. Idle \in Task
    BY DEF Task
  <2>2. (~Saving(task[r].user) /\ Rows(task[r].user) \subseteq task[r].seen) \in BOOLEAN
    OBVIOUS
  <2>3. QED
    BY <1>7, <2>1, <2>2 DEF TokensTypeOK, DeleteTokens, Ends
<1>8. ASSUME NEW u \in User, Bar(u)
      PROVE  TokensTypeOK'
  BY <1>8 DEF TokensTypeOK, Bar, sessions
<1>9. CASE Tick
  BY <1>9 DEF TokensTypeOK, Tick, sessions
<1>10. CASE UNCHANGED tokensVars
  BY <1>10 DEF TokensTypeOK, tokensVars, sessions
<1>11. QED
  BY <1>1, <1>2, <1>3, <1>4, <1>5, <1>6, <1>7, <1>8, <1>9, <1>10 DEF TokensNext

\* Rows, tokens and the local variables of the requests hold what they can hold.
THEOREM TokensTypeCorrect == TokensSpec => []TokensTypeOK
<1>1. QED
  BY TokensInitType, TokensNextType, PTL DEF TokensSpec

-----------------------------------------------------------------------------
\* All but SaveToken leave a task that is about to save alone, and add no row.
LEMMA OnlySaveAddsRows ==
  ASSUME TokensTypeOK, [TokensNext]_tokensVars, \A r \in Request : ~SaveToken(r)
  PROVE  /\ tokens' \subseteq tokens
         /\ \A q \in Request : task'[q].do = "save" =>
              task'[q] = task[q] \/ (SelectTokens(q) /\ tokens' = tokens)
<1>1. ASSUME NEW r \in Request, NEW u \in User, LoginUser(r, u)
      PROVE  tokens' = tokens /\ \A q \in Request : task'[q].do = "save" => task'[q] = task[q]
  BY <1>1 DEF LoginUser, Goes, TokensTypeOK
<1>2. ASSUME NEW r \in Request, NEW pair \in issued, RefreshToken(r, pair)
      PROVE  tokens' = tokens /\ \A q \in Request : task'[q].do = "save" => task'[q] = task[q]
  BY <1>2 DEF RefreshToken, Goes, sessions, TokensTypeOK
<1>3. ASSUME NEW r \in Request, NEW pair \in issued, LogoutUser(r, pair)
      PROVE  tokens' = tokens /\ \A q \in Request : task'[q].do = "save" => task'[q] = task[q]
  BY <1>3 DEF LogoutUser, Goes, sessions, TokensTypeOK
<1>4. ASSUME NEW r \in Request, SelectTokens(r)
      PROVE  /\ tokens' = tokens
             /\ \A q \in Request : q # r => task'[q] = task[q]
  BY <1>4 DEF SelectTokens, sessions, TokensTypeOK
<1>5. ASSUME NEW r \in Request, SelectTokensOfUser(r)
      PROVE  tokens' = tokens /\ \A q \in Request : task'[q].do = "save" => task'[q] = task[q]
  BY <1>5 DEF SelectTokensOfUser, sessions, TokensTypeOK
<1>6. ASSUME NEW r \in Request, DeleteTokens(r)
      PROVE  /\ tokens' \subseteq tokens
             /\ \A q \in Request : task'[q].do = "save" => task'[q] = task[q]
  BY <1>6 DEF DeleteTokens, Ends, Idle, TokensTypeOK
<1>7. CASE (\E u \in User : Bar(u)) \/ Tick \/ UNCHANGED tokensVars
  BY <1>7 DEF Bar, Tick, tokensVars, sessions
<1>8. QED
  BY <1>1, <1>2, <1>3, <1>4, <1>5, <1>6, <1>7 DEF TokensNext

LEMMA OwnRowsSeenNext ==
  TokensTypeOK /\ OwnRowsSeen /\ [TokensNext]_tokensVars => OwnRowsSeen'
<1> SUFFICES ASSUME TokensTypeOK, OwnRowsSeen, [TokensNext]_tokensVars,
                    NEW q \in Request, task'[q].do = "save",
                    NEW row \in tokens', row.user = task'[q].user, row.by = q
             PROVE  row \in task'[q].seen
  BY DEF OwnRowsSeen
<1>1. ASSUME NEW r \in Request, SaveToken(r)
      PROVE  row \in task'[q].seen
  <2>1. q # r
    BY <1>1 DEF SaveToken, Ends, Idle, TokensTypeOK
  <2>2. task'[q] = task[q]
    BY <1>1, <2>1 DEF SaveToken, Ends, TokensTypeOK
  <2>3. row # NewRow(r)
    BY <2>1 DEF NewRow
  <2>4. row \in tokens
    BY <1>1, <2>3 DEF SaveToken
  <2>5. QED
    BY <2>2, <2>4 DEF OwnRowsSeen
<1>2. CASE \A r \in Request : ~SaveToken(r)
  <2>1. row \in tokens
    BY <1>2, OnlySaveAddsRows
  <2>2. CASE task'[q] = task[q]
    BY <2>1, <2>2 DEF OwnRowsSeen
  <2>3. CASE SelectTokens(q)
    <3>1. task'[q].user = task[q].user /\ task'[q].seen = Rows(task[q].user)
      BY <2>3 DEF SelectTokens, TokensTypeOK
    <3>2. QED
      BY <2>1, <3>1 DEF Rows
  <2>4. QED
    BY <1>2, <2>2, <2>3, OnlySaveAddsRows
<1>3. QED
  BY <1>1, <1>2

LEMMA RowsReplacedNext ==
  TokensTypeOK /\ OwnRowsSeen /\ RowsReplaced /\ [TokensNext]_tokensVars => RowsReplaced'
<1> SUFFICES ASSUME TokensTypeOK, OwnRowsSeen, RowsReplaced, [TokensNext]_tokensVars,
                    NEW x \in tokens', NEW y \in tokens', x.user = y.user, x.by = y.by
             PROVE  x = y
  BY DEF RowsReplaced
<1>1. ASSUME NEW r \in Request, SaveToken(r)
      PROVE  x = y
  <2>1. \A row \in tokens : row.user = task[r].user /\ row.by = r => row \in task[r].seen
    BY <1>1 DEF OwnRowsSeen, SaveToken
  <2>2. tokens' = (tokens \ task[r].seen) \cup {NewRow(r)}
    BY <1>1 DEF SaveToken
  <2>3. NewRow(r).user = task[r].user /\ NewRow(r).by = r
    BY DEF NewRow
  <2>4. CASE x = NewRow(r) \/ y = NewRow(r)
    BY <2>1, <2>2, <2>3, <2>4
  <2>5. CASE x # NewRow(r) /\ y # NewRow(r)
    BY <2>2, <2>5 DEF RowsReplaced
  <2>6. QED
    BY <2>4, <2>5
<1>2. CASE \A r \in Request : ~SaveToken(r)
  BY <1>2, OnlySaveAddsRows DEF RowsReplaced
<1>3. QED
  BY <1>1, <1>2

\* The rows a task has saved for a user replace each other, whatever other tasks
\* save and delete meanwhile: OwnRowsSeen is what makes it inductive.
THEOREM RowsAreReplaced == TokensSpec => []RowsReplaced
<1>1. TokensInit => OwnRowsSeen /\ RowsReplaced
  BY DEF TokensInit, OwnRowsSeen, RowsReplaced
<1>2. QED
  BY TokensInitType, TokensNextType, <1>1, OwnRowsSeenNext, RowsReplacedNext, PTL
    DEF TokensSpec

-----------------------------------------------------------------------------
\* A refresh needs a row of the user.
LEMMA RefreshNeedsRow ==
  ASSUME TokensTypeOK, NEW r \in Request, NEW pair \in issued, RefreshToken(r, pair)
  PROVE  Rows(pair.user) # {}
<1> SUFFICES ASSUME Rows(pair.user) = {} PROVE FALSE
  OBVIOUS
<1>1. {row \in Rows(pair.user) : row.at = pair.at} = {}
  OBVIOUS
<1>2. Cardinality({row \in Rows(pair.user) : row.at = pair.at}) = 0
  BY <1>1, FS_EmptySet
<1>3. QED
  BY <1>2 DEF RefreshToken, UserVerificationByToken

\* Nobody is saving for u after a step if nobody was before and no task starts to.
LEMMA NotSavingNext ==
  ASSUME NEW u, ~Saving(u),
         \A q \in Request :
           \/ task'[q] = task[q]
           \/ task'[q].do \notin {"select", "save"}
           \/ task'[q].user # u
           \/ task[q].do = "select" /\ task[q].user = u
  PROVE  ~Saving(u)'
BY DEF Saving

LEMMA OutAndNotSavingNext ==
  TokensTypeOK /\ OutAndNotSaving /\ [TokensNext]_tokensVars => OutAndNotSaving'
<1> SUFFICES ASSUME TokensTypeOK, OutAndNotSaving, [TokensNext]_tokensVars,
                    NEW u \in User, out'[u]
             PROVE  Rows(u)' = {} /\ ~Saving(u)'
  BY DEF OutAndNotSaving
<1>1. ASSUME NEW r \in Request, NEW v \in User, LoginUser(r, v)
      PROVE  Rows(u)' = {} /\ ~Saving(u)'
  <2>1. u # v /\ out[u]
    BY <1>1 DEF LoginUser, TokensTypeOK
  <2>2. Rows(u) = {} /\ ~Saving(u)
    BY <2>1 DEF OutAndNotSaving
  <2>3. \A q \in Request : task'[q] = task[q] \/ task'[q].user = v
    BY <1>1 DEF LoginUser, Goes, TokensTypeOK
  <2>4. ~Saving(u)'
    BY <2>1, <2>2, <2>3, NotSavingNext
  <2>5. QED
    BY <1>1, <2>2, <2>4 DEF LoginUser, Rows
<1>2. ASSUME NEW r \in Request, NEW pair \in issued, RefreshToken(r, pair)
      PROVE  Rows(u)' = {} /\ ~Saving(u)'
  <2>1. out' = out /\ tokens' = tokens
    BY <1>2 DEF RefreshToken, sessions
  <2>2. Rows(u) = {} /\ ~Saving(u)
    BY <2>1 DEF OutAndNotSaving
  <2>3. u # pair.user
    BY <1>2, <2>2, RefreshNeedsRow
  <2>4. \A q \in Request : task'[q] = task[q] \/ task'[q].user = pair.user
    BY <1>2 DEF RefreshToken, Goes, TokensTypeOK
  <2>5. ~Saving(u)'
    BY <2>2, <2>3, <2>4, NotSavingNext
  <2>6. QED
    BY <2>1, <2>2, <2>5 DEF Rows
<1>3. ASSUME NEW r \in Request, SelectTokens(r)
      PROVE  Rows(u)' = {} /\ ~Saving(u)'
  <2>1. out' = out /\ tokens' = tokens
    BY <1>3 DEF SelectTokens, sessions
  <2>2. Rows(u) = {} /\ ~Saving(u)
    BY <2>1 DEF OutAndNotSaving
  <2>3. task[r].user # u
    BY <1>3, <2>2 DEF SelectTokens, Saving
  <2>4. \A q \in Request : task'[q] = task[q] \/ task'[q].user = task[r].user
    BY <1>3 DEF SelectTokens, TokensTypeOK
  <2>5. ~Saving(u)'
    BY <2>2, <2>3, <2>4, NotSavingNext
  <2>6. QED
    BY <2>1, <2>2, <2>5 DEF Rows
<1>4. ASSUME NEW r \in Request, SaveToken(r)
      PROVE  Rows(u)' = {} /\ ~Saving(u)'
  <2>1. out' = out
    BY <1>4 DEF SaveToken
  <2>2. Rows(u) = {} /\ ~Saving(u)
    BY <2>1 DEF OutAndNotSaving
  <2>3. task[r].user # u
    BY <1>4, <2>2 DEF SaveToken, Saving
  <2>4. Rows(u)' = {}
    BY <1>4, <2>2, <2>3 DEF SaveToken, Rows, NewRow
  <2>5. \A q \in Request : task'[q] = task[q] \/ task'[q].do = "idle"
    BY <1>4 DEF SaveToken, Ends, Idle, TokensTypeOK
  <2>6. ~Saving(u)'
    BY <2>2, <2>5, NotSavingNext
  <2>7. QED
    BY <2>4, <2>6
<1>5. ASSUME NEW r \in Request, DeleteTokens(r)
      PROVE  Rows(u)' = {} /\ ~Saving(u)'
  <2>1. tokens' = tokens \ task[r].seen
    BY <1>5 DEF DeleteTokens
  <2>2. (Rows(u) \subseteq task[r].seen /\ ~Saving(u)) \/ (Rows(u) = {} /\ ~Saving(u))
    BY <1>5 DEF DeleteTokens, TokensTypeOK, OutAndNotSaving
  <2>3. \A q \in Request : task'[q] = task[q] \/ task'[q].do = "idle"
    BY <1>5 DEF DeleteTokens, Ends, Idle, TokensTypeOK
  <2>4. ~Saving(u)'
    BY <2>2, <2>3, NotSavingNext
  <2>5. QED
    BY <2>1, <2>2, <2>4 DEF Rows
<1>6. ASSUME NEW r \in Request,
             SelectTokensOfUser(r) \/ \E pair \in issued : LogoutUser(r, pair)
      PROVE  Rows(u)' = {} /\ ~Saving(u)'
  <2>1. out' = out /\ tokens' = tokens
    BY <1>6 DEF SelectTokensOfUser, LogoutUser, sessions
  <2>2. Rows(u) = {} /\ ~Saving(u)
    BY <2>1 DEF OutAndNotSaving
  <2>3. \A q \in Request : task'[q] = task[q] \/ task'[q].do \in {"logout", "delete"}
    BY <1>6 DEF SelectTokensOfUser, LogoutUser, Goes, TokensTypeOK
  <2>4. ~Saving(u)'
    BY <2>2, <2>3, NotSavingNext
  <2>5. QED
    BY <2>1, <2>2, <2>4 DEF Rows
<1>7. CASE (\E v \in User : Bar(v)) \/ Tick \/ UNCHANGED tokensVars
  <2>1. out' = out /\ tokens' = tokens /\ task' = task
    BY <1>7 DEF Bar, Tick, tokensVars, sessions
  <2>2. Rows(u) = {} /\ ~Saving(u)
    BY <2>1 DEF OutAndNotSaving
  <2>3. QED
    BY <2>1, <2>2 DEF Rows, Saving
<1>8. QED
  BY <1>1, <1>2, <1>3, <1>4, <1>5, <1>6, <1>7 DEF TokensNext

\* A user who logged out while nobody was logging in or refreshing has no row, and
\* gets none before the password is given again: no request brings one back.
THEOREM LoggedOutUsersStayOut == TokensSpec => []LoggedOutStaysOut
<1>1. TokensInit => OutAndNotSaving
  BY DEF TokensInit, OutAndNotSaving
<1>2. OutAndNotSaving => LoggedOutStaysOut
  BY DEF OutAndNotSaving, LoggedOutStaysOut
<1>3. QED
  BY TokensInitType, TokensNextType, <1>1, <1>2, OutAndNotSavingNext, PTL DEF TokensSpec
=================================================================================
