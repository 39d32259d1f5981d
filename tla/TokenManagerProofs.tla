------------------------- MODULE TokenManagerProofs -------------------------
(***************************************************************************)
(* Proofs about TokenManager, for all users, directories, sessions and     *)
(* bounds.  OneLivePerLogin is inductive with the types: a pair's login is *)
(* the number of a pair not after it, so a new login meets no live token.  *)
(* At the end, about ConsoleSession, whose server is that of TokenManager  *)
(* and takes the same steps.                                               *)
(***************************************************************************)
EXTENDS ConsoleSession, TLAPS

\* Whose next statement writes something, has it.
Complete(r) ==
    /\ r.op = "createUser" \/ r.pc = "create" =>
        r.username \in Users /\ r.password \in Passwords /\ r.role \in Roles
    /\ r.pc = "password" => r.password \in Passwords
    /\ r.pc \in {"issue", "role"} => r.role \in Roles
    /\ r.pc = "issue" => r.username \in Users
GoodRequest == {r \in RequestType : Complete(r)}

IInv ==
    /\ TypeOK
    /\ req \in [Sessions -> GoodRequest]
    /\ OneLivePerLogin

-----------------------------------------------------------------------------
(* Requests.                                                               *)

\* A request stays one, and keeps the token it carries.
LEMMA BecomesType ==
    ASSUME req \in [Sessions -> GoodRequest], \A z \in Sessions : req[z].token \in 0..Len(pairs),
           NEW s \in Sessions, NEW r \in GoodRequest, r.token \in 0..Len(pairs), Becomes(s, r)
    PROVE  req' \in [Sessions -> GoodRequest] /\ \A z \in Sessions : req'[z].token \in 0..Len(pairs)
<1>1. ASSUME NEW q \in GoodRequest
      PROVE  /\ [q EXCEPT !.entitled = q.pc # "idle" /\ (@ \/ Entitled(q, users'))] \in GoodRequest
             /\ [q EXCEPT !.entitled = q.pc # "idle" /\ (@ \/ Entitled(q, users'))].token = q.token
  <2>1. (q.pc # "idle" /\ (q.entitled \/ Entitled(q, users'))) \in BOOLEAN
    OBVIOUS
  <2>2. ASSUME NEW v \in BOOLEAN
        PROVE  [q EXCEPT !.entitled = v] \in GoodRequest /\ [q EXCEPT !.entitled = v].token = q.token
    <3>1. q \in RequestType /\ Complete(q)
      BY DEF GoodRequest
    <3>2. [q EXCEPT !.entitled = v] \in RequestType
      BY <3>1 DEF RequestType
    <3>3. \A f \in {"op", "pc", "token", "username", "password", "role"} :
            [q EXCEPT !.entitled = v][f] = q[f]
      BY <3>1 DEF RequestType
    <3>4. QED
      BY <3>1, <3>2, <3>3 DEF GoodRequest, Complete
  <2>3. QED
    BY <2>1, <2>2
<1>2. ASSUME NEW z \in Sessions
      PROVE  req'[z] \in GoodRequest /\ req'[z].token \in 0..Len(pairs)
  <2> DEFINE q == IF z = s THEN r ELSE req[z]
  <2>1. q \in GoodRequest /\ q.token \in 0..Len(pairs)
    OBVIOUS
  <2>2. req'[z] = [q EXCEPT !.entitled = q.pc # "idle" /\ (@ \/ Entitled(q, users'))]
    BY DEF Becomes
  <2>3. QED
    BY <1>1, <2>1, <2>2
<1>3. req' = [z \in Sessions |-> req'[z]]
  BY DEF Becomes
<1>4. QED
  BY <1>2, <1>3

LEMMA IdleType == Idle \in GoodRequest /\ Idle.token = 0
<1>1. Idle \in GoodRequest
  BY DEF Idle, RequestType, GoodRequest, Complete
<1>2. Idle.token = 0
  BY DEF Idle
<1>3. QED
  BY <1>1, <1>2

LEMMA RequestHasType ==
    ASSUME NEW r \in Requests
    PROVE  r \in GoodRequest /\ r.token \in Issued \cup {0}
<1>1. ASSUME NEW op \in Ops, NEW n \in Issued \cup {0}, NEW u \in Users \cup {NotGiven},
             NEW p \in Passwords \cup {NotGiven}, NEW t \in Roles \cup {NotGiven},
             r = Request(op, n, u, p, t),
             op = "createUser" => u \in Users /\ p \in Passwords /\ t \in Roles
      PROVE  r \in GoodRequest /\ r.token \in Issued \cup {0}
  <2>1. FirstStatement(op) \in {"authenticate", "refresh", "revoke", "admit"}
    BY DEF FirstStatement, Ops
  <2>2. n \in Nat
    BY DEF Issued
  <2>3. QED
    BY <1>1, <2>1, <2>2
    DEF Request, Idle, RequestType, GoodRequest, Complete, Statements
<1>2. CASE \E u \in Users, p \in Passwords : r = Request("login", 0, u, p, NotGiven)
  BY <1>1, <1>2 DEF Ops
<1>3. CASE \E op \in {"refresh", "logout"}, n \in Issued :
              r = Request(op, n, NotGiven, NotGiven, NotGiven)
  BY <1>1, <1>3 DEF Ops
<1>4. CASE \E n \in Issued, u \in Users, p \in Passwords, t \in Roles :
              r = Request("createUser", n, u, p, t)
  BY <1>1, <1>4 DEF Ops
<1>5. CASE \E n \in Issued, u \in Users, p \in Passwords \cup {NotGiven}, t \in Roles \cup {NotGiven} :
              r = Request("updateUser", n, u, p, t)
  BY <1>1, <1>5 DEF Ops
<1>6. CASE \E n \in Issued, u \in Users : r = Request("deleteUser", n, u, NotGiven, NotGiven)
  BY <1>1, <1>6 DEF Ops
<1>7. QED
  BY <1>2, <1>3, <1>4, <1>5, <1>6 DEF Requests

-----------------------------------------------------------------------------
(* Steps.                                                                  *)

\* What a step may do to the tokens: nothing, drop some, or replace the tokens
\* kept by rest and a new pair.
Kept(rest) ==
    /\ DOMAIN rest \subseteq DOMAIN refreshTokens
    /\ \A m \in DOMAIN rest : rest[m] = refreshTokens[m]

\* The token that a new pair of this login replaces is not among rest.
Replaces(rest, login) ==
    \/ login = Len(pairs) + 1
    \/ \E n \in DOMAIN refreshTokens :
        n > oldRefresh /\ pairs[n].login = login /\ n \notin DOMAIN rest

TokenStep ==
    \/ UNCHANGED pairs /\ Kept(refreshTokens') /\ refreshTokens' \in [DOMAIN refreshTokens' -> Users]
    \/ \E rest : \E u \in Users, t \in Roles, login \in 1..(Len(pairs) + 1) :
        Kept(rest) /\ Replaces(rest, login) /\ IssuePair(rest, u, t, login)

RequestStep ==
    req' \in [Sessions -> GoodRequest] /\ \A z \in Sessions : req'[z].token \in 0..Len(pairs)

UserStep == DOMAIN users' \subseteq Users /\ users' \in [DOMAIN users' -> StoredUser]

LEMMA DropKeeps ==
    ASSUME TypeOK, NEW n
    PROVE  /\ Kept(Drop(n)) /\ n \notin DOMAIN Drop(n)
           /\ Drop(n) \in [DOMAIN Drop(n) -> Users]
BY DEF TypeOK, Drop, Kept

LEMMA TokensKept ==
    ASSUME TypeOK, SameTokens
    PROVE  TokenStep
BY DEF TypeOK, SameTokens, TokenStep, Kept

LEMMA StatementMoves ==
    ASSUME IInv, NEW s \in Sessions, Statement(s) \/ Fail(s)
    PROVE  TokenStep /\ RequestStep /\ UserStep /\ UNCHANGED <<storage, oldAccess, oldRefresh, begun>>
<1>a. /\ TypeOK /\ pairs \in Seq(Pair) /\ Len(pairs) \in Nat /\ \A n \in Issued : pairs[n] \in Pair
      /\ req \in [Sessions -> GoodRequest] /\ req[s] \in RequestType /\ Complete(req[s])
      /\ req[s].token \in 0..Len(pairs) /\ \A z \in Sessions : req[z].token \in 0..Len(pairs)
  BY DEF IInv, TypeOK, GoodRequest, Issued
<1>u. /\ DOMAIN users \subseteq Users /\ users \in [DOMAIN users -> StoredUser]
      /\ \A u \in DOMAIN users : users[u].role \in Roles
  BY <1>a DEF TypeOK, StoredUser
<1>b. ASSUME Answer(s) PROVE RequestStep
  <2>1. 0 \in 0..Len(pairs)
    BY <1>a
  <2>2. QED
    BY <1>a, <1>b, <2>1, BecomesType, IdleType DEF Answer, RequestStep
<1>c. ASSUME NEW r, r.token = req[s].token, r \in RequestType, Complete(r), Becomes(s, r)
      PROVE  RequestStep
  BY <1>a, <1>c, BecomesType DEF RequestStep, GoodRequest
<1>d. ASSUME NEW pc \in Statements, Complete([req[s] EXCEPT !.pc = pc]), Goto(s, pc)
      PROVE  RequestStep
  <2>1. /\ [req[s] EXCEPT !.pc = pc] \in RequestType
        /\ [req[s] EXCEPT !.pc = pc].token = req[s].token
    BY <1>a DEF RequestType
  <2>2. QED
    BY <1>c, <1>d, <2>1 DEF Goto
<1>e. UNCHANGED users => UserStep
  BY <1>u DEF UserStep
<1>f. OnlyRequest => TokenStep /\ UserStep /\ UNCHANGED <<storage, oldAccess, oldRefresh, begun>>
  BY <1>a, <1>e, TokensKept DEF OnlyRequest
<1>g. OnlyTokens => UserStep /\ UNCHANGED <<storage, oldAccess, oldRefresh, begun>>
  BY <1>e DEF OnlyTokens
<1>h. OnlyUsers => TokenStep /\ UNCHANGED <<storage, oldAccess, oldRefresh, begun>>
  BY <1>a, TokensKept DEF OnlyUsers
<1>p. ASSUME NEW u \in Users, NEW row \in StoredUser, users' = Put(u, row) PROVE UserStep
  BY <1>u, <1>p DEF Put, UserStep
<1>1. CASE Authenticate(s)
  <2>1. ASSUME NEW role \in Roles, req[s].username \in Users,
               Becomes(s, [req[s] EXCEPT !.pc = "issue", !.role = role])
        PROVE  RequestStep
    <3> DEFINE r == [req[s] EXCEPT !.pc = "issue", !.role = role]
    <3>1. r.token = req[s].token /\ r \in RequestType /\ Complete(r)
      BY <1>a, <2>1 DEF RequestType, Statements, Complete
    <3>2. QED
      BY <1>c, <2>1, <3>1
  <2>2. RequestStep
    BY <1>1, <1>u, <1>b, <2>1 DEF Authenticate
  <2>3. QED
    BY <1>1, <1>f, <2>2 DEF Authenticate
<1>2. CASE IssueTokens(s)
  <2>1. req[s].username \in Users /\ req[s].role \in Roles
    BY <1>2, <1>a DEF IssueTokens, At, Complete, RequestType
  <2>2. Kept(refreshTokens) /\ Replaces(refreshTokens, Len(pairs) + 1)
        /\ Len(pairs) + 1 \in 1..(Len(pairs) + 1)
    BY <1>a DEF Kept, Replaces
  <2>3. IssuePair(refreshTokens, req[s].username, req[s].role, Len(pairs) + 1)
    BY <1>2 DEF IssueTokens
  <2>4. TokenStep
    BY <2>1, <2>2, <2>3 DEF TokenStep
  <2>5. QED
    BY <1>2, <1>b, <1>g, <2>4 DEF IssueTokens
<1>3. CASE Refresh(s)
  <2> DEFINE n == req[s].token
  <2>1. ASSUME n \in DOMAIN refreshTokens, n > oldRefresh, refreshTokens[n] \in DOMAIN users
        PROVE  TokenStep
    <3>1. /\ n \in Issued /\ refreshTokens[n] \in Users /\ users[refreshTokens[n]].role \in Roles
          /\ pairs[n].login \in 1..(Len(pairs) + 1)
      BY <1>a, <1>u, <2>1 DEF TypeOK, Issued
    <3>2. Kept(Drop(n)) /\ Replaces(Drop(n), pairs[n].login)
      BY <1>a, <2>1, DropKeeps DEF Replaces
    <3>3. IssuePair(Drop(n), refreshTokens[n], users[refreshTokens[n]].role, pairs[n].login)
      BY <1>3, <2>1 DEF Refresh
    <3>4. QED
      BY <3>1, <3>2, <3>3 DEF TokenStep
  <2>2. ASSUME ~ (n \in DOMAIN refreshTokens /\ n > oldRefresh /\ refreshTokens[n] \in DOMAIN users)
        PROVE  TokenStep
    <3>1. refreshTokens' = Drop(n) /\ UNCHANGED pairs
      BY <1>3, <2>2 DEF Refresh
    <3>2. QED
      BY <1>a, <3>1, DropKeeps DEF TokenStep
  <2>3. QED
    BY <1>3, <1>b, <1>g, <2>1, <2>2 DEF Refresh
<1>4. CASE RefreshFails(s) \/ RevokeRefreshToken(s)
  <2>1. TokenStep
    BY <1>4, <1>a, DropKeeps DEF RefreshFails, RevokeRefreshToken, TokenStep
  <2>2. QED
    BY <1>4, <1>b, <1>g, <2>1 DEF RefreshFails, RevokeRefreshToken
<1>5. CASE Admit(s)
  <2> DEFINE pc == FirstChange(req[s])
  <2>1. pc # "idle" => pc \in Statements /\ Complete([req[s] EXCEPT !.pc = pc])
    BY <1>a DEF FirstChange, Statements, Complete, RequestType
  <2>2. RequestStep
    BY <1>5, <1>b, <1>d, <2>1 DEF Admit
  <2>3. QED
    BY <1>5, <1>f, <2>2 DEF Admit
<1>6. CASE CreateUser(s)
  <2>1. [password |-> req[s].password, role |-> req[s].role] \in StoredUser
        /\ req[s].username \in Users
    BY <1>6, <1>a DEF CreateUser, At, Complete, StoredUser, RequestType
  <2>2. UserStep
    BY <1>6, <1>e, <1>p, <2>1 DEF CreateUser
  <2>3. QED
    BY <1>6, <1>b, <1>h, <2>2 DEF CreateUser
<1>7. CASE UpdatePassword(s)
  <2>1. req[s].password \in Passwords
    BY <1>7, <1>a DEF UpdatePassword, At, Complete
  <2>2. UserStep
    BY <1>7, <1>u, <1>e, <2>1 DEF UpdatePassword, UserStep, StoredUser
  <2>3. req[s].role # NotGiven => Complete([req[s] EXCEPT !.pc = "role"])
    BY <1>a DEF Complete, RequestType
  <2>4. RequestStep
    BY <1>7, <1>b, <1>d, <2>3 DEF UpdatePassword, Statements
  <2>5. QED
    BY <1>7, <1>h, <2>2, <2>4 DEF UpdatePassword
<1>8. CASE UpdateRole(s)
  <2>1. req[s].role \in Roles
    BY <1>8, <1>a DEF UpdateRole, At, Complete
  <2>2. UserStep
    BY <1>8, <1>u, <1>e, <2>1 DEF UpdateRole, UserStep, StoredUser
  <2>3. QED
    BY <1>8, <1>b, <1>h, <2>2 DEF UpdateRole
<1>9. CASE DeleteUser(s)
  <2>1. UserStep
    BY <1>9, <1>u DEF DeleteUser, UserStep
  <2>2. QED
    BY <1>9, <1>b, <1>h, <2>1 DEF DeleteUser
<1>10. CASE Fail(s)
  BY <1>10, <1>b, <1>f DEF Fail
<1>11. QED
  BY <1>1, <1>2, <1>3, <1>4, <1>5, <1>6, <1>7, <1>8, <1>9, <1>10 DEF Statement

-----------------------------------------------------------------------------
(* The invariant.                                                          *)

\* A new pair replaces one of its login or begins a login; so the logins of
\* the tokens kept stay apart, and none comes back.
LEMMA TokensApart ==
    ASSUME IInv, TokenStep, UNCHANGED oldRefresh
    PROVE  /\ pairs' \in Seq(Pair) /\ Len(pairs) <= Len(pairs') /\ Len(pairs') <= MaxPairs
           /\ \A n \in 1..Len(pairs') : pairs'[n].login \in 1..n
           /\ DOMAIN refreshTokens' \subseteq 1..Len(pairs')
           /\ refreshTokens' \in [DOMAIN refreshTokens' -> Users]
           /\ OneLivePerLogin'
           /\ \A n \in Issued : Live(pairs[n].login) = {} => Live(pairs[n].login)' = {}
<1>a. /\ pairs \in Seq(Pair) /\ Len(pairs) \in Nat /\ Len(pairs) <= MaxPairs /\ OneLivePerLogin
      /\ \A n \in 1..Len(pairs) : pairs[n].login \in 1..n
      /\ DOMAIN refreshTokens \subseteq 1..Len(pairs)
      /\ refreshTokens \in [DOMAIN refreshTokens -> Users]
  BY DEF IInv, TypeOK, Issued
<1>1. CASE UNCHANGED pairs /\ Kept(refreshTokens') /\ refreshTokens' \in [DOMAIN refreshTokens' -> Users]
  BY <1>1, <1>a DEF Kept, OneLivePerLogin, Live, Issued
<1>2. ASSUME NEW rest, NEW u \in Users, NEW t \in Roles, NEW login \in 1..(Len(pairs) + 1),
             Kept(rest), Replaces(rest, login), IssuePair(rest, u, t, login)
      PROVE  /\ pairs' \in Seq(Pair) /\ Len(pairs) <= Len(pairs') /\ Len(pairs') <= MaxPairs
             /\ \A n \in 1..Len(pairs') : pairs'[n].login \in 1..n
             /\ DOMAIN refreshTokens' \subseteq 1..Len(pairs')
             /\ refreshTokens' \in [DOMAIN refreshTokens' -> Users]
             /\ OneLivePerLogin'
             /\ \A n \in Issued : Live(pairs[n].login) = {} => Live(pairs[n].login)' = {}
  <2> DEFINE new == Len(pairs) + 1
             pair == [username |-> u, role |-> t, login |-> login]
  <2>1. pair \in Pair /\ pairs' = Append(pairs, pair)
    BY <1>2, <1>a DEF Pair, IssuePair
  <2>2. /\ pairs' \in Seq(Pair) /\ Len(pairs') = new /\ pairs'[new].login = login
        /\ \A n \in 1..Len(pairs) : pairs'[n] = pairs[n]
    BY <2>1, <1>a
  <2>3. new <= MaxPairs
    BY <1>2, <1>a, BoundsAssumption DEF IssuePair
  <2>4. DOMAIN refreshTokens' = DOMAIN rest \cup {new}
    BY <1>2 DEF IssuePair
  <2>5. DOMAIN rest \subseteq DOMAIN refreshTokens /\ \A m \in DOMAIN rest : rest[m] \in Users
    BY <1>2, <1>a DEF Kept
  <2>6. refreshTokens' \in [DOMAIN refreshTokens' -> Users]
    BY <1>2, <2>4, <2>5 DEF IssuePair
  <2>7. \A m \in DOMAIN rest : pairs[m].login # login
    BY <1>2, <1>a, <2>5 DEF Replaces, OneLivePerLogin
  <2>8. \A n \in 1..Len(pairs') : pairs'[n].login \in 1..n
    BY <2>2, <1>a
  <2>9. OneLivePerLogin'
    BY <2>2, <2>4, <2>5, <2>7, <1>a DEF OneLivePerLogin
  <2>10. ASSUME NEW n \in Issued, Live(pairs[n].login) = {} PROVE Live(pairs[n].login)' = {}
    <3>1. n \in 1..Len(pairs) /\ pairs'[n].login = pairs[n].login
      BY <2>2 DEF Issued
    <3>2. login # pairs[n].login
      BY <1>2, <1>a, <2>10, <3>1 DEF Replaces, Live
    <3>3. \A m \in DOMAIN rest : m > oldRefresh => pairs[m].login # pairs[n].login
      BY <2>5, <2>10 DEF Live
    <3>4. QED
      BY <2>2, <2>4, <2>5, <3>1, <3>2, <3>3, <1>a DEF Live
  <2>11. Len(pairs) <= Len(pairs') /\ Len(pairs') <= MaxPairs
    BY <2>2, <2>3, <1>a
  <2>12. DOMAIN refreshTokens' \subseteq 1..Len(pairs')
    BY <2>2, <2>4, <2>5, <1>a
  <2>13. pairs' \in Seq(Pair)
    BY <2>2
  <2>14. QED
    BY <2>6, <2>8, <2>9, <2>10, <2>11, <2>12, <2>13
<1>3. QED
  BY <1>1, <1>2 DEF TokenStep

LEMMA InitIInv == Init => IInv
<1> SUFFICES ASSUME Init PROVE IInv
  OBVIOUS
<1>1. DOMAIN users \subseteq Users /\ users \in [DOMAIN users -> StoredUser]
  <2>1. CASE storage = "memory"
    BY <2>1, SeedsAssumption DEF Init, EnsureUser, StoredUser, Roles
  <2>2. CASE storage # "memory"
    BY <2>2, DirectoriesAssumption DEF Init, StoredUser, Roles
  <2>3. QED
    BY <2>1, <2>2
<1>2. pairs \in Seq(Pair) /\ Len(pairs) = 0 /\ DOMAIN refreshTokens = {}
  BY DEF Init
<1>3. req \in [Sessions -> GoodRequest] /\ \A s \in Sessions : req[s].token = 0
  BY IdleType DEF Init
<1>4. QED
  BY <1>1, <1>2, <1>3, BoundsAssumption
  DEF Init, IInv, TypeOK, OneLivePerLogin, Issued, GoodRequest

\* The parts of the invariant, step by step.
LEMMA StepsKeepIInv ==
    ASSUME IInv, TokenStep, RequestStep, UserStep, UNCHANGED <<storage, oldAccess, oldRefresh>>,
           begun' \in 0..MaxRequests
    PROVE  IInv'
<1>1. /\ pairs' \in Seq(Pair) /\ Len(pairs) <= Len(pairs') /\ Len(pairs') <= MaxPairs
      /\ \A n \in 1..Len(pairs') : pairs'[n].login \in 1..n
      /\ DOMAIN refreshTokens' \subseteq 1..Len(pairs')
      /\ refreshTokens' \in [DOMAIN refreshTokens' -> Users]
      /\ OneLivePerLogin'
  BY TokensApart
<1>2. oldAccess' \in 0..Len(pairs') /\ oldRefresh' \in 0..Len(pairs')
  BY <1>1 DEF IInv, TypeOK
<1>3. /\ req' \in [Sessions -> RequestType] /\ req' \in [Sessions -> GoodRequest]
      /\ \A z \in Sessions : req'[z].token \in 0..Len(pairs')
  BY <1>1 DEF RequestStep, GoodRequest, IInv, TypeOK
<1>4. QED
  BY <1>1, <1>2, <1>3 DEF IInv, TypeOK, UserStep, Issued

LEMMA NextKeepsIInv == IInv /\ [Next]_vars => IInv'
<1> SUFFICES ASSUME IInv, [Next]_vars PROVE IInv'
  OBVIOUS
<1>a. /\ TypeOK
      /\ UNCHANGED users => UserStep
      /\ SameTokens => TokenStep
      /\ UNCHANGED req => RequestStep
      /\ begun \in 0..MaxRequests
  BY TokensKept DEF IInv, TypeOK, UserStep, RequestStep
<1>1. CASE UNCHANGED vars
  BY <1>1, <1>a, StepsKeepIInv DEF vars, SameTokens
<1>2. ASSUME NEW s \in Sessions, Begin(s) PROVE IInv'
  <2>1. PICK r \in Requests : Becomes(s, r)
    BY <1>2 DEF Begin, Receive
  <2>2. r \in GoodRequest /\ r.token \in 0..Len(pairs)
    BY <1>a, RequestHasType DEF Issued, TypeOK
  <2>3. RequestStep
    BY <2>1, <2>2, BecomesType DEF IInv, TypeOK, RequestStep
  <2>4. begun' \in 0..MaxRequests
    BY <1>2, <1>a, BoundsAssumption DEF Begin, Receive
  <2>5. QED
    BY <1>2, <1>a, <2>3, <2>4, StepsKeepIInv DEF Begin, Receive, SameTokens
<1>3. ASSUME NEW s \in Sessions, Statement(s) \/ Fail(s) PROVE IInv'
  <2>1. TokenStep /\ RequestStep /\ UserStep /\ UNCHANGED <<storage, oldAccess, oldRefresh, begun>>
    BY <1>3, StatementMoves
  <2>2. QED
    BY <1>a, <2>1, StepsKeepIInv
<1>4. CASE ExpireAccess \/ ExpireRefresh
  BY <1>4 DEF ExpireAccess, ExpireRefresh, IInv, TypeOK, OneLivePerLogin, Issued
<1>5. CASE Restart
  <2>1. TokenStep
    BY <1>5 DEF Restart, TokenStep, Kept
  <2>2. RequestStep
    BY <1>5, <1>a, IdleType DEF Restart, RequestStep, TypeOK
  <2>3. UserStep
    <3>1. DOMAIN Seeds \subseteq Users /\ \A u \in DOMAIN Seeds : Seeds[u] \in StoredUser
      BY SeedsAssumption DEF StoredUser, Roles
    <3>2. QED
      BY <1>5, <1>a, <3>1 DEF Restart, EnsureUser, UserStep, TypeOK
  <2>4. QED
    BY <1>5, <1>a, <2>1, <2>2, <2>3, StepsKeepIInv DEF Restart
<1>6. QED
  BY <1>1, <1>2, <1>3, <1>4, <1>5 DEF Next

LEMMA Invariance == Spec => []IInv
BY InitIInv, NextKeepsIInv, PTL DEF Spec

\* Types: what is written to a row, or put into a token, was in the request or
\* in the row before (auth/service.go:35-116, manager.go:101-151).
THEOREM TypeCorrect == Spec => []TypeOK
<1>1. IInv => TypeOK
  BY DEF IInv
<1>2. QED
  BY <1>1, Invariance, PTL

\* A login never has two refresh tokens, whatever its clients repeat or send
\* late (manager.go:122-151).
THEOREM OneLive == Spec => []OneLivePerLogin
<1>1. IInv => OneLivePerLogin
  BY DEF IInv
<1>2. QED
  BY <1>1, Invariance, PTL

\* A login that has ended stays ended (manager.go:123-158).
THEOREM EndedStaysEnded == Spec => DeadStaysDead
<1>1. IInv /\ [Next]_vars =>
        [\A n \in Issued : Live(pairs[n].login) = {} => Live(pairs[n].login)' = {}]_vars
  <2> SUFFICES ASSUME IInv, Next, NEW n \in Issued, Live(pairs[n].login) = {}
               PROVE  Live(pairs[n].login)' = {}
    OBVIOUS
  <2>1. CASE TokenStep /\ UNCHANGED oldRefresh
    BY <2>1, TokensApart
  <2>2. ASSUME NEW s \in Sessions, Begin(s) PROVE TokenStep /\ UNCHANGED oldRefresh
    BY <2>2, TokensKept DEF Begin, Receive, IInv
  <2>3. ASSUME NEW s \in Sessions, Statement(s) \/ Fail(s) PROVE TokenStep /\ UNCHANGED oldRefresh
    BY <2>3, StatementMoves
  <2>4. CASE ExpireAccess \/ Restart
    <3>1. CASE ExpireAccess
      BY <2>1, <3>1, TokensKept DEF ExpireAccess, IInv, SameTokens
    <3>2. CASE Restart
      BY <2>1, <3>2 DEF Restart, TokenStep, Kept
    <3>3. QED
      BY <2>4, <3>1, <3>2
  <2>5. CASE ExpireRefresh
    <3>1. oldRefresh \in Nat /\ DOMAIN refreshTokens \subseteq Nat
      BY DEF IInv, TypeOK, Issued
    <3>2. QED
      BY <2>5, <3>1 DEF ExpireRefresh, Live
  <2>6. QED
    BY <2>1, <2>2, <2>3, <2>4, <2>5 DEF Next
<1>2. QED
  BY <1>1, Invariance, PTL DEF Spec, DeadStaysDead

-----------------------------------------------------------------------------
(* Entitlement.                                                            *)

Acting == {"issue", "create", "password", "role", "delete"}

\* A login is compared with a row, everything else of an admin is admitted.
FitsStatement(r) ==
    /\ r.pc = "authenticate" => r.op = "login"
    /\ r.pc = "admit" => r.op # "login"

EInv == IInv /\ OnlyEntitled /\ \A s \in Sessions : FitsStatement(req[s])

\* A step that makes r of the request of s keeps what the others were entitled
\* to, and whatever r may do, if it was or now is entitled to it.
LEMMA BecomesEntitled ==
    ASSUME EInv, NEW s \in Sessions, NEW r \in RequestType, Becomes(s, r), FitsStatement(r),
           r.pc \in Acting => r.entitled \/ Entitled(r, users')
    PROVE  OnlyEntitled' /\ \A z \in Sessions : FitsStatement(req'[z])
<1>1. ASSUME NEW z \in Sessions
      PROVE  FitsStatement(req'[z]) /\ (req'[z].pc \in Acting => req'[z].entitled)
  <2> DEFINE q == IF z = s THEN r ELSE req[z]
             v == q.pc # "idle" /\ (q.entitled \/ Entitled(q, users'))
  <2>1. q \in RequestType /\ FitsStatement(q)
    BY DEF EInv, IInv, TypeOK
  <2>2. q.pc \in Acting => q.pc # "idle" /\ (q.entitled \/ Entitled(q, users'))
    BY DEF EInv, OnlyEntitled, Acting
  <2>3. req'[z] = [q EXCEPT !.entitled = v]
    BY DEF Becomes
  <2> HIDE DEF v, q
  <2>4. req'[z].pc = q.pc /\ req'[z].op = q.op /\ req'[z].entitled = v
    BY <2>1, <2>3 DEF RequestType
  <2>5. QED
    BY <2>1, <2>2, <2>4 DEF FitsStatement, v
<1>2. QED
  BY <1>1 DEF OnlyEntitled, Acting

\* An answer leaves nothing to be entitled to.
LEMMA AnswerEntitled ==
    ASSUME EInv, NEW s \in Sessions, Answer(s)
    PROVE  OnlyEntitled' /\ \A z \in Sessions : FitsStatement(req'[z])
<1>1. Idle \in RequestType /\ FitsStatement(Idle) /\ Idle.pc \notin Acting
  BY IdleType DEF Idle, FitsStatement, Acting, GoodRequest
<1>2. QED
  BY <1>1, BecomesEntitled DEF Answer

LEMMA StatementEntitled ==
    ASSUME EInv, NEW s \in Sessions, Statement(s) \/ Fail(s)
    PROVE  OnlyEntitled' /\ \A z \in Sessions : FitsStatement(req'[z])
<1>a. /\ req[s] \in RequestType /\ FitsStatement(req[s]) /\ req[s].token \in 0..Len(pairs)
      /\ oldAccess \in Nat /\ Len(pairs) \in Nat
      /\ req[s].pc \in Acting => req[s].entitled
  BY DEF EInv, IInv, TypeOK, OnlyEntitled, Acting
<1>1. CASE Authenticate(s)
  <2> DEFINE u == req[s].username
             r == [req[s] EXCEPT !.pc = "issue", !.role = users[u].role]
  <2>1. ASSUME u \in DOMAIN users, users[u].password = req[s].password, Becomes(s, r)
        PROVE  OnlyEntitled' /\ \A z \in Sessions : FitsStatement(req'[z])
    <3>1. users[u].role \in Roles
      BY <2>1 DEF EInv, IInv, TypeOK, StoredUser
    <3>2. /\ r \in RequestType /\ r.pc = "issue"
          /\ r.op = "login" /\ r.username = u /\ r.password = req[s].password
      BY <1>1, <1>a, <3>1 DEF Authenticate, At, FitsStatement, RequestType, Statements
    <3>3. users' = users
      BY <1>1 DEF Authenticate, OnlyRequest
    <3>4. Entitled(r, users')
      BY <2>1, <3>2, <3>3 DEF Entitled
    <3>5. QED
      BY <2>1, <3>2, <3>4, BecomesEntitled DEF FitsStatement
  <2>2. QED
    BY <1>1, <2>1, AnswerEntitled DEF Authenticate
<1>2. CASE Admit(s)
  <2> DEFINE n == req[s].token
             r == [req[s] EXCEPT !.pc = FirstChange(req[s])]
  <2>1. ASSUME Admits(n), users[pairs[n].username].role = "admin", FirstChange(req[s]) # "idle",
               Becomes(s, r)
        PROVE  OnlyEntitled' /\ \A z \in Sessions : FitsStatement(req'[z])
    <3>1. FirstChange(req[s]) \in Acting \ {"issue"}
      BY <2>1 DEF FirstChange, Acting
    <3>2. /\ r \in RequestType /\ r.pc \notin {"authenticate", "admit"}
          /\ r.op # "login" /\ r.token = n
      BY <1>2, <1>a, <3>1 DEF Admit, At, FitsStatement, RequestType, Statements, Acting
    <3>3. users' = users
      BY <1>2 DEF Admit, OnlyRequest
    <3>4. n \in Issued /\ pairs[n].username \in DOMAIN users
      BY <1>a, <2>1 DEF Admits, Issued
    <3>5. Entitled(r, users')
      BY <2>1, <3>2, <3>3, <3>4 DEF Entitled
    <3>6. QED
      BY <2>1, <3>2, <3>5, BecomesEntitled DEF FitsStatement
  <2>2. QED
    BY <1>2, <2>1, AnswerEntitled DEF Admit, Goto
<1>3. CASE UpdatePassword(s)
  <2> DEFINE r == [req[s] EXCEPT !.pc = "role"]
  <2>1. ASSUME Becomes(s, r) PROVE OnlyEntitled' /\ \A z \in Sessions : FitsStatement(req'[z])
    <3>1. r \in RequestType /\ r.pc = "role" /\ r.entitled = req[s].entitled
      BY <1>a DEF RequestType, Statements
    <3>2. req[s].entitled
      BY <1>3, <1>a DEF UpdatePassword, At, Acting
    <3>3. QED
      BY <2>1, <3>1, <3>2, BecomesEntitled DEF FitsStatement
  <2>2. QED
    BY <1>3, <2>1, AnswerEntitled DEF UpdatePassword, Goto
<1>4. CASE \/ IssueTokens(s) \/ Refresh(s) \/ RefreshFails(s) \/ RevokeRefreshToken(s)
           \/ CreateUser(s) \/ UpdateRole(s) \/ DeleteUser(s) \/ Fail(s)
  BY <1>4, AnswerEntitled
  DEF IssueTokens, Refresh, RefreshFails, RevokeRefreshToken, CreateUser, UpdateRole, DeleteUser, Fail
<1>5. QED
  BY <1>1, <1>2, <1>3, <1>4 DEF Statement

\* A request that comes in is at the first statement of its operation.
LEMMA RequestsStartFirst ==
    ASSUME NEW r \in Requests
    PROVE  r.pc = FirstStatement(r.op)
<1>1. ASSUME NEW op, NEW n, NEW u, NEW p, NEW t, r = Request(op, n, u, p, t)
      PROVE  r.pc = FirstStatement(r.op)
  <2> DEFINE pc == FirstStatement(op)
  <2>1. r = [op |-> op, pc |-> pc, token |-> n, username |-> u, password |-> p, role |-> t,
             entitled |-> FALSE]
    BY <1>1 DEF Request, Idle
  <2> HIDE DEF pc
  <2>2. r.op = op /\ r.pc = pc
    BY <2>1
  <2>3. QED
    BY <2>2 DEF pc
<1>2. CASE \E u \in Users, p \in Passwords : r = Request("login", 0, u, p, NotGiven)
  BY <1>1, <1>2
<1>3. CASE \E op \in {"refresh", "logout"}, n \in Issued :
              r = Request(op, n, NotGiven, NotGiven, NotGiven)
  BY <1>1, <1>3
<1>4. CASE \E op \in {"createUser", "updateUser"}, n \in Issued, u \in Users,
              p \in Passwords \cup {NotGiven}, t \in Roles \cup {NotGiven} :
              r = Request(op, n, u, p, t)
  BY <1>1, <1>4
<1>5. CASE \E n \in Issued, u \in Users : r = Request("deleteUser", n, u, NotGiven, NotGiven)
  BY <1>1, <1>5
<1>6. QED
  BY <1>2, <1>3, <1>4, <1>5 DEF Requests

LEMMA NextKeepsEInv == EInv /\ [Next]_vars => EInv'
<1> SUFFICES ASSUME EInv, [Next]_vars PROVE OnlyEntitled' /\ \A s \in Sessions : FitsStatement(req'[s])
  BY NextKeepsIInv DEF EInv
<1>1. CASE UNCHANGED req
  BY <1>1 DEF EInv, OnlyEntitled
<1>2. ASSUME NEW s \in Sessions, Begin(s)
      PROVE  OnlyEntitled' /\ \A z \in Sessions : FitsStatement(req'[z])
  <2>1. PICK r \in Requests : Becomes(s, r)
    BY <1>2 DEF Begin, Receive
  <2>2. r \in RequestType
    BY RequestHasType DEF GoodRequest
  <2>3. r.pc = FirstStatement(r.op)
    BY RequestsStartFirst
  <2>4. FitsStatement(r) /\ r.pc \notin Acting
    BY <2>3 DEF FirstStatement, FitsStatement, Acting
  <2>5. QED
    BY <2>1, <2>2, <2>4, BecomesEntitled
<1>3. CASE Restart
  <2>1. \A s \in Sessions : req'[s] = Idle
    BY <1>3 DEF Restart
  <2>2. FitsStatement(Idle) /\ Idle.pc = "idle"
    BY DEF Idle, FitsStatement
  <2>3. QED
    BY <2>1, <2>2 DEF OnlyEntitled
<1>4. QED
  BY <1>1, <1>2, <1>3, StatementEntitled DEF Next, vars, ExpireAccess, ExpireRefresh

LEMMA InitEInv == Init => EInv
<1>1. Idle.pc = "idle" /\ FitsStatement(Idle)
  BY DEF Idle, FitsStatement
<1>2. Init => \A s \in Sessions : req[s] = Idle
  BY DEF Init
<1>3. QED
  BY <1>1, <1>2, InitIInv DEF EInv, OnlyEntitled

\* Only requests that were entitled to it, at some time since they came in,
\* change users or begin logins (router.go:121-142, manager.go:101-113).
THEOREM OnlyEntitledAct == Spec => []OnlyEntitled
<1>1. Init => EInv
  BY InitEInv
<1>2. EInv => OnlyEntitled
  BY DEF EInv
<1>3. QED
  BY <1>1, <1>2, NextKeepsEInv, PTL DEF Spec
-----------------------------------------------------------------------------
(* The session of the console, for any number of tabs and connections.     *)

BrowserOK(sh, ar, st, n) ==
    /\ sh \in [Tabs -> 0..n] /\ ar \in [Tabs -> BOOLEAN] /\ st \in 0..n
    /\ \A t \in Tabs : ar[t] => sh[t] # 0

\* A request on its way that the server may take.
Travels(r, n) ==
    r \in GoodRequest /\ r.token \in 0..n /\ FitsStatement(r) /\ r.pc \notin Acting

CallsOK(cs, n) ==
    cs \in [Sessions -> Call] /\ \A s \in Sessions : Travels(cs[s].request, n) /\ cs[s].pair \in 0..n

SInv ==
    /\ EInv
    /\ BrowserOK(shown, armed, stored, Len(pairs))
    /\ CallsOK(calls, Len(pairs))
    /\ reloads \in 0..MaxReloads

\* What the numbers of pairs are numbers of is there for good.
LEMMA MorePairs ==
    ASSUME NEW n \in Nat, NEW m \in Nat, n <= m
    PROVE  /\ BrowserOK(shown, armed, stored, n) => BrowserOK(shown, armed, stored, m)
           /\ \A cs : CallsOK(cs, n) => CallsOK(cs, m)
<1>1. 0..n \subseteq 0..m
  OBVIOUS
<1>2. QED
  BY <1>1 DEF BrowserOK, CallsOK, Travels

\* What a tab sends is a request, of a pair that it shows.
LEMMA SentTravels ==
    ASSUME SInv, NEW r \in Requests, r.op \in {"login", "refresh", "logout"}
    PROVE  Travels(r, Len(pairs))
<1>1. Len(pairs) \in Nat /\ Issued \cup {0} \subseteq 0..Len(pairs)
  BY DEF SInv, EInv, IInv, TypeOK, Issued
<1>2. r \in GoodRequest /\ r.token \in 0..Len(pairs)
  BY <1>1, RequestHasType
<1>3. FitsStatement(r) /\ r.pc \notin Acting
  BY RequestsStartFirst DEF FirstStatement, FitsStatement, Acting
<1>4. QED
  BY <1>2, <1>3 DEF Travels

LEMMA SendKeepsCalls ==
    ASSUME SInv, NEW t \in Tabs, NEW r, Travels(r, Len(pairs)), Send(t, r)
    PROVE  CallsOK(calls', Len(pairs)) /\ UNCHANGED <<vars, stored, reloads>>
<1> DEFINE s == CHOOSE z \in Sessions : Free(z)
           c == [tab |-> t, request |-> r, pair |-> 0, at |-> "sent"]
<1>1. s \in Sessions /\ calls' = [calls EXCEPT ![s] = c]
  BY DEF Send
<1>2. c \in Call /\ c.request = r /\ c.pair = 0 /\ 0 \in 0..Len(pairs)
  BY DEF Call, Travels, GoodRequest, SInv, EInv, IInv, TypeOK
<1> HIDE DEF c, s
<1>3. CallsOK(calls', Len(pairs))
  BY <1>1, <1>2 DEF SInv, CallsOK
<1>4. QED
  BY <1>3 DEF Send

\* The state that a tab comes to has its timer.
LEMMA ShowKeepsBrowser ==
    ASSUME SInv, NEW t \in Tabs, NEW n \in 0..Len(pairs), Show(t, n), stored' \in 0..Len(pairs)
    PROVE  BrowserOK(shown', armed', stored', Len(pairs))
BY DEF Show, SInv, BrowserOK

\* The server keeps its promises, whatever the browser does.
LEMMA ServerKeepsEInv ==
    ASSUME SInv, NEW s \in Sessions, Arrive(s) \/ Serve(s)
    PROVE  /\ EInv' /\ TokenStep /\ UNCHANGED oldRefresh
           /\ Len(pairs) \in Nat /\ Len(pairs') \in Nat /\ Len(pairs) <= Len(pairs')
<1>a. EInv /\ IInv /\ TypeOK /\ begun \in 0..MaxRequests /\ calls[s].request \in GoodRequest
      /\ calls[s].request.token \in 0..Len(pairs) /\ Travels(calls[s].request, Len(pairs))
  BY DEF SInv, EInv, IInv, TypeOK, CallsOK, Travels
<1>b. /\ UNCHANGED users => UserStep
      /\ SameTokens => TokenStep
  BY <1>a, TokensKept DEF TypeOK, UserStep
<1>1. CASE Arrive(s)
  <2> DEFINE r == calls[s].request
  <2>1. Becomes(s, r) /\ SameTokens /\ UNCHANGED <<storage, users, oldAccess, oldRefresh, begun>>
    BY <1>1 DEF Arrive, Receive
  <2>2. RequestStep
    BY <1>a, <2>1, BecomesType DEF IInv, TypeOK, RequestStep
  <2>3. IInv'
    BY <1>a, <1>b, <2>1, <2>2, StepsKeepIInv
  <2>4. OnlyEntitled' /\ \A z \in Sessions : FitsStatement(req'[z])
    BY <1>a, <2>1, BecomesEntitled DEF Travels, GoodRequest
  <2>5. QED
    BY <1>a, <1>b, <2>1, <2>3, <2>4 DEF EInv, SameTokens, TypeOK
<1>2. CASE Serve(s)
  <2>1. Statement(s) \/ Fail(s)
    BY <1>2 DEF Serve
  <2>2. TokenStep /\ RequestStep /\ UserStep /\ UNCHANGED <<storage, oldAccess, oldRefresh, begun>>
    BY <1>a, <2>1, StatementMoves
  <2>3. IInv'
    BY <1>a, <2>2, StepsKeepIInv
  <2>4. OnlyEntitled' /\ \A z \in Sessions : FitsStatement(req'[z])
    BY <1>a, <2>1, StatementEntitled
  <2>5. Len(pairs) <= Len(pairs') /\ pairs' \in Seq(Pair)
    BY <1>a, <2>2, TokensApart
  <2>6. QED
    BY <1>a, <2>2, <2>3, <2>4, <2>5 DEF EInv, TypeOK
<1>3. QED
  BY <1>1, <1>2

\* And the calls on their way stay those of their tabs.
LEMMA ServerKeepsSInv ==
    ASSUME SInv, NEW s \in Sessions, Arrive(s) \/ Serve(s)
    PROVE  /\ SInv'
           /\ \A z \in Sessions :
                calls'[z].tab = calls[z].tab /\ calls'[z].request = calls[z].request
<1>1. /\ EInv' /\ Len(pairs) \in Nat /\ Len(pairs') \in Nat /\ Len(pairs) <= Len(pairs')
  BY ServerKeepsEInv
<1>2. BrowserOK(shown, armed, stored, Len(pairs')) /\ CallsOK(calls, Len(pairs'))
  BY <1>1, MorePairs DEF SInv
<1>3. UNCHANGED <<shown, armed, stored, reloads>>
  BY DEF Arrive, Serve
<1>4. \/ calls' = calls
      \/ \E at \in {"server", "answered"} : \E n \in 0..Len(pairs') :
            calls' = [calls EXCEPT ![s].at = at, ![s].pair = n]
  <2>1. CASE Arrive(s)
    <3>1. calls' = [calls EXCEPT ![s].at = "server", ![s].pair = calls[s].pair]
      BY <2>1, <1>2 DEF Arrive, CallsOK, Call
    <3>2. QED
      BY <3>1, <1>2 DEF CallsOK
  <2>2. CASE Serve(s)
    BY <2>2, <1>1 DEF Serve
  <2>3. QED
    BY <2>1, <2>2
<1>5. ASSUME NEW at \in {"server", "answered"}, NEW n \in 0..Len(pairs'),
             calls' = [calls EXCEPT ![s].at = at, ![s].pair = n]
      PROVE  /\ CallsOK(calls', Len(pairs'))
             /\ \A z \in Sessions :
                  calls'[z].tab = calls[z].tab /\ calls'[z].request = calls[z].request
  <2>1. n \in Nat /\ calls \in [Sessions -> Call]
    BY <1>1, <1>2 DEF CallsOK
  <2>2. calls' \in [Sessions -> Call]
    BY <1>5, <2>1 DEF Call
  <2>3. \A z \in Sessions :
          /\ calls'[z].tab = calls[z].tab /\ calls'[z].request = calls[z].request
          /\ calls'[z].pair \in {calls[z].pair, n}
    BY <1>5, <2>1 DEF Call
  <2>4. QED
    BY <1>2, <2>2, <2>3 DEF CallsOK
<1>6. /\ CallsOK(calls', Len(pairs'))
      /\ \A z \in Sessions :
            calls'[z].tab = calls[z].tab /\ calls'[z].request = calls[z].request
  BY <1>2, <1>4, <1>5
<1>7. QED
  BY <1>1, <1>2, <1>3, <1>6 DEF SInv

LEMMA NextKeepsSInv == SInv /\ [SessionNext]_allVars => SInv'
<1> SUFFICES ASSUME SInv, [SessionNext]_allVars PROVE SInv'
  OBVIOUS
<1>a. /\ EInv /\ Len(pairs) \in Nat /\ 0 \in 0..Len(pairs)
      /\ BrowserOK(shown, armed, stored, Len(pairs)) /\ CallsOK(calls, Len(pairs))
      /\ reloads \in 0..MaxReloads
  BY DEF SInv, EInv, IInv, TypeOK
<1>b. UNCHANGED vars => EInv' /\ pairs' = pairs
  BY <1>a, NextKeepsEInv DEF vars
<1>1. CASE UNCHANGED allVars
  BY <1>1, <1>a, <1>b DEF allVars, browser, SInv
<1>2. ASSUME NEW t \in Tabs, Login(t) PROVE SInv'
  <2>1. PICK u \in Users, p \in Passwords : Send(t, Request("login", 0, u, p, NotGiven))
    BY <1>2 DEF Login
  <2>2. Request("login", 0, u, p, NotGiven) \in Requests
    BY DEF Requests
  <2>3. Request("login", 0, u, p, NotGiven).op = "login"
    BY DEF Request, Idle
  <2>4. CallsOK(calls', Len(pairs)) /\ UNCHANGED <<vars, stored, reloads>>
    BY <2>1, <2>2, <2>3, SentTravels, SendKeepsCalls
  <2>5. QED
    BY <1>2, <1>a, <1>b, <2>4 DEF Login, SInv
<1>3. ASSUME NEW t \in Tabs, refreshSession(t) \/ Logout(t) PROVE SInv'
  <2>1. PICK op \in {"refresh", "logout"} : Send(t, Request(op, shown[t], NotGiven, NotGiven, NotGiven))
    BY <1>3 DEF refreshSession, Logout
  <2>2. shown[t] \in Issued
    BY <1>3, <1>a DEF refreshSession, Logout, BrowserOK, Issued
  <2>3. Request(op, shown[t], NotGiven, NotGiven, NotGiven) \in Requests
    BY <2>2 DEF Requests
  <2>4. Request(op, shown[t], NotGiven, NotGiven, NotGiven).op = op
    BY DEF Request, Idle
  <2>5. CallsOK(calls', Len(pairs)) /\ UNCHANGED <<vars, stored, reloads>>
    BY <2>1, <2>3, <2>4, SentTravels, SendKeepsCalls
  <2>6. BrowserOK(shown', armed', stored', Len(pairs))
    BY <1>3, <1>a, <2>5 DEF refreshSession, Logout, BrowserOK
  <2>7. QED
    BY <1>a, <1>b, <2>5, <2>6 DEF SInv
<1>4. ASSUME NEW t \in Tabs, Reload(t) PROVE SInv'
  <2>1. BrowserOK(shown', armed', stored', Len(pairs))
    <3>1. stored \in 0..Len(pairs)
      BY <1>a DEF BrowserOK
    <3>2. QED
      BY <1>4, <1>a, <3>1, ShowKeepsBrowser DEF Reload
  <2>2. CallsOK(calls', Len(pairs))
    <3>1. calls \in [Sessions -> Call]
      BY <1>a DEF CallsOK
    <3>2. ASSUME NEW c \in Call
          PROVE  /\ [c EXCEPT !.tab = Nobody] \in Call /\ [c EXCEPT !.tab = Nobody].request = c.request
                 /\ [c EXCEPT !.tab = Nobody].pair = c.pair
      BY DEF Call
    <3>3. calls' = [s \in Sessions |->
                    IF calls[s].tab = t THEN [calls[s] EXCEPT !.tab = Nobody] ELSE calls[s]]
      BY <1>4 DEF Reload
    <3>4. ASSUME NEW s \in Sessions
          PROVE  /\ calls'[s] \in Call /\ calls'[s].request = calls[s].request
                 /\ calls'[s].pair = calls[s].pair
      BY <3>1, <3>2, <3>3
    <3>5. calls' \in [Sessions -> Call]
      BY <3>3, <3>4
    <3>6. QED
      BY <1>a, <3>4, <3>5 DEF CallsOK
  <2>3. reloads' \in 0..MaxReloads
    BY <1>4, <1>a, MaxReloadsAssumption DEF Reload
  <2>4. QED
    BY <1>4, <1>b, <2>1, <2>2, <2>3 DEF Reload, SInv
<1>5. ASSUME NEW s \in Sessions, Lose(s) \/ Deliver(s) PROVE SInv'
  <2>1. PICK n \in 0..Len(pairs) : Settle(s, n)
    BY <1>5, <1>a DEF Lose, Deliver, CallsOK
  <2>2. BrowserOK(shown', armed', stored', Len(pairs))
    <3>1. CASE UNCHANGED <<shown, armed, stored>>
      BY <3>1, <1>a
    <3>2. CASE calls[s].tab # Nobody /\ saveState(calls[s].tab, n)
      <4>1. calls[s].tab \in Tabs
        BY <3>2, <1>a DEF CallsOK, Call
      <4>2. QED
        BY <3>2, <4>1, ShowKeepsBrowser DEF saveState
    <3>3. QED
      BY <2>1, <3>1, <3>2 DEF Settle
  <2>3. CallsOK(calls', Len(pairs))
    <3>1. Travels(Idle, Len(pairs))
      BY <1>a, IdleType DEF Travels, FitsStatement, Acting, Idle
    <3>2. NoCall \in Call /\ NoCall.request = Idle /\ NoCall.pair = 0
      BY <3>1 DEF NoCall, Call, Travels, GoodRequest
    <3>3. calls' = [calls EXCEPT ![s] = NoCall]
      BY <2>1 DEF Settle
    <3>4. QED
      BY <1>a, <3>1, <3>2, <3>3 DEF CallsOK
  <2>4. QED
    BY <1>a, <1>b, <2>1, <2>2, <2>3 DEF Settle, SInv
<1>6. CASE Outside
  <2>1. EInv' /\ pairs' = pairs
    BY <1>6, <1>a, NextKeepsEInv DEF Outside, Next, ExpireRefresh, Restart
  <2>2. QED
    BY <1>6, <1>a, <2>1 DEF Outside, browser, SInv
<1>7. QED
  BY <1>1, <1>2, <1>3, <1>4, <1>5, <1>6, ServerKeepsSInv DEF SessionNext

LEMMA InitSInv == SessionInit => SInv
<1> SUFFICES ASSUME SessionInit PROVE SInv
  OBVIOUS
<1>1. EInv /\ Len(pairs) \in Nat /\ 0 \in 0..Len(pairs)
  BY InitEInv DEF SessionInit, EInv, IInv, TypeOK
<1>2. Travels(Idle, Len(pairs))
  BY <1>1, IdleType DEF Travels, FitsStatement, Acting, Idle
<1>3. NoCall \in Call /\ NoCall.request = Idle /\ NoCall.pair = 0
  BY <1>2 DEF NoCall, Call, Travels, GoodRequest
<1>4. CallsOK(calls, Len(pairs))
  BY <1>1, <1>2, <1>3 DEF SessionInit, CallsOK
<1>5. QED
  BY <1>1, <1>4, MaxReloadsAssumption DEF SessionInit, SInv, BrowserOK

LEMMA SessionInvariance == SessionSpec => []SInv
BY InitSInv, NextKeepsSInv, PTL DEF SessionSpec

\* The parts of the invariant, step by step, of the server and of the browser.
THEOREM SessionTypeCorrect == SessionSpec => []SessionTypeOK
<1>1. SInv => SessionTypeOK
  BY DEF SInv, EInv, IInv, BrowserOK, CallsOK, Travels, SessionTypeOK
<1>2. QED
  BY <1>1, SessionInvariance, PTL

\* The requests that the console sends, repeats and loses leave no login two
\* refresh tokens (manager.go:122-151).
THEOREM ConsoleOneLive == SessionSpec => []OneLivePerLogin
<1>1. SInv => OneLivePerLogin
  BY DEF SInv, EInv, IInv
<1>2. QED
  BY <1>1, SessionInvariance, PTL

\* What the requests of the console do, they were entitled to
\* (router.go:121-142, manager.go:101-113).
THEOREM ConsoleOnlyEntitled == SessionSpec => []OnlyEntitled
<1>1. SInv => OnlyEntitled
  BY DEF SInv, EInv
<1>2. QED
  BY <1>1, SessionInvariance, PTL

\* A login that has ended is not brought back by a tab that still shows it
\* (manager.go:123-158).
THEOREM ConsoleDeadStaysDead == SessionSpec => DeadStaysDead
<1>1. SInv /\ [SessionNext]_allVars =>
        [\A n \in Issued : Live(pairs[n].login) = {} => Live(pairs[n].login)' = {}]_vars
  <2> SUFFICES ASSUME SInv, SessionNext, ~UNCHANGED vars,
                      NEW n \in Issued, Live(pairs[n].login) = {}
               PROVE  Live(pairs[n].login)' = {}
    BY DEF allVars
  <2>a. IInv
    BY DEF SInv, EInv
  <2>1. ASSUME NEW s \in Sessions, Arrive(s) \/ Serve(s) PROVE Live(pairs[n].login)' = {}
    BY <2>a, <2>1, ServerKeepsEInv, TokensApart
  <2>2. CASE Outside
    <3>1. oldRefresh \in Nat /\ DOMAIN refreshTokens \subseteq Nat
      BY <2>a DEF IInv, TypeOK, Issued
    <3>2. CASE ExpireRefresh
      BY <3>1, <3>2 DEF ExpireRefresh, Live
    <3>3. CASE Restart
      BY <3>3 DEF Restart, Live
    <3>4. QED
      BY <2>2, <3>2, <3>3 DEF Outside
  <2>3. QED
    BY <2>1, <2>2
    DEF SessionNext, Login, refreshSession, Logout, Send, Reload, Lose, Deliver, Settle
<1>2. QED
  BY <1>1, SessionInvariance, PTL DEF SessionSpec, DeadStaysDead

-----------------------------------------------------------------------------
(* No tab waits for nothing.  A call is dropped when it has settled, and a *)
(* refresh of a tab that settles arms its timer again or signs it out.     *)

\* Whatever is sent takes the place of no call of a tab.
LEMMA SendKeepsRefresh ==
    ASSUME SInv, NEW x \in Tabs, NEW r, Send(x, r), NEW t \in Tabs,
           Calling(t, "refresh") # {} \/ (x = t /\ r.op = "refresh")
    PROVE  Calling(t, "refresh")' # {}
<1> DEFINE s == CHOOSE z \in Sessions : Free(z)
           c == [tab |-> x, request |-> r, pair |-> 0, at |-> "sent"]
<1>1. s \in Sessions /\ Free(s) /\ calls' = [calls EXCEPT ![s] = c]
  BY DEF Send
<1>2. calls \in [Sessions -> Call] /\ c.tab = x /\ c.request = r
  BY DEF SInv, CallsOK
<1>3. calls[s].tab # t
  BY <1>1, NobodyAssumption DEF Free, NoCall
<1> HIDE DEF s, c
<1>4. CASE x = t /\ r.op = "refresh"
  BY <1>1, <1>2, <1>4 DEF Calling
<1>5. ASSUME NEW z \in Calling(t, "refresh") PROVE z \in Calling(t, "refresh")'
  BY <1>1, <1>2, <1>3, <1>5 DEF Calling
<1>6. QED
  BY <1>4, <1>5

LEMMA NextKeepsAttended ==
    SInv /\ NobodyStranded /\ [SessionNext]_allVars => NobodyStranded'
<1> SUFFICES ASSUME SInv, NobodyStranded, [SessionNext]_allVars,
                    NEW t \in Tabs, shown'[t] # 0, ~armed'[t]
             PROVE  Calling(t, "refresh")' # {}
  BY DEF NobodyStranded
<1>a. /\ shown \in [Tabs -> 0..Len(pairs)] /\ armed \in [Tabs -> BOOLEAN]
      /\ calls \in [Sessions -> Call]
  BY DEF SInv, BrowserOK, CallsOK
<1>b. shown[t] # 0 => armed[t] \/ Calling(t, "refresh") # {}
  BY DEF NobodyStranded
\* Refreshes that go on.
<1>c. ASSUME shown'[t] = shown[t], armed'[t] = armed[t],
             \A z \in Sessions : calls[z].tab = t /\ calls[z].request.op = "refresh" =>
                 calls'[z].tab = t /\ calls'[z].request = calls[z].request
      PROVE  Calling(t, "refresh")' # {}
  <2>1. PICK z \in Sessions : calls[z].tab = t /\ calls[z].request.op = "refresh"
    BY <1>b, <1>c DEF Calling
  <2>2. QED
    BY <1>c, <2>1 DEF Calling
<1>1. CASE UNCHANGED allVars
  BY <1>1, <1>c DEF allVars, browser
<1>2. ASSUME NEW x \in Tabs, Login(x) \/ Logout(x) PROVE Calling(t, "refresh")' # {}
  <2>1. PICK r : Send(x, r) /\ UNCHANGED <<shown, armed>>
    BY <1>2 DEF Login, Logout
  <2>2. QED
    BY <1>b, <2>1, SendKeepsRefresh
<1>3. ASSUME NEW x \in Tabs, refreshSession(x) PROVE Calling(t, "refresh")' # {}
  <2> DEFINE r == Request("refresh", shown[x], NotGiven, NotGiven, NotGiven)
  <2>1. Send(x, r) /\ r.op = "refresh"
    BY <1>3 DEF refreshSession, Request, Idle
  <2> HIDE DEF r
  <2>2. x = t \/ Calling(t, "refresh") # {}
    BY <1>3, <1>a, <1>b DEF refreshSession
  <2>3. QED
    BY <2>1, <2>2, SendKeepsRefresh
<1>4. ASSUME NEW x \in Tabs, Reload(x) PROVE Calling(t, "refresh")' # {}
  <2>1. x # t
    BY <1>4, <1>a DEF Reload, Show
  <2>2. QED
    BY <1>4, <1>a, <1>c, <2>1 DEF Reload, Show
<1>5. ASSUME NEW s \in Sessions, Arrive(s) \/ Serve(s) PROVE Calling(t, "refresh")' # {}
  <2>1. \A z \in Sessions : calls'[z].tab = calls[z].tab /\ calls'[z].request = calls[z].request
    BY <1>5, ServerKeepsSInv
  <2>2. QED
    BY <1>5, <1>c, <2>1 DEF Arrive, Serve
<1>6. ASSUME NEW s \in Sessions, Lose(s) \/ Deliver(s) PROVE Calling(t, "refresh")' # {}
  <2>1. PICK n : Settle(s, n)
    BY <1>6 DEF Lose, Deliver
  <2>2. ~(calls[s].tab = t /\ saveState(t, n))
    BY <1>a DEF saveState, Show
  <2>3. shown'[t] = shown[t] /\ armed'[t] = armed[t]
    BY <1>a, <2>1, <2>2 DEF Settle, saveState, Show
  <2>4. ~(calls[s].tab = t /\ calls[s].request.op = "refresh")
    BY <2>1, <2>2, NobodyAssumption DEF Settle
  <2>5. QED
    BY <1>a, <1>c, <2>1, <2>3, <2>4 DEF Settle
<1>7. CASE Outside
  BY <1>7, <1>c DEF Outside, browser
<1>8. QED
  BY <1>1, <1>2, <1>3, <1>4, <1>5, <1>6, <1>7 DEF SessionNext

\* A tab that shows a login has a timer or a refresh that will tell when it has
\* ended (AuthContext.tsx:100-121).
THEOREM SomethingWillTell == SessionSpec => []NobodyStranded
<1>1. SessionInit => NobodyStranded
  BY DEF SessionInit, NobodyStranded
<1>2. QED
  BY <1>1, NextKeepsAttended, SessionInvariance, PTL DEF SessionSpec
=============================================================================
