---------------------------- MODULE TokenManager ----------------------------
(***************************************************************************)
(* Users and tokens: src/internal/auth with the handlers in front of it.   *)
(* Users are rows of PostgreSQL, or a map of the server; refresh tokens    *)
(* are a map of the server either way, behind a mutex, gone when it        *)
(* restarts; access tokens are signed and kept by nobody but the clients,  *)
(* which may send any token they were ever given, twice, late, or after it *)
(* was replaced.                                                           *)
(*                                                                         *)
(* A login and an admin request are several statements, between which      *)
(* others run.  Refresh holds the mutex while it asks for the user, so its *)
(* only moment is that of the question.  Names and passwords are trimmed   *)
(* and not empty.                                                          *)
(***************************************************************************)
EXTENDS Sequences, Integers

CONSTANTS
    Storages,           \* where users may be kept, of memory and postgres
    Users, Passwords,
    NotGiven,           \* a field that a body leaves out
    Seeds,              \* password and role of AUTH_ADMIN_ and AUTH_USER_USERNAME
    Directories,        \* the users that a first start may find
    Sessions,           \* the connections that requests come in on
    MaxPairs,           \* bound on the token pairs of a behaviour
    MaxRequests,        \* bound on the requests of a behaviour
    MaxExpiries         \* bound on the tokens that expire in a behaviour

ASSUME StoragesAssumption == Storages \subseteq {"memory", "postgres"}
ASSUME NotGivenAssumption == NotGiven \notin Users \cup Passwords \cup {"admin", "user"}
ASSUME SeedsAssumption ==
    DOMAIN Seeds \subseteq Users
    /\ Seeds \in [DOMAIN Seeds -> [password : Passwords, role : {"admin", "user"}]]
ASSUME DirectoriesAssumption ==
    \A d \in Directories :
        /\ DOMAIN Seeds \subseteq DOMAIN d /\ DOMAIN d \subseteq Users
        /\ d \in [DOMAIN d -> [password : Passwords, role : {"admin", "user"}]]
ASSUME BoundsAssumption == MaxPairs \in Nat /\ MaxRequests \in Nat /\ MaxExpiries \in Nat

VARIABLES
    storage,        \* STORAGE_TYPE
    users,          \* auth_users, or the map: password and role of each user there is
    refreshTokens,  \* the map: user of each refresh token that is live
    pairs,          \* the pairs issued: user, role and login of the n-th
    oldAccess,      \* the first oldAccess access tokens have expired
    oldRefresh,     \* the first oldRefresh refresh tokens have expired
    req,            \* req[s]: the request that s carries
    begun           \* requests begun so far

vars == <<storage, users, refreshTokens, pairs, oldAccess, oldRefresh, req, begun>>

Roles == {"admin", "user"}
StoredUser == [password : Passwords, role : Roles]
Pair == [username : Users, role : Roles, login : Nat]
Issued == 1..Len(pairs)

Ops == {"login", "refresh", "logout", "createUser", "updateUser", "deleteUser"}
Statements == {"authenticate", "issue", "refresh", "revoke", "admit", "create", "password",
               "role", "delete"}

\* A request: username, password and role are its body, role also what a login
\* has read; token is the number of the pair it carries a token of.  entitled
\* is no part of the program: whether, at some time since the request came in,
\* it was entitled to what it asks for.
RequestType ==
    [op : Ops \cup {"none"}, pc : Statements \cup {"idle"}, token : Nat,
     username : Users \cup {NotGiven}, password : Passwords \cup {NotGiven}, role : Roles \cup {NotGiven},
     entitled : BOOLEAN]

Idle ==
    [op |-> "none", pc |-> "idle", token |-> 0, username |-> NotGiven,
     password |-> NotGiven, role |-> NotGiven, entitled |-> FALSE]

TypeOK ==
    /\ storage \in Storages
    /\ DOMAIN users \subseteq Users /\ users \in [DOMAIN users -> StoredUser]
    /\ pairs \in Seq(Pair) /\ Len(pairs) <= MaxPairs
    /\ \A n \in Issued : pairs[n].login \in 1..n
    /\ DOMAIN refreshTokens \subseteq Issued /\ refreshTokens \in [DOMAIN refreshTokens -> Users]
    /\ oldAccess \in 0..Len(pairs) /\ oldRefresh \in 0..Len(pairs)
    /\ req \in [Sessions -> RequestType]
    /\ \A s \in Sessions : req[s].token \in 0..Len(pairs)
    /\ begun \in 0..MaxRequests

-----------------------------------------------------------------------------
(* Requests.                                                               *)

FirstStatement(op) ==
    CASE op = "login" -> "authenticate" [] op = "refresh" -> "refresh" [] op = "logout" -> "revoke"
      [] OTHER -> "admit"

Request(op, token, username, password, role) ==
    [Idle EXCEPT !.op = op, !.pc = FirstStatement(op), !.token = token, !.username = username,
                 !.password = password, !.role = role]

Requests ==
    {Request("login", 0, u, p, NotGiven) : u \in Users, p \in Passwords}
    \cup {Request(op, n, NotGiven, NotGiven, NotGiven) : op \in {"refresh", "logout"}, n \in Issued}
    \cup {Request("createUser", n, u, p, r) : n \in Issued, u \in Users, p \in Passwords, r \in Roles}
    \cup {Request("updateUser", n, u, p, r) :
            n \in Issued, u \in Users, p \in Passwords \cup {NotGiven}, r \in Roles \cup {NotGiven}}
    \cup {Request("deleteUser", n, u, NotGiven, NotGiven) : n \in Issued, u \in Users}

\* What a request needs: the password of its user, or the role of an admin.
Entitled(r, us) ==
    IF r.op = "login"
    THEN r.username \in DOMAIN us /\ us[r.username].password = r.password
    ELSE /\ r.token \in Issued /\ pairs[r.token].username \in DOMAIN us
         /\ us[pairs[r.token].username].role = "admin"

\* The request of s becomes r, and what has changed may entitle others.
Becomes(s, r) ==
    req' = [z \in Sessions |->
              LET q == IF z = s THEN r ELSE req[z]
              IN  [q EXCEPT !.entitled = q.pc # "idle" /\ (@ \/ Entitled(q, users'))]]

At(s, pc) == req[s].pc = pc
Goto(s, pc) == Becomes(s, [req[s] EXCEPT !.pc = pc])
Answer(s) == Becomes(s, Idle)
SameTokens == UNCHANGED <<refreshTokens, pairs>>
OnlyRequest == SameTokens /\ UNCHANGED <<storage, users, oldAccess, oldRefresh, begun>>
OnlyTokens == UNCHANGED <<storage, users, oldAccess, oldRefresh, begun>>
OnlyUsers == SameTokens /\ UNCHANGED <<storage, oldAccess, oldRefresh, begun>>

\* The handler decodes the body and calls its first statement.
Receive(s, r) ==
    /\ At(s, "idle")
    /\ SameTokens /\ UNCHANGED <<storage, users, oldAccess, oldRefresh>>
    /\ Becomes(s, r)

Begin(s) ==
    /\ begun < MaxRequests
    /\ begun' = begun + 1
    /\ \E r \in Requests : Receive(s, r)

-----------------------------------------------------------------------------
(* The token manager.                                                      *)

Drop(n) == [m \in DOMAIN refreshTokens \ {n} |-> refreshTokens[m]]

\* The tokens kept are those of rest and the new pair's.
IssuePair(rest, username, role, login) ==
    /\ Len(pairs) < MaxPairs
    /\ pairs' = Append(pairs, [username |-> username, role |-> role, login |-> login])
    /\ refreshTokens' = [m \in DOMAIN rest \cup {Len(pairs) + 1} |->
                            IF m = Len(pairs) + 1 THEN username ELSE rest[m]]

\* First half of a login: the password is compared with the row.
Authenticate(s) ==
    /\ At(s, "authenticate")
    /\ OnlyRequest
    /\ LET u == req[s].username
       IN  IF u \in DOMAIN users /\ users[u].password = req[s].password
           THEN Becomes(s, [req[s] EXCEPT !.pc = "issue", !.role = users[u].role])
           ELSE Answer(s)

\* Second half, some time later: the tokens of what was read.
IssueTokens(s) ==
    /\ At(s, "issue")
    /\ OnlyTokens
    /\ IssuePair(refreshTokens, req[s].username, req[s].role, Len(pairs) + 1)
    /\ Answer(s)

\* (mutant) The old token stays until it expires.
RefreshKeepsOld(s) ==
    /\ At(s, "refresh")
    /\ OnlyTokens
    /\ LET n == req[s].token
       IN  IF n \in DOMAIN refreshTokens /\ n > oldRefresh /\ refreshTokens[n] \in DOMAIN users
           THEN IssuePair(refreshTokens, refreshTokens[n], users[refreshTokens[n]].role,
                          pairs[n].login)
           ELSE refreshTokens' = Drop(n) /\ UNCHANGED pairs
    /\ Answer(s)

\* (mutant) A token is believed for its user, as an access token is, and not
\* looked for in the map.
RefreshSignedOnly(s) ==
    /\ At(s, "refresh")
    /\ OnlyTokens
    /\ LET n == req[s].token
       IN  IF n > oldRefresh /\ pairs[n].username \in DOMAIN users
           THEN IssuePair(Drop(n), pairs[n].username, users[pairs[n].username].role,
                          pairs[n].login)
           ELSE refreshTokens' = Drop(n) /\ UNCHANGED pairs
    /\ Answer(s)

\* The token is taken out before the user is looked for, and stays out when
\* that fails.
Refresh(s) ==
    /\ At(s, "refresh")
    /\ OnlyTokens
    /\ LET n == req[s].token
       IN  IF n \in DOMAIN refreshTokens /\ n > oldRefresh /\ refreshTokens[n] \in DOMAIN users
           THEN IssuePair(Drop(n), refreshTokens[n], users[refreshTokens[n]].role, pairs[n].login)
           ELSE refreshTokens' = Drop(n) /\ UNCHANGED pairs
    /\ Answer(s)

RefreshFails(s) ==
    /\ At(s, "refresh")
    /\ storage = "postgres"
    /\ OnlyTokens
    /\ req[s].token \in DOMAIN refreshTokens /\ req[s].token > oldRefresh
    /\ refreshTokens' = Drop(req[s].token)
    /\ UNCHANGED pairs
    /\ Answer(s)

RevokeRefreshToken(s) ==
    /\ At(s, "revoke")
    /\ OnlyTokens
    /\ refreshTokens' = Drop(req[s].token)
    /\ UNCHANGED pairs
    /\ Answer(s)

-----------------------------------------------------------------------------
(* Admission and the users.                                                *)

FirstChange(r) ==
    CASE r.op = "createUser" -> "create"
      [] r.op = "deleteUser" -> "delete"
      [] r.op = "updateUser" /\ r.password # NotGiven -> "password"
      [] r.op = "updateUser" /\ r.password = NotGiven /\ r.role # NotGiven -> "role"
      [] OTHER -> "idle"

\* Whom wrapAuth lets in, and with which role.
Admits(n) == n > oldAccess /\ pairs[n].username \in DOMAIN users

\* (mutant) The role is taken from the claims of the token.
AdmitByClaims(s) ==
    /\ At(s, "admit")
    /\ OnlyRequest
    /\ LET n == req[s].token
       IN  IF Admits(n) /\ pairs[n].role = "admin" /\ FirstChange(req[s]) # "idle"
           THEN Goto(s, FirstChange(req[s])) ELSE Answer(s)

\* wrapAuth: the role is that of the row, read once before the handler runs.
Admit(s) ==
    /\ At(s, "admit")
    /\ OnlyRequest
    /\ LET n == req[s].token
       IN  IF /\ Admits(n) /\ users[pairs[n].username].role = "admin"
              /\ FirstChange(req[s]) # "idle"
           THEN Goto(s, FirstChange(req[s])) ELSE Answer(s)

Put(u, row) == [v \in DOMAIN users \cup {u} |-> IF v = u THEN row ELSE users[v]]

CreateUser(s) ==
    /\ At(s, "create")
    /\ users' = IF req[s].username \in DOMAIN users THEN users
                ELSE Put(req[s].username, [password |-> req[s].password, role |-> req[s].role])
    /\ Answer(s)
    /\ OnlyUsers

\* (mutant) A body without a role is not told from one with.
UpdatePasswordAndRole(s) ==
    /\ At(s, "password")
    /\ LET u == req[s].username
       IN  IF u \in DOMAIN users
           THEN /\ users' = [users EXCEPT ![u].password = req[s].password]
                /\ Goto(s, "role")
           ELSE UNCHANGED users /\ Answer(s)
    /\ OnlyUsers

\* An update is one statement for the password and one for the role.
UpdatePassword(s) ==
    /\ At(s, "password")
    /\ LET u == req[s].username
       IN  IF u \in DOMAIN users
           THEN /\ users' = [users EXCEPT ![u].password = req[s].password]
                /\ IF req[s].role = NotGiven THEN Answer(s) ELSE Goto(s, "role")
           ELSE UNCHANGED users /\ Answer(s)
    /\ OnlyUsers

UpdateRole(s) ==
    /\ At(s, "role")
    /\ LET u == req[s].username
       IN  users' = IF u \in DOMAIN users THEN [users EXCEPT ![u].role = req[s].role] ELSE users
    /\ Answer(s)
    /\ OnlyUsers

DeleteUser(s) ==
    /\ At(s, "delete")
    /\ users' = [v \in DOMAIN users \ {req[s].username} |-> users[v]]
    /\ Answer(s)
    /\ OnlyUsers

\* A statement fails and has no effect.
Fail(s) ==
    /\ storage = "postgres"
    /\ req[s].pc \in {"authenticate", "admit", "create", "password", "role", "delete"}
    /\ OnlyRequest
    /\ Answer(s)

-----------------------------------------------------------------------------
(* Time, restarts.                                                         *)

ExpireAccess ==
    /\ oldAccess < Len(pairs) /\ oldAccess + oldRefresh < MaxExpiries
    /\ oldAccess' = oldAccess + 1
    /\ UNCHANGED <<storage, users, refreshTokens, pairs, oldRefresh, req, begun>>

ExpireRefresh ==
    /\ oldRefresh < Len(pairs) /\ oldAccess + oldRefresh < MaxExpiries
    /\ oldRefresh' = oldRefresh + 1
    /\ UNCHANGED <<storage, users, refreshTokens, pairs, oldAccess, req, begun>>

EnsureUser(found) ==
    [u \in DOMAIN found \cup DOMAIN Seeds |-> IF u \in DOMAIN found THEN found[u] ELSE Seeds[u]]

\* What is in memory and the requests under way are lost; the users of the
\* configuration are looked for, and created when missing, before the server serves.
Restart ==
    /\ users' = EnsureUser(IF storage = "memory" THEN <<>> ELSE users)
    /\ refreshTokens' = <<>>
    /\ req' = [s \in Sessions |-> Idle]
    /\ UNCHANGED <<storage, pairs, oldAccess, oldRefresh, begun>>

\* A server has started, in PostgreSQL over the users of an earlier life.
Init ==
    /\ storage \in Storages
    /\ users \in IF storage = "memory" THEN {EnsureUser(<<>>)} ELSE Directories
    /\ refreshTokens = <<>>
    /\ pairs = <<>>
    /\ oldAccess = 0 /\ oldRefresh = 0
    /\ req = [s \in Sessions |-> Idle]
    /\ begun = 0

Statement(s) ==
    \/ Authenticate(s) \/ IssueTokens(s) \/ Refresh(s) \/ RefreshFails(s) \/ RevokeRefreshToken(s)
    \/ Admit(s) \/ CreateUser(s) \/ UpdatePassword(s) \/ UpdateRole(s) \/ DeleteUser(s)

Next ==
    \/ \E s \in Sessions : Begin(s) \/ Statement(s) \/ Fail(s)
    \/ ExpireAccess \/ ExpireRefresh \/ Restart

Spec == Init /\ [][Next]_vars

-----------------------------------------------------------------------------
(* Properties.                                                             *)

\* The refresh tokens of a login that are still good for something.
Live(login) == {n \in DOMAIN refreshTokens : n > oldRefresh /\ pairs[n].login = login}

\* "issues a new pair, invalidating the old token" (manager.go:122): of the
\* tokens that descend from one login at most one is kept, whatever requests
\* are repeated or late.
OneLivePerLogin ==
    \A n, m \in DOMAIN refreshTokens : pairs[n].login = pairs[m].login => n = m

\* A login that has ended, by logout, expiry, a failed refresh or a restart, stays
\* ended, whatever its clients still send (manager.go:123-158).  Deleting a user
\* ends its logins when they ask to be refreshed (:137): a token that has not asked
\* is still in the map, and is good again for a user created under that name.
DeadStaysDead ==
    [][\A n \in Issued : Live(pairs[n].login) = {} => Live(pairs[n].login)' = {}]_vars

\* Rows of users change, and logins begin, only by requests that were entitled
\* to it at some time after they came in: a role that was taken away, or a
\* password that was changed, is of no use any more (router.go:121-142,
\* manager.go:101-113 and 161-176).
OnlyEntitled ==
    \A s \in Sessions :
        req[s].pc \in {"issue", "create", "password", "role", "delete"} => req[s].entitled
=============================================================================
