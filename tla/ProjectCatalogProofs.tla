------------------------ MODULE ProjectCatalogProofs ------------------------
(***************************************************************************)
(* Proofs about ProjectCatalog, for all projects, stages, flags, titles,   *)
(* sessions and bounds.  The invariant is IInv; that nothing is removed    *)
(* from under a flag over PostgreSQL is part of it.                        *)
(***************************************************************************)
EXTENDS ProjectCatalog, TLAPS

\* A seeding is at one of its four calls, with a title; a stage is created
\* after its name was checked, one call earlier.
SeedCalls == {"getProject", "createProject", "getStage", "createStage"}
OnPath(r) ==
    /\ r.op = "Seed" => r.pc \in SeedCalls /\ r.title # Blank
    /\ r.pc \in {"getStage", "createStage"} => r.title # Blank
OnPaths == \A s \in Sessions : OnPath(req[s])

IInv ==
    /\ TypeOK
    /\ StagesHaveProject
    /\ store = "postgres" => FlagsHaveStage
    /\ OnPaths

-----------------------------------------------------------------------------
(* Requests.                                                               *)

\* What a session answers or begins has the type of a request.
LEMMA IdleType == \A error \in Errors : Idle(error) \in RequestType
BY DefaultAssumption, TitlesAssumption DEF Idle, RequestType

LEMMA RequestHasType ==
    ASSUME NEW r \in Requests
    PROVE  r \in RequestType /\ OnPath(r)
<1>1. ASSUME NEW op \in Ops, NEW p \in Projects, NEW k \in StageKeys, NEW t \in Titles \cup {Blank}
      PROVE  /\ Request(op, p, k, t) \in RequestType
             /\ Request(op, p, k, t).op = op
             /\ Request(op, p, k, t).title = t
             /\ op = "Seed" => Request(op, p, k, t).pc \in SeedCalls
             /\ Request(op, p, k, t).pc \notin {"getStage", "createStage"}
  <2>1. /\ FirstCall[op] \in Calls /\ FirstCall[op] \notin {"getStage", "createStage"}
        /\ op = "Seed" => FirstCall[op] \in SeedCalls
    BY DEF FirstCall, Ops, Calls, SeedCalls
  <2>2. Idle("nil") \in RequestType
    BY IdleType DEF Errors
  <2>3. QED
    BY <2>1, <2>2 DEF Request, RequestType, Idle
<1>2. CASE r \in ProjectRequests
  <2>1. PICK op \in Ops \ {"Seed"}, p \in Projects, t \in Titles \cup {Blank} :
            r = Request(op, p, DefaultStage, t)
    BY <1>2, TitlesAssumption DEF ProjectRequests, Ops
  <2>2. QED
    BY <1>1, <2>1, DefaultAssumption DEF OnPath
<1>3. CASE r \in StageRequests
  <2>1. PICK op \in Ops \ {"Seed"}, p \in Projects, k \in StageKeys, t \in Titles \cup {Blank} :
            r = Request(op, p, k, t)
    BY <1>3, TitlesAssumption DEF StageRequests, Ops
  <2>2. QED
    BY <1>1, <2>1 DEF OnPath
<1>4. CASE r = EnsureProjectAndStage
  <2>1. "Seed" \in Ops
    BY DEF Ops
  <2>2. QED
    BY <1>1, <1>4, <2>1, DefaultAssumption, TitlesAssumption DEF EnsureProjectAndStage, OnPath
<1>5. QED
  BY <1>2, <1>3, <1>4 DEF Requests

\* One session moves on: the requests keep their type and their path.
LEMMA RequestMoves ==
    ASSUME TypeOK, OnPaths, NEW s \in Sessions, NEW r \in RequestType,
           OnPath(r), req' = [req EXCEPT ![s] = r]
    PROVE  /\ req' \in [Sessions -> RequestType] /\ OnPaths'
           /\ req'[s] = r /\ \A t \in Sessions \ {s} : req'[t] = req[t]
<1>1. req \in [Sessions -> RequestType]
  BY DEF TypeOK
<1>2. /\ req' \in [Sessions -> RequestType]
      /\ req'[s] = r /\ \A t \in Sessions \ {s} : req'[t] = req[t]
  BY <1>1
<1>3. QED
  BY <1>2 DEF OnPaths

LEMMA AnswerMoves ==
    ASSUME TypeOK, OnPaths, NEW s \in Sessions, NEW error \in Errors, Answer(s, error)
    PROVE  /\ req' \in [Sessions -> RequestType] /\ OnPaths'
           /\ req'[s].pc = "idle" /\ req'[s].answer = error
           /\ \A t \in Sessions \ {s} : req'[t] = req[t]
<1>1. /\ Idle(error) \in RequestType /\ Idle(error).op # "Seed"
      /\ Idle(error).pc = "idle" /\ Idle(error).answer = error
  BY IdleType DEF Idle
<1>2. OnPath(Idle(error))
  BY <1>1 DEF OnPath
<1>3. QED
  BY <1>1, <1>2, RequestMoves DEF Answer

LEMMA GotoMoves ==
    ASSUME TypeOK, OnPaths, NEW s \in Sessions, NEW pc \in Calls, Goto(s, pc),
           Seeding(s) => pc \in SeedCalls,
           pc \in {"getStage", "createStage"} => req[s].title # Blank
    PROVE  /\ req' \in [Sessions -> RequestType] /\ OnPaths'
           /\ req'[s].pc = pc
           /\ \A t \in Sessions \ {s} : req'[t] = req[t]
<1> DEFINE r == [req[s] EXCEPT !.pc = pc]
<1>1. req \in [Sessions -> RequestType] /\ req[s] \in RequestType
  BY DEF TypeOK
<1>2. r \in RequestType /\ r.op = req[s].op /\ r.title = req[s].title /\ r.pc = pc
  BY <1>1 DEF RequestType
<1>3. OnPath(r)
  BY <1>2 DEF OnPaths, OnPath, Seeding
<1>4. req' = [req EXCEPT ![s] = r]
  BY DEF Goto
<1>5. QED
  BY <1>2, <1>3, <1>4, RequestMoves

-----------------------------------------------------------------------------
(* What a repository call does to the tree.                                *)

TreeStep ==
    \/ NoTreeChange
    \/ \E p \in Projects, t \in Titles : projects' = With(projects, p, t) /\ UNCHANGED stages
    \/ \E x \in Places, t \in Titles :
        x[1] \in DOMAIN projects /\ stages' = With(stages, x, t) /\ UNCHANGED projects
    \/ \E p \in Projects :
        /\ store = "postgres" => FlagsIn(Inside(p)) = {}
        /\ projects' = Without(projects, {p}) /\ stages' = Without(stages, Inside(p))
    \/ \E x \in Places :
        /\ store = "postgres" => FlagsIn({x}) = {}
        /\ stages' = Without(stages, {x}) /\ UNCHANGED projects

Moved == req' \in [Sessions -> RequestType] /\ OnPaths'

\* Every repository call makes one such step: the checks in front of a write,
\* or the foreign keys behind it, give what TreeStep asks for.
LEMMA StatementMoves ==
    ASSUME IInv, NEW s \in Sessions, Statement(s) \/ Fail(s)
    PROVE  TreeStep /\ Moved /\ OnlyTree
<1>a. TypeOK /\ OnPaths /\ StagesHaveProject
  BY DEF IInv
<1>b. ASSUME NEW error \in Errors, Answer(s, error) PROVE Moved
  BY <1>a, <1>b, AnswerMoves DEF Moved
<1>c. ASSUME NEW pc \in Calls, Goto(s, pc), Seeding(s) => pc \in SeedCalls,
             pc \in {"getStage", "createStage"} => req[s].title # Blank
      PROVE  Moved
  BY <1>a, <1>c, GotoMoves DEF Moved
<1>d. /\ req[s].project \in Projects /\ req[s].stage \in StageKeys
      /\ req[s].title \in Titles \cup {Blank}
      /\ Place(s) \in Places /\ Place(s)[1] = req[s].project
  BY <1>a DEF TypeOK, RequestType, Place, Places
<1>e. OnPath(req[s])
  BY <1>a DEF OnPaths
<1>1. CASE GetProject(s)
  <2>1. Moved
    BY <1>1, <1>b, <1>c DEF GetProject, Errors, Calls, SeedCalls
  <2>2. QED
    BY <1>1, <2>1 DEF GetProject, OnlyRequest, OnlyTree, TreeStep
<1>2. CASE CreateProject(s)
  <2>1. Moved
    BY <1>2, <1>b, <1>c DEF CreateProject, Errors, Calls, SeedCalls
  <2>2. TreeStep
    BY <1>2, <1>d DEF CreateProject, TreeStep
  <2>3. QED
    BY <1>2, <2>1, <2>2 DEF CreateProject
<1>3. CASE UpdateProject(s)
  <2>1. Moved
    BY <1>3, <1>b DEF UpdateProject, Errors
  <2>2. TreeStep
    BY <1>3, <1>d DEF UpdateProject, TreeStep
  <2>3. QED
    BY <1>3, <2>1, <2>2 DEF UpdateProject
<1>4. CASE ProjectHasFlags(s)
  <2>1. Moved
    BY <1>4, <1>b, <1>c, <1>e DEF ProjectHasFlags, Errors, Calls, At, Seeding, OnPath, SeedCalls
  <2>2. QED
    BY <1>4, <2>1 DEF ProjectHasFlags, OnlyRequest, OnlyTree, TreeStep
<1>5. CASE DeleteProject(s)
  <2>1. Moved
    BY <1>5, <1>b DEF DeleteProject, Errors
  <2>2. TreeStep
    BY <1>5, <1>d DEF DeleteProject, TreeStep
  <2>3. QED
    BY <1>5, <2>1, <2>2 DEF DeleteProject
<1>6. CASE GetStage(s)
  <2>1. Moved
    BY <1>6, <1>b, <1>c, <1>e DEF GetStage, Errors, Calls, SeedCalls, At, OnPath
  <2>2. QED
    BY <1>6, <2>1 DEF GetStage, OnlyRequest, OnlyTree, TreeStep
<1>7. CASE CreateStage(s)
  <2>1. Moved
    BY <1>7, <1>b DEF CreateStage, Errors
  <2>2. req[s].title \in Titles
    BY <1>7, <1>d, <1>e DEF CreateStage, At, OnPath
  <2>3. TreeStep
    BY <1>7, <1>d, <2>2 DEF CreateStage, TreeStep
  <2>4. QED
    BY <1>7, <2>1, <2>3 DEF CreateStage
<1>8. CASE UpdateStage(s)
  <2>1. Moved
    BY <1>8, <1>b DEF UpdateStage, Errors
  <2>2. Place(s) \in DOMAIN stages => req[s].project \in DOMAIN projects
    BY <1>a, <1>d DEF StagesHaveProject
  <2>3. TreeStep
    BY <1>8, <1>d, <2>2 DEF UpdateStage, TreeStep
  <2>4. QED
    BY <1>8, <2>1, <2>3 DEF UpdateStage
<1>9. CASE StageHasFlags(s)
  <2>1. Moved
    BY <1>9, <1>b, <1>c, <1>e DEF StageHasFlags, Errors, Calls, At, Seeding, OnPath, SeedCalls
  <2>2. QED
    BY <1>9, <2>1 DEF StageHasFlags, OnlyRequest, OnlyTree, TreeStep
<1>10. CASE DeleteStage(s)
  <2>1. Moved
    BY <1>10, <1>b DEF DeleteStage, Errors
  <2>2. TreeStep
    BY <1>10, <1>d DEF DeleteStage, TreeStep
  <2>3. QED
    BY <1>10, <2>1, <2>2 DEF DeleteStage
<1>11. CASE Fail(s)
  <2>1. Moved
    BY <1>11, <1>b DEF Fail, Errors
  <2>2. QED
    BY <1>11, <2>1 DEF Fail, OnlyRequest, OnlyTree, TreeStep
<1>12. QED
  BY <1>1, <1>2, <1>3, <1>4, <1>5, <1>6, <1>7, <1>8, <1>9, <1>10, <1>11 DEF Statement

LEMMA BeginMoves ==
    ASSUME IInv, NEW s \in Sessions, Begin(s)
    PROVE  Moved /\ begun' \in 0..MaxRequests
<1>1. PICK r \in Requests : req' = [req EXCEPT ![s] = r]
  BY DEF Begin
<1>2. r \in RequestType /\ OnPath(r)
  BY RequestHasType
<1>3. Moved
  BY <1>1, <1>2, RequestMoves DEF IInv, Moved
<1>4. begun' \in 0..MaxRequests
  BY RequestsAssumption DEF IInv, TypeOK, Begin
<1>5. QED
  BY <1>3, <1>4

-----------------------------------------------------------------------------
(* The invariant.                                                          *)

\* What With and Without do to the keys and the values.
LEMMA WithKeys ==
    ASSUME NEW f, NEW key, NEW value
    PROVE  /\ DOMAIN With(f, key, value) = DOMAIN f \cup {key}
           /\ With(f, key, value)[key] = value
           /\ \A x \in DOMAIN f \ {key} : With(f, key, value)[x] = f[x]
BY DEF With

LEMMA WithType ==
    ASSUME NEW V, NEW f, f \in [DOMAIN f -> V], NEW key, NEW value \in V
    PROVE  With(f, key, value) \in [DOMAIN With(f, key, value) -> V]
BY DEF With

LEMMA WithoutType ==
    ASSUME NEW V, NEW f, f \in [DOMAIN f -> V], NEW keys
    PROVE  /\ DOMAIN Without(f, keys) = DOMAIN f \ keys
           /\ Without(f, keys) \in [DOMAIN Without(f, keys) -> V]
           /\ \A x \in DOMAIN f \ keys : Without(f, keys)[x] = f[x]
BY DEF Without

LEMMA InitIInv == Init => IInv
<1> SUFFICES ASSUME Init PROVE IInv
  OBVIOUS
<1>1. /\ DOMAIN projects = {DefaultProject} /\ DOMAIN stages = {<<DefaultProject, DefaultStage>>}
      /\ DOMAIN flags = {} /\ <<DefaultProject, DefaultStage>> \in Places
  BY DefaultAssumption DEF Init, Places
<1>2. Idle("nil") \in RequestType /\ Idle("nil").op # "Seed" /\ Idle("nil").pc = "idle"
  BY IdleType DEF Errors, Idle
<1>3. req \in [Sessions -> RequestType] /\ OnPaths
  BY <1>2 DEF Init, OnPaths, OnPath
<1>4. TypeOK
  BY <1>1, <1>3, DefaultAssumption, TitlesAssumption, RequestsAssumption DEF Init, TypeOK
<1>5. StagesHaveProject /\ FlagsHaveStage
  BY <1>1 DEF StagesHaveProject, FlagsHaveStage
<1>6. QED
  BY <1>3, <1>4, <1>5 DEF IInv

\* A step of the tree keeps its stages in projects and, over PostgreSQL, its
\* flags on stages.
TreeHolds ==
    /\ DOMAIN projects \subseteq Projects /\ projects \in [DOMAIN projects -> Titles]
    /\ DOMAIN stages \subseteq Places /\ stages \in [DOMAIN stages -> Titles]
    /\ StagesHaveProject
    /\ store = "postgres" => FlagsHaveStage

LEMMA TreeKept ==
    ASSUME TypeOK, TreeHolds, TreeStep, OnlyTree
    PROVE  TreeHolds'
<1>a. flags' = flags /\ store' = store
  BY DEF OnlyTree
<1>b. \A f \in DOMAIN flags : flags[f] \in Places
  BY DEF TypeOK
<1>1. CASE NoTreeChange
  BY <1>1, <1>a DEF NoTreeChange, TreeHolds, StagesHaveProject, FlagsHaveStage
<1>2. ASSUME NEW p \in Projects, NEW t \in Titles, projects' = With(projects, p, t), UNCHANGED stages
      PROVE  TreeHolds'
  <2>1. DOMAIN projects' = DOMAIN projects \cup {p} /\ projects' \in [DOMAIN projects' -> Titles]
    BY <1>2, WithKeys, WithType DEF TreeHolds
  <2>2. QED
    BY <1>2, <1>a, <2>1 DEF TreeHolds, StagesHaveProject, FlagsHaveStage
<1>3. ASSUME NEW x \in Places, NEW t \in Titles, x[1] \in DOMAIN projects,
             stages' = With(stages, x, t), UNCHANGED projects
      PROVE  TreeHolds'
  <2>1. DOMAIN stages' = DOMAIN stages \cup {x} /\ stages' \in [DOMAIN stages' -> Titles]
    BY <1>3, WithKeys, WithType DEF TreeHolds
  <2>2. QED
    BY <1>3, <1>a, <2>1 DEF TreeHolds, StagesHaveProject, FlagsHaveStage
<1>4. ASSUME NEW p \in Projects, store = "postgres" => FlagsIn(Inside(p)) = {},
             projects' = Without(projects, {p}), stages' = Without(stages, Inside(p))
      PROVE  TreeHolds'
  <2>1. DOMAIN projects' = DOMAIN projects \ {p} /\ projects' \in [DOMAIN projects' -> Titles]
    BY <1>4, WithoutType DEF TreeHolds
  <2>2. DOMAIN stages' = DOMAIN stages \ Inside(p) /\ stages' \in [DOMAIN stages' -> Titles]
    BY <1>4, WithoutType DEF TreeHolds
  <2>3. StagesHaveProject'
    BY <2>1, <2>2 DEF TreeHolds, StagesHaveProject, Inside
  <2>4. store = "postgres" => FlagsHaveStage'
    BY <1>4, <1>a, <2>2 DEF TreeHolds, FlagsHaveStage, FlagsIn
  <2>5. QED
    BY <1>a, <2>1, <2>2, <2>3, <2>4 DEF TreeHolds
<1>5. ASSUME NEW x \in Places, store = "postgres" => FlagsIn({x}) = {},
             stages' = Without(stages, {x}), UNCHANGED projects
      PROVE  TreeHolds'
  <2>1. DOMAIN stages' = DOMAIN stages \ {x} /\ stages' \in [DOMAIN stages' -> Titles]
    BY <1>5, WithoutType DEF TreeHolds
  <2>2. store = "postgres" => FlagsHaveStage'
    BY <1>5, <1>a, <2>1 DEF TreeHolds, FlagsHaveStage, FlagsIn
  <2>3. QED
    BY <1>5, <1>a, <2>1, <2>2 DEF TreeHolds, StagesHaveProject
<1>6. QED
  BY <1>1, <1>2, <1>3, <1>4, <1>5 DEF TreeStep

\* A flag comes to a stage that is there, as the foreign keys ask, or goes.
LEMMA FlagsKept ==
    ASSUME IInv, NEW f \in FlagIds, DropFlag(f) \/ \E x \in Places : PutFlag(f, x)
    PROVE  /\ DOMAIN flags' \subseteq FlagIds /\ flags' \in [DOMAIN flags' -> Places]
           /\ store = "postgres" => FlagsHaveStage'
           /\ UNCHANGED <<store, projects, stages, req, begun>>
<1>a. TypeOK /\ flags \in [DOMAIN flags -> Places]
  BY DEF IInv, TypeOK
<1>1. CASE DropFlag(f)
  <2>1. /\ DOMAIN flags' = DOMAIN flags \ {f} /\ flags' \in [DOMAIN flags' -> Places]
        /\ \A g \in DOMAIN flags \ {f} : flags'[g] = flags[g]
    BY <1>1, <1>a, WithoutType DEF DropFlag
  <2>2. QED
    BY <1>1, <1>a, <2>1 DEF DropFlag, IInv, TypeOK, FlagsHaveStage
<1>2. ASSUME NEW x \in Places, PutFlag(f, x)
      PROVE  /\ DOMAIN flags' \subseteq FlagIds /\ flags' \in [DOMAIN flags' -> Places]
             /\ store = "postgres" => FlagsHaveStage'
             /\ UNCHANGED <<store, projects, stages, req, begun>>
  <2>1. /\ DOMAIN flags' = DOMAIN flags \cup {f} /\ flags' \in [DOMAIN flags' -> Places]
        /\ flags'[f] = x /\ \A g \in DOMAIN flags \ {f} : flags'[g] = flags[g]
    BY <1>2, <1>a, WithKeys, WithType DEF PutFlag
  <2>2. QED
    BY <1>2, <1>a, <2>1 DEF PutFlag, IInv, TypeOK, FlagsHaveStage
<1>3. QED
  BY <1>1, <1>2

LEMMA NextKeepsIInv == IInv /\ [Next]_vars => IInv'
<1> SUFFICES ASSUME IInv, [Next]_vars PROVE IInv'
  OBVIOUS
<1>a. TreeHolds
  BY DEF IInv, TypeOK, TreeHolds
<1>1. CASE Quiet \/ UNCHANGED vars
  <2>1. UNCHANGED vars
    BY <1>1 DEF Quiet
  <2>2. QED
    BY <2>1 DEF vars, IInv, TypeOK, StagesHaveProject, FlagsHaveStage, OnPaths
<1>2. ASSUME NEW s \in Sessions, Begin(s) PROVE IInv'
  <2>1. Moved /\ begun' \in 0..MaxRequests
    BY <1>2, BeginMoves
  <2>2. QED
    BY <1>2, <2>1 DEF Begin, Moved, IInv, TypeOK, StagesHaveProject, FlagsHaveStage
<1>3. ASSUME NEW s \in Sessions, Statement(s) \/ Fail(s) PROVE IInv'
  <2>1. TreeStep /\ Moved /\ OnlyTree
    BY <1>3, StatementMoves
  <2>2. TreeHolds'
    BY <1>a, <2>1, TreeKept DEF IInv
  <2>3. QED
    BY <2>1, <2>2 DEF Moved, OnlyTree, TreeHolds, IInv, TypeOK
<1>4. ASSUME NEW f \in FlagIds, DropFlag(f) \/ \E x \in Places : PutFlag(f, x) PROVE IInv'
  BY <1>4, FlagsKept DEF IInv, TypeOK, StagesHaveProject, OnPaths
<1>5. QED
  BY <1>1, <1>2, <1>3, <1>4 DEF Next

LEMMA Invariance == Spec => []IInv
BY InitIInv, NextKeepsIInv, PTL DEF Spec

\* Types: in particular a name that was checked at the start of a request is
\* never found blank in the tables.
THEOREM TypeCorrect == Spec => []TypeOK
<1>1. IInv => TypeOK
  BY DEF IInv
<1>2. QED
  BY <1>1, Invariance, PTL

\* No stage outlives its project, whatever runs between the calls of a
\* CreateStage, a DeleteProject or a seeding (project/service.go:106-195).
THEOREM StagesInProjects == Spec => []StagesHaveProject
<1>1. IInv => StagesHaveProject
  BY DEF IInv
<1>2. QED
  BY <1>1, Invariance, PTL

\* Over PostgreSQL no flag is left without its stage: the look at the flags
\* may be stale, the foreign keys are not (postgres_repository.go:217-246).
THEOREM FlagsOnStages == Spec => [](store = "postgres" => FlagsHaveStage)
<1>1. IInv => (store = "postgres" => FlagsHaveStage)
  BY DEF IInv
<1>2. QED
  BY <1>1, Invariance, PTL

-----------------------------------------------------------------------------
(* Seedings.                                                               *)

\* A call of one session is no step of another.
LEMMA OthersStay ==
    ASSUME IInv, NEW s \in Sessions, Begin(s) \/ Statement(s) \/ Fail(s),
           NEW t \in Sessions, t # s
    PROVE  req'[t] = req[t]
<1>1. req \in [Sessions -> RequestType]
  BY DEF IInv, TypeOK
<1>2. ASSUME NEW r, req' = [req EXCEPT ![s] = r] PROVE req'[t] = req[t]
  BY <1>1, <1>2
<1>3. ASSUME NEW error, Answer(s, error) PROVE req'[t] = req[t]
  BY <1>2, <1>3 DEF Answer
<1>4. ASSUME NEW pc, Goto(s, pc) PROVE req'[t] = req[t]
  BY <1>2, <1>4 DEF Goto
<1>5. CASE Begin(s)
  BY <1>2, <1>5 DEF Begin
<1>6. CASE Statement(s)
  <2>1. CASE GetProject(s) \/ CreateProject(s) \/ UpdateProject(s) \/ ProjectHasFlags(s)
    BY <1>3, <1>4, <2>1 DEF GetProject, CreateProject, UpdateProject, ProjectHasFlags
  <2>2. CASE DeleteProject(s) \/ GetStage(s) \/ CreateStage(s)
    BY <1>3, <1>4, <2>2 DEF DeleteProject, GetStage, CreateStage
  <2>3. CASE UpdateStage(s) \/ StageHasFlags(s) \/ DeleteStage(s)
    BY <1>3, <1>4, <2>3 DEF UpdateStage, StageHasFlags, DeleteStage
  <2>4. QED
    BY <1>6, <2>1, <2>2, <2>3 DEF Statement
<1>7. CASE Fail(s)
  BY <1>3, <1>7 DEF Fail
<1>8. QED
  BY <1>5, <1>6, <1>7

\* A seeding moves by one of its own calls, or fails.
LEMMA SeedMoves ==
    ASSUME IInv, Next, NEW s \in Sessions, Seeding(s), req'[s] # req[s]
    PROVE  GetProject(s) \/ CreateProject(s) \/ GetStage(s) \/ CreateStage(s) \/ Fail(s)
<1>1. req[s].pc \in SeedCalls
  BY DEF IInv, OnPaths, OnPath, Seeding
<1>2. PICK t \in Sessions : Begin(t) \/ Statement(t) \/ Fail(t)
  BY DEF Next, Quiet, vars, PutFlag, DropFlag
<1>3. t = s
  BY <1>2, OthersStay
<1>4. ~ Begin(s)
  BY <1>1 DEF Begin, SeedCalls
<1>5. \A pc : At(s, pc) => pc \in SeedCalls
  BY <1>1 DEF At
<1>6. ~ UpdateProject(s) /\ ~ ProjectHasFlags(s) /\ ~ DeleteProject(s)
  BY <1>5 DEF UpdateProject, ProjectHasFlags, DeleteProject, SeedCalls
<1>7. ~ UpdateStage(s) /\ ~ StageHasFlags(s) /\ ~ DeleteStage(s)
  BY <1>5 DEF UpdateStage, StageHasFlags, DeleteStage, SeedCalls
<1>8. QED
  BY <1>2, <1>3, <1>4, <1>6, <1>7 DEF Statement

\* A call of a seeding only adds to the tables.
LEMMA SeedAdds ==
    ASSUME NEW s \in Sessions,
           GetProject(s) \/ CreateProject(s) \/ GetStage(s) \/ CreateStage(s) \/ Fail(s)
    PROVE  /\ \A p \in DOMAIN projects : p \in DOMAIN projects' /\ projects'[p] = projects[p]
           /\ \A x \in DOMAIN stages : x \in DOMAIN stages' /\ stages'[x] = stages[x]
<1>1. CASE NoTreeChange
  BY <1>1 DEF NoTreeChange
<1>2. CASE projects' = With(projects, req[s].project, req[s].title) /\ UNCHANGED stages
                /\ req[s].project \notin DOMAIN projects
  BY <1>2 DEF With
<1>3. CASE stages' = With(stages, Place(s), req[s].title) /\ UNCHANGED projects
                /\ Place(s) \notin DOMAIN stages
  BY <1>3 DEF With
<1>4. QED
  BY <1>1, <1>2, <1>3 DEF GetProject, CreateProject, GetStage, CreateStage, Fail, OnlyRequest

\* What an admin has renamed, in whatever moment, keeps its name
\* (project/service.go:165-195).
THEOREM SeedNames == Spec => SeedKeepsNames
<1>1. IInv /\ [Next]_vars =>
        [\A s \in Sessions : Seeding(s) /\ req'[s] # req[s] =>
            /\ \A p \in DOMAIN projects : p \in DOMAIN projects' /\ projects'[p] = projects[p]
            /\ \A x \in DOMAIN stages : x \in DOMAIN stages' /\ stages'[x] = stages[x]]_vars
  BY SeedMoves, SeedAdds
<1>2. QED
  BY <1>1, Invariance, PTL DEF Spec, SeedKeepsNames

\* A call of a seeding that ends it, ends it in one of the three ways.
LEMMA SeedEnds ==
    ASSUME IInv, NEW s \in Sessions, Seeding(s), req'[s].pc = "idle",
           GetProject(s) \/ CreateProject(s) \/ GetStage(s) \/ CreateStage(s) \/ Fail(s)
    PROVE  \/ req'[s].answer = "nil" /\ Place(s) \in DOMAIN stages'
           \/ req'[s].answer = "ErrProjectNotFound" /\ req[s].project \notin DOMAIN projects
           \/ req'[s].answer = "ErrInternal"
<1>a. TypeOK /\ OnPaths /\ req[s].title # Blank
  BY DEF IInv, OnPaths, OnPath, Seeding
<1>b. ASSUME NEW error \in Errors, Answer(s, error) PROVE req'[s].answer = error
  BY <1>a, <1>b, AnswerMoves
<1>c. ASSUME NEW pc \in SeedCalls, Goto(s, pc) PROVE FALSE
  <2>1. pc \in Calls /\ pc # "idle"
    BY DEF SeedCalls, Calls
  <2>2. QED
    BY <1>a, <1>c, <2>1, GotoMoves
<1>1. ~ GetProject(s) /\ ~ CreateProject(s)
  BY <1>a, <1>c DEF GetProject, CreateProject, SeedCalls
<1>2. CASE GetStage(s)
  BY <1>2, <1>b, <1>c DEF GetStage, SeedCalls, Errors, OnlyRequest, NoTreeChange
<1>3. CASE CreateStage(s)
  <2>1. ASSUME stages' = With(stages, Place(s), req[s].title) PROVE Place(s) \in DOMAIN stages'
    BY <2>1 DEF With
  <2>2. QED
    BY <1>3, <1>b, <2>1 DEF CreateStage, Errors, NoTreeChange
<1>4. CASE Fail(s)
  BY <1>4, <1>b DEF Fail, Errors
<1>5. QED
  BY <1>1, <1>2, <1>3, <1>4

\* A seeding never fails because another one runs (project/service.go:170-194).
THEOREM SeedingDelivers == Spec => SeedDelivers
<1>1. IInv /\ [Next]_vars =>
        [\A s \in Sessions : Seeding(s) /\ req'[s].pc = "idle" =>
            \/ req'[s].answer = "nil" /\ Place(s) \in DOMAIN stages'
            \/ req'[s].answer = "ErrProjectNotFound" /\ req[s].project \notin DOMAIN projects
            \/ req'[s].answer = "ErrInternal"]_vars
  <2> SUFFICES ASSUME IInv, Next, NEW s \in Sessions, Seeding(s), req'[s].pc = "idle"
               PROVE  \/ req'[s].answer = "nil" /\ Place(s) \in DOMAIN stages'
                      \/ req'[s].answer = "ErrProjectNotFound" /\ req[s].project \notin DOMAIN projects
                      \/ req'[s].answer = "ErrInternal"
    OBVIOUS
  <2>1. req'[s] # req[s]
    BY DEF IInv, OnPaths, OnPath, Seeding, SeedCalls
  <2>2. QED
    BY <2>1, SeedMoves, SeedEnds
<1>2. QED
  BY <1>1, Invariance, PTL DEF Spec, SeedDelivers

-----------------------------------------------------------------------------
(* The tree of ScopeTree.                                                  *)

\* The flags as the tree sees them.
Placed ==
    IF store = "postgres" THEN {<<f, flags[f][1], flags[f][2]>> : f \in DOMAIN flags} ELSE {}

LEMMA InitTree == Init => Tree!Init
<1> SUFFICES ASSUME Init PROVE Tree!Init
  OBVIOUS
<1>1. /\ DOMAIN projects = {DefaultProject} /\ DOMAIN stages = {<<DefaultProject, DefaultStage>>}
      /\ DOMAIN flags = {}
  BY DEF Init
<1>2. Placed = {}
  BY <1>1 DEF Placed
<1>3. QED
  BY <1>1, <1>2, DefaultAssumption DEF Tree!Init, Placed

\* A step of the catalogue's tables is a step of the tree: what is removed
\* carries no flag.
LEMMA TreeStepMaps ==
    ASSUME IInv, TreeStep, OnlyTree
    PROVE  Tree!Next \/ UNCHANGED Tree!treeVars
<1>a. Placed' = Placed
  BY DEF OnlyTree, Placed
<1>b. DOMAIN stages \subseteq Projects \X StageKeys /\ \A f \in DOMAIN flags : flags[f] \in Places
  BY DEF IInv, TypeOK, Places
<1>c. \A x \in Places : x[1] \in Projects /\ x[2] \in StageKeys /\ x = <<x[1], x[2]>>
  BY DEF Places
<1>1. CASE NoTreeChange
  BY <1>1, <1>a DEF NoTreeChange, Tree!treeVars, Placed
<1>2. ASSUME NEW p \in Projects, NEW t \in Titles, projects' = With(projects, p, t), UNCHANGED stages
      PROVE  Tree!AddProject(p)
  BY <1>2, <1>a DEF With, Tree!AddProject, Placed
<1>3. ASSUME NEW x \in Places, NEW t \in Titles, x[1] \in DOMAIN projects,
             stages' = With(stages, x, t), UNCHANGED projects
      PROVE  Tree!AddStage(x[1], x[2])
  BY <1>3, <1>a, <1>c DEF With, Tree!AddStage, Placed
<1>4. ASSUME NEW p \in Projects, store = "postgres" => FlagsIn(Inside(p)) = {},
             projects' = Without(projects, {p}), stages' = Without(stages, Inside(p))
      PROVE  Tree!RemoveProject(p)
  <2>1. \A t \in Placed : t[2] # p
    BY <1>4, <1>b DEF Placed, FlagsIn, Inside
  <2>2. DOMAIN projects' = DOMAIN projects \ {p} /\ DOMAIN stages' = DOMAIN stages \ Inside(p)
    BY <1>4 DEF Without
  <2>3. DOMAIN stages \ Inside(p) = DOMAIN stages \ ({p} \X StageKeys)
    BY <1>b DEF Inside, Places
  <2>4. Tree!Within(p) = {}
    BY <2>1 DEF Tree!Within, Placed
  <2>5. QED
    BY <2>2, <2>3, <2>4, <1>a DEF Tree!RemoveProject, Placed
<1>5. ASSUME NEW x \in Places, store = "postgres" => FlagsIn({x}) = {},
             stages' = Without(stages, {x}), UNCHANGED projects
      PROVE  Tree!RemoveStage(x[1], x[2])
  <2>1. \A t \in Placed : ~ (t[2] = x[1] /\ t[3] = x[2])
    BY <1>5, <1>b, <1>c DEF Placed, FlagsIn
  <2>2. Tree!On(x[1], x[2]) = {}
    BY <2>1 DEF Tree!On, Placed
  <2>3. DOMAIN stages' = DOMAIN stages \ {<<x[1], x[2]>>}
    BY <1>5, <1>c DEF Without
  <2>4. QED
    BY <2>2, <2>3, <1>5, <1>a DEF Tree!RemoveStage, Placed
<1>6. QED
  BY <1>1, <1>2, <1>3, <1>4, <1>5, <1>c DEF TreeStep, Tree!Next

\* So is the coming and going of flags.
LEMMA FlagStepMaps ==
    ASSUME IInv, NEW f \in FlagIds, DropFlag(f) \/ \E x \in Places : PutFlag(f, x)
    PROVE  Tree!Next \/ UNCHANGED Tree!treeVars
<1>a. UNCHANGED <<store, projects, stages>>
  BY DEF DropFlag, PutFlag
<1>1. CASE store # "postgres"
  BY <1>1, <1>a DEF Tree!treeVars
<1>2. CASE store = "postgres" /\ DropFlag(f)
  <2>1. DOMAIN flags' = DOMAIN flags \ {f} /\ \A g \in DOMAIN flags \ {f} : flags'[g] = flags[g]
    BY <1>2 DEF DropFlag, Without
  <2>2. Placed' = Placed \ {t \in Placed : t[1] = f}
    BY <1>2, <1>a, <2>1 DEF Placed
  <2>3. Tree!RemoveFlag(f)
    BY <1>a, <2>2 DEF Tree!RemoveFlag, Tree!FlagsOf, Placed
  <2>4. QED
    BY <2>3 DEF Tree!Next
<1>3. ASSUME NEW x \in Places, store = "postgres", PutFlag(f, x)
      PROVE  Tree!Next
  <2>1. x[1] \in Projects /\ x[2] \in StageKeys /\ x = <<x[1], x[2]>>
    BY DEF Places
  <2>2. f \notin DOMAIN flags /\ x \in DOMAIN stages
    BY <1>3 DEF PutFlag
  <2>3. /\ DOMAIN flags' = DOMAIN flags \cup {f} /\ flags'[f] = x
        /\ \A g \in DOMAIN flags : flags'[g] = flags[g]
    BY <1>3, <2>2 DEF PutFlag, With
  <2>4. Placed' = Placed \cup {<<f, x[1], x[2]>>}
    BY <1>3, <1>a, <2>3 DEF Placed
  <2>5. Tree!FlagsOf(f) = {}
    BY <2>2 DEF Tree!FlagsOf
  <2>6. Tree!PlaceFlag(f, x[1], x[2])
    BY <1>a, <2>1, <2>2, <2>4, <2>5 DEF Tree!PlaceFlag, Placed
  <2>7. QED
    BY <2>1, <2>6 DEF Tree!Next
<1>4. QED
  BY <1>1, <1>2, <1>3

\* The catalogue implements the tree, over PostgreSQL with the flags on it
\* (project/service.go:39-195 over postgres_repository.go and the foreign keys
\* of migration 4).
THEOREM TreeImplemented == Spec => ImplementsTree
<1>1. IInv /\ [Next]_vars => [Tree!Next]_(Tree!treeVars)
  <2> SUFFICES ASSUME IInv, [Next]_vars PROVE Tree!Next \/ UNCHANGED Tree!treeVars
    OBVIOUS
  <2>1. CASE Quiet \/ UNCHANGED vars
    BY <2>1 DEF Quiet, vars, Tree!treeVars
  <2>2. ASSUME NEW s \in Sessions, Begin(s) PROVE UNCHANGED Tree!treeVars
    BY <2>2 DEF Begin, Tree!treeVars
  <2>3. ASSUME NEW s \in Sessions, Statement(s) \/ Fail(s)
        PROVE  Tree!Next \/ UNCHANGED Tree!treeVars
    BY <2>3, StatementMoves, TreeStepMaps
  <2>4. ASSUME NEW f \in FlagIds, DropFlag(f) \/ \E x \in Places : PutFlag(f, x)
        PROVE  Tree!Next \/ UNCHANGED Tree!treeVars
    BY <2>4, FlagStepMaps
  <2>5. QED
    BY <2>1, <2>2, <2>3, <2>4 DEF Next
<1>2. QED
  BY <1>1, InitTree, Invariance, PTL DEF Spec, ImplementsTree, Tree!Spec
=============================================================================
