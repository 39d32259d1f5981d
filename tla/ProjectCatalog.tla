--------------------------- MODULE ProjectCatalog ---------------------------
(***************************************************************************)
(* Projects and stages: src/internal/project/service.go over either of its *)
(* repositories.  A request is a session of one or two repository calls,   *)
(* each a critical section of the in-memory store or an autocommitted SQL  *)
(* statement; between two calls other sessions run.  What keeps the pieces *)
(* together is different in the two stores: a second look under the lock   *)
(* in memory, the foreign keys of src/migrations/000004 in PostgreSQL.     *)
(*                                                                         *)
(* Starting replicas seed the default project and stage, in PostgreSQL     *)
(* while others serve; the in-memory store is seeded before it serves.     *)
(* Flags are here only as things that sit on a stage; keys are trimmed and *)
(* not empty, a title stands for name and description.                     *)
(***************************************************************************)
EXTENDS FiniteSets, Integers

CONSTANTS
    Stores,                         \* "memory", "postgres" or both
    Projects, StageKeys, FlagIds,
    DefaultProject, DefaultStage,
    Titles, SeedTitle, Blank,       \* the title of a seed, the empty title
    Sessions,
    MaxRequests                     \* bound on the requests of a behaviour

ASSUME StoresAssumption == Stores \subseteq {"memory", "postgres"}
ASSUME DefaultAssumption == DefaultProject \in Projects /\ DefaultStage \in StageKeys
ASSUME TitlesAssumption == SeedTitle \in Titles /\ Blank \notin Titles
ASSUME RequestsAssumption == MaxRequests \in Nat

VARIABLES
    store,      \* STORAGE_TYPE, chosen when the server starts
    projects,   \* title of each project there is
    stages,     \* title of each <<project, stage>> there is
    flags,      \* the <<project, stage>> of each flag there is
    req,        \* req[s]: the request that session s serves
    begun       \* requests begun so far

vars == <<store, projects, stages, flags, req, begun>>

Places == Projects \X StageKeys
Inside(p) == {x \in Places : x[1] = p}

Idle(answer) ==
    [op |-> "none", pc |-> "idle", project |-> DefaultProject, stage |-> DefaultStage,
     title |-> SeedTitle, answer |-> answer]

Errors == {"nil", "ErrInvalidProjectName", "ErrInvalidStageName", "ErrProjectNotFound",
           "ErrProjectExists", "ErrProjectHasFlags", "ErrStageNotFound", "ErrStageExists",
           "ErrStageHasFlags", "ErrInternal"}

Ops == {"CreateProject", "UpdateProject", "DeleteProject", "CreateStage", "UpdateStage",
        "DeleteStage", "Seed"}
Calls == {"getProject", "createProject", "updateProject", "projectHasFlags", "deleteProject",
          "getStage", "createStage", "updateStage", "stageHasFlags", "deleteStage"}
RequestType ==
    [op : Ops \cup {"none"}, pc : Calls \cup {"idle"}, project : Projects, stage : StageKeys,
     title : Titles \cup {Blank}, answer : Errors]

TypeOK ==
    /\ store \in Stores
    /\ DOMAIN projects \subseteq Projects /\ projects \in [DOMAIN projects -> Titles]
    /\ DOMAIN stages \subseteq Places /\ stages \in [DOMAIN stages -> Titles]
    /\ DOMAIN flags \subseteq FlagIds /\ flags \in [DOMAIN flags -> Places]
    /\ req \in [Sessions -> RequestType]
    /\ begun \in 0..MaxRequests

-----------------------------------------------------------------------------
(* Requests.                                                               *)

FirstCall ==
    [CreateProject |-> "createProject", UpdateProject |-> "updateProject",
     DeleteProject |-> "projectHasFlags", CreateStage |-> "getProject",
     UpdateStage |-> "updateStage", DeleteStage |-> "stageHasFlags", Seed |-> "getProject"]

Request(op, p, k, t) ==
    [Idle("nil") EXCEPT !.op = op, !.pc = FirstCall[op], !.project = p, !.stage = k, !.title = t]

ProjectRequests ==
    {Request(op, p, DefaultStage, t) :
        op \in {"CreateProject", "UpdateProject"}, p \in Projects, t \in Titles \cup {Blank}}
    \cup {Request("DeleteProject", p, DefaultStage, SeedTitle) : p \in Projects}
StageRequests ==
    {Request(op, p, k, t) : op \in {"CreateStage", "UpdateStage"},
        p \in Projects, k \in StageKeys, t \in Titles \cup {Blank}}
    \cup {Request("DeleteStage", p, k, SeedTitle) : p \in Projects, k \in StageKeys}
EnsureProjectAndStage == Request("Seed", DefaultProject, DefaultStage, SeedTitle)

Requests ==
    ProjectRequests \cup StageRequests \cup
    (IF store = "postgres" THEN {EnsureProjectAndStage} ELSE {})

Begin(s) ==
    /\ req[s].pc = "idle" /\ begun < MaxRequests
    /\ begun' = begun + 1
    /\ \E r \in Requests : req' = [req EXCEPT ![s] = r]
    /\ UNCHANGED <<store, projects, stages, flags>>

-----------------------------------------------------------------------------
(* Repository calls.                                                       *)

At(s, pc) == req[s].pc = pc
Goto(s, pc) == req' = [req EXCEPT ![s].pc = pc]
Answer(s, error) == req' = [req EXCEPT ![s] = Idle(error)]
Seeding(s) == req[s].op = "Seed"
Place(s) == <<req[s].project, req[s].stage>>
FlagsIn(places) == {f \in DOMAIN flags : flags[f] \in places}

With(f, key, value) == [x \in DOMAIN f \cup {key} |-> IF x = key THEN value ELSE f[x]]
Without(f, keys) == [x \in DOMAIN f \ keys |-> f[x]]

NoTreeChange == UNCHANGED <<projects, stages>>
OnlyRequest == NoTreeChange /\ UNCHANGED <<store, flags, begun>>
OnlyTree == UNCHANGED <<store, flags, begun>>

\* The first call of CreateStage, behind its checks, and of a seeding.
GetProject(s) ==
    /\ At(s, "getProject")
    /\ IF req[s].title = Blank THEN Answer(s, "ErrInvalidStageName")
       ELSE IF req[s].project \in DOMAIN projects
       THEN Goto(s, IF Seeding(s) THEN "getStage" ELSE "createStage")
       ELSE IF Seeding(s) THEN Goto(s, "createProject") ELSE Answer(s, "ErrProjectNotFound")
    /\ OnlyRequest

\* (mutant) A name that is there is overwritten: INSERT ... ON CONFLICT DO UPDATE.
PutProject(s) ==
    /\ At(s, "createProject")
    /\ IF req[s].title = Blank
       THEN Answer(s, "ErrInvalidProjectName") /\ NoTreeChange
       ELSE /\ projects' = With(projects, req[s].project, req[s].title)
            /\ IF Seeding(s) THEN Goto(s, "getStage") ELSE Answer(s, "nil")
            /\ UNCHANGED stages
    /\ OnlyTree

\* (mutant) A seeding takes a project that is there by now for an error.
CreateProjectOnce(s) ==
    /\ At(s, "createProject")
    /\ IF req[s].title = Blank
       THEN Answer(s, "ErrInvalidProjectName") /\ NoTreeChange
       ELSE IF req[s].project \in DOMAIN projects
       THEN Answer(s, "ErrProjectExists") /\ NoTreeChange
       ELSE /\ projects' = With(projects, req[s].project, req[s].title)
            /\ IF Seeding(s) THEN Goto(s, "getStage") ELSE Answer(s, "nil")
            /\ UNCHANGED stages
    /\ OnlyTree

\* A seeding that finds the project there by now goes on.
CreateProject(s) ==
    /\ At(s, "createProject")
    /\ IF req[s].title = Blank
       THEN Answer(s, "ErrInvalidProjectName") /\ NoTreeChange
       ELSE IF req[s].project \in DOMAIN projects
       THEN /\ IF Seeding(s) THEN Goto(s, "getStage") ELSE Answer(s, "ErrProjectExists")
            /\ NoTreeChange
       ELSE /\ projects' = With(projects, req[s].project, req[s].title)
            /\ IF Seeding(s) THEN Goto(s, "getStage") ELSE Answer(s, "nil")
            /\ UNCHANGED stages
    /\ OnlyTree

\* (mutant) The name is not checked.
UpdateProjectAnyName(s) ==
    /\ At(s, "updateProject")
    /\ IF req[s].project \notin DOMAIN projects
       THEN Answer(s, "ErrProjectNotFound") /\ NoTreeChange
       ELSE /\ projects' = With(projects, req[s].project, req[s].title)
            /\ Answer(s, "nil")
            /\ UNCHANGED stages
    /\ OnlyTree

UpdateProject(s) ==
    /\ At(s, "updateProject")
    /\ IF req[s].title = Blank
       THEN Answer(s, "ErrInvalidProjectName") /\ NoTreeChange
       ELSE IF req[s].project \notin DOMAIN projects
       THEN Answer(s, "ErrProjectNotFound") /\ NoTreeChange
       ELSE /\ projects' = With(projects, req[s].project, req[s].title)
            /\ Answer(s, "nil")
            /\ UNCHANGED stages
    /\ OnlyTree

\* The in-memory store does not know the flags and always says no.
ProjectHasFlags(s) ==
    /\ At(s, "projectHasFlags")
    /\ IF store = "postgres" /\ FlagsIn(Inside(req[s].project)) # {}
       THEN Answer(s, "ErrProjectHasFlags") ELSE Goto(s, "deleteProject")
    /\ OnlyRequest

\* (mutant) The foreign key of the flags is gone.
DeleteProjectAnyway(s) ==
    /\ At(s, "deleteProject")
    /\ projects' = Without(projects, {req[s].project})
    /\ stages' = Without(stages, Inside(req[s].project))
    /\ Answer(s, IF req[s].project \in DOMAIN projects THEN "nil" ELSE "ErrProjectNotFound")
    /\ OnlyTree

\* The stages go with the project: in memory with their map, in PostgreSQL by
\* ON DELETE CASCADE; there ON DELETE RESTRICT keeps both under a flag.
DeleteProject(s) ==
    /\ At(s, "deleteProject")
    /\ IF req[s].project \notin DOMAIN projects
       THEN Answer(s, "ErrProjectNotFound") /\ NoTreeChange
       ELSE IF store = "postgres" /\ FlagsIn(Inside(req[s].project)) # {}
       THEN Answer(s, "ErrInternal") /\ NoTreeChange
       ELSE /\ projects' = Without(projects, {req[s].project})
            /\ stages' = Without(stages, Inside(req[s].project))
            /\ Answer(s, "nil")
    /\ OnlyTree

\* Only PostgreSQL seeds while it serves: its GetStage does not look for the
\* project.
GetStage(s) ==
    /\ At(s, "getStage")
    /\ IF Place(s) \in DOMAIN stages THEN Answer(s, "nil") ELSE Goto(s, "createStage")
    /\ OnlyRequest

\* (mutant) The project is not looked for again: no second check, no foreign key.
CreateStageBlindly(s) ==
    /\ At(s, "createStage")
    /\ IF Place(s) \in DOMAIN stages
       THEN /\ Answer(s, IF Seeding(s) THEN "nil" ELSE "ErrStageExists")
            /\ NoTreeChange
       ELSE /\ stages' = With(stages, Place(s), req[s].title)
            /\ Answer(s, "nil")
            /\ UNCHANGED projects
    /\ OnlyTree

\* A missing project: looked for under the lock, or the foreign key of stages.
CreateStage(s) ==
    /\ At(s, "createStage")
    /\ IF req[s].project \notin DOMAIN projects
       THEN Answer(s, "ErrProjectNotFound") /\ NoTreeChange
       ELSE IF Place(s) \in DOMAIN stages
       THEN /\ Answer(s, IF Seeding(s) THEN "nil" ELSE "ErrStageExists")
            /\ NoTreeChange
       ELSE /\ stages' = With(stages, Place(s), req[s].title)
            /\ Answer(s, "nil")
            /\ UNCHANGED projects
    /\ OnlyTree

UpdateStage(s) ==
    /\ At(s, "updateStage")
    /\ IF req[s].title = Blank THEN Answer(s, "ErrInvalidStageName") /\ NoTreeChange
       ELSE IF Place(s) \notin DOMAIN stages
       THEN Answer(s, "ErrStageNotFound") /\ NoTreeChange
       ELSE /\ stages' = With(stages, Place(s), req[s].title)
            /\ Answer(s, "nil")
            /\ UNCHANGED projects
    /\ OnlyTree

StageHasFlags(s) ==
    /\ At(s, "stageHasFlags")
    /\ IF store = "postgres" /\ FlagsIn({Place(s)}) # {}
       THEN Answer(s, "ErrStageHasFlags") ELSE Goto(s, "deleteStage")
    /\ OnlyRequest

DeleteStage(s) ==
    /\ At(s, "deleteStage")
    /\ IF Place(s) \notin DOMAIN stages
       THEN Answer(s, "ErrStageNotFound") /\ NoTreeChange
       ELSE IF store = "postgres" /\ FlagsIn({Place(s)}) # {}
       THEN Answer(s, "ErrInternal") /\ NoTreeChange
       ELSE /\ stages' = Without(stages, {Place(s)})
            /\ Answer(s, "nil")
            /\ UNCHANGED projects
    /\ OnlyTree

\* A statement fails and has no effect.
Fail(s) ==
    /\ store = "postgres"
    /\ ~At(s, "idle")
    /\ Answer(s, "ErrInternal")
    /\ OnlyRequest

Statement(s) ==
    \/ GetProject(s) \/ CreateProject(s) \/ UpdateProject(s)
    \/ ProjectHasFlags(s) \/ DeleteProject(s)
    \/ GetStage(s) \/ CreateStage(s) \/ UpdateStage(s)
    \/ StageHasFlags(s) \/ DeleteStage(s)

-----------------------------------------------------------------------------
(* The flag store next door, as far as the catalogue notices it.           *)

\* INSERT into feature_flags, whose foreign keys ask for project and stage;
\* the in-memory store asks for neither, and lets an update move a flag.
PutFlag(f, x) ==
    /\ store = "postgres" =>
        f \notin DOMAIN flags /\ x \in DOMAIN stages /\ x[1] \in DOMAIN projects
    /\ flags' = With(flags, f, x)
    /\ UNCHANGED <<store, projects, stages, req, begun>>

DropFlag(f) ==
    /\ f \in DOMAIN flags
    /\ flags' = Without(flags, {f})
    /\ UNCHANGED <<store, projects, stages, req, begun>>

\* The migration, or the start of the in-memory server, has left the default
\* project and stage.
Init ==
    /\ store \in Stores
    /\ projects = [p \in {DefaultProject} |-> SeedTitle]
    /\ stages = [x \in {<<DefaultProject, DefaultStage>>} |-> SeedTitle]
    /\ flags = [f \in {} |-> <<DefaultProject, DefaultStage>>]
    /\ req = [s \in Sessions |-> Idle("nil")]
    /\ begun = 0

\* No request arrives any more; a session stuck in one would be a deadlock.
Quiet == begun = MaxRequests /\ (\A s \in Sessions : At(s, "idle")) /\ UNCHANGED vars

Next ==
    \/ Quiet
    \/ \E s \in Sessions : Begin(s) \/ Statement(s) \/ Fail(s)
    \/ \E f \in FlagIds : DropFlag(f) \/ \E x \in Places : PutFlag(f, x)

Spec == Init /\ [][Next]_vars

-----------------------------------------------------------------------------
(* Properties.                                                             *)

\* "Projects contain Stages": no stage outlives its project, also when the
\* project is deleted between the two calls of a CreateStage
\* (project/service.go:120) or of a seeding.
StagesHaveProject ==
    \A x \in DOMAIN stages : x[1] \in DOMAIN projects

\* "Flags are scoped to a Project+Stage pair": nothing is removed from under
\* a flag.
FlagsHaveStage ==
    \A f \in DOMAIN flags : flags[f] \in DOMAIN stages

\* A seeding never fails because another replica seeds at the same time, only
\* because an admin has deleted the project under it; when it ends well, the
\* project and the stage are there (project/service.go:165).
SeedDelivers ==
    [][\A s \in Sessions : Seeding(s) /\ req'[s].pc = "idle" =>
        \/ req'[s].answer = "nil" /\ Place(s) \in DOMAIN stages'
        \/ req'[s].answer = "ErrProjectNotFound" /\ req[s].project \notin DOMAIN projects
        \/ req'[s].answer = "ErrInternal"]_vars

\* A seeding "creates the project and stage if they do not already exist":
\* what an admin has renamed, in whatever moment, keeps its name.
SeedKeepsNames ==
    [][\A s \in Sessions : Seeding(s) /\ req'[s] # req[s] =>
        /\ \A p \in DOMAIN projects : p \in DOMAIN projects' /\ projects'[p] = projects[p]
        /\ \A x \in DOMAIN stages : x \in DOMAIN stages' /\ stages'[x] = stages[x]]_vars

Tree == INSTANCE ScopeTree WITH
    projects <- DOMAIN projects, stages <- DOMAIN stages,
    placed <- IF store = "postgres" THEN {<<f, flags[f][1], flags[f][2]>> : f \in DOMAIN flags}
              ELSE {}

\* The catalogue over PostgreSQL implements the tree of ScopeTree with the
\* flags on it: the look at the flags and the deletion are two statements,
\* and the foreign keys hold what the look has missed.  In memory it does
\* without the flags.
ImplementsTree == Tree!Spec
=============================================================================
