----------------------------- MODULE ScopeTree -----------------------------
(***************************************************************************)
(* What the catalogue of projects and stages promises:  "Projects contain  *)
(* Stages; Flags are scoped to a Project+Stage pair"                       *)
(* (docs/superpowers/specs/2026-03-12-funwithflags-refinement-design.md).  *)
(* A stage grows in a project, a flag is put on a stage, and nothing is    *)
(* removed from under a flag; a project goes with all its stages.          *)
(***************************************************************************)
CONSTANTS Projects, StageKeys, FlagIds

VARIABLES
    projects,   \* the projects there are
    stages,     \* the <<project, stage>> pairs there are
    placed      \* <<flag, project, stage>>: the stage each flag is on

treeVars == <<projects, stages, placed>>

FlagsOf(f) == {t \in placed : t[1] = f}
Within(p) == {t \in placed : t[2] = p}
On(p, s) == {t \in placed : t[2] = p /\ t[3] = s}

Init ==
    /\ projects \subseteq Projects
    /\ stages \subseteq projects \X StageKeys
    /\ placed = {}

AddProject(p) ==
    /\ projects' = projects \cup {p}
    /\ UNCHANGED <<stages, placed>>

AddStage(p, s) ==
    /\ p \in projects
    /\ stages' = stages \cup {<<p, s>>}
    /\ UNCHANGED <<projects, placed>>

PlaceFlag(f, p, s) ==
    /\ <<p, s>> \in stages
    /\ FlagsOf(f) = {}
    /\ placed' = placed \cup {<<f, p, s>>}
    /\ UNCHANGED <<projects, stages>>

RemoveFlag(f) ==
    /\ placed' = placed \ FlagsOf(f)
    /\ UNCHANGED <<projects, stages>>

RemoveStage(p, s) ==
    /\ On(p, s) = {}
    /\ stages' = stages \ {<<p, s>>}
    /\ UNCHANGED <<projects, placed>>

RemoveProject(p) ==
    /\ Within(p) = {}
    /\ projects' = projects \ {p}
    /\ stages' = stages \ ({p} \X StageKeys)
    /\ UNCHANGED placed

Next ==
    \/ \E p \in Projects : AddProject(p) \/ RemoveProject(p)
    \/ \E p \in Projects, s \in StageKeys : AddStage(p, s) \/ RemoveStage(p, s)
    \/ \E f \in FlagIds : RemoveFlag(f) \/ \E p \in Projects, s \in StageKeys : PlaceFlag(f, p, s)

Spec == Init /\ [][Next]_treeVars
=============================================================================
