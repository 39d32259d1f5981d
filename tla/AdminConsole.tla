---------------------------- MODULE AdminConsole ----------------------------
(***************************************************************************)
(* The data of the admin console: src/frontend/src/App.tsx.  Projects,     *)
(* stages and flags are loaded by effects that run again when what they    *)
(* depend on has changed, the selection or the tokens; a load is served    *)
(* and answered some time later, and loads overtake each other.  What an   *)
(* answer does it does whatever is selected by then.                       *)
(*                                                                         *)
(* Two loads of the same thing of which neither is served yet are one.     *)
(* Keys are ordered as the server lists them.  Of flags only their project *)
(* and stage are kept; the users of the third section are left out.        *)
(***************************************************************************)
EXTENDS Integers, FiniteSetsExt

CONSTANTS
    Projects, Stages,   \* sets of numbers, the keys
    None,               \* no selection, and an empty list of flags
    Catalogs,           \* what there may be at first: stages of each project
    MaxEvents,          \* bound on what the user does
    MaxWaiting          \* bound on the calls under way when the user does something

ASSUME KeysAssumption == Projects \subseteq Nat /\ Stages \subseteq Nat
ASSUME NoneAssumption == None \notin Projects \cup Stages \cup (Projects \X Stages)
ASSUME CatalogsAssumption ==
    \A c \in Catalogs : DOMAIN c \subseteq Projects /\ c \in [DOMAIN c -> SUBSET Stages]
ASSUME BoundsAssumption == MaxEvents \in Nat /\ MaxWaiting \in Nat

VARIABLES
    catalog,            \* the server's: the stages of each project there is
    isAuthenticated,
    projects, stages,   \* the keys that are listed
    flags,              \* whose flags are listed
    selectedProjectKey, selectedStageKey,
    calls,              \* under way
    due,                \* the effects that are to run
    events              \* of the user so far

lists == <<projects, stages, flags>>
selection == <<selectedProjectKey, selectedStageKey>>
vars == <<catalog, isAuthenticated, lists, selection, calls, due, events>>

Loads == {"projects", "stages", "flags"}
ProjectEdits == {"create project", "update project", "delete project"}
StageEdits == {"create stage", "update stage", "delete stage"}
Edits == ProjectEdits \cup StageEdits \cup {"edit flag"}
\* stage and project are those of the closure; data is what a load has read.
Call == [op : Loads \cup Edits, project : Projects \cup {None}, stage : Stages \cup {None},
         served : BOOLEAN, data : SUBSET (Projects \cup Stages)]
NewCall(op, p, s) == [op |-> op, project |-> p, stage |-> s, served |-> FALSE, data |-> {}]

TypeOK ==
    /\ DOMAIN catalog \subseteq Projects /\ catalog \in [DOMAIN catalog -> SUBSET Stages]
    /\ isAuthenticated \in BOOLEAN
    /\ projects \subseteq Projects /\ stages \subseteq Stages
    /\ flags \in (Projects \X Stages) \cup {None}
    /\ selectedProjectKey \in Projects \cup {None} /\ selectedStageKey \in Stages \cup {None}
    /\ calls \subseteq Call
    /\ \A c \in calls : c.op = "flags" => c.project # None /\ c.stage # None
    /\ due \subseteq Loads
    /\ events \in 0..MaxEvents

-----------------------------------------------------------------------------
(* Effects.                                                                *)

\* The effects that depend on what a step has changed.
Rerun ==
    due \cup (IF selectedProjectKey' # selectedProjectKey THEN {"stages", "flags"} ELSE {})
        \cup (IF selectedStageKey' # selectedStageKey THEN {"flags"} ELSE {})

\* (mutant) Flags are loaded as soon as there is a project.
WantedEarly ==
    {NewCall("projects", None, None)}
    \cup {NewCall(op, p, IF op = "flags" THEN selectedStageKey ELSE None) :
            op \in {"stages", "flags"}, p \in {selectedProjectKey} \ {None}}

\* What the effects load: stages of the selected project, flags of both.
Wanted ==
    {NewCall("projects", None, None)}
    \cup {NewCall("stages", p, None) : p \in {selectedProjectKey} \ {None}}
    \cup {NewCall("flags", p, s) :
            p \in {selectedProjectKey} \ {None}, s \in {selectedStageKey} \ {None}}

RunEffects ==
    /\ due # {}
    /\ due' = {}
    /\ IF isAuthenticated
       THEN /\ calls' = calls \cup {c \in Wanted : c.op \in due}
            /\ UNCHANGED <<lists, selection>>
       ELSE /\ IF "projects" \in due
               THEN /\ projects' = {} /\ stages' = {} /\ flags' = None
                    /\ selectedProjectKey' = None /\ selectedStageKey' = None
               ELSE UNCHANGED <<lists, selection>>
            /\ UNCHANGED calls
    /\ UNCHANGED <<catalog, isAuthenticated, events>>

-----------------------------------------------------------------------------
(* The user.                                                               *)

Event ==
    /\ events < MaxEvents /\ Cardinality(calls) <= MaxWaiting
    /\ events' = events + 1
    /\ UNCHANGED <<catalog, lists>>

\* Signed in, out, or with new tokens: authorizedFetch is another one.
Session ==
    /\ Event
    /\ isAuthenticated' \in {TRUE, FALSE}
    /\ isAuthenticated \/ isAuthenticated'
    /\ due' = Loads
    /\ UNCHANGED <<selection, calls>>

Select ==
    /\ Event /\ isAuthenticated
    /\ \/ selectedProjectKey' \in projects /\ UNCHANGED selectedStageKey
       \/ selectedStageKey' \in stages /\ UNCHANGED selectedProjectKey
    /\ due' = Rerun
    /\ UNCHANGED <<isAuthenticated, calls>>

\* What is listed is not created again: the server would refuse.  The panel asks
\* for a listed project before it creates or updates a stage, and deletes one of
\* whatever project is selected (StagesPanel.tsx:80, 112).
Edit ==
    /\ Event /\ isAuthenticated
    /\ \/ \E p \in Projects \ projects :
            calls' = calls \cup {NewCall("create project", p, None)}
       \/ \E p \in projects, op \in {"update project", "delete project"} :
            calls' = calls \cup {NewCall(op, p, None)}
       \/ /\ selectedProjectKey \in projects
          /\ \/ \E s \in Stages \ stages :
                    calls' = calls \cup {NewCall("create stage", selectedProjectKey, s)}
             \/ \E s \in stages :
                    calls' = calls \cup {NewCall("update stage", selectedProjectKey, s)}
             \/ /\ selectedStageKey \in stages
                /\ calls' = calls
                        \cup {NewCall("edit flag", selectedProjectKey, selectedStageKey)}
       \/ /\ selectedProjectKey # None
          /\ \E s \in stages :
                calls' = calls \cup {NewCall("delete stage", selectedProjectKey, s)}
    /\ UNCHANGED <<isAuthenticated, selection, due>>

-----------------------------------------------------------------------------
(* Answers.                                                                *)

StagesOf(p) == IF p \in DOMAIN catalog THEN catalog[p] ELSE {}

\* What the server does not refuse.
Possible(c) ==
    CASE c.op = "create project" -> c.project \notin DOMAIN catalog
      [] c.op \in {"update project", "delete project"} -> c.project \in DOMAIN catalog
      [] c.op = "create stage" -> c.project \in DOMAIN catalog /\ c.stage \notin StagesOf(c.project)
      [] c.op \in {"update stage", "delete stage"} -> c.stage \in StagesOf(c.project)
      [] OTHER -> TRUE

\* The server reads or changes the catalogue.
Serve(c) ==
    /\ ~c.served /\ Possible(c)
    /\ catalog' =
        CASE c.op = "create project" ->
                [p \in DOMAIN catalog \cup {c.project} |-> StagesOf(p)]
          [] c.op = "delete project" -> [p \in DOMAIN catalog \ {c.project} |-> catalog[p]]
          [] c.op = "create stage" ->
                [p \in DOMAIN catalog |->
                    catalog[p] \cup IF p = c.project THEN {c.stage} ELSE {}]
          [] c.op = "delete stage" ->
                [p \in DOMAIN catalog |->
                    catalog[p] \ IF p = c.project THEN {c.stage} ELSE {}]
          [] OTHER -> catalog
    /\ calls' = (calls \ {c}) \cup
        {[c EXCEPT !.served = TRUE,
                   !.data = CASE c.op = "projects" -> DOMAIN catalog
                              [] c.op = "stages" -> StagesOf(c.project)
                              [] OTHER -> {}]}
    /\ UNCHANGED <<isAuthenticated, lists, selection, due, events>>

\* (mutant) What is selected stays, as it does for projects.
StageStays(data) == IF selectedStageKey # None THEN selectedStageKey ELSE Min(data)

StageFrom(data) == IF selectedStageKey \in data THEN selectedStageKey ELSE Min(data)

ProjectsLoaded(c) ==
    /\ projects' = c.data
    /\ IF c.data # {}
       THEN /\ selectedProjectKey' =
                    IF selectedProjectKey = None THEN Min(c.data) ELSE selectedProjectKey
            /\ UNCHANGED <<stages, flags>>
       ELSE selectedProjectKey' = None /\ stages' = {} /\ flags' = None
    /\ UNCHANGED selectedStageKey
    /\ due' = Rerun

\* (mutant) The effect depends on the list that it loads.
StagesLoadedAgain(c) ==
    /\ stages' = c.data
    /\ IF c.data # {}
       THEN selectedStageKey' = StageFrom(c.data) /\ UNCHANGED flags
       ELSE selectedStageKey' = None /\ flags' = None
    /\ UNCHANGED <<projects, selectedProjectKey>>
    /\ due' = Rerun \cup {"stages"}

StagesLoaded(c) ==
    /\ stages' = c.data
    /\ IF c.data # {}
       THEN selectedStageKey' = StageFrom(c.data) /\ UNCHANGED flags
       ELSE selectedStageKey' = None /\ flags' = None
    /\ UNCHANGED <<projects, selectedProjectKey>>
    /\ due' = Rerun

FlagsLoaded(c) ==
    /\ flags' = <<c.project, c.stage>>
    /\ UNCHANGED <<projects, stages, selection, due>>

\* After a change the list is loaded of the project and stage that were selected
\* before it.
Reload(c) ==
    CASE c.op \in ProjectEdits -> NewCall("projects", None, None)
      [] c.op \in StageEdits -> NewCall("stages", c.project, None)
      [] c.op = "edit flag" -> NewCall("flags", c.project, c.stage)

Answer(c) ==
    /\ c.served
    /\ \/ c.op = "projects" /\ ProjectsLoaded(c) /\ calls' = calls \ {c}
       \/ c.op = "stages" /\ StagesLoaded(c) /\ calls' = calls \ {c}
       \/ c.op = "flags" /\ FlagsLoaded(c) /\ calls' = calls \ {c}
       \/ /\ c.op \in Edits
          /\ calls' = (calls \ {c}) \cup {Reload(c)}
          /\ UNCHANGED <<lists, selection, due>>
    /\ UNCHANGED <<catalog, isAuthenticated, events>>

\* A call fails, whether it was served or not.
Fails(c) ==
    /\ calls' = calls \ {c}
    /\ \/ c.op = "projects" /\ projects' = {} /\ UNCHANGED <<stages, flags, selection>>
       \/ /\ c.op = "stages"
          /\ stages' = {} /\ selectedStageKey' = None /\ flags' = None
          /\ UNCHANGED <<projects, selectedProjectKey>>
       \/ c.op = "flags" /\ flags' = None /\ UNCHANGED <<projects, stages, selection>>
       \/ c.op \in Edits /\ UNCHANGED <<lists, selection>>
    /\ due' = Rerun
    /\ UNCHANGED <<catalog, isAuthenticated, events>>

-----------------------------------------------------------------------------

\* The page is loaded, with a session that was stored or with none, and every
\* effect runs a first time.
Init ==
    /\ catalog \in Catalogs
    /\ isAuthenticated \in BOOLEAN
    /\ projects = {} /\ stages = {} /\ flags = None
    /\ selectedProjectKey = None /\ selectedStageKey = None
    /\ calls = {} /\ due = Loads /\ events = 0

Progress == RunEffects \/ \E c \in calls : Serve(c) \/ Answer(c) \/ Fails(c)

Next == Session \/ Select \/ Edit \/ Progress

\* React runs effects, and a call is answered or fails in the end.
Spec == Init /\ [][Next]_vars /\ WF_vars(Progress)

-----------------------------------------------------------------------------
(* Properties.                                                             *)

Quiet == calls = {} /\ due = {}

\* The loads come to rest when the user does: no answer, in whatever order they
\* come, starts the effects again and again (App.tsx:114-140).
Settles == <>[]Quiet

\* The stage selected is one of those listed, in whatever order the lists of two
\* projects come, or there is no list (App.tsx:72-95).
StageIsListed == selectedStageKey \in stages \cup {None} \/ stages = {}

\* "Manage feature flags for <project> / <stage>" (FlagsPanel.tsx:389): when
\* nothing is under way the flags listed under this are of that stage.
FlagsOfSelection ==
    Quiet /\ isAuthenticated /\ selectedProjectKey \in projects /\ selectedStageKey \in stages
    => flags \in {None, <<selectedProjectKey, selectedStageKey>>}
=============================================================================
