------------------------- MODULE AdminConsoleProofs -------------------------
(***************************************************************************)
(* The types of AdminConsole and that the stage selected is a listed one,  *)
(* for any keys and catalogues, and in whatever order calls are served,    *)
(* answered and fail.  The strengthening says what a call of each kind is  *)
(* about, which is what its answer makes of the lists.                     *)
(***************************************************************************)
EXTENDS AdminConsole, WellFoundedInduction, TLAPS

\* What the call of an operation names and, once it is served, has read.
Fits(c) ==
    /\ c \in Call
    /\ c.op = "projects" => c.data \subseteq Projects
    /\ c.op = "stages" => c.data \subseteq Stages
    /\ c.op \in {"flags", "edit flag"} => c.project # None /\ c.stage # None
    /\ c.op = "create project" => c.project # None
    /\ c.op = "create stage" => c.stage # None

CatalogOK == DOMAIN catalog \subseteq Projects /\ catalog \in [DOMAIN catalog -> SUBSET Stages]

\* What is listed and selected is of the right kind.
ListsOK ==
    /\ projects \subseteq Projects /\ stages \subseteq Stages
    /\ flags \in (Projects \X Stages) \cup {None}
    /\ selectedProjectKey \in Projects \cup {None} /\ selectedStageKey \in Stages \cup {None}
    /\ due \subseteq Loads

IInv ==
    /\ CatalogOK /\ ListsOK /\ StageIsListed
    /\ isAuthenticated \in BOOLEAN /\ events \in 0..MaxEvents
    /\ \A c \in calls : Fits(c)

-----------------------------------------------------------------------------
(* Lemmas about the operators.                                             *)

\* The first of the keys is one of them.
LEMMA MinIsListed ==
    ASSUME NEW S, S \subseteq Nat, S # {}
    PROVE  Min(S) \in S
<1>1. PICK i \in S : \A j \in S : <<j, i>> \notin OpToRel(<, Nat)
  BY WFMin, NatLessThanWellFounded, Zenon
<1>2. \A j \in S : ~(j < i)
  BY <1>1, Zenon DEF OpToRel
<1>3. \A j \in S : i =< j
  BY <1>2
<1>4. QED
  BY <1>3, Zenon DEF Min

\* A new call fits when what it names does.
LEMMA NewCallFits ==
    ASSUME NEW op \in Loads \cup Edits, NEW p \in Projects \cup {None}, NEW s \in Stages \cup {None},
           op \in {"flags", "edit flag"} => p # None /\ s # None,
           op = "create project" => p # None, op = "create stage" => s # None
    PROVE  Fits(NewCall(op, p, s))
<1> DEFINE c == NewCall(op, p, s)
<1>1. c = [op |-> op, project |-> p, stage |-> s, served |-> FALSE, data |-> {}]
  BY DEF NewCall
<1> HIDE DEF c
<1>2. c.op = op /\ c.project = p /\ c.stage = s /\ c.data = {}
  BY <1>1
<1>3. c \in Call
  BY <1>1 DEF Call
<1>4. Fits(c)
  BY <1>2, <1>3 DEF Fits
<1>5. QED
  BY <1>4 DEF c

\* So the loads of the effects fit, and the reload after a change.
LEMMA WantedFits ==
    ASSUME ListsOK, NEW c \in Wanted
    PROVE  Fits(c)
<1>1. "projects" \in Loads /\ "stages" \in Loads /\ "flags" \in Loads
  BY DEF Loads
<1>2. CASE c = NewCall("projects", None, None)
  BY <1>1, <1>2, NewCallFits
<1>3. CASE \E p \in {selectedProjectKey} \ {None} : c = NewCall("stages", p, None)
  BY <1>1, <1>3, NewCallFits DEF ListsOK
<1>4. CASE \E p \in {selectedProjectKey} \ {None}, s \in {selectedStageKey} \ {None} :
              c = NewCall("flags", p, s)
  BY <1>1, <1>4, NewCallFits DEF ListsOK
<1>5. QED
  BY <1>2, <1>3, <1>4 DEF Wanted

LEMMA ReloadFits ==
    ASSUME NEW c, Fits(c), c.op \in Edits
    PROVE  Fits(Reload(c))
<1>1. /\ "projects" \in Loads /\ "stages" \in Loads /\ "flags" \in Loads
      /\ c.project \in Projects \cup {None} /\ c.stage \in Stages \cup {None}
  BY DEF Loads, Fits, Call
<1>2. CASE c.op \in ProjectEdits
  <2>1. Reload(c) = NewCall("projects", None, None)
    BY <1>2 DEF Reload, ProjectEdits, StageEdits
  <2>2. QED
    BY <1>1, <2>1, NewCallFits
<1>3. CASE c.op \in StageEdits
  <2>1. Reload(c) = NewCall("stages", c.project, None)
    BY <1>3 DEF Reload, ProjectEdits, StageEdits
  <2>2. QED
    BY <1>1, <2>1, NewCallFits
<1>4. CASE c.op = "edit flag"
  <2>1. Reload(c) = NewCall("flags", c.project, c.stage)
    BY <1>4 DEF Reload, ProjectEdits, StageEdits
  <2>2. c.project # None /\ c.stage # None
    BY <1>4 DEF Fits
  <2>3. QED
    BY <1>1, <2>1, <2>2, NewCallFits
<1>5. QED
  BY <1>2, <1>3, <1>4 DEF Edits

\* The effects that run again are loads.
LEMMA RerunType == ListsOK => Rerun \subseteq Loads
BY DEF ListsOK, Rerun, Loads

LEMMA StagesOfType ==
    ASSUME CatalogOK, NEW p
    PROVE  StagesOf(p) \subseteq Stages
BY DEF CatalogOK, StagesOf

-----------------------------------------------------------------------------
(* Steps.                                                                  *)

LEMMA InitIInv == Init => IInv
<1> SUFFICES ASSUME Init PROVE IInv
  OBVIOUS
<1>1. CatalogOK
  <2>1. PICK d \in Catalogs : catalog = d
    BY DEF Init
  <2>2. QED
    BY <2>1, CatalogsAssumption DEF CatalogOK
<1>2. ListsOK /\ StageIsListed
  BY DEF Init, ListsOK, StageIsListed
<1>3. QED
  BY <1>1, <1>2, BoundsAssumption DEF Init, IInv

\* The user: what is selected is one of the list, and calls are of listed keys.
LEMMA UserKeepsIInv ==
    ASSUME IInv, Session \/ Select \/ Edit
    PROVE  IInv'
<1> USE DEF IInv
<1>1. /\ CatalogOK' /\ events' \in 0..MaxEvents
      /\ projects' = projects /\ stages' = stages /\ flags' = flags
  <2>1. Event
    BY DEF Session, Select, Edit
  <2>2. catalog' = catalog /\ lists' = lists /\ events < MaxEvents /\ events' = events + 1
    BY <2>1 DEF Event
  <2>3. QED
    BY <2>2, BoundsAssumption DEF lists, CatalogOK
<1>2. CASE Session
  BY <1>1, <1>2 DEF Session, ListsOK, StageIsListed, selection
<1>3. CASE Select
  <2>1. Rerun \subseteq Loads
    BY RerunType
  <2>2. \/ selectedProjectKey' \in projects /\ selectedStageKey' = selectedStageKey
        \/ selectedStageKey' \in stages /\ selectedProjectKey' = selectedProjectKey
    BY <1>3 DEF Select
  <2>3. ListsOK'
    BY <1>1, <1>3, <2>1, <2>2 DEF Select, ListsOK
  <2>4. StageIsListed'
    BY <1>1, <2>2 DEF StageIsListed
  <2>5. QED
    BY <1>1, <1>3, <2>3, <2>4 DEF Select
<1>4. CASE Edit
  <2>1. \E op \in Edits, p \in Projects, s \in Stages \cup {None} :
            /\ calls' = calls \cup {NewCall(op, p, s)}
            /\ op \in {"create stage", "delete stage", "edit flag"} => s # None
    <3>1. projects \subseteq Projects /\ stages \subseteq Stages /\ None \notin Stages
      BY NoneAssumption DEF ListsOK
    <3>a. ASSUME NEW op \in ProjectEdits, NEW p \in Projects,
                 calls' = calls \cup {NewCall(op, p, None)}
          PROVE  \E o \in Edits, q \in Projects, z \in Stages \cup {None} :
                    /\ calls' = calls \cup {NewCall(o, q, z)}
                    /\ o \in {"create stage", "delete stage", "edit flag"} => z # None
      <4>1. op \in Edits /\ op \notin {"create stage", "delete stage", "edit flag"}
        BY DEF Edits, ProjectEdits
      <4>2. None \in Stages \cup {None}
        OBVIOUS
      <4>3. QED
        BY <3>a, <4>1, <4>2, Zenon
    <3>2. CASE \E p \in Projects \ projects : calls' = calls \cup {NewCall("create project", p, None)}
      BY <3>a, <3>2 DEF ProjectEdits
    <3>3. CASE \E p \in projects, op \in {"update project", "delete project"} :
                  calls' = calls \cup {NewCall(op, p, None)}
      BY <3>1, <3>a, <3>3 DEF ProjectEdits
    <3>4. ASSUME NEW op \in {"create stage", "update stage", "delete stage", "edit flag"},
                 NEW s \in Stages, selectedProjectKey # None,
                 calls' = calls \cup {NewCall(op, selectedProjectKey, s)}
          PROVE  \E o \in Edits, p \in Projects, z \in Stages \cup {None} :
                    /\ calls' = calls \cup {NewCall(o, p, z)}
                    /\ o \in {"create stage", "delete stage", "edit flag"} => z # None
      <4>1. op \in Edits /\ selectedProjectKey \in Projects /\ s # None
        BY <3>1, <3>4 DEF Edits, StageEdits, ListsOK
      <4>2. s \in Stages \cup {None}
        OBVIOUS
      <4>3. QED
        BY <3>4, <4>1, <4>2, Zenon
    <3>5. selectedProjectKey \in projects => selectedProjectKey # None
      BY <3>1, NoneAssumption
    <3>6. CASE /\ selectedProjectKey \in projects
               /\ \/ \E s \in Stages \ stages :
                        calls' = calls \cup {NewCall("create stage", selectedProjectKey, s)}
                  \/ \E s \in stages :
                        calls' = calls \cup {NewCall("update stage", selectedProjectKey, s)}
                  \/ /\ selectedStageKey \in stages
                     /\ calls' = calls
                            \cup {NewCall("edit flag", selectedProjectKey, selectedStageKey)}
      BY <3>1, <3>4, <3>5, <3>6
    <3>7. CASE /\ selectedProjectKey # None
               /\ \E s \in stages :
                    calls' = calls \cup {NewCall("delete stage", selectedProjectKey, s)}
      BY <3>1, <3>4, <3>7
    <3>8. QED
      BY <1>4, <3>2, <3>3, <3>6, <3>7, Zenon DEF Edit
  <2>2. PICK op \in Edits, p \in Projects, s \in Stages \cup {None} :
            /\ calls' = calls \cup {NewCall(op, p, s)}
            /\ op \in {"create stage", "delete stage", "edit flag"} => s # None
    BY <2>1
  <2>3. p # None /\ op \notin Loads
    BY NoneAssumption DEF Loads, Edits, ProjectEdits, StageEdits
  <2>4. Fits(NewCall(op, p, s))
    BY <2>2, <2>3, NewCallFits DEF Loads
  <2>5. ListsOK' /\ StageIsListed'
    BY <1>1, <1>4 DEF Edit, selection, ListsOK, StageIsListed
  <2>6. QED
    BY <1>1, <1>4, <2>2, <2>4, <2>5 DEF Edit
<1>5. QED
  BY <1>2, <1>3, <1>4

\* Effects: the calls are those wanted, or all lists are emptied with the
\* selection.
LEMMA EffectsKeepIInv == IInv /\ RunEffects => IInv'
<1> SUFFICES ASSUME IInv, RunEffects PROVE IInv'
  OBVIOUS
<1>1. CatalogOK' /\ isAuthenticated' \in BOOLEAN /\ events' \in 0..MaxEvents /\ due' = {}
  BY DEF RunEffects, IInv, CatalogOK
<1>2. CASE isAuthenticated
  <2>1. UNCHANGED <<lists, selection>> /\ calls' = calls \cup {c \in Wanted : c.op \in due}
    BY <1>2 DEF RunEffects
  <2>2. ListsOK' /\ StageIsListed'
    BY <1>1, <2>1 DEF IInv, ListsOK, StageIsListed, lists, selection
  <2>3. \A c \in calls' : Fits(c)
    BY <2>1, WantedFits DEF IInv
  <2>4. QED
    BY <1>1, <2>2, <2>3 DEF IInv
<1>3. CASE ~isAuthenticated /\ "projects" \in due
  <2>1. /\ projects' = {} /\ stages' = {} /\ flags' = None
        /\ selectedProjectKey' = None /\ selectedStageKey' = None /\ calls' = calls
    BY <1>3 DEF RunEffects
  <2>2. QED
    BY <1>1, <2>1 DEF IInv, ListsOK, StageIsListed
<1>4. CASE ~isAuthenticated /\ "projects" \notin due
  <2>1. UNCHANGED <<lists, selection, calls>>
    BY <1>4 DEF RunEffects
  <2>2. QED
    BY <1>1, <2>1 DEF IInv, ListsOK, StageIsListed, lists, selection
<1>5. QED
  BY <1>2, <1>3, <1>4 DEF IInv

\* The server: a load has read keys, and the catalogue has keys only.
LEMMA ServeKeepsIInv ==
    ASSUME IInv, NEW c \in calls, Serve(c)
    PROVE  IInv'
<1>1. Fits(c) /\ c \in Call /\ CatalogOK
  BY DEF IInv, Fits
<1>2. /\ ListsOK' /\ StageIsListed'
      /\ isAuthenticated' \in BOOLEAN /\ events' \in 0..MaxEvents
  <2>1. UNCHANGED <<isAuthenticated, lists, selection, due, events>>
    BY DEF Serve
  <2>2. QED
    BY <2>1 DEF IInv, ListsOK, StageIsListed, lists, selection
<1>3. CatalogOK'
  <2>1. CASE c.op = "create project"
    <3>1. c.project \in Projects
      BY <1>1, <2>1 DEF Fits, Call
    <3>2. catalog' = [p \in DOMAIN catalog \cup {c.project} |-> StagesOf(p)]
      BY <2>1 DEF Serve
    <3>3. QED
      BY <1>1, <3>1, <3>2, StagesOfType DEF CatalogOK
  <2>2. CASE c.op = "delete project"
    <3>1. catalog' = [p \in DOMAIN catalog \ {c.project} |-> catalog[p]]
      BY <2>2 DEF Serve
    <3>2. QED
      BY <1>1, <3>1 DEF CatalogOK
  <2>3. CASE c.op = "create stage"
    <3>1. c.stage \in Stages
      BY <1>1, <2>3 DEF Fits, Call
    <3>2. catalog' = [p \in DOMAIN catalog |->
                        catalog[p] \cup IF p = c.project THEN {c.stage} ELSE {}]
      BY <2>3 DEF Serve
    <3>3. QED
      BY <1>1, <3>1, <3>2 DEF CatalogOK
  <2>4. CASE c.op = "delete stage"
    <3>1. catalog' = [p \in DOMAIN catalog |->
                        catalog[p] \ IF p = c.project THEN {c.stage} ELSE {}]
      BY <2>4 DEF Serve
    <3>2. QED
      BY <1>1, <3>1 DEF CatalogOK
  <2>5. CASE c.op \notin {"create project", "delete project", "create stage", "delete stage"}
    <3>1. catalog' = catalog
      BY <2>5 DEF Serve
    <3>2. QED
      BY <1>1, <3>1 DEF CatalogOK
  <2>6. QED
    BY <2>1, <2>2, <2>3, <2>4, <2>5
<1>4. \A d \in calls' : Fits(d)
  <2> DEFINE read == CASE c.op = "projects" -> DOMAIN catalog
                       [] c.op = "stages" -> StagesOf(c.project)
                       [] OTHER -> {}
             e == [c EXCEPT !.served = TRUE, !.data = read]
  <2>1. calls' = (calls \ {c}) \cup {e}
    BY DEF Serve
  <2>2. /\ c.op = "projects" => read \subseteq Projects
        /\ c.op = "stages" => read \subseteq Stages
        /\ read \subseteq Projects \cup Stages
    BY <1>1, StagesOfType DEF CatalogOK
  <2> HIDE DEF read
  <2>3. /\ e \in Call
        /\ e.op = c.op /\ e.project = c.project /\ e.stage = c.stage /\ e.data = read
    BY <1>1, <2>2 DEF Call
  <2> HIDE DEF e
  <2>4. Fits(e)
    BY <1>1, <2>2, <2>3 DEF Fits
  <2>5. QED
    BY <2>1, <2>4 DEF IInv
<1>5. QED
  BY <1>2, <1>3, <1>4 DEF IInv

\* Answers: the stage selected is of the list that came, or none is and the list
\* is empty.
LEMMA AnswerKeepsIInv ==
    ASSUME IInv, NEW c \in calls, Answer(c)
    PROVE  IInv'
<1>1. Fits(c) /\ ListsOK /\ StageIsListed /\ c.served
  BY DEF IInv, Answer
<1>2. CatalogOK' /\ isAuthenticated' \in BOOLEAN /\ events' \in 0..MaxEvents
  BY DEF Answer, IInv, CatalogOK
<1>3. CASE c.op = "projects" /\ ProjectsLoaded(c) /\ calls' = calls \ {c}
  <2>1. c.data \subseteq Projects /\ c.data \subseteq Nat
    BY <1>1, <1>3, KeysAssumption DEF Fits
  <2>2. selectedProjectKey' \in Projects \cup {None}
    BY <1>1, <1>3, <2>1, MinIsListed DEF ProjectsLoaded, ListsOK
  <2>3. /\ projects' = c.data /\ selectedStageKey' = selectedStageKey /\ due' = Rerun
        /\ \/ stages' = stages /\ flags' = flags
           \/ stages' = {} /\ flags' = None
    BY <1>3 DEF ProjectsLoaded
  <2>4. ListsOK'
    BY <1>1, <2>1, <2>2, <2>3, RerunType DEF ListsOK
  <2>5. StageIsListed'
    BY <1>1, <2>3 DEF StageIsListed
  <2>6. QED
    BY <1>2, <1>3, <2>4, <2>5 DEF IInv
<1>4. CASE c.op = "stages" /\ StagesLoaded(c) /\ calls' = calls \ {c}
  <2>1. c.data \subseteq Stages /\ c.data \subseteq Nat
    BY <1>1, <1>4, KeysAssumption DEF Fits
  <2>2. /\ stages' = c.data /\ projects' = projects /\ selectedProjectKey' = selectedProjectKey
        /\ flags' \in {flags, None} /\ due' = Rerun
        /\ selectedStageKey' = IF c.data # {} THEN StageFrom(c.data) ELSE None
    BY <1>4 DEF StagesLoaded
  <2>3. c.data # {} => StageFrom(c.data) \in c.data
    BY <2>1, MinIsListed DEF StageFrom
  <2>4. ListsOK' /\ StageIsListed'
    BY <1>1, <2>1, <2>2, <2>3, RerunType DEF ListsOK, StageIsListed
  <2>5. QED
    BY <1>2, <1>4, <2>4 DEF IInv
<1>5. CASE c.op = "flags" /\ FlagsLoaded(c) /\ calls' = calls \ {c}
  <2>1. c.project \in Projects /\ c.stage \in Stages
    BY <1>1, <1>5 DEF Fits, Call
  <2>2. flags' = <<c.project, c.stage>> /\ UNCHANGED <<projects, stages, selection, due>>
    BY <1>5 DEF FlagsLoaded
  <2>3. ListsOK' /\ StageIsListed'
    BY <1>1, <2>1, <2>2 DEF ListsOK, StageIsListed, selection
  <2>4. QED
    BY <1>2, <1>5, <2>3 DEF IInv
<1>6. CASE /\ c.op \in Edits
           /\ calls' = (calls \ {c}) \cup {Reload(c)}
           /\ UNCHANGED <<lists, selection, due>>
  <2>1. ListsOK' /\ StageIsListed'
    BY <1>1, <1>6 DEF ListsOK, StageIsListed, lists, selection
  <2>2. Fits(Reload(c))
    BY <1>1, <1>6, ReloadFits
  <2>3. QED
    BY <1>2, <1>6, <2>1, <2>2 DEF IInv
<1>7. QED
  BY <1>3, <1>4, <1>5, <1>6 DEF Answer

\* Failures: with the list of stages goes the selection of one.
LEMMA FailureKeepsIInv ==
    ASSUME IInv, NEW c \in calls, Fails(c)
    PROVE  IInv'
<1>1. /\ CatalogOK' /\ isAuthenticated' \in BOOLEAN /\ events' \in 0..MaxEvents
      /\ calls' = calls \ {c} /\ due' = Rerun
  BY DEF Fails, IInv, CatalogOK
<1>2. /\ projects' \in {projects, {}} /\ flags' \in {flags, None}
      /\ selectedProjectKey' = selectedProjectKey
      /\ \/ stages' = stages /\ selectedStageKey' = selectedStageKey
         \/ stages' = {} /\ selectedStageKey' = None
  BY DEF Fails, lists, selection
<1>3. ListsOK' /\ StageIsListed'
  BY <1>1, <1>2, RerunType DEF IInv, ListsOK, StageIsListed
<1>4. QED
  BY <1>1, <1>3 DEF IInv

LEMMA NextKeepsIInv == IInv /\ [Next]_vars => IInv'
<1>1. IInv /\ UNCHANGED vars => IInv'
  <2> SUFFICES ASSUME IInv, UNCHANGED vars PROVE IInv'
    OBVIOUS
  <2>1. /\ catalog' = catalog /\ isAuthenticated' = isAuthenticated
        /\ projects' = projects /\ stages' = stages /\ flags' = flags
        /\ selectedProjectKey' = selectedProjectKey /\ selectedStageKey' = selectedStageKey
        /\ calls' = calls /\ due' = due /\ events' = events
    BY DEF vars, lists, selection
  <2>2. QED
    BY <2>1 DEF IInv, CatalogOK, ListsOK, StageIsListed
<1>2. QED
  BY <1>1, UserKeepsIInv, EffectsKeepIInv, ServeKeepsIInv, AnswerKeepsIInv, FailureKeepsIInv
  DEF Next, Progress

LEMMA Invariance == Spec => []IInv
BY InitIInv, NextKeepsIInv, PTL DEF Spec

\* Types: a load never lists what is no key, whoever changes the catalogue.
THEOREM TypeCorrect == Spec => []TypeOK
<1>1. IInv => TypeOK
  <2> SUFFICES ASSUME IInv PROVE TypeOK
    OBVIOUS
  <2>1. /\ calls \subseteq Call
        /\ \A c \in calls : c.op = "flags" => c.project # None /\ c.stage # None
    BY DEF IInv, Fits
  <2>2. QED
    BY <2>1 DEF IInv, TypeOK, CatalogOK, ListsOK
<1>2. QED
  BY <1>1, Invariance, PTL

\* The stage selected is one of those listed, however the lists of the stages of
\* two projects overtake each other (App.tsx:72-95).
THEOREM SelectedIsListed == Spec => []StageIsListed
<1>1. IInv => StageIsListed
  BY DEF IInv
<1>2. QED
  BY <1>1, Invariance, PTL
=============================================================================
