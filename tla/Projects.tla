------------------------------ MODULE Projects ------------------------------
(***************************************************************************)
(* A project row under the dashboard's handlers: each loads the whole row, *)
(* changes it and saves the whole row, with nothing to order it against    *)
(* another (src/api/v1/projects/projects.go), and what the project         *)
(* endpoints accept (src/api/llm/auth.go).                                 *)
(***************************************************************************)
EXTENDS ModelCaches

CONSTANTS
  Edits,                 \* the changes the owner may ask for
  Handlers,              \* handlers of the dashboard that may run at once
  DefaultMaxCredits,     \* llm.default_auto_max_credits_per_task
  MaxEdits               \* bound: changes of the project

\* What the parsers of the fields let through; 0, -1 and "" are fields that were not given.
ProjectEdits == [kind : {"update", "delete", "reset"}, mode : {"", "static", "auto"}, priority : Nat, position : Int,
                 maxCredits : Nat, key : Nat]

ASSUME ProjectsAssumption == Edits \subseteq ProjectEdits /\ DefaultMaxCredits \in Nat \ {0}

VARIABLES
  project,    \* the projects row; status "none" before it is created
  editing,    \* editing[h]: the change handler h works on and the row it loaded
  editsLeft   \* what is left of MaxEdits

projectVars == <<project, editing, editsLeft>>

NoProject == [status |-> "none", key |-> 0, mode |-> "static", priority |-> 0, position |-> -1, maxCredits |-> 0]
NoEdit == [edit |-> [kind |-> "none"], row |-> NoProject]

\* CreateProject: static, at the hint of the queue, with the configured budget.
NewProject == [status |-> "active", key |-> 1, mode |-> "static", priority |-> InitialProjectPriority,
               position |-> 50, maxCredits |-> DefaultMaxCredits]

CreateProject ==
  /\ project.status = "none" /\ HasStaticBounds
  /\ project' = NewProject
  /\ UNCHANGED <<editing, editsLeft>>

\* findOwnedProject: a deleted project is not found.
FindProject(h) ==
  /\ editing[h] = NoEdit /\ editsLeft > 0
  /\ project.status \notin {"none", "deleted"}
  /\ \E e \in Edits : editing' = [editing EXCEPT ![h] = [edit |-> e, row |-> project]]
  /\ editsLeft' = editsLeft - 1
  /\ UNCHANGED project

\* The validations of UpdateProject: the parsers of the fields that were given, and a budget for a mode.
\* A field that was not given is "", 0 or -1.
IsValidUpdate(e, row) ==
  /\ e.priority # 0 => IsStaticPriority(e.priority)
  /\ e.position # -1 => e.position \in 0..100
  /\ e.mode # "" => Larger(e.maxCredits, row.maxCredits) > 0

\* The row UpdateProject saves.
Updated(row, e) ==
  [row EXCEPT !.mode = IF e.mode # "" THEN e.mode ELSE @,
              !.priority = IF e.priority # 0 THEN e.priority ELSE @,
              !.position = IF e.position # -1 THEN e.position ELSE IF e.mode = "auto" /\ @ = -1 THEN 50 ELSE @,
              !.maxCredits = IF e.maxCredits # 0 THEN e.maxCredits ELSE @]

\* UpdateProject saves the row it loaded, with its changes, over whatever the row is by now.
UpdateProject(h) ==
  /\ editing[h].edit.kind = "update"
  /\ project' = IF IsValidUpdate(editing[h].edit, editing[h].row)
                THEN Updated(editing[h].row, editing[h].edit) ELSE project
  /\ editing' = [editing EXCEPT ![h] = NoEdit]
  /\ UNCHANGED editsLeft

DeleteProject(h) ==
  /\ editing[h].edit.kind = "delete"
  /\ project' = [editing[h].row EXCEPT !.status = "deleted"]
  /\ editing' = [editing EXCEPT ![h] = NoEdit]
  /\ UNCHANGED editsLeft

ResetAPIKey(h) ==
  /\ editing[h].edit.kind = "reset"
  /\ project' = [editing[h].row EXCEPT !.key = editing[h].edit.key]
  /\ editing' = [editing EXCEPT ![h] = NoEdit]
  /\ UNCHANGED editsLeft

\* ProjectAuthMiddleware: the row must be active, and the token its key or a token of its owner (key 0).
IsAuthorized(key) == project.status = "active" /\ key \in {0, project.key}

ProjectInit == project = NoProject /\ editing = [h \in Handlers |-> NoEdit] /\ editsLeft = MaxEdits

ProjectNext ==
  \/ CreateProject
  \/ \E h \in Handlers : FindProject(h) \/ UpdateProject(h) \/ DeleteProject(h) \/ ResetAPIKey(h)
=============================================================================
