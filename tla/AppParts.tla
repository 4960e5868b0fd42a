------------------------------ MODULE AppParts ------------------------------
(***************************************************************************)
(* The app as one specification: the store with its readers, the panes     *)
(* beside it, and what a card's text becomes on its way to the screen.     *)
(* Every step is of one part.  The session list and the dock read and      *)
(* write the store; no two other parts share a variable.                   *)
(***************************************************************************)
EXTENDS SessionList, TaskDock, Approvals, Login, Views, CardText, CardBody, PlanLower, NativeCard

lightVars == <<storeVars, listVars, expanded>>
paneVars == <<apprVars, loginVars, viewVars>>
drawnVars == <<textVars, bodyVars, planVars, nativeVars>>
partVars == <<lightVars, paneVars, drawnVars>>

LightsInit == StoreInit /\ SessionListInit /\ DockInit
PartsInit ==
    /\ LightsInit
    /\ ApprovalsInit /\ LoginInit /\ ViewsInit
    /\ TextInit /\ BodyInit /\ PlanInit /\ NativeInit

LightsNext ==
    \/ StoreNext /\ UNCHANGED <<listVars, expanded>>
    \/ SessionListNext /\ UNCHANGED expanded
    \/ ToggleDock /\ UNCHANGED <<storeVars, listVars>>

PanesNext ==
    \/ ApprovalsNext /\ UNCHANGED <<loginVars, viewVars>>
    \/ LoginNext /\ UNCHANGED <<apprVars, viewVars>>
    \/ ViewsNext /\ UNCHANGED <<apprVars, loginVars>>

DrawnNext ==
    \/ TextNext /\ UNCHANGED <<bodyVars, planVars, nativeVars>>
    \/ BodyNext /\ UNCHANGED <<textVars, planVars, nativeVars>>
    \/ PlanNext /\ UNCHANGED <<textVars, bodyVars, nativeVars>>
    \/ NativeNext /\ UNCHANGED <<textVars, bodyVars, planVars>>

PartsNext ==
    \/ LightsNext /\ UNCHANGED <<paneVars, drawnVars>>
    \/ PanesNext /\ UNCHANGED <<lightVars, drawnVars>>
    \/ DrawnNext /\ UNCHANGED <<lightVars, paneVars>>

PartsSpec == PartsInit /\ [][PartsNext]_partVars

\* The shapes of the parts that have one: what the store, the slices and the
\* card reads keep in every field, however their steps mix.
AppTypeOK ==
    /\ StoreTypeOK /\ expanded \in BOOLEAN
    /\ ApprovalsTypeOK /\ LoginTypeOK /\ NativeTypeOK
=============================================================================
