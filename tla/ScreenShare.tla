---------------------------- MODULE ScreenShare ----------------------------
(***************************************************************************)
(* Presenting one's screen (frontend/src/components/MeetControls.tsx and   *)
(* the "sharing" of pages/CallRoom.tsx), seen from every participant's     *)
(* page: the button, the browser's own picker and "Stop sharing" bar, and  *)
(* the confirmation dialog.                                                *)
(***************************************************************************)
EXTENDS FiniteSets, Naturals

CONSTANT ShUsers

VARIABLES
    shState,  \* each user's screen share: off, asking (the browser's picker), on
    shSees,   \* the sharers each user's page knows of
    shDialog, \* users whose "Stop sharing?" dialog is open
    shBlind   \* history: users who asked before an earlier share was seen

shVars == <<shState, shSees, shDialog, shBlind>>

ShTypeOK ==
    /\ shState \in [ShUsers -> {"off", "asking", "on"}]
    /\ shSees \in [ShUsers -> SUBSET ShUsers]
    /\ shDialog \in SUBSET ShUsers
    /\ shBlind \in SUBSET ShUsers

ShInit ==
    /\ shState = [u \in ShUsers |-> "off"]
    /\ shSees = [u \in ShUsers |-> {}]
    /\ shDialog = {}
    /\ shBlind = {}

\* A bug for comparison: the button works though somebody presents.
ShMayPresentAnyway(u) == shState[u] = "off" /\ u \notin shDialog

\* disabled={sharing && !screenOn}; an open dialog covers the button.
ShMayPresent(u) == shState[u] = "off" /\ shSees[u] = {} /\ u \notin shDialog

ShPresent(u) ==
    /\ ShMayPresent(u)
    /\ shState' = [shState EXCEPT ![u] = "asking"]
    /\ shBlind' = IF \E v \in ShUsers : shState[v] # "off" /\ v \notin shSees[u]
                  THEN shBlind \cup {u} ELSE shBlind \ {u}
    /\ UNCHANGED <<shSees, shDialog>>

\* The picker of the browser is answered or cancelled.
ShPicked(u) ==
    /\ shState[u] = "asking"
    /\ \/ /\ shState' = [shState EXCEPT ![u] = "on"]
          /\ shSees' = [shSees EXCEPT ![u] = @ \cup {u}]
       \/ /\ shState' = [shState EXCEPT ![u] = "off"]
          /\ UNCHANGED shSees
    /\ UNCHANGED <<shDialog, shBlind>>

\* Track events reach the page, with a delay of their own.
ShHear(u) ==
    /\ shSees[u] # {v \in ShUsers : shState[v] = "on"}
    /\ shSees' = [shSees EXCEPT ![u] = {v \in ShUsers : shState[v] = "on"}]
    /\ UNCHANGED <<shState, shDialog, shBlind>>

ShAskStop(u) ==
    /\ shState[u] = "on"
    /\ shDialog' = shDialog \cup {u}
    /\ UNCHANGED <<shState, shSees, shBlind>>

\* A bug for comparison: the dialog's button toggles the share.
ShStopToggles(u) == IF shState[u] = "on" THEN "off" ELSE "asking"

\* "Stop sharing" says setScreenShareEnabled(false).
ShStopped(u) == "off"
ShConfirmStop(u) ==
    /\ u \in shDialog
    /\ shState' = [shState EXCEPT ![u] = ShStopped(u)]
    /\ shSees' = [shSees EXCEPT ![u] = @ \ {u}]
    /\ shDialog' = shDialog \ {u}
    /\ UNCHANGED <<shBlind>>

\* A bug for comparison: no effect closes the dialog of a share that has ended.
ShDialogClosesByHand(u) ==
    /\ u \in shDialog
    /\ shState[u] = "on"
    /\ shDialog' = shDialog \ {u}
    /\ UNCHANGED <<shState, shSees, shBlind>>

\* "Cancel", or the effect that closes the dialog once the share has ended.
ShDialogCloses(u) ==
    /\ u \in shDialog
    /\ shDialog' = shDialog \ {u}
    /\ UNCHANGED <<shState, shSees, shBlind>>

\* The browser's own "Stop sharing" bar, or the server, ends the share.
ShNativeStop(u) ==
    /\ shState[u] = "on"
    /\ shState' = [shState EXCEPT ![u] = "off"]
    /\ shSees' = [shSees EXCEPT ![u] = @ \ {u}]
    /\ UNCHANGED <<shDialog, shBlind>>

ShNext ==
    \E u \in ShUsers :
        \/ ShPresent(u)
        \/ ShPicked(u)
        \/ ShHear(u)
        \/ ShAskStop(u)
        \/ ShConfirmStop(u)
        \/ ShDialogCloses(u)
        \/ ShNativeStop(u)

\* React runs the effect after a render that finds its condition true.
ShFairness ==
    \A u \in ShUsers : WF_shVars(shState[u] # "on" /\ ShDialogCloses(u))

ShSpec == ShInit /\ [][ShNext]_shVars /\ ShFairness

----
(* Properties.                                                              *)

\* Two screens are shared at once only when the second was asked for before its
\* page had heard of the first (the button's disabled state is all there is).
ShOnePresenter ==
    \A u, v \in ShUsers :
        u # v /\ shState[u] = "on" /\ shState[v] = "on" => {u, v} \cap shBlind # {}

\* "Otherwise its button would toggle the share back ON" (MeetControls.tsx:137):
\* leaving the dialog, however the share ended meanwhile, never asks for a share.
ShStopNeverStarts ==
    [][\A u \in ShUsers : u \in shDialog /\ shState[u] # "asking" => shState'[u] # "asking"]_shVars

\* A dialog about a share that has ended goes away by itself.
ShDialogGoes ==
    \A u \in ShUsers : (u \in shDialog /\ shState[u] # "on") ~> (u \notin shDialog)
=============================================================================
