---------------------------- MODULE CallControls ----------------------------
(***************************************************************************)
(* What the control bar of the call offers and opens                       *)
(* (frontend/src/components/MeetControls.tsx, CallRoom.tsx) as the page    *)
(* changes between its phone and its desktop layout.                       *)
(***************************************************************************)
VARIABLES
    ccPage,    \* is the page the host's, is it phone-sized
    ccPopover, \* the open popover
    ccOpen     \* the open panel and dialogs

ccVars == <<ccPage, ccPopover, ccOpen>>

Popovers == {"reactions", "more", "mic", "cam"}
Panels == {"transcript", "chat", "participants"}
Dialogs == {"aside", "commit", "board", "recognise", "backgrounds"}

CcTypeOK ==
    /\ ccPage \in [host : BOOLEAN, mobile : BOOLEAN]
    /\ ccPopover \in Popovers \cup {"none"}
    /\ ccOpen \in SUBSET (Panels \cup Dialogs)

CcInit ==
    /\ ccPage \in [host : BOOLEAN, mobile : BOOLEAN]
    /\ ccPopover = "none"
    /\ ccOpen = {}

\* The centred dock; a phone has no device pickers, and the corner's effects button.
CcDock(mobile) ==
    {"micToggle", "camToggle", "present", "reactions", "hand", "more", "leave"}
    \cup (IF mobile THEN {"backgrounds"} ELSE {"micPicker", "camPicker"})

\* The corner group, on desktop only.
CcCorner(mobile) == IF mobile THEN {} ELSE {"backgrounds"} \cup Panels

\* A bug for comparison: the corner is hidden and the menu does not take over.
CcMenuDesktop(host, mobile) ==
    {"copy", "aside", "commit", "tiled", "sidebar", "mini"}
    \cup (IF host THEN {"board", "recognise"} ELSE {})

\* The "more" menu; "Record meeting" is shown to a host but disabled.
CcMenu(host, mobile) ==
    {"copy", "aside", "commit", "tiled", "sidebar", "mini"}
    \cup (IF host THEN {"board", "recognise"} ELSE {})
    \cup (IF mobile THEN Panels ELSE {})

CcOffered == CcDock(ccPage.mobile) \cup CcCorner(ccPage.mobile)
             \cup CcMenu(ccPage.host, ccPage.mobile)

\* A trigger opens its popover or closes it.
CcTrigger(p) ==
    /\ p \in {"mic", "cam"} => ~ccPage.mobile
    /\ ccPopover' = IF ccPopover = p THEN "none" ELSE p
    /\ UNCHANGED <<ccPage, ccOpen>>

\* Escape, a click outside the dock, a picked device.
CcClosePopover ==
    /\ ccPopover # "none"
    /\ ccPopover' = "none"
    /\ UNCHANGED <<ccPage, ccOpen>>

\* togglePanel: one side panel at a time.
CcToggled(p) == IF p \in ccOpen THEN ccOpen \ {p} ELSE (ccOpen \ Panels) \cup {p}

\* An item does its work and closes the menu, except "Copy link", which stays to
\* say that it has copied.
CcChoose(item) ==
    /\ ccPopover = "more"
    /\ item \in CcMenu(ccPage.host, ccPage.mobile)
    /\ ccOpen' = IF item \in Panels THEN CcToggled(item)
                 ELSE IF item \in Dialogs THEN ccOpen \cup {item} ELSE ccOpen
    /\ ccPopover' = IF item = "copy" THEN "more" ELSE "none"
    /\ UNCHANGED <<ccPage>>

\* A button of the corner, or the phone's effects button.
CcPress(item) ==
    /\ item \in (CcDock(ccPage.mobile) \cup CcCorner(ccPage.mobile)) \cap (Panels \cup Dialogs)
    /\ ccOpen' = IF item \in Panels THEN CcToggled(item) ELSE ccOpen \cup {item}
    /\ UNCHANGED <<ccPage, ccPopover>>

CcCloseOpen(item) ==
    /\ item \in ccOpen
    /\ ccOpen' = ccOpen \ {item}
    /\ UNCHANGED <<ccPage, ccPopover>>

\* useIsMobile: resize or rotation.
CcResize ==
    /\ ccPage' = [ccPage EXCEPT !.mobile = ~@]
    /\ UNCHANGED <<ccPopover, ccOpen>>

CcNext ==
    \/ \E p \in Popovers : CcTrigger(p)
    \/ CcClosePopover
    \/ \E item \in CcMenu(TRUE, TRUE) : CcChoose(item)
    \/ \E item \in Panels \cup Dialogs : CcPress(item) \/ CcCloseOpen(item)
    \/ CcResize

CcSpec == CcInit /\ [][CcNext]_ccVars

----
(* Properties.                                                              *)

\* On a phone as on a desktop every participant is offered the panels, the effects
\* and the way out, each in one place, and the host's tools are the host's alone.
CcAllOffered ==
    /\ Panels \cup {"backgrounds", "leave", "aside", "commit"} \subseteq CcOffered
    /\ CcDock(ccPage.mobile) \cap CcCorner(ccPage.mobile) = {}
    /\ CcCorner(ccPage.mobile) \cap CcMenu(ccPage.host, ccPage.mobile) = {}
    /\ {"board", "recognise"} \cap (CcOffered \cup ccOpen) # {} => ccPage.host

\* At most one side panel is open: the stage makes room for one (CallRoom.tsx:155).
CcOnePanel == \A p, q \in Panels \cap ccOpen : p = q
=============================================================================
