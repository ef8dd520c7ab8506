----------------------------- MODULE MiniWindow -----------------------------
(***************************************************************************)
(* The picture-in-picture window of a call                                 *)
(* (frontend/src/lib/callpip.ts).  The browser opens it after an await,    *)
(* by itself when the tab is hidden or at the user's wish; it is closed on *)
(* return to the tab, with the call, or by its own close button.  The      *)
(* browser has at most one such window per tab.                            *)
(***************************************************************************)
VARIABLES
    mwCall,    \* the call is mounted
    mwVisible, \* document.visibilityState
    mwAsked,   \* requestWindow is awaited: no, auto or user, and for which call
    mwWindow,  \* the open window: opened how, and confirming its "leave"
    mwRef,     \* pipRef holds the window
    mwLost     \* history: the call ended while its window was being opened

mwVars == <<mwCall, mwVisible, mwAsked, mwWindow, mwRef, mwLost>>

NoAsking == [by |-> "none", mine |-> FALSE]
NoWindow == [by |-> "none", confirm |-> FALSE]

MwTypeOK ==
    /\ mwCall \in BOOLEAN
    /\ mwVisible \in BOOLEAN
    /\ mwAsked \in [by : {"none", "auto", "user"}, mine : BOOLEAN]
    /\ mwWindow \in [by : {"none", "auto", "user"}, confirm : BOOLEAN]
    /\ mwRef \in BOOLEAN
    /\ mwLost \in BOOLEAN

MwInit ==
    /\ mwCall = TRUE
    /\ mwVisible = TRUE
    /\ mwAsked = NoAsking
    /\ mwWindow = NoWindow
    /\ mwRef = FALSE
    /\ mwLost = FALSE

\* Who can ask for the window: the browser by itself (the "enterpictureinpicture"
\* action, which the silent audio keeps alive) only as the tab is hidden, the user only
\* in front of it.
MwMayAsk(by) == mwVisible <=> (by = "user")

\* open, up to its await: not while a window is held or another open is under way.
MwOpen(by) ==
    /\ mwCall
    /\ ~mwRef
    /\ mwAsked = NoAsking
    /\ MwMayAsk(by)
    /\ mwAsked' = [by |-> by, mine |-> TRUE]
    /\ UNCHANGED <<mwCall, mwVisible, mwWindow, mwRef, mwLost>>

\* A bug for comparison: the window is kept though the user is back.
MwKeepsAlways == TRUE

\* "Auto-open races the user coming back."
MwKeeps == ~(mwAsked.by = "auto" /\ mwVisible)

\* The window is there; any earlier one of the tab was closed by the browser.  The
\* refs are those of the call that asked, though it may be gone.
MwOpened ==
    /\ mwAsked # NoAsking
    /\ mwWindow' = IF MwKeeps THEN [by |-> mwAsked.by, confirm |-> FALSE] ELSE NoWindow
    /\ mwRef' = IF mwAsked.mine THEN MwKeeps ELSE mwRef
    /\ mwLost' = (MwKeeps /\ ~mwAsked.mine)
    /\ mwAsked' = NoAsking
    /\ UNCHANGED <<mwCall, mwVisible>>

MwDenied ==
    /\ mwAsked # NoAsking
    /\ mwAsked' = NoAsking
    /\ UNCHANGED <<mwCall, mwVisible, mwWindow, mwRef, mwLost>>

\* pagehide: closed with its own button; the handler clears its call's ref.
MwClosed ==
    /\ mwWindow # NoWindow
    /\ mwWindow' = NoWindow
    /\ mwRef' = FALSE
    /\ mwLost' = FALSE
    /\ UNCHANGED <<mwCall, mwVisible, mwAsked>>

MwHide ==
    /\ mwVisible
    /\ mwVisible' = FALSE
    /\ UNCHANGED <<mwCall, mwAsked, mwWindow, mwRef, mwLost>>

\* onVisibility: the window this call holds is closed on return.
MwReturn ==
    /\ ~mwVisible
    /\ mwVisible' = TRUE
    /\ mwRef' = FALSE
    /\ mwWindow' = IF mwRef THEN NoWindow ELSE mwWindow
    /\ UNCHANGED <<mwCall, mwAsked, mwLost>>

\* A bug for comparison: the effect's cleanup forgets the window.
MwEndKeepsWindow ==
    /\ mwCall
    /\ mwCall' = FALSE
    /\ mwRef' = FALSE
    /\ mwAsked' = [mwAsked EXCEPT !.mine = FALSE]
    /\ UNCHANGED <<mwVisible, mwWindow, mwLost>>

\* The call unmounts: its window goes; one still being opened is not recalled.
MwEnd ==
    /\ mwCall
    /\ mwCall' = FALSE
    /\ mwRef' = FALSE
    /\ mwWindow' = IF mwRef THEN NoWindow ELSE mwWindow
    /\ mwAsked' = [mwAsked EXCEPT !.mine = FALSE]
    /\ UNCHANGED <<mwVisible, mwLost>>

\* Another call of the same tab.
MwNextCall ==
    /\ ~mwCall
    /\ mwAsked = NoAsking
    /\ mwCall' = TRUE
    /\ UNCHANGED <<mwVisible, mwAsked, mwWindow, mwRef, mwLost>>

\* "Leave" asks first; the confirmation reverts after three seconds.
MwConfirm ==
    /\ mwWindow # NoWindow
    /\ mwWindow' = [mwWindow EXCEPT !.confirm = ~@]
    /\ UNCHANGED <<mwCall, mwVisible, mwAsked, mwRef, mwLost>>

\* The second click leaves the call, whichever it is, and closes the window.
MwLeave ==
    /\ mwWindow.confirm
    /\ mwCall' = FALSE
    /\ mwWindow' = NoWindow
    /\ mwRef' = FALSE
    /\ mwLost' = FALSE
    /\ mwAsked' = [mwAsked EXCEPT !.mine = FALSE]
    /\ UNCHANGED mwVisible

MwNext ==
    \/ MwOpen("auto")
    \/ MwOpen("user")
    \/ MwOpened
    \/ MwDenied
    \/ MwClosed
    \/ MwHide
    \/ MwReturn
    \/ MwEnd
    \/ MwNextCall
    \/ MwConfirm
    \/ MwLeave

MwSpec == MwInit /\ [][MwNext]_mwVars

----
(* Properties.                                                              *)

\* "Don't leave an orphan PiP open" (callpip.ts:135): however hiding, returning,
\* opening and the end of the call cross, an open window is the one its call holds
\* and can close, unless the call ended while it was being opened; and a window the
\* browser opened by itself is not up while the tab is in front.
MwNoOrphan ==
    /\ mwWindow # NoWindow /\ ~mwLost => mwCall /\ mwRef
    /\ mwRef => mwWindow # NoWindow
    /\ mwWindow.by = "auto" /\ ~mwLost => ~mwVisible
=============================================================================
