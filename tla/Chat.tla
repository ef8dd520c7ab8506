-------------------------------- MODULE Chat --------------------------------
(***************************************************************************)
(* Chat over the room's data channel (frontend/src/lib/datachannel.ts      *)
(* useChat, components/ChatPanel.tsx) and the badge that counts unread     *)
(* messages (pages/CallRoom.tsx).  A text is shown to its sender once it   *)
(* is published; an image is scaled down first, then shown and sent.       *)
(***************************************************************************)
EXTENDS Naturals, SequencesExt

CONSTANTS
    ChUsers,
    ChReader, \* the user whose badge is followed
    ChMaxSent \* messages sent in all

ASSUME ChAssumption == ChReader \in ChUsers /\ ChMaxSent \in Nat

ChIds == 1..ChMaxSent

VARIABLES
    chSent,   \* the messages made so far, by id: sender, kind, how publishing went
    chHere,   \* users whose chat is mounted
    chList,   \* the messages each page shows
    chWire,   \* texts on their way to each page, reliable and in order
    chStream, \* images on their way: a set of [id, to]
    chUrls,   \* object URLs each page has made and not revoked
    chBadge,  \* the reader's badge: panel open, seenRef, unread, effect due
    chMark    \* history: how many messages the reader had when its panel was last seen open

chVars == <<chSent, chHere, chList, chWire, chStream, chUrls, chBadge, chMark>>

ChTypeOK ==
    /\ chSent \in Seq([from : ChUsers, kind : {"text", "image"},
                       state : {"preparing", "sending", "shared", "failed"}])
    /\ Len(chSent) <= ChMaxSent
    /\ chHere \in SUBSET ChUsers
    /\ chList \in [ChUsers -> Seq(ChIds)]
    /\ chWire \in [ChUsers -> Seq(ChIds)]
    /\ chStream \in SUBSET [id : ChIds, to : ChUsers]
    /\ chUrls \in [ChUsers -> SUBSET ChIds]
    /\ chBadge \in [open : BOOLEAN, seen : 0..ChMaxSent, unread : 0..ChMaxSent, due : BOOLEAN]
    /\ chMark \in 0..ChMaxSent

ChInit ==
    /\ chSent = <<>>
    /\ chHere = ChUsers
    /\ chList = [u \in ChUsers |-> <<>>]
    /\ chWire = [u \in ChUsers |-> <<>>]
    /\ chStream = {}
    /\ chUrls = [u \in ChUsers |-> {}]
    /\ chBadge = [open |-> FALSE, seen |-> 0, unread |-> 0, due |-> FALSE]
    /\ chMark = 0

\* setMessages: one more line, and the badge's effect is due.
ChShow(u, id) ==
    /\ chList' = [chList EXCEPT ![u] = Append(@, id)]
    /\ chBadge' = IF u = ChReader THEN [chBadge EXCEPT !.due = TRUE] ELSE chBadge

ChMake(u, kind) ==
    /\ u \in chHere
    /\ Len(chSent) < ChMaxSent
    /\ chSent' = Append(chSent, [from |-> u, kind |-> kind,
                      state |-> IF kind = "image" THEN "preparing" ELSE "sending"])

\* submit: the text is being published; the field is cleared whatever comes of it.
ChSendText(u) ==
    /\ ChMake(u, "text")
    /\ UNCHANGED <<chHere, chList, chWire, chStream, chUrls, chBadge, chMark>>

\* sendImage, from the picker or the clipboard, up to its await of prepareImage.
ChSendImage(u) ==
    /\ ChMake(u, "image")
    /\ UNCHANGED <<chHere, chList, chWire, chStream, chUrls, chBadge, chMark>>

ChIs(id, kind, state) ==
    id \in DOMAIN chSent /\ chSent[id].kind = kind /\ chSent[id].state = state
ChSending(id, kind) == ChIs(id, kind, "sending")

\* The image is prepared, scaled down or as it was: a URL is made for it, and it is
\* shown right away.  Nothing asks whether the chat is still there: then the URL is
\* made after the cleanup, for a page that is gone.
ChPrepared(id) ==
    LET sender == chSent[id].from IN
    /\ ChIs(id, "image", "preparing")
    /\ chSent' = [chSent EXCEPT ![id].state = "sending"]
    /\ chUrls' = [chUrls EXCEPT ![sender] = @ \cup {id}]
    /\ IF sender \in chHere THEN ChShow(sender, id) ELSE UNCHANGED <<chList, chBadge>>
    /\ UNCHANGED <<chHere, chWire, chStream, chMark>>

ChOthers(id) == chHere \ {chSent[id].from}

\* A bug for comparison: the text is shown before it is known to be out.
ChTextFailsShown(id) ==
    /\ ChSending(id, "text")
    /\ chSent' = [chSent EXCEPT ![id].state = "failed"]
    /\ IF chSent[id].from \in chHere THEN ChShow(chSent[id].from, id) ELSE UNCHANGED <<chList, chBadge>>
    /\ UNCHANGED <<chHere, chWire, chStream, chUrls, chMark>>

\* publishData rejects: the text is gone, from the page too.
ChTextFails(id) ==
    /\ ChSending(id, "text")
    /\ chSent' = [chSent EXCEPT ![id].state = "failed"]
    /\ UNCHANGED <<chHere, chList, chWire, chStream, chUrls, chBadge, chMark>>

ChTextOut(id) ==
    LET sender == chSent[id].from IN
    /\ ChSending(id, "text")
    /\ sender \in chHere
    /\ chSent' = [chSent EXCEPT ![id].state = "shared"]
    /\ chWire' = [u \in ChUsers |-> IF u \in ChOthers(id) THEN Append(chWire[u], id) ELSE chWire[u]]
    /\ ChShow(sender, id)
    /\ UNCHANGED <<chHere, chStream, chUrls, chMark>>

\* sendFile: a byte stream to everybody, or a failure nobody is told of.
ChImageOut(id) ==
    /\ ChSending(id, "image")
    /\ \/ /\ chSent[id].from \in chHere
          /\ chSent' = [chSent EXCEPT ![id].state = "shared"]
          /\ chStream' = chStream \cup [id : {id}, to : ChOthers(id)]
       \/ /\ chSent' = [chSent EXCEPT ![id].state = "failed"]
          /\ UNCHANGED chStream
    /\ UNCHANGED <<chHere, chList, chWire, chUrls, chBadge, chMark>>

ChTextIn(u) ==
    /\ u \in chHere
    /\ chWire[u] # <<>>
    /\ chWire' = [chWire EXCEPT ![u] = Tail(@)]
    /\ ChShow(u, Head(chWire[u]))
    /\ UNCHANGED <<chSent, chHere, chStream, chUrls, chMark>>

\* readAll has collected the image.  Nothing asks whether the chat is still there:
\* then the URL is made for a page that is gone.
ChImageIn(s) ==
    /\ s \in chStream
    /\ chStream' = chStream \ {s}
    /\ chUrls' = [chUrls EXCEPT ![s.to] = @ \cup {s.id}]
    /\ IF s.to \in chHere THEN ChShow(s.to, s.id) ELSE UNCHANGED <<chList, chBadge>>
    /\ UNCHANGED <<chSent, chHere, chWire, chMark>>

\* The transfer is aborted.
ChImageLost(s) ==
    /\ s \in chStream
    /\ chStream' = chStream \ {s}
    /\ UNCHANGED <<chSent, chHere, chList, chWire, chUrls, chBadge, chMark>>

\* A bug for comparison: the URLs live on with the document.
ChLeaveKeeping(u) ==
    /\ u \in chHere
    /\ chHere' = chHere \ {u}
    /\ chWire' = [chWire EXCEPT ![u] = <<>>]
    /\ UNCHANGED <<chSent, chList, chStream, chUrls, chBadge, chMark>>

\* The chat unmounts with the call: its object URLs are revoked.
ChLeave(u) ==
    /\ u \in chHere
    /\ chHere' = chHere \ {u}
    /\ chWire' = [chWire EXCEPT ![u] = <<>>]
    /\ chUrls' = [chUrls EXCEPT ![u] = {}]
    /\ UNCHANGED <<chSent, chList, chStream, chBadge, chMark>>

ChPanel ==
    /\ ChReader \in chHere
    /\ chBadge' = [chBadge EXCEPT !.open = ~@, !.due = TRUE]
    /\ UNCHANGED <<chSent, chHere, chList, chWire, chStream, chUrls, chMark>>

\* The reader's messages of others from position n+1 on.
ChIncoming(n) ==
    {i \in n + 1..Len(chList[ChReader]) : chSent[chList[ChReader][i]].from # ChReader}

\* A bug for comparison: what is seen is remembered only while the panel is open.
ChCountedAgain(b) ==
    IF b.open THEN [b EXCEPT !.seen = Len(chList[ChReader]), !.unread = 0, !.due = FALSE]
    ELSE [b EXCEPT !.unread = @ + Cardinality(ChIncoming(b.seen)), !.due = FALSE]

\* An open panel has shown all; a closed one counts what came since the last time.
ChCounted(b) ==
    [b EXCEPT !.unread = IF b.open THEN 0 ELSE @ + Cardinality(ChIncoming(b.seen)),
              !.seen = Len(chList[ChReader]), !.due = FALSE]

\* The effect on [chat.messages, panel], after a render that may hold several changes.
ChEffect ==
    /\ ChReader \in chHere
    /\ chBadge.due
    /\ chBadge' = ChCounted(chBadge)
    /\ chMark' = IF chBadge.open THEN Len(chList[ChReader]) ELSE chMark
    /\ UNCHANGED <<chSent, chHere, chList, chWire, chStream, chUrls>>

ChNext ==
    \/ \E u \in ChUsers :
        \/ ChSendText(u)
        \/ ChSendImage(u)
        \/ ChTextIn(u)
        \/ ChLeave(u)
    \/ ChPanel
    \/ ChEffect
    \/ \E id \in ChIds :
        \/ ChTextFails(id)
        \/ ChTextOut(id)
        \/ ChPrepared(id)
        \/ ChImageOut(id)
    \/ \E s \in chStream : ChImageIn(s) \/ ChImageLost(s)

ChSpec == ChInit /\ [][ChNext]_chVars

----
(* Properties.                                                              *)

\* A text that anybody sees, its sender included, was published to all who were
\* there, nobody sees it twice, and whoever is there sees, or is about to, the texts
\* of a user as that user sees them: all of them, and in their order; an image its
\* sender sees may have reached nobody.
ChTexts(v, s) == {id \in ToSet(s) : chSent[id].kind = "text" /\ chSent[id].from = v}
ChInOrder(s, x, y) == \E i, j \in DOMAIN s : i < j /\ s[i] = x /\ s[j] = y
ChTold ==
    \A u \in ChUsers :
        LET got == chList[u] \o chWire[u] IN
        /\ \A id \in ToSet(chList[u]) : chSent[id].kind = "text" => chSent[id].state = "shared"
        /\ IsInjective(got)
        /\ u \in chHere =>
             \A v \in ChUsers :
                /\ ChTexts(v, got) = ChTexts(v, chList[v])
                /\ \A x, y \in ChTexts(v, got) :
                      ChInOrder(got, x, y) => ChInOrder(chList[v], x, y)

\* Leaving releases every image the page ever showed.  What a page that has left does
\* hold, and for ever, are images that were still being prepared or received when it
\* left (datachannel.ts:119, "Release object URLs when the chat unmounts").
ChReleased ==
    \A u \in ChUsers \ chHere : \A id \in chUrls[u] : id \notin ToSet(chList[u])

\* The badge counts exactly the messages of others that came since the panel was last
\* seen open, each once, however renders batch messages and clicks.
ChUnread ==
    ~chBadge.due => chBadge.unread = Cardinality(ChIncoming(chMark))
=============================================================================
