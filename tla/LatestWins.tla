----------------------------- MODULE LatestWins -----------------------------
(***************************************************************************)
(* What a serialised switch promises.  Wishes are tried one at a time and  *)
(* in the order they were made; a try shows its wish, or fails and leaves  *)
(* what was shown or nothing.  Nothing shows a wish after a later one has  *)
(* been tried.  A target that is replaced starts afresh.                   *)
(***************************************************************************)
EXTENDS Sequences

CONSTANTS Wishes, Off

VARIABLES
    shown, \* what the target shows
    queue  \* wishes not yet tried, oldest first

Init == shown = Off /\ queue \in {<<>>} \cup {<<w>> : w \in Wishes}

Wish(w) == queue' = Append(queue, w) /\ UNCHANGED shown

\* The oldest wish is tried; a wish for Off may also be what a failure leaves.
Try == /\ queue # <<>>
       /\ shown' \in {Head(queue), shown, Off}
       /\ queue' = Tail(queue)

Replace == shown' = Off /\ queue' \in {<<>>} \cup {<<w>> : w \in Wishes}

Next == Try \/ Replace \/ \E w \in Wishes : Wish(w)

Spec == Init /\ [][Next]_<<shown, queue>>
=============================================================================
