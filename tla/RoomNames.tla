------------------------------ MODULE RoomNames ------------------------------
(***************************************************************************)
(* From a name typed on Home to a room and its link, and back             *)
(* (frontend/src/lib/rooms.ts, pages/Home.tsx).  A character is typed at a *)
(* time; what it is transliterated to is what the slug is made of.         *)
(***************************************************************************)
EXTENDS Naturals, SequencesExt

CONSTANTS
    RnChars,    \* characters typed: a sample of every class
    RnMaxInput, \* the input's maxLength
    RnMaxSlug   \* where a slug is cut

ASSUME RnAssumption == RnMaxInput \in Nat /\ RnMaxSlug \in Nat

VARIABLE rnTyped
rnVars == <<rnTyped>>

RnSlugChars == {"a", "b", "c", "h", "i", "p", "r", "s", "t", "7"}

\* One typed character, lower-cased: kept, transliterated, or a hyphen.
RnTranslit(c) ==
    CASE c \in RnSlugChars -> <<c>>
      [] c = "A" -> <<"a">>
      [] c = "shcha" -> <<"s", "c", "h">>
      [] c = "soft-sign" -> <<>>
      [] OTHER -> <<"-">>

RnTypeOK == rnTyped \in Seq(RnChars) /\ Len(rnTyped) <= RnMaxInput

RnTranslits(raw) ==
    LET out[n \in 0..Len(raw)] == IF n = 0 THEN <<>> ELSE out[n - 1] \o RnTranslit(raw[n])
    IN out[Len(raw)]

\* Runs of hyphens collapse to one.
RnCollapse(s) ==
    LET out[n \in 0..Len(s)] ==
          IF n = 0 THEN <<>>
          ELSE IF n > 1 /\ s[n] = "-" /\ s[n - 1] = "-" THEN out[n - 1]
          ELSE Append(out[n - 1], s[n])
    IN out[Len(s)]

RnTrim(s) ==
    LET inner == {i \in DOMAIN s : s[i] # "-"} IN
    IF inner = {} THEN <<>> ELSE SubSeq(s, Min(inner), Max(inner))

RnCut(s) == SubSeq(s, 1, IF Len(s) < RnMaxSlug THEN Len(s) ELSE RnMaxSlug)

\* A bug for comparison: trimmed before it is cut.
RnSlugifyCutLast(raw) ==
    RnCut(RnTrim(RnCollapse(RnTranslits(raw))))

\* The trim of spaces at the ends is the trim of their hyphens.
RnSlugify(raw) ==
    RnTrim(RnCut(RnCollapse(RnTranslits(raw))))

\* One of the names the edge keeps for itself, and long enough.
RnReserved == {<<"a", "p", "i">>, <<"r", "t", "c">>}
RnValid(slug) == Len(slug) >= 3 /\ slug \notin RnReserved

\* The link's path, with the slug as its first segment, and what roomFromUrl and
\* parseRoomInput find in it.
RnLink(slug) == <<"/">> \o slug
RnFromUrl(path) ==
    LET bare == SubSeq(path, 2, Len(path))
        ends == {i \in DOMAIN bare : bare[i] \in {"/", "?", "#"}}
    IN IF ends = {} THEN bare ELSE SubSeq(bare, 1, Min(ends) - 1)

RnInit == rnTyped = <<>>

RnType(c) ==
    /\ Len(rnTyped) < RnMaxInput
    /\ rnTyped' = Append(rnTyped, c)

RnNext == \E c \in RnChars : RnType(c)

RnSpec == RnInit /\ [][RnNext]_rnVars

----
(* Properties.                                                              *)

\* A name that is accepted is a link that leads back to it: only letters, digits and
\* single inner hyphens, within its length, the same
\* if it is typed again, and read back from the address bar as it was.
RnUsable ==
    LET slug == RnSlugify(rnTyped) IN
    /\ ToSet(slug) \subseteq RnSlugChars \cup {"-"}
    /\ Len(slug) <= RnMaxSlug
    /\ slug # <<>> => slug[1] # "-" /\ slug[Len(slug)] # "-"
    /\ RnSlugify(slug) = slug
    /\ RnValid(slug) => RnFromUrl(RnLink(slug)) = slug
=============================================================================
