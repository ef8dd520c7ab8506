-------------------------------- MODULE Faces --------------------------------
(***************************************************************************)
(* The initials and the hue of a participant, computed twice: in the page  *)
(* (frontend/src/components/Avatar.tsx) and, for the lobby of those who    *)
(* are not in yet, in the backend (httpapi/presence.go).  JavaScript works *)
(* on UTF-16 units, Go on code points; each has its own arithmetic modulo  *)
(* 2^32, its own white space and its own upper case.                       *)
(***************************************************************************)
EXTENDS Naturals, SequencesExt

CONSTANTS
    FcChars,  \* the code points a name is made of
    FcMaxName \* the longest name

ASSUME FcAssumption == FcChars \subseteq Nat /\ FcMaxName \in Nat

VARIABLE fcName \* the name typed in the lobby
fcVars == <<fcName>>

FcTypeOK == fcName \in Seq(FcChars) /\ Len(fcName) <= FcMaxName

FcHyphen == 45
FcNextLine == 133   \* U+0085, white space in Go
FcMark == 65279     \* U+FEFF, white space in JavaScript
FcSharpS == 223     \* of the letters whose upper case is longer
FcHues == <<4, 16, 28, 42, 140, 162, 178, 194, 210, 228, 250, 274, 300, 330>>

\* The units of a code point: itself, or a surrogate pair.
FcUnits(c) ==
    IF c < 65536 THEN <<c>>
    ELSE <<55296 + ((c - 65536) \div 1024), 56320 + ((c - 65536) % 1024)>>
FcUTF16(name) ==
    LET units[n \in 0..Len(name)] == IF n = 0 THEN <<>> ELSE units[n - 1] \o FcUnits(name[n])
    IN units[Len(name)]

\* White space of both, and the hyphen.
FcBlanks == 9..13 \cup {32, 160, 5760, 8232, 8233, 8239, 8287, 12288} \cup 8192..8202
FcPageBreaks == FcBlanks \cup {FcHyphen, FcMark}
FcBackendBreaks == FcBlanks \cup {FcHyphen, FcNextLine}

\* Where words begin, and the first two characters of the word that begins at i.
FcStarts(s, breaks) ==
    {i \in DOMAIN s : s[i] \notin breaks /\ (i > 1 => s[i - 1] \in breaks)}
FcTwo(s, i, breaks) ==
    IF i < Len(s) /\ s[i + 1] \notin breaks THEN <<s[i], s[i + 1]>> ELSE <<s[i]>>

\* unicode.ToUpper and toUpperCase, of Latin (also the fullwidth) and Cyrillic letters.
FcSimple(c) == IF c \in 97..122 \cup 1072..1103 \cup 65345..65370 THEN c - 32 ELSE c
FcFull(c) == IF c = FcSharpS THEN <<83, 83>> ELSE <<FcSimple(c)>>

\* strings.ToUpper and toUpperCase, of the one or two characters shown.
FcBackendUpper(s) == [i \in DOMAIN s |-> FcSimple(s[i])]
FcPageUpper(s) == IF Len(s) = 1 THEN FcFull(s[1]) ELSE FcFull(s[1]) \o FcFull(s[2])

\* The page's hash: Math.imul(h, 31), then the unit added and >>> 0, on the two 16-bit
\* halves of h.
FcZero == [low |-> 0, high |-> 0]
FcImul(h) ==
    LET low == h.low * 31 IN
    [low |-> low % 65536, high |-> (h.high * 31 + (low \div 65536)) % 65536]
FcPlus(h, c) ==
    LET low == h.low + c IN
    [low |-> low % 65536, high |-> (h.high + (low \div 65536)) % 65536]
FcPageHash(units) ==
    LET hash[n \in 0..Len(units)] ==
          IF n = 0 THEN FcZero ELSE FcPlus(FcImul(hash[n - 1]), units[n])
    IN hash[Len(units)]

\* The backend's: h*31 + c on a uint32; a code point has more than 16 bits.
FcWrapped(h, c) ==
    LET low == h.low * 31 + c IN
    [low |-> low % 65536, high |-> (h.high * 31 + (low \div 65536)) % 65536]
FcBackendHash(name) ==
    LET hash[n \in 0..Len(name)] ==
          IF n = 0 THEN FcZero ELSE FcWrapped(hash[n - 1], name[n])
    IN hash[Len(name)]

\* The hash modulo the fourteen hues; 65536 is 2 modulo 14.
FcHueAt(h) == FcHues[((h.high * 2 + h.low) % 14) + 1]

\* An empty key counts as "?".
FcKey(key) == IF key = <<>> THEN <<63>> ELSE key

\* The page's initials: first and last word, or two units of the only one.
FcPageInitials(units) ==
    LET starts == FcStarts(units, FcPageBreaks)
        first == Min(starts)
        last == Max(starts)
    IN  IF starts = {} THEN <<63>>
        ELSE IF first = last THEN FcPageUpper(FcTwo(units, first, FcPageBreaks))
        ELSE FcPageUpper(<<units[first], units[last]>>)

\* The backend's, of code points.
FcBackendInitials(name) ==
    LET starts == FcStarts(name, FcBackendBreaks)
        first == Min(starts)
        last == Max(starts)
    IN  IF starts = {} THEN <<63>>
        ELSE IF first = last THEN FcBackendUpper(FcTwo(name, first, FcBackendBreaks))
        ELSE FcBackendUpper(<<name[first], name[last]>>)

\* The page's twin.
FcPage(name) ==
    [initials |-> FcPageInitials(FcUTF16(name)), hue |-> FcHueAt(FcPageHash(FcKey(FcUTF16(name))))]

\* A bug for comparison: the twins disagree on a participant without a name.
FcBackendBare(name) ==
    [initials |-> FcUTF16(FcBackendInitials(name)), hue |-> FcHueAt(FcBackendHash(name))]

\* The backend's twin, as its answer is shown.
FcBackend(name) ==
    [initials |-> FcUTF16(FcBackendInitials(name)), hue |-> FcHueAt(FcBackendHash(FcKey(name)))]

FcInit == fcName = <<>>

FcType(c) ==
    /\ Len(fcName) < FcMaxName
    /\ fcName' = Append(fcName, c)

FcNext == \E c \in FcChars : FcType(c)

FcSpec == FcInit /\ [][FcNext]_fcVars

----
(* Properties.                                                              *)

FcHas(odd) == ToSet(fcName) \cap odd # {}

\* A participant has the same hue in the lobby and in the call, unless the name has a
\* character beyond the basic plane, of which the page hashes two halves; and the same
\* initials, unless it has one of those, or white space of one twin only, or a letter
\* of which one twin makes two.
FcSameFace ==
    \/ \E c \in ToSet(fcName) : c >= 65536
    \/ /\ FcPage(fcName).hue = FcBackend(fcName).hue
       /\ \/ FcHas({FcNextLine, FcMark, FcSharpS})
          \/ FcPage(fcName).initials = FcBackend(fcName).initials
=============================================================================
