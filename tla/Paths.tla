-------------------------------- MODULE Paths --------------------------------
(* The path people type to name a place inside a database                   *)
(* (internal/datapath): how a text is resolved against the current place    *)
(* and how a place is written again.  A text is a sequence of characters;   *)
(* "%2F" and "%2E" stand for the six escapes of record.EscapeID, "%" for a  *)
(* per cent sign that starts none of them, "ctl" for a control character.   *)
EXTENDS Naturals, FiniteSets, SequencesExt

CONSTANTS
    MaxText,  \* bound: the length of a typed text
    MaxDepth  \* bound: how deep a place is from which another is named

VARIABLES place  \* where a person is: its segments, unescaped

Typed == {"a", ".", "/", "%2F", "%2E", "%", "ctl"}
Text == UNION {[1..n -> Typed] : n \in 0..MaxText}
Decoded == {"a", ".", "/", "ctl"}

PathsTypeOK == \A i \in DOMAIN place : Len(place[i]) \in 1..MaxText /\ ToSet(place[i]) \subseteq Decoded

\* strings.Split(text, "/")
Parts(text) ==
    FoldLeft(LAMBDA parts, c : IF c = "/" THEN Append(parts, <<>>)
                               ELSE [parts EXCEPT ![Len(parts)] = Append(@, c)],
             <<<<>>>>, text)

\* A mutant of EscapeID: the separator is left as it is.
EscapeDots(c) == IF c = "." THEN "%2E" ELSE c

\* record.EscapeID of one character, and back
EscapeID(c) == CASE c = "/" -> "%2F" [] c = "." -> "%2E" [] OTHER -> c

Unescape(c) == CASE c = "%2F" -> "/" [] c = "%2E" -> "." [] OTHER -> c

\* A mutant of Misleading: the text is looked at before it is decoded.
MisleadingText(segment) == "ctl" \in ToSet(segment) \/ segment \in {<<".">>, <<".", ".">>}

\* A decoded segment that storage could take for a place (checkSegment).
Misleading(segment) ==
    \/ "ctl" \in ToSet(segment)
    \/ \E part \in ToSet(Parts(segment)) : part \in {<<>>, <<".">>, <<".", ".">>}

Invalid(part) == "%" \in ToSet(part) \/ Misleading([i \in DOMAIN part |-> Unescape(part[i])])

\* Resolve: one part after the other, from the root or from base.
Stays(part) == part \in {<<>>, <<".">>}
Up == <<".", ".">>
Refused(text) == \E part \in ToSet(Parts(text)) : ~Stays(part) /\ part # Up /\ Invalid(part)
ResolvePart(path, part) ==
    CASE Stays(part) -> path
      [] part = Up -> IF path = <<>> THEN <<>> ELSE Front(path)
      [] OTHER -> Append(path, [i \in DOMAIN part |-> Unescape(part[i])])
Resolve(base, text) ==
    FoldLeft(ResolvePart, IF text # <<>> /\ text[1] = "/" THEN <<>> ELSE base, Parts(text))

\* Path.String and Path.Key
Written(path) ==
    IF path = <<>> THEN <<"/">>
    ELSE FoldLeft(LAMBDA text, segment : text \o <<"/">> \o [i \in DOMAIN segment |-> EscapeID(segment[i])],
                  <<>>, path)
Key(path) == Tail(Written(path))
FromKey(key) == Resolve(<<>>, <<"/">> \o key)

Init == place = <<>>

\* A person names a place from where they are; what is refused changes nothing.
Go(text) == ~Refused(text) /\ place' = Resolve(place, text)

Next == Len(place) <= MaxDepth /\ \E text \in Text : Go(text)

Spec == Init /\ [][Next]_place

-----------------------------------------------------------------------------
(* Properties *)

\* A place that is written and typed again, or handed to the server as a key
\* and read back, is the same place: ids that hold separators and dots
\* included (datapath.go:58-68, 78-80, 122-125).
SamePlace ==
    /\ ~Refused(Written(place)) /\ Resolve(<<>>, Written(place)) = place
    /\ FromKey(Key(place)) = place

\* No id that was typed in could lead storage out of its collection: no part
\* of it between separators is empty, "." or ".." (datapath.go:161-167).
StaysInside ==
    \A i \in DOMAIN place : \A part \in ToSet(Parts(place[i])) :
        part # <<>> /\ (ToSet(part) = {"."} => Len(part) > 2)

PathsComeBack == SamePlace /\ StaysInside
=============================================================================
