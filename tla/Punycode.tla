------------------------------- MODULE Punycode -------------------------------
(* Internationalised labels of a publisher's host names: which texts after   *)
(* xn-- the rules accept (internal/publisher/rules/punycode.go).  The package*)
(* has the decoder of RFC 3492 only and no check that encoding again gives   *)
(* the label back: two spellings of one host would be two publishers.        *)
EXTENDS Integers, SequencesExt, FiniteSetsExt

CONSTANTS Letter, MaxLetters  \* code points, and how many make a text

VARIABLE text  \* a label as it is written, or the name it is to spell

PunycodeTypeOK == text \in Seq(Letter) /\ Len(text) <= MaxLetters

Init == text = <<>>
Write == Len(text) < MaxLetters /\ \E c \in Letter : text' = Append(text, c)
Next == Write
Spec == Init /\ [][Next]_text

-----------------------------------------------------------------------------
(* The decoder *)

Base == 36
TMin == 1
TMax == 26
Skew == 38
Damp == 700
InitialBias == 72
InitialN == 128
MaxCodePoint == 1114111
Hyphen == 45

\* a-z and 0-9; -1 where a character is no digit.
Digit(c) == IF c \in 97 .. 122 THEN c - 97 ELSE IF c \in 48 .. 57 THEN c - 22 ELSE -1

Threshold(k, bias) == Min({Max({k - bias, TMin}), TMax})

\* The bias after a number: deltas are scaled down until they fit.
Adapt(delta, points, first) ==
    LET damped == IF first THEN delta \div Damp ELSE delta \div 2
        Scaled[d \in Nat] ==
            IF d > ((Base - TMin) * TMax) \div 2
            THEN Base + Scaled[d \div (Base - TMin)]
            ELSE ((Base - TMin + 1) * d) \div (d + Skew)
    IN  Scaled[damped + damped \div points]

\* A mutant of Cut: the first hyphen.
CutFirst(s) == IF \E p \in DOMAIN s : s[p] = Hyphen THEN Min({p \in DOMAIN s : s[p] = Hyphen}) ELSE 0

\* The part before the last hyphen is the name's ASCII letters as they are.
Cut(s) == Max({0} \cup {p \in DOMAIN s : s[p] = Hyphen})

\* One digit of a number.  The last one, below the threshold, ends it: the
\* number says how far the code point and the position move on from the last
\* letter.  (punyLimit, 2^40, is beyond what MaxLetters digits make.)
Took(d, c) ==
    LET i == d.i + Digit(c) * d.weight
        t == Threshold(d.k, d.bias)
        points == Len(d.out) + 1
        n == d.n + i \div points
    IN  CASE ~d.ok \/ Digit(c) < 0 -> [d EXCEPT !.ok = FALSE]
          [] d.ok /\ Digit(c) >= t ->
                [d EXCEPT !.i = i, !.weight = @ * (Base - t), !.k = @ + Base, !.open = TRUE]
          [] d.ok /\ Digit(c) \in 0 .. t - 1 ->
                [out |-> InsertAt(d.out, (i % points) + 1, n), n |-> n,
                 i |-> (i % points) + 1, from |-> (i % points) + 1,
                 bias |-> Adapt(i - d.from, points, d.from = 0),
                 weight |-> 1, k |-> Base, open |-> FALSE, ok |-> n <= MaxCodePoint]

\* A lone leading hyphen, a letter beyond ASCII before the last one, and a
\* number that does not end are refused.
Decode(s) ==
    LET basic == SubSeq(s, 1, Cut(s) - 1)
        all == FoldLeft(Took,
                   [out |-> basic, n |-> InitialN, i |-> 0, from |-> 0, bias |-> InitialBias, weight |-> 1,
                    k |-> Base, open |-> FALSE, ok |-> Cut(s) # 1 /\ \A p \in DOMAIN basic : basic[p] < 128],
                   SubSeq(s, Cut(s) + 1, Len(s)))
    IN  [name |-> all.out, ok |-> all.ok /\ ~all.open]

\* U+00E0 to U+00FF without the division sign.
Latin1Letter(c) == c \in 224 .. 255 \ {247}

\* punycodeLabel, as the rule calls it.
Accepts(s) ==
    LET name == Decode(s).name
        beyond == {p \in DOMAIN name : name[p] >= 128}
    IN  /\ Decode(s).ok /\ name # <<>>
        /\ Hyphen \notin {name[1], name[Len(name)]}
        /\ beyond # {} /\ \A p \in beyond : Latin1Letter(name[p])
        /\ ~(Len(name) >= 4 /\ name[3] = Hyphen /\ name[4] = Hyphen)

-----------------------------------------------------------------------------
(* What it promises *)

\* The letters beyond ASCII in the order in which they are inserted.
Inserted(name) ==
    SetToSortSeq({p \in DOMAIN name : name[p] >= 128},
                 LAMBDA p, q : name[p] < name[q] \/ (name[p] = name[q] /\ p < q))

\* How far the j-th of them moves the code point and the position on.
Moves(name, j) ==
    LET order == Inserted(name)
        Present(m) == {p \in DOMAIN name : name[p] < 128} \cup {order[l] : l \in 1 .. m - 1}
        Position(m) == Cardinality({p \in Present(m) : p < order[m]})
        n == IF j = 1 THEN InitialN ELSE name[order[j - 1]]
        i == IF j = 1 THEN 0 ELSE Position(j - 1) + 1
    IN  (name[order[j]] - n) * (Cardinality(Present(j)) + 1) + Position(j) - i

\* A number in digits whose thresholds follow the bias.
Number(delta, bias) ==
    LET Letters == [d \in 0 .. Base - 1 |-> IF d < 26 THEN d + 97 ELSE d + 22]
        Rest[q \in Nat, k \in Nat] ==
            LET t == Threshold(k, bias) IN
            IF q < t THEN <<Letters[q]>>
            ELSE <<Letters[t + ((q - t) % (Base - t))]>> \o Rest[(q - t) \div (Base - t), k + Base]
    IN  Rest[delta, Base]

\* The encoder of RFC 3492: the one spelling of a name.
Encode(name) ==
    LET basic == SelectSeq(name, LAMBDA c : c < 128)
        order == Inserted(name)
        After(all, j) ==
            [out |-> all.out \o Number(Moves(name, j), all.bias),
             bias |-> Adapt(Moves(name, j), Len(basic) + j, j = 1)]
    IN  FoldLeft(After, [out |-> basic \o (IF basic = <<>> THEN <<>> ELSE <<Hyphen>>), bias |-> InitialBias],
                 [j \in 1 .. Len(order) |-> j]).out

\* Names of Latin-1 letters that every parser takes as they are.
HostName(name) ==
    /\ \E p \in DOMAIN name : name[p] >= 128
    /\ \A p \in DOMAIN name : name[p] >= 128 => Latin1Letter(name[p])
    /\ name[1] # Hyphen /\ name[Len(name)] # Hyphen
    /\ ~(Len(name) >= 4 /\ SubSeq(name, 3, 4) = <<Hyphen, Hyphen>>)

\* A label that is accepted is the only spelling of a host name, and every
\* host name has a spelling that is accepted: "a lower-case label has exactly
\* one encoding and nothing that the host loop lets through has a second"
\* (punycode.go:5-30).
OneSpelling ==
    /\ (\A p \in DOMAIN text : text[p] < 128) /\ Accepts(text) =>
           HostName(Decode(text).name) /\ Encode(Decode(text).name) = text
    /\ (\E p \in DOMAIN text : text[p] >= 128) => (Accepts(Encode(text)) <=> HostName(text))
=============================================================================
