-------------------------------- MODULE Text --------------------------------
(***************************************************************************)
(* Byte strings that the native code reads on its own: isUtf8, which       *)
(* decides whether a PHP string is sent as text or as bytes, and the lists *)
(* of percent-encoded pairs in which headers and resource attributes are   *)
(* configured.  A string is a sequence of bytes; it grows byte by byte, so *)
(* that every string over the alphabets up to the bound is met.            *)
(***************************************************************************)
EXTENDS Integers, Sequences

CONSTANTS
    Alphabet,   \* Alphabet[k]: the bytes of the strings of kind k
    MaxLength   \* MaxLength[k]: bound on the length of these strings

Byte == 0 .. 255
ASSUME AlphabetAssumption == \A k \in DOMAIN Alphabet : Alphabet[k] \subseteq Byte

VARIABLES
    kind,       \* what the string is read as
    text        \* the string

textVars == <<kind, text>>

-----------------------------------------------------------------------------
(* UTF-8 *)

Continues(c) == c \div 64 = 2     \* (c & 0xC0) == 0x80

\* utf8_table: how many bytes follow the lead byte c.
Following(c) == CASE c % 64 < 32 -> 1
                  [] c % 64 \in 32 .. 47 -> 2
                  [] c % 64 \in 48 .. 55 -> 3

\* Mutant of MultibyteAt: surrogates are let through.
MultibyteWithSurrogates(s, i) ==
    LET c == s[i]
    IN  /\ c >= 192 /\ c < 245
        /\ Len(s) - i >= Following(c)
        /\ LET d == s[i + 1]
           IN  /\ \A j \in 1 .. Following(c) : Continues(s[i + j])
               /\ CASE Following(c) = 1 -> (c % 64) \div 2 # 0
                    [] Following(c) = 2 -> ~(c = 224 /\ (d \div 32) % 2 = 0)
                    [] Following(c) = 3 -> ~(c = 240 /\ (d \div 16) % 4 = 0) /\ ~(c = 244 /\ d > 143)

\* The bytes from s[i] on are read as one character of several bytes.
MultibyteAt(s, i) ==
    LET c == s[i]
    IN  /\ c >= 192 /\ c < 245
        /\ Len(s) - i >= Following(c)
        /\ LET d == s[i + 1]
           IN  /\ \A j \in 1 .. Following(c) : Continues(s[i + j])
               /\ CASE Following(c) = 1 -> (c % 64) \div 2 # 0
                    [] Following(c) = 2 -> ~(c = 224 /\ (d \div 32) % 2 = 0) /\ ~(c = 237 /\ d >= 160)
                    [] Following(c) = 3 -> ~(c = 240 /\ (d \div 16) % 4 = 0) /\ ~(c = 244 /\ d > 143)

isUtf8(s) ==
    LET from[i \in 1 .. Len(s) + 1] ==
            IF i = Len(s) + 1 THEN TRUE
            ELSE IF s[i] < 128 THEN from[i + 1]
            ELSE MultibyteAt(s, i) /\ from[i + 1 + Following(s[i])]
    IN  from[1]

-----------------------------------------------------------------------------
(* Percent-encoded pairs *)

Comma == 44
Equals == 61
Percent == 37
HexDigits == (48 .. 57) \cup (65 .. 70) \cup (97 .. 102)
HexValue(c) == CASE c \in 48 .. 57 -> c - 48
                 [] c \in 65 .. 70 -> c - 55
                 [] c \in 97 .. 102 -> c - 87

EscapeAt(s, i) == s[i] = Percent /\ i + 2 <= Len(s) /\ s[i + 1] \in HexDigits /\ s[i + 2] \in HexDigits

percentDecode(s) ==
    LET from[i \in 1 .. Len(s) + 1] ==
            IF i = Len(s) + 1 THEN <<>>
            ELSE IF EscapeAt(s, i) THEN <<16 * HexValue(s[i + 1]) + HexValue(s[i + 2])>> \o from[i + 3]
            ELSE <<s[i]>> \o from[i + 1]
    IN  from[1]

\* Position of the first c in s from i on, or the one after the last.
Find(s, c, i) ==
    LET at == {j \in i .. Len(s) : s[j] = c}
    IN  IF at = {} THEN Len(s) + 1 ELSE CHOOSE j \in at : \A k \in at : j <= k

\* std::map::insert keeps the value a key already has.
Insert(pairs, key, value) ==
    IF \E p \in pairs : p.key = key THEN pairs ELSE pairs \cup {[key |-> key, value |-> value]}

\* The pairs of a text as they are written, and where the next one begins,
\* after each round of the loop.  A pair without '=' is skipped.
PairsOf(s) ==
    LET loop[n \in 0 .. Len(s)] ==
            IF n = 0 THEN [next |-> 1, pairs |-> {}]
            ELSE LET was == loop[n - 1]
                     comma == Find(s, Comma, was.next)
                     equal == Find(s, Equals, was.next)
                 IN  IF was.next > Len(s) THEN was
                     ELSE [next  |-> comma + 1,
                           pairs |-> IF equal >= comma THEN was.pairs
                                     ELSE Insert(was.pairs, SubSeq(s, was.next, equal - 1),
                                                 SubSeq(s, equal + 1, comma - 1))]
    IN  loop[Len(s)].pairs

parseUrlEncodedKeyValueString(s) ==
    {[key |-> p.key, value |-> percentDecode(p.value)] : p \in PairsOf(s)}

-----------------------------------------------------------------------------
TextInit == kind \in DOMAIN Alphabet /\ text = <<>>

Extend(c) ==
    /\ Len(text) < MaxLength[kind]
    /\ text' = Append(text, c)
    /\ UNCHANGED kind

TextNext == \E c \in Alphabet[kind] : Extend(c)

TextSpec == TextInit /\ [][TextNext]_textVars

-----------------------------------------------------------------------------
(* Properties *)

\* The well-formed byte sequences of one character, from table 3-7 of the
\* Unicode standard: for each row the ranges of its bytes.
Trail == 128 .. 191
WellFormed ==
    {<<0 .. 127>>, <<194 .. 223, Trail>>,
     <<{224}, 160 .. 191, Trail>>, <<225 .. 236, Trail, Trail>>, <<{237}, 128 .. 159, Trail>>, <<238 .. 239, Trail, Trail>>,
     <<{240}, 144 .. 191, Trail, Trail>>, <<241 .. 243, Trail, Trail, Trail>>, <<{244}, 128 .. 143, Trail, Trail>>}

\* s is a concatenation of such sequences.
IsWellFormed(s) ==
    LET whole[n \in 0 .. Len(s)] ==
            \/ n = 0
            \/ \E row \in WellFormed :
                 /\ Len(row) <= n
                 /\ \A i \in 1 .. Len(row) : s[n - Len(row) + i] \in row[i]
                 /\ whole[n - Len(row)]
    IN  whole[Len(s)]

\* isUtf8 accepts exactly the concatenations of well-formed sequences: neither
\* overlong forms, surrogates, values past U+10FFFF nor a character cut off at
\* the end.  What it lets through is put into a protobuf string field.
Utf8AsDefined == kind = "utf8" => (isUtf8(text) <=> IsWellFormed(text))

\* An item of a list lies between two commas, the beginning or the end; its
\* first equal sign ends the key.
Commas(s) == {i \in 1 .. Len(s) : s[i] = Comma}
Items(s) ==
    {x \in ({0} \cup Commas(s)) \X (Commas(s) \cup {Len(s) + 1}) :
        x[1] < x[2] /\ \A k \in Commas(s) : ~(x[1] < k /\ k < x[2])}
Sign(s, x) == {k \in x[1] + 1 .. x[2] - 1 : s[k] = Equals}
FirstSign(s, x) == CHOOSE k \in Sign(s, x) : \A l \in Sign(s, x) : k <= l
KeyOf(s, x) == SubSeq(s, x[1] + 1, FirstSign(s, x) - 1)

\* The first item of a key counts.
Counted(s) ==
    {x \in Items(s) : /\ Sign(s, x) # {}
                      /\ \A y \in Items(s) : y[1] < x[1] /\ Sign(s, y) # {} => KeyOf(s, y) # KeyOf(s, x)}

\* The bytes between first and last, decoded: no escape overlaps another, so each
\* position can be looked at alone.
Escape(s, k, last) == s[k] = Percent /\ k + 2 < last /\ {s[k + 1], s[k + 2]} \subseteq HexDigits
Kept(s, k, first, last) == \A d \in 1 .. 2 : k - d > first => ~Escape(s, k - d, last)
Decoded(s, k, last) ==
    IF Escape(s, k, last) THEN 16 * HexValue(s[k + 1]) + HexValue(s[k + 2]) ELSE s[k]
ValueBetween(s, first, last) ==
    LET value[k \in first .. last - 1] ==
            IF k = first THEN <<>>
            ELSE IF Kept(s, k, first, last) THEN Append(value[k - 1], Decoded(s, k, last))
            ELSE value[k - 1]
    IN  value[last - 1]

\* The headers and resource attributes read from a configured list are those
\* of its comma-separated items: an encoded comma or equal sign belongs to the
\* value, a broken escape stands for itself, the first item of a key counts.
PairsAsDefined ==
    kind = "pairs" =>
        parseUrlEncodedKeyValueString(text) =
            {[key |-> KeyOf(text, x), value |-> ValueBetween(text, FirstSign(text, x), x[2])] : x \in Counted(text)}

\* isUtf8 and parseUrlEncodedKeyValueString do what their formats define, for
\* every text.
TextAsDefined == Utf8AsDefined /\ PairsAsDefined
=============================================================================
