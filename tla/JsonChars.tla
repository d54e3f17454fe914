----------------------------- MODULE JsonChars -----------------------------
(***************************************************************************)
(* The characters of a double quoted string: chars() reads them, one turn  *)
(* of its loop a step, and escape() writes them.  What has been read is    *)
(* written and read once more; so is binary data, as base64.  Characters   *)
(* are bytes.                                                              *)
(***************************************************************************)
EXTENDS Base64

CONSTANTS
    Inputs,  \* what may follow the opening quote
    Binary   \* binary data that may be written

ASSUME CharsAssumption == \A s \in Inputs \cup Binary : s \in Seq(0..255)

VARIABLES
    input,   \* from _input to _input_end
    q,       \* how many of them are read
    reach,   \* the last of them that was looked at
    out,     \* *result
    status,  \* "scan", "ok" or "error"
    source   \* where the input is from: <<"given">>, or <<"string", s>> or
             \* <<"data", d>> that jsonString() has written

chars == <<input, q, reach, out, status, source>>

Quote == 34
Backslash == 92
HexDigits == (48..57) \cup (65..70) \cup (97..102)
Controls == 0..31

\* The letters behind a backslash, and what they stand for.
Named == [c \in {98, 102, 110, 114, 116, 118} |->
             CASE c = 98 -> 8 [] c = 102 -> 12 [] c = 110 -> 10 [] c = 114 -> 13 [] c = 116 -> 9 [] c = 118 -> 11]

-----------------------------------------------------------------------------
(* fromHex, toHexLower, encodeUTF8, escape *)

Digit(c) == CASE c <= 57 -> c - 48 [] c \in 97..102 -> c - 87 [] OTHER -> c - 55
HexByte(hi, lo) == 16 * Digit(hi) + Digit(lo)
LowerDigit(n) == IF n < 10 THEN 48 + n ELSE 87 + n

\* Mutant of EncodeUTF8: the border of the two byte form.
MutEncodeUTF8Short(first, second) ==
    IF first = 0 /\ second < 128 THEN <<second>>
    ELSE IF first < 16 THEN <<192 + ((first * 4 + second \div 64) % 64), 128 + (second % 64)>>
    ELSE <<224 + first \div 16, 128 + ((first * 4 + second \div 64) % 64), 128 + (second % 64)>>

EncodeUTF8(first, second) ==
    IF first = 0 /\ second < 128 THEN <<second>>
    ELSE IF first < 8 THEN <<192 + first * 4 + second \div 64, 128 + (second % 64)>>
    ELSE <<224 + first \div 16, 128 + ((first * 4 + second \div 64) % 64), 128 + (second % 64)>>

\* Mutant of EscapeOne: control characters without a letter are copied.
MutEscapeOneRaw(c) == IF c \in {Quote, Backslash} THEN <<Backslash, c>> ELSE <<c>>

EscapeOne(c) ==
    CASE c \in {Quote, Backslash} -> <<Backslash, c>>
      [] c \in {8, 9, 10, 12, 13} -> <<Backslash, CHOOSE n \in DOMAIN Named : Named[n] = c>>
      [] c \in Controls \ {8, 9, 10, 12, 13} ->
             <<Backslash, 117, 48, 48, LowerDigit(c \div 16), LowerDigit(c % 16)>>
      [] OTHER -> <<c>>

\* What escape() has written after each character of s.
Escaping(s) ==
    LET text[i \in 0..Len(s)] == IF i = 0 THEN <<>> ELSE text[i - 1] \o EscapeOne(s[i])
    IN  text

Escape(s) == Escaping(s)[Len(s)]

-----------------------------------------------------------------------------
(* chars *)

\* Reading past the end finds the terminator, at best.
At(i) == IF i <= Len(input) THEN input[i] ELSE 0
Looked(i) == reach' = IF i > reach THEN i ELSE reach

Scanning == status = "scan" /\ q < Len(input)
Error == status' = "error" /\ UNCHANGED <<q, out>>
Take(n, bytes) == q' = q + n /\ out' = out \o bytes /\ UNCHANGED status

Terminal ==
    /\ Scanning /\ At(q + 1) = Quote /\ Looked(q + 1)
    /\ status' = "ok" /\ UNCHANGED <<q, out>>

Plain ==
    /\ Scanning /\ At(q + 1) # Quote /\ Looked(q + 1)
    /\ IF At(q + 1) \in Controls THEN Error
       ELSE ~(At(q + 1) = Backslash /\ q + 1 < Len(input)) /\ Take(1, <<At(q + 1)>>)

Escaped == Scanning /\ At(q + 1) = Backslash /\ q + 1 < Len(input)

\* A backslash and one more character, except u.
Escape2 ==
    /\ Escaped /\ At(q + 2) # 117 /\ Looked(q + 2)
    /\ IF At(q + 2) \in {120} \cup (48..55) THEN Error
       ELSE Take(2, <<IF At(q + 2) \in DOMAIN Named THEN Named[At(q + 2)] ELSE At(q + 2)>>)

\* Mutants of RoomForHex: room for one byte; the closing quote counted twice.
MutRoomForHexByte == q + 4 < Len(input)
MutRoomForHexMore == q + 7 < Len(input)

\* q + 4 < _input_end, with q at the first digit.
RoomForHex == q + 6 < Len(input)

EscapeU ==
    /\ Escaped /\ At(q + 2) = 117
    /\ IF RoomForHex
       THEN /\ Looked(q + 6)
            /\ IF \A i \in 3..6 : At(q + i) \in HexDigits
               THEN Take(6, EncodeUTF8(HexByte(At(q + 3), At(q + 4)), HexByte(At(q + 5), At(q + 6))))
               ELSE Error
       ELSE Looked(q + 2) /\ Error

End == status = "scan" /\ q >= Len(input) /\ Error /\ UNCHANGED reach

\* jsonString() writes the string, and it is read again.
Rewrite ==
    /\ status = "ok" /\ source = <<"given">>
    /\ source' = <<"string", out>> /\ input' = Escape(out) \o <<Quote>>
    /\ q' = 0 /\ reach' = 0 /\ out' = <<>> /\ status' = "scan"

InitChars ==
    /\ \/ input \in Inputs /\ source = <<"given">>
       \/ \E d \in Binary : input = Encode(d) \o <<Quote>> /\ source = <<"data", d>>
    /\ q = 0 /\ reach = 0 /\ out = <<>> /\ status = "scan"

NextChars == ((Terminal \/ Plain \/ Escape2 \/ EscapeU \/ End) /\ UNCHANGED <<input, source>>) \/ Rewrite

CharsSpec == InitChars /\ [][NextChars]_chars

-----------------------------------------------------------------------------
(* The grammar of CHAR in json.h.  It has no escape of a decimal digit, that  *)
(* of regular expressions none of an octal one; chars() reads both alike.     *)

Decimal == 48..57
Octal == 48..55

\* UTF-8 of a code point below 65536.
Utf8(n) ==
    CASE n < 128 -> <<n>>
      [] n \in 128..2047 -> <<192 + n \div 64, 128 + (n % 64)>>
      [] OTHER -> <<224 + n \div 4096, 128 + ((n \div 64) % 64), 128 + (n % 64)>>

\* A character, if digits have no escape, as the set of what it stands for: no
\* string, or one.
CHAR(digits, t) ==
    CASE Len(t) = 1 /\ t[1] \notin Controls \cup {Quote, Backslash} -> {t}
      [] Len(t) = 2 /\ t[1] = Backslash /\ t[2] \notin {117, 120} \cup digits ->
             {<<IF t[2] \in DOMAIN Named THEN Named[t[2]] ELSE t[2]>>}
      [] Len(t) = 6 /\ t[1] = Backslash /\ t[2] = 117 /\ (\A i \in 3..6 : t[i] \in HexDigits) ->
             {Utf8(((Digit(t[3]) * 16 + Digit(t[4])) * 16 + Digit(t[5])) * 16 + Digit(t[6]))}
      [] OTHER -> {}

\* What the first characters of t stand for, as CHARS, or nothing.
Meanings(digits, t) ==
    LET upTo[k \in 0..Len(t)] ==
            IF k = 0 THEN {<<>>}
            ELSE UNION {{m \o c : m \in upTo[j], c \in CHAR(digits, SubSeq(t, j + 1, k))} : j \in 0..(k - 1)}
    IN  upTo

-----------------------------------------------------------------------------
(* Properties *)

\* \8 or \9 has been read, which chars() takes although json.h excludes them.
OtherDigit ==
    \E i \in 0..(q - 2) : /\ Meanings(Octal, input)[i] # {}
                          /\ input[i + 1] = Backslash /\ input[i + 2] \in Decimal \ Octal

\* The part of the input before the quote is CHARS of json.h, and the result is what
\* the grammar says: escapes do not swallow a quote, and \u is the UTF-8 of the code.
\* chars() takes nothing else, except \8 and \9, and reads these as the digit.
CharsAccepted ==
    status = "ok" => out \in Meanings(IF OtherDigit THEN Octal ELSE Decimal, input)[q]

\* An error is raised only if no quote ends the string, \8 and \9 taken.
CharsRejected ==
    status = "error" => \A k \in 1..Len(input) : input[k] = Quote => Meanings(Octal, input)[k - 1] = {}

\* chars() looks at nothing behind the end of the text, however an escape is cut off.
ReadsInside == reach <= Len(input)

\* A string that has been read is written by escape() so that it is read again.
EscapeRestores == source[1] = "string" => status # "error" /\ (status = "ok" => out = source[2])

\* Binary data of any length survives: encode() writes what RFC 4648 says, chars()
\* reads it, it passes the checks of binaryObject(), and decode() gives the data.
DecodeRestores ==
    source[1] = "data" =>
        /\ input = Rfc4648(source[2]) \o <<Quote>>
        /\ status # "error" /\ (status = "ok" => IsBase64(out) /\ Decode(out) = source[2])
=============================================================================
