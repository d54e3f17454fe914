------------------------------- MODULE Base64 -------------------------------
(* base64::encode and decode, which take binary data through a JSON text.   *)
(* Data and texts are sequences of bytes.                                   *)
EXTENDS Integers, Sequences

Pad == 61  \* "="

\* Alphabet: A to Z, a to z, 0 to 9, + and /; decode[] is 0 for all others.
Encoded(n) ==
    CASE n < 26 -> 65 + n [] n \in 26..51 -> 71 + n [] n \in 52..61 -> n - 4 [] n = 62 -> 43 [] n = 63 -> 47
Char(b) == Encoded(b % 64)
Chars == {Encoded(n) : n \in 0..63}
Lookup(c) == IF c \in Chars THEN CHOOSE n \in 0..63 : Encoded(n) = c ELSE 0

Byte(n) == n % 256  \* unsigned char

\* The characters of a block of up to three bytes.
Block(b) ==
    CASE Len(b) = 1 -> <<Char(b[1] \div 4), Char(Byte(b[1] * 16))>>
      [] Len(b) = 2 -> <<Char(b[1] \div 4), Char(Byte(b[1] * 16) + (b[2] \div 16)), Char((b[2] % 16) * 4)>>
      [] OTHER -> <<Char(b[1] \div 4), Char(Byte(b[1] * 16) + (b[2] \div 16)),
                    Char(((b[2] % 16) * 4) + (b[3] \div 64)), Char(b[3])>>

Padding(size) == CASE size % 3 = 0 -> <<>> [] size % 3 = 1 -> <<Pad, Pad>> [] size % 3 = 2 -> <<Pad>>

\* Turns of a loop that takes pieces of length n, the last of which may be shorter.
Turns(s, n) == (Len(s) + n - 1) \div n
Piece(s, n, k) == SubSeq(s, n * (k - 1) + 1, IF n * k < Len(s) THEN n * k ELSE Len(s))

Encode(data) ==
    LET text[k \in 0..Turns(data, 3)] == IF k = 0 THEN <<>> ELSE text[k - 1] \o Block(Piece(data, 3, k))
    IN  text[Turns(data, 3)] \o Padding(Len(data))

\* Mutant of Quad: the third character is not looked at.
MutQuadPad(c) ==
    LET v(k) == Lookup(c[k])
        buf == <<Byte(v(1) * 4) + ((v(2) \div 16) % 4), Byte(v(2) * 16) + (v(3) \div 4), Byte(v(3) * 64) + v(4)>>
    IN  SubSeq(buf, 1, IF c[4] = Pad THEN 2 ELSE 3)

\* The bytes of four characters.
Quad(c) ==
    LET v(k) == Lookup(c[k])
        buf == <<Byte(v(1) * 4) + ((v(2) \div 16) % 4), Byte(v(2) * 16) + (v(3) \div 4), Byte(v(3) * 64) + v(4)>>
    IN  SubSeq(buf, 1, IF c[4] # Pad THEN 3 ELSE IF c[3] # Pad THEN 2 ELSE 1)

\* Of a text whose length is a multiple of 4.
Decode(text) ==
    LET data[k \in 0..Turns(text, 4)] == IF k = 0 THEN <<>> ELSE data[k - 1] \o Quad(Piece(text, 4, k))
    IN  data[Turns(text, 4)]

\* What binaryObject() asks of the text.
IsBase64(text) == Len(text) % 4 = 0 /\ \A i \in 1..Len(text) : text[i] \in Chars \cup {Pad}

-----------------------------------------------------------------------------
\* RFC 4648, to compare with: zeros are added up to a multiple of three bytes,
\* each three are a number of four digits in base 64, and digits that come from
\* the added zeros alone are "=".
Rfc4648(data) ==
    LET added == (3 - (Len(data) % 3)) % 3
        full == data \o [k \in 1..added |-> 0]
        number(k) == full[3 * k - 2] * 65536 + full[3 * k - 1] * 256 + full[3 * k]
        places == <<262144, 4096, 64, 1>>
        digit(k, j) == (number(k) \div places[j]) % 64
        size == 4 * (Len(full) \div 3)
    IN  [i \in 1..size |->
            IF i > size - added THEN Pad ELSE Encoded(digit((i + 3) \div 4, ((i - 1) % 4) + 1))]
=============================================================================
