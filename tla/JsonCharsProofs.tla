-------------------------- MODULE JsonCharsProofs --------------------------
(***************************************************************************)
(* Strings of any length, of any bytes: chars() reads nothing behind the   *)
(* end of its text, reads back what escape() writes, and accepts what the  *)
(* grammar in json.h has; base64 is RFC 4648, and is read back.            *)
(*                                                                         *)
(* The loops of escape(), encode() and decode() are functions of the       *)
(* number of turns, and what they compute is proved by induction over it.  *)
(***************************************************************************)
EXTENDS JsonChars, DataInduction, TLAPS

Bytes == 0..255

-----------------------------------------------------------------------------
(* What escape() writes *)

\* The names of control characters are found.
LEMMA NamedInverse ==
    ASSUME NEW c \in {8, 9, 10, 12, 13}
    PROVE  LET n == CHOOSE n \in DOMAIN Named : Named[n] = c
           IN  n \in DOMAIN Named /\ Named[n] = c
<1>1. /\ DOMAIN Named = {98, 102, 110, 114, 116, 118}
      /\ Named[98] = 8 /\ Named[102] = 12 /\ Named[110] = 10 /\ Named[114] = 13 /\ Named[116] = 9
    BY DEF Named
<1>2. \E n \in DOMAIN Named : Named[n] = c
    BY <1>1
<1> QED
    BY <1>2

\* A hexadecimal digit is written and read.
LEMMA LowerDigitProps ==
    ASSUME NEW n \in 0..15
    PROVE  LowerDigit(n) \in HexDigits /\ LowerDigit(n) \in Bytes /\ Digit(LowerDigit(n)) = n
<1>1. CASE n < 10
    BY <1>1 DEF LowerDigit, HexDigits, Bytes, Digit
<1>2. CASE n >= 10
    <2>1. LowerDigit(n) = 87 + n /\ 87 + n \in 97..102
        BY <1>2 DEF LowerDigit
    <2>2. Digit(87 + n) = n
        BY <1>2, <2>1 DEF Digit
    <2> QED
        BY <2>1, <2>2 DEF HexDigits, Bytes
<1> QED
    BY <1>1, <1>2

\* How escape() writes a character.
LEMMA EscapeOneProps ==
    ASSUME NEW c \in Bytes
    PROVE  LET w == EscapeOne(c)
           IN  /\ w \in Seq(Bytes)
               /\ \/ Len(w) = 1 /\ w[1] = c /\ c \notin Controls \cup {Quote, Backslash}
                  \/ /\ Len(w) = 2 /\ w[1] = Backslash /\ w[2] \notin {117, 120} \cup (48..55)
                     /\ c = IF w[2] \in DOMAIN Named THEN Named[w[2]] ELSE w[2]
                  \/ /\ Len(w) = 6 /\ w[1] = Backslash /\ w[2] = 117
                     /\ \A i \in 3..6 : w[i] \in HexDigits
                     /\ HexByte(w[3], w[4]) = 0 /\ HexByte(w[5], w[6]) = c /\ c < 128
<1> DEFINE w == EscapeOne(c)
<1>1. CASE c \in {Quote, Backslash}
    <2>1. w = <<Backslash, c>>
        BY <1>1 DEF EscapeOne, Quote, Backslash, Controls
    <2>2. c \notin DOMAIN Named /\ c \notin {117, 120} \cup (48..55)
        BY <1>1 DEF Named, Quote, Backslash
    <2> QED
        BY <2>1, <2>2 DEF Bytes, Backslash
<1>2. CASE c \in {8, 9, 10, 12, 13}
    <2> DEFINE n == CHOOSE n \in DOMAIN Named : Named[n] = c
    <2>1. w = <<Backslash, n>>
        BY <1>2 DEF EscapeOne, Quote, Backslash
    <2>2. n \in DOMAIN Named /\ Named[n] = c
        BY <1>2, NamedInverse
    <2> HIDE DEF n
    <2>3. n \in Bytes /\ n \notin {117, 120} \cup (48..55)
        BY <2>2 DEF Named, Bytes
    <2> QED
        BY <2>1, <2>2, <2>3 DEF Bytes, Backslash
<1>3. CASE c \in Controls \ {8, 9, 10, 12, 13}
    <2> DEFINE x == LowerDigit(c \div 16)
               y == LowerDigit(c % 16)
    <2>1. w = <<Backslash, 117, 48, 48, x, y>>
        BY <1>3 DEF EscapeOne, Quote, Backslash, Controls
    <2>2. c \div 16 \in 0..15 /\ c % 16 \in 0..15 /\ c = 16 * (c \div 16) + (c % 16) /\ c < 128
        BY <1>3 DEF Controls
    <2>3. /\ x \in HexDigits /\ x \in Bytes /\ Digit(x) = c \div 16
          /\ y \in HexDigits /\ y \in Bytes /\ Digit(y) = c % 16
        BY <2>2, LowerDigitProps
    <2> HIDE DEF x, y
    <2>4. HexByte(48, 48) = 0 /\ HexByte(x, y) = c
        BY <2>2, <2>3 DEF HexByte, Digit
    <2>5. /\ Len(w) = 6 /\ w[1] = Backslash /\ w[2] = 117
          /\ w[3] = 48 /\ w[4] = 48 /\ w[5] = x /\ w[6] = y
        BY <2>1
    <2>6. w \in Seq(Bytes)
        BY <2>1, <2>3 DEF Bytes, Backslash
    <2>7. \A i \in 3..6 : w[i] \in HexDigits
        <3>1. \A i \in 3..6 : i = 3 \/ i = 4 \/ i = 5 \/ i = 6
            OBVIOUS
        <3>2. 48 \in HexDigits
            BY DEF HexDigits
        <3> HIDE DEF w
        <3> QED
            BY <2>3, <2>5, <3>1, <3>2
    <2> HIDE DEF w
    <2> QED
        BY <2>2, <2>4, <2>5, <2>6, <2>7 DEF w
<1>4. CASE c \notin {Quote, Backslash} \cup Controls
    <2>1. w = <<c>>
        BY <1>4 DEF EscapeOne, Controls
    <2> QED
        BY <1>4, <2>1
<1> QED
    BY <1>1, <1>2, <1>3, <1>4

\* escape() writes one character after the other.
Written(s) == [i \in 1..Len(s) |-> EscapeOne(s[i])]

\* What escape() writes for each character.
LEMMA WrittenType ==
    ASSUME NEW s \in Seq(Bytes)
    PROVE  Written(s) \in PiecesOf(Bytes, Len(s))
<1>1. \A i \in 1..Len(s) : EscapeOne(s[i]) \in Seq(Bytes)
    BY EscapeOneProps
<1> DEFINE N == Len(s)
           S == Seq(Bytes)
<1>2. \A i \in 1..N : EscapeOne(s[i]) \in S
    BY <1>1
<1> HIDE DEF N, S
<1>3. [i \in 1..N |-> EscapeOne(s[i])] \in [1..N -> S]
    BY <1>2
<1> QED
    BY <1>3 DEF N, S, Written, PiecesOf

\* The loop of escape() appends what it writes for each character.
LEMMA EscapingLoop ==
    ASSUME NEW s \in Seq(Bytes)
    PROVE  Appends(Escaping(s), Len(s), Written(s))
<1> DEFINE N == Len(s)
           piece == Written(s)
           Body(f, i) == IF i = 0 THEN <<>> ELSE f[i - 1] \o EscapeOne(s[i])
           Eqn(f) == f = [i \in 0..N |-> Body(f, i)]
           text == CHOOSE f : Eqn(f)
<1>1. N \in Nat /\ piece \in PiecesOf(Bytes, N)
    BY WrittenType
<1>2. Escaping(s) = text
    BY DEF Escaping
<1>3. \A i \in 1..N : piece[i] = EscapeOne(s[i])
    BY DEF Written
<1> HIDE DEF N, piece
<1>4. PICK g : Appends(g, N, piece)
    BY <1>1, AppendLoopExists
<1> DEFINE f == [i \in 0..N |-> g[i]]
<1>5. ASSUME NEW i \in 0..N PROVE f[i] = Body(f, i)
    <2>1. CASE i # 0
        <3>1. i \in 1..N /\ i - 1 \in 0..N
            BY <1>1, <2>1
        <3>2. f[i] = g[i] /\ f[i - 1] = g[i - 1] /\ g[i] = g[i - 1] \o piece[i]
            BY <1>4, <3>1, Zenon DEF Appends
        <3> QED
            BY <1>3, <2>1, <3>1, <3>2, Zenon
    <2>2. CASE i = 0
        BY <1>1, <1>4, <2>2 DEF Appends
    <2> QED
        BY <2>1, <2>2
<1> HIDE DEF Body
<1>6. Eqn(f)
    BY <1>5
<1>7. Eqn(text)
    BY <1>6, Zenon
<1> HIDE DEF text
<1>8. \A i \in 0..N : text[i] = Body(text, i)
    BY <1>7, Zenon
<1>9. text[0] = <<>>
    BY <1>1, <1>8 DEF Body
<1>10. ASSUME NEW i \in 1..N PROVE text[i] = text[i - 1] \o piece[i]
    <2>1. i \in 0..N /\ i # 0
        BY <1>1
    <2> QED
        BY <1>3, <1>8, <2>1, Zenon DEF Body
<1> QED
    BY <1>2, <1>9, <1>10, Zenon DEF N, piece, Appends

\* What it has written for the first characters stays where it is, and goes on
\* with what it writes for the next one.
LEMMA EscapingProps ==
    ASSUME NEW s \in Seq(Bytes), NEW i \in 0..Len(s)
    PROVE  /\ Escaping(s)[i] \in Seq(Bytes)
           /\ IsPrefixOf(Escaping(s)[i], Escape(s))
           /\ i = 0 => Escaping(s)[i] = <<>>
           /\ i < Len(s) => Escaping(s)[i + 1] = Escaping(s)[i] \o EscapeOne(s[i + 1])
<1> DEFINE N == Len(s)
           f == Escaping(s)
           piece == Written(s)
<1>1. N \in Nat /\ piece \in PiecesOf(Bytes, N) /\ Appends(f, N, piece)
    BY WrittenType, EscapingLoop
<1>2. \A k \in 1..N : piece[k] = EscapeOne(s[k])
    BY DEF Written
<1>3. Escape(s) = f[N]
    BY DEF Escape
<1> HIDE DEF N, f, piece
<1>4. \A k \in 0..N : f[k] \in Seq(Bytes)
    BY <1>1, AppendLoopType
<1>5. \A k \in 0..N : IsPrefixOf(f[k], f[N])
    BY <1>1, AppendLoopPrefix
<1>6. f[0] = <<>> /\ \A k \in 1..N : f[k] = f[k - 1] \o piece[k]
    BY <1>1, Zenon DEF Appends
<1>7. ASSUME i < N PROVE f[i + 1] = f[i] \o EscapeOne(s[i + 1])
    <2>1. i + 1 \in 1..N /\ (i + 1) - 1 = i
        BY <1>1, <1>7 DEF N
    <2> QED
        BY <1>2, <1>6, <2>1, Zenon
<1>8. i \in 0..N
    BY DEF N
<1> QED
    BY <1>3, <1>4, <1>5, <1>6, <1>7, <1>8, Zenon DEF f, N

\* The text goes on with w, and something behind it.
Ahead(w) == q + Len(w) < Len(input) /\ \A j \in 1..Len(w) : At(q + j) = w[j]

\* What chars() finds when it has read what was written for i characters of s: the
\* closing quote, or what was written for the next character.
LEMMA NextWritten ==
    ASSUME NEW s \in Seq(Bytes), NEW i \in 0..Len(s),
           input = Escape(s) \o <<Quote>>, q = Len(Escaping(s)[i])
    PROVE  /\ i = Len(s) => q + 1 = Len(input) /\ At(q + 1) = Quote
           /\ i < Len(s) => /\ q + Len(EscapeOne(s[i + 1])) = Len(Escaping(s)[i + 1])
                            /\ Ahead(EscapeOne(s[i + 1]))
<1> DEFINE e == Escape(s)
           u == Escaping(s)[i]
<1>1. /\ u \in Seq(Bytes) /\ IsPrefixOf(u, e)
      /\ i < Len(s) => Escaping(s)[i + 1] = u \o EscapeOne(s[i + 1])
    BY EscapingProps, Zenon
<1>2. e \in Seq(Bytes) /\ e = Escaping(s)[Len(s)]
    <2>1. Len(s) \in 0..Len(s)
        OBVIOUS
    <2>2. e = Escaping(s)[Len(s)]
        BY DEF Escape
    <2> QED
        BY <2>1, <2>2, EscapingProps, Zenon
<1> HIDE DEF e
<1>3. input = e \o <<Quote>>
    BY DEF e
<1>4. /\ Len(e) \in Nat /\ Len(input) = Len(e) + 1 /\ input[Len(e) + 1] = Quote
      /\ \A k \in 1..Len(e) : input[k] = e[k]
    BY <1>2, <1>3 DEF Quote
<1>5. ASSUME i = Len(s) PROVE q + 1 = Len(input) /\ At(q + 1) = Quote
    <2>1. q = Len(e)
        BY <1>2, <1>5
    <2> QED
        BY <1>4, <2>1 DEF At
<1>6. ASSUME i < Len(s)
      PROVE  /\ q + Len(EscapeOne(s[i + 1])) = Len(Escaping(s)[i + 1])
             /\ Ahead(EscapeOne(s[i + 1]))
    <2> DEFINE w == EscapeOne(s[i + 1])
               v == Escaping(s)[i + 1]
    <2>1. s[i + 1] \in Bytes /\ i + 1 \in 0..Len(s)
        BY <1>6
    <2>2. w \in Seq(Bytes)
        BY <2>1, EscapeOneProps
    <2>3. v = u \o w /\ v \in Seq(Bytes) /\ IsPrefixOf(v, e)
        BY <1>1, <1>6, <2>1, EscapingProps, Zenon DEF e
    <2> HIDE DEF w, v, u
    <2>4. Len(u) = q
        BY DEF u
    <2>5. Len(v) = q + Len(w) /\ q \in Nat /\ Len(w) \in Nat /\ \A j \in 1..Len(w) : v[q + j] = w[j]
        <3>1. u \in Seq(Bytes)
            BY <1>1
        <3>2. /\ Len(u) \in Nat /\ Len(w) \in Nat /\ Len(u \o w) = Len(u) + Len(w)
              /\ \A j \in 1..Len(w) : (u \o w)[Len(u) + j] = w[j]
            BY <2>2, <3>1, ConcatProps
        <3> QED
            BY <2>3, <2>4, <3>2, Zenon
    <2>6. Len(v) <= Len(e) /\ \A k \in 1..Len(v) : e[k] = v[k]
        BY <2>3 DEF IsPrefixOf
    <2>7. q + Len(w) < Len(input)
        BY <1>4, <2>5, <2>6
    <2>8. ASSUME NEW j \in 1..Len(w) PROVE At(q + j) = w[j]
        <3>0. /\ Len(v) = q + Len(w) /\ q \in Nat /\ Len(w) \in Nat /\ Len(v) <= Len(e)
              /\ Len(e) \in Nat /\ Len(input) = Len(e) + 1
            BY <1>4, <2>5, <2>6, Zenon
        <3>1. q + j \in 1..Len(v) /\ q + j \in 1..Len(e) /\ q + j <= Len(input)
            BY <3>0
        <3>2. At(q + j) = input[q + j]
            BY <3>1 DEF At
        <3> QED
            BY <1>4, <2>5, <2>6, <3>1, <3>2, Zenon
    <2> QED
        BY <2>5, <2>7, <2>8, Zenon DEF w, v, Ahead
<1> QED
    BY <1>5, <1>6, Zenon

-----------------------------------------------------------------------------
(* base64 *)

\* A digit is a letter of its own, which is no "=" and nothing that chars() treats
\* in a special way.
LEMMA EncodedProps ==
    ASSUME NEW n \in 0..63
    PROVE  /\ Encoded(n) \in Chars /\ Encoded(n) \in Bytes /\ Encoded(n) # Pad
           /\ Encoded(n) \notin Controls \cup {Quote, Backslash}
           /\ Lookup(Encoded(n)) = n
<1>1. ASSUME NEW m \in 0..63
      PROVE  \/ m < 26 /\ Encoded(m) = 65 + m
             \/ m \in 26..51 /\ Encoded(m) = 71 + m
             \/ m \in 52..61 /\ Encoded(m) = m - 4
             \/ m = 62 /\ Encoded(m) = 43
             \/ m = 63 /\ Encoded(m) = 47
    <2>1. CASE m < 26
        BY <2>1 DEF Encoded
    <2>2. CASE m \in 26..51
        BY <2>2 DEF Encoded
    <2>3. CASE m \in 52..61
        BY <2>3 DEF Encoded
    <2>4. CASE m = 62
        BY <2>4 DEF Encoded
    <2>5. CASE m = 63
        BY <2>5 DEF Encoded
    <2> QED
        BY <2>1, <2>2, <2>3, <2>4, <2>5
<1>2. Encoded(n) \in Chars
    BY DEF Chars
<1>3. Encoded(n) \in Bytes /\ Encoded(n) # Pad /\ Encoded(n) \notin Controls \cup {Quote, Backslash}
    BY <1>1 DEF Bytes, Pad, Controls, Quote, Backslash
<1>4. \A m \in 0..63 : Encoded(m) = Encoded(n) => m = n
    <2> SUFFICES ASSUME NEW m \in 0..63, Encoded(m) = Encoded(n) PROVE m = n
        OBVIOUS
    <2>1. \/ m < 26 /\ Encoded(m) = 65 + m
          \/ m \in 26..51 /\ Encoded(m) = 71 + m
          \/ m \in 52..61 /\ Encoded(m) = m - 4
          \/ m = 62 /\ Encoded(m) = 43
          \/ m = 63 /\ Encoded(m) = 47
        BY <1>1
    <2>2. \/ n < 26 /\ Encoded(n) = 65 + n
          \/ n \in 26..51 /\ Encoded(n) = 71 + n
          \/ n \in 52..61 /\ Encoded(n) = n - 4
          \/ n = 62 /\ Encoded(n) = 43
          \/ n = 63 /\ Encoded(n) = 47
        BY <1>1
    <2> QED
        BY <2>1, <2>2
<1>5. Lookup(Encoded(n)) = n
    <2> DEFINE m == CHOOSE m \in 0..63 : Encoded(m) = Encoded(n)
    <2>1. m \in 0..63 /\ Encoded(m) = Encoded(n)
        OBVIOUS
    <2>2. Lookup(Encoded(n)) = m
        BY <1>2 DEF Lookup
    <2> HIDE DEF m
    <2> QED
        BY <1>4, <2>1, <2>2
<1> QED
    BY <1>2, <1>3, <1>5

\* "=" counts as zero.
LEMMA PadProps ==
    /\ Lookup(Pad) = 0 /\ Pad \in Bytes /\ Pad \notin Controls \cup {Quote, Backslash}
<1>1. Pad \notin Chars
    BY EncodedProps DEF Chars
<1> QED
    BY <1>1 DEF Lookup, Pad, Bytes, Controls, Quote, Backslash

\* The j-th digit of the bytes x, y, z, and data with zeros behind it.
Sextet(j, x, y, z) ==
    CASE j = 1 -> x \div 4 [] j = 2 -> (x % 4) * 16 + y \div 16 [] j = 3 -> (y % 16) * 4 + z \div 64 [] j = 4 -> z % 64
Full(d, i) == IF i <= Len(d) THEN d[i] ELSE 0

\* The four groups of six bits in three bytes.
LEMMA SextetProps ==
    ASSUME NEW x \in Bytes, NEW y \in Bytes, NEW z \in Bytes, NEW j \in 1..4
    PROVE  /\ Sextet(j, x, y, z) \in 0..63
           /\ Sextet(1, x, y, z) = x \div 4
           /\ Sextet(2, x, y, z) = (x % 4) * 16 + y \div 16
           /\ Sextet(3, x, y, z) = (y % 16) * 4 + z \div 64
           /\ Sextet(4, x, y, z) = z % 64
<1>1. /\ Sextet(1, x, y, z) = x \div 4
      /\ Sextet(2, x, y, z) = (x % 4) * 16 + y \div 16
      /\ Sextet(3, x, y, z) = (y % 16) * 4 + z \div 64
      /\ Sextet(4, x, y, z) = z % 64
    BY DEF Sextet
<1>2. /\ x \div 4 \in 0..63 /\ (x % 4) * 16 + y \div 16 \in 0..63
      /\ (y % 16) * 4 + z \div 64 \in 0..63 /\ z % 64 \in 0..63
    BY DEF Bytes
<1>3. j = 1 \/ j = 2 \/ j = 3 \/ j = 4
    OBVIOUS
<1> QED
    BY <1>1, <1>2, <1>3

\* The four digits of three bytes.
LEMMA Digits ==
    ASSUME NEW x \in Bytes, NEW y \in Bytes, NEW z \in Bytes
    PROVE  LET n == x * 65536 + y * 256 + z
           IN  /\ (n \div 262144) % 64 = Sextet(1, x, y, z)
               /\ (n \div 4096) % 64 = Sextet(2, x, y, z)
               /\ (n \div 64) % 64 = Sextet(3, x, y, z)
               /\ (n \div 1) % 64 = Sextet(4, x, y, z)
<1> DEFINE n == x * 65536 + y * 256 + z
<1>1. n \in Nat /\ x \in 0..255 /\ y \in 0..255 /\ z \in 0..255
    BY DEF Bytes
<1>2. n \div 262144 = x \div 4
    BY <1>1
<1>3. n \div 4096 = x * 16 + y \div 16
    BY <1>1
<1>4. n \div 64 = x * 1024 + y * 4 + z \div 64
    BY <1>1
<1>5. n \div 1 = n
    BY <1>1
<1>6. (n \div 262144) % 64 = x \div 4
    BY <1>1, <1>2
<1>7. (x * 16 + y \div 16) % 64 = (x % 4) * 16 + y \div 16
    BY <1>1
<1>8. (x * 1024 + y * 4 + z \div 64) % 64 = (y % 16) * 4 + z \div 64
    BY <1>1
<1>9. n % 64 = z % 64
    BY <1>1
<1> HIDE DEF n
<1>10. (n \div 4096) % 64 = (x % 4) * 16 + y \div 16
    BY <1>3, <1>7
<1>11. (n \div 64) % 64 = (y % 16) * 4 + z \div 64
    BY <1>4, <1>8
<1>12. (n \div 1) % 64 = z % 64
    BY <1>5, <1>9
<1>13. /\ Sextet(1, x, y, z) = x \div 4 /\ Sextet(2, x, y, z) = (x % 4) * 16 + y \div 16
       /\ Sextet(3, x, y, z) = (y % 16) * 4 + z \div 64 /\ Sextet(4, x, y, z) = z % 64
    BY SextetProps
<1> QED
    BY <1>6, <1>10, <1>11, <1>12, <1>13 DEF n

\* The arithmetic of encode() on bytes.
LEMMA ByteSums ==
    ASSUME NEW x \in Bytes, NEW y \in Bytes, NEW z \in Bytes
    PROVE  /\ (x \div 4) % 64 = x \div 4
           /\ (Byte(x * 16) + (y \div 16)) % 64 = (x % 4) * 16 + y \div 16
           /\ (((y % 16) * 4) + (z \div 64)) % 64 = (y % 16) * 4 + z \div 64
<1>1. (x \div 4) % 64 = x \div 4
    BY DEF Bytes
<1>2. (((x * 16) % 256) + (y \div 16)) % 64 = (x % 4) * 16 + y \div 16
    BY DEF Bytes
<1>3. (((y % 16) * 4) + (z \div 64)) % 64 = (y % 16) * 4 + z \div 64
    BY DEF Bytes
<1> QED
    BY <1>1, <1>2, <1>3 DEF Byte

\* What encode() writes for a block are the digits that its bytes reach into.
LEMMA BlockProps ==
    ASSUME NEW b \in Seq(Bytes), Len(b) \in 1..3
    PROVE  /\ Block(b) \in Seq(Bytes) /\ Len(Block(b)) = Len(b) + 1
           /\ \A j \in 1..(Len(b) + 1) : Block(b)[j] = Encoded(Sextet(j, Full(b, 1), Full(b, 2), Full(b, 3)))
<1> DEFINE x == Full(b, 1)
           y == Full(b, 2)
           z == Full(b, 3)
           E(j) == Encoded(Sextet(j, x, y, z))
<1>1. /\ x \in Bytes /\ y \in Bytes /\ z \in Bytes
      /\ x = b[1] /\ (Len(b) >= 2 => y = b[2]) /\ (Len(b) = 3 => z = b[3])
      /\ (Len(b) < 2 => y = 0) /\ (Len(b) < 3 => z = 0)
    <2>1. 0 \in Bytes
        BY DEF Bytes
    <2>2. /\ x = b[1] /\ (Len(b) >= 2 => y = b[2]) /\ (Len(b) = 3 => z = b[3])
          /\ (Len(b) < 2 => y = 0) /\ (Len(b) < 3 => z = 0)
        BY DEF Full
    <2>3. \A i \in 1..Len(b) : b[i] \in Bytes
        OBVIOUS
    <2> HIDE DEF x, y, z
    <2>4. x \in Bytes /\ y \in Bytes
        BY <2>1, <2>2, <2>3
    <2>5. z \in Bytes
        BY <2>1, <2>2, <2>3
    <2> QED
        BY <2>2, <2>4, <2>5
<1>2. Len(b) = 1 \/ Len(b) = 2 \/ Len(b) = 3
    OBVIOUS
<1> HIDE DEF x, y, z
<1>3. /\ Char(x \div 4) = E(1)
      /\ Char(Byte(x * 16) + (y \div 16)) = E(2)
      /\ Char(((y % 16) * 4) + (z \div 64)) = E(3)
      /\ Char(z) = E(4)
    <2>1. /\ Sextet(1, x, y, z) = x \div 4
          /\ Sextet(2, x, y, z) = (x % 4) * 16 + y \div 16
          /\ Sextet(3, x, y, z) = (y % 16) * 4 + z \div 64
          /\ Sextet(4, x, y, z) = z % 64
        BY <1>1, SextetProps
    <2>2. /\ (x \div 4) % 64 = x \div 4
          /\ (Byte(x * 16) + (y \div 16)) % 64 = (x % 4) * 16 + y \div 16
          /\ (((y % 16) * 4) + (z \div 64)) % 64 = (y % 16) * 4 + z \div 64
        BY <1>1, ByteSums
    <2> QED
        BY <2>1, <2>2, Zenon DEF Char
<1>4. E(1) \in Bytes /\ E(2) \in Bytes /\ E(3) \in Bytes /\ E(4) \in Bytes
    <2>1. \A j \in 1..4 : Sextet(j, x, y, z) \in 0..63
        BY <1>1, SextetProps, Zenon
    <2>2. /\ Sextet(1, x, y, z) \in 0..63 /\ Sextet(2, x, y, z) \in 0..63
          /\ Sextet(3, x, y, z) \in 0..63 /\ Sextet(4, x, y, z) \in 0..63
        BY <2>1
    <2> QED
        BY <2>2, EncodedProps, Zenon
<1>5. CASE Len(b) = 1
    <2>1. Block(b) = <<Char(x \div 4), Char(Byte(x * 16))>>
        BY <1>1, <1>5 DEF Block
    <2>2. Byte(x * 16) = Byte(x * 16) + (y \div 16)
        BY <1>1, <1>5 DEF Byte, Bytes
    <2>3. Block(b) = <<E(1), E(2)>>
        BY <1>3, <2>1, <2>2
    <2>4. \A j \in 1..2 : j = 1 \/ j = 2
        OBVIOUS
    <2> HIDE DEF E
    <2>5. Block(b) \in Seq(Bytes) /\ Len(Block(b)) = 2 /\ \A j \in 1..2 : Block(b)[j] = E(j)
        BY <1>4, <2>3, <2>4
    <2> QED
        BY <1>5, <2>5 DEF E, x, y, z
<1>6. CASE Len(b) = 2
    <2>1. Block(b) = <<Char(x \div 4), Char(Byte(x * 16) + (y \div 16)), Char((y % 16) * 4)>>
        BY <1>1, <1>6 DEF Block
    <2>2. (y % 16) * 4 = ((y % 16) * 4) + (z \div 64)
        BY <1>1, <1>6 DEF Bytes
    <2>3. Block(b) = <<E(1), E(2), E(3)>>
        BY <1>3, <2>1, <2>2
    <2>4. \A j \in 1..3 : j = 1 \/ j = 2 \/ j = 3
        OBVIOUS
    <2> HIDE DEF E
    <2>5. Block(b) \in Seq(Bytes) /\ Len(Block(b)) = 3 /\ \A j \in 1..3 : Block(b)[j] = E(j)
        BY <1>4, <2>3, <2>4
    <2> QED
        BY <1>6, <2>5 DEF E, x, y, z
<1>7. CASE Len(b) = 3
    <2>1. Block(b) = <<Char(x \div 4), Char(Byte(x * 16) + (y \div 16)),
                       Char(((y % 16) * 4) + (z \div 64)), Char(z)>>
        BY <1>1, <1>7 DEF Block
    <2>3. Block(b) = <<E(1), E(2), E(3), E(4)>>
        BY <1>3, <2>1
    <2>4. \A j \in 1..4 : j = 1 \/ j = 2 \/ j = 3 \/ j = 4
        OBVIOUS
    <2> HIDE DEF E
    <2>5. Block(b) \in Seq(Bytes) /\ Len(Block(b)) = 4 /\ \A j \in 1..4 : Block(b)[j] = E(j)
        BY <1>4, <2>3, <2>4
    <2> QED
        BY <1>7, <2>5 DEF E, x, y, z
<1> QED
    BY <1>2, <1>5, <1>6, <1>7

\* c is the k-th piece of n of a text, the last of which may be shorter.
IsPiece(c, s, n, k) ==
    /\ c \in Seq(Bytes) /\ n * (k - 1) < Len(s)
    /\ Len(c) = IF n * k < Len(s) THEN n ELSE Len(s) - n * (k - 1)
    /\ Len(c) \in 1..n
    /\ \A j \in 1..Len(c) : c[j] = s[n * (k - 1) + j]

\* The pieces of a text, of three or of four.
LEMMA PieceProps ==
    ASSUME NEW s \in Seq(Bytes), NEW n \in {3, 4}, NEW k \in 1..Turns(s, n)
    PROVE  IsPiece(Piece(s, n, k), s, n, k)
<1> DEFINE L == Len(s)
           a == n * (k - 1)
           b == IF n * k < L THEN n * k ELSE L
<1>1. L \in Nat /\ k \in Nat /\ k >= 1 /\ k <= (L + n - 1) \div n
    BY DEF Turns
<1>2. a \in Nat /\ a < L /\ n * k = a + n /\ n \in Nat
    <2>1. CASE n = 3
        BY <1>1, <2>1
    <2>2. CASE n = 4
        BY <1>1, <2>2
    <2> QED
        BY <2>1, <2>2
<1> HIDE DEF a, L
<1>3. b \in Nat /\ b <= L /\ a < b /\ b - a = (IF n * k < L THEN n ELSE L - a) /\ b - a \in 1..n
    BY <1>1, <1>2
<1> HIDE DEF b
<1>4. /\ SubSeq(s, a + 1, b) \in Seq(Bytes) /\ Len(SubSeq(s, a + 1, b)) = b - a
      /\ \A j \in 1..(b - a) : SubSeq(s, a + 1, b)[j] = s[a + j]
    BY <1>2, <1>3 DEF L
<1>5. Piece(s, n, k) = SubSeq(s, a + 1, b)
    BY DEF Piece, a, b, L
<1>6. /\ Piece(s, n, k) \in Seq(Bytes) /\ Len(Piece(s, n, k)) = b - a
      /\ \A j \in 1..(b - a) : Piece(s, n, k)[j] = s[a + j]
    BY <1>4, <1>5
<1> QED
    BY <1>2, <1>3, <1>6 DEF a, L, IsPiece

\* What encode() writes in each turn, and the j-th digit of the k-th three bytes.
Blocks(d) == [k \in 1..Turns(d, 3) |-> Block(Piece(d, 3, k))]
DigitOf(d, k, j) == Encoded(Sextet(j, Full(d, 3 * k - 2), Full(d, 3 * k - 1), Full(d, 3 * k)))
DigitAt(d, i) == DigitOf(d, (i + 3) \div 4, ((i - 1) % 4) + 1)

\* Bytes behind the end count as zero.
LEMMA DigitOfType ==
    ASSUME NEW d \in Seq(Bytes), NEW k \in Nat \ {0}, NEW j \in 1..4
    PROVE  /\ Sextet(j, Full(d, 3 * k - 2), Full(d, 3 * k - 1), Full(d, 3 * k)) \in 0..63
           /\ \A i \in {3 * k - 2, 3 * k - 1, 3 * k} : Full(d, i) \in Bytes
<1>1. ASSUME NEW i \in Nat \ {0} PROVE Full(d, i) \in Bytes
    <2>1. 0 \in Bytes
        BY DEF Bytes
    <2>2. CASE i <= Len(d)
        <3>1. d[i] \in Bytes /\ Full(d, i) = d[i]
            BY <2>2 DEF Full
        <3> QED
            BY <3>1
    <2>3. CASE ~(i <= Len(d))
        BY <2>1, <2>3 DEF Full
    <2> QED
        BY <2>2, <2>3
<1>2. 3 * k - 2 \in Nat \ {0} /\ 3 * k - 1 \in Nat \ {0} /\ 3 * k \in Nat \ {0}
    OBVIOUS
<1>3. Full(d, 3 * k - 2) \in Bytes /\ Full(d, 3 * k - 1) \in Bytes /\ Full(d, 3 * k) \in Bytes
    BY <1>1, <1>2
<1> QED
    BY <1>3, SextetProps, Zenon

\* What encode() writes for each three bytes.
LEMMA BlocksProps ==
    ASSUME NEW d \in Seq(Bytes), NEW k \in 1..Turns(d, 3)
    PROVE  /\ Blocks(d)[k] \in Seq(Bytes) /\ 3 * (k - 1) < Len(d)
           /\ Len(Blocks(d)[k]) = IF 3 * k <= Len(d) THEN 4 ELSE Len(d) - 3 * (k - 1) + 1
           /\ Len(Blocks(d)[k]) \in 1..4
           /\ \A j \in 1..Len(Blocks(d)[k]) : Blocks(d)[k][j] = DigitOf(d, k, j)
<1> DEFINE b == Piece(d, 3, k)
<1>1. /\ b \in Seq(Bytes) /\ 3 * (k - 1) < Len(d)
      /\ Len(b) = IF 3 * k < Len(d) THEN 3 ELSE Len(d) - 3 * (k - 1)
      /\ Len(b) \in 1..3
      /\ \A j \in 1..Len(b) : b[j] = d[3 * (k - 1) + j]
    <2>1. IsPiece(Piece(d, 3, k), d, 3, k)
        BY PieceProps
    <2> QED
        BY <2>1, Zenon DEF IsPiece
<1>2. Blocks(d)[k] = Block(b) /\ k \in Nat /\ k >= 1 /\ Len(d) \in Nat
    BY DEF Blocks
<1> HIDE DEF b
<1>3. /\ Block(b) \in Seq(Bytes) /\ Len(Block(b)) = Len(b) + 1
      /\ \A j \in 1..(Len(b) + 1) : Block(b)[j] = Encoded(Sextet(j, Full(b, 1), Full(b, 2), Full(b, 3)))
    BY <1>1, BlockProps, Zenon
<1>4. ASSUME NEW i \in 1..3 PROVE Full(b, i) = Full(d, 3 * (k - 1) + i)
    <2>1. CASE i <= Len(b)
        <3>1. 3 * (k - 1) + i <= Len(d)
            BY <1>1, <1>2, <2>1
        <3> QED
            BY <1>1, <2>1, <3>1 DEF Full
    <2>2. CASE ~(i <= Len(b))
        <3>1. ~(3 * (k - 1) + i <= Len(d))
            BY <1>1, <1>2, <2>2
        <3> QED
            BY <2>2, <3>1 DEF Full
    <2> QED
        BY <2>1, <2>2
<1>5. Full(b, 1) = Full(d, 3 * k - 2) /\ Full(b, 2) = Full(d, 3 * k - 1) /\ Full(b, 3) = Full(d, 3 * k)
    <2>1. 3 * (k - 1) + 1 = 3 * k - 2 /\ 3 * (k - 1) + 2 = 3 * k - 1 /\ 3 * (k - 1) + 3 = 3 * k
        BY <1>2
    <2>2. 1 \in 1..3 /\ 2 \in 1..3 /\ 3 \in 1..3
        OBVIOUS
    <2>3. /\ Full(b, 1) = Full(d, 3 * (k - 1) + 1) /\ Full(b, 2) = Full(d, 3 * (k - 1) + 2)
          /\ Full(b, 3) = Full(d, 3 * (k - 1) + 3)
        BY <1>4, <2>2
    <2> QED
        BY <2>1, <2>3
<1>6. \A j \in 1..(Len(b) + 1) : Block(b)[j] = DigitOf(d, k, j)
    BY <1>3, <1>5 DEF DigitOf
<1>7. Len(b) + 1 = IF 3 * k <= Len(d) THEN 4 ELSE Len(d) - 3 * (k - 1) + 1
    BY <1>1, <1>2
<1>8. Len(b) + 1 \in 1..4
    <2>1. Len(b) \in 1..3
        BY <1>1
    <2>2. \A n \in 1..3 : n + 1 \in 1..4
        OBVIOUS
    <2> QED
        BY <2>1, <2>2, Zenon
<1>9. Blocks(d)[k] \in Seq(Bytes) /\ Len(Blocks(d)[k]) = Len(b) + 1
    BY <1>2, <1>3, Zenon
<1>10. \A j \in 1..(Len(b) + 1) : Blocks(d)[k][j] = DigitOf(d, k, j)
    BY <1>2, <1>6, Zenon
<1> QED
    BY <1>1, <1>7, <1>8, <1>9, <1>10, Zenon

\* The blocks are what its loop appends.
LEMMA BlocksType ==
    ASSUME NEW d \in Seq(Bytes)
    PROVE  Turns(d, 3) \in Nat /\ Blocks(d) \in PiecesOf(Bytes, Turns(d, 3))
<1> DEFINE N == Turns(d, 3)
           S == Seq(Bytes)
           b(k) == Block(Piece(d, 3, k))
<1>1. \A k \in 1..N : Blocks(d)[k] \in S
    BY BlocksProps
<1>2. Blocks(d) = [k \in 1..N |-> b(k)]
    BY DEF Blocks
<1>3. N \in Nat
    BY DEF Turns
<1> HIDE DEF N, S, b
<1>4. \A k \in 1..N : b(k) \in S
    BY <1>1, <1>2
<1>5. [k \in 1..N |-> b(k)] \in [1..N -> S]
    BY <1>4
<1> QED
    BY <1>2, <1>3, <1>5 DEF N, S, PiecesOf

\* The loop of encode().
LEMMA EncodeLoop ==
    ASSUME NEW d \in Seq(Bytes)
    PROVE  \E f : /\ Appends(f, Turns(d, 3), Blocks(d))
                  /\ Encode(d) = f[Turns(d, 3)] \o Padding(Len(d))
<1> DEFINE N == Turns(d, 3)
           piece == Blocks(d)
           Body(f, i) == IF i = 0 THEN <<>> ELSE f[i - 1] \o Block(Piece(d, 3, i))
           Eqn(f) == f = [i \in 0..N |-> Body(f, i)]
           text == CHOOSE f : Eqn(f)
<1>1. N \in Nat /\ piece \in PiecesOf(Bytes, N)
    BY BlocksType
<1>2. Encode(d) = text[N] \o Padding(Len(d))
    BY DEF Encode
<1>3. \A i \in 1..N : piece[i] = Block(Piece(d, 3, i))
    BY DEF Blocks
<1> HIDE DEF N, piece
<1>4. PICK g : Appends(g, N, piece)
    BY <1>1, AppendLoopExists
<1> DEFINE f == [i \in 0..N |-> g[i]]
<1>5. ASSUME NEW i \in 0..N PROVE f[i] = Body(f, i)
    <2>1. CASE i # 0
        <3>1. i \in 1..N /\ i - 1 \in 0..N
            BY <1>1, <2>1
        <3>2. f[i] = g[i] /\ f[i - 1] = g[i - 1] /\ g[i] = g[i - 1] \o piece[i]
            BY <1>4, <3>1, Zenon DEF Appends
        <3> QED
            BY <1>3, <2>1, <3>1, <3>2, Zenon
    <2>2. CASE i = 0
        BY <1>1, <1>4, <2>2 DEF Appends
    <2> QED
        BY <2>1, <2>2
<1> HIDE DEF Body
<1>6. Eqn(f)
    BY <1>5
<1>7. Eqn(text)
    BY <1>6, Zenon
<1> HIDE DEF text
<1>8. \A i \in 0..N : text[i] = Body(text, i)
    BY <1>7, Zenon
<1>9. text[0] = <<>>
    BY <1>1, <1>8 DEF Body
<1>10. ASSUME NEW i \in 1..N PROVE text[i] = text[i - 1] \o piece[i]
    <2>1. i \in 0..N /\ i # 0
        BY <1>1
    <2> QED
        BY <1>3, <1>8, <2>1, Zenon DEF Body
<1>11. Appends(text, N, piece)
    BY <1>9, <1>10, Zenon DEF Appends
<1> QED
    BY <1>2, <1>11, Zenon DEF N, piece

\* How far m bytes reach, with no more than those of d.
Cut(d, m) == IF m <= Len(d) THEN m ELSE Len(d)

\* The length of the text after one more block.
LEMMA CutStep ==
    ASSUME NEW d \in Seq(Bytes), NEW k \in Nat, NEW n \in 1..4,
           n = IF 3 * (k + 1) <= Len(d) THEN 4 ELSE Len(d) - 3 * ((k + 1) - 1) + 1
    PROVE  4 * k + n = Cut(d, 3 * (k + 1)) + (k + 1)
<1>1. Len(d) \in Nat
    OBVIOUS
<1>2. CASE 3 * (k + 1) <= Len(d)
    BY <1>1, <1>2 DEF Cut
<1>3. CASE ~(3 * (k + 1) <= Len(d))
    <2>1. n = Len(d) - 3 * k + 1 /\ Cut(d, 3 * (k + 1)) = Len(d)
        BY <1>1, <1>3 DEF Cut
    <2>2. 4 * k + n = Len(d) + (k + 1)
        <3>1. \A L \in Nat, m \in Nat : 4 * m + (L - 3 * m + 1) = L + (m + 1)
            OBVIOUS
        <3> QED
            BY <1>1, <2>1, <3>1, Zenon
    <2> QED
        BY <2>1, <2>2, Zenon
<1> QED
    BY <1>2, <1>3, Zenon

\* After each turn of encode() the text has the digits of the bytes so far.
LEMMA EncodeLoopProps ==
    ASSUME NEW d \in Seq(Bytes), NEW f, Appends(f, Turns(d, 3), Blocks(d))
    PROVE  \A k \in 0..Turns(d, 3) :
               /\ f[k] \in Seq(Bytes) /\ Len(f[k]) = Cut(d, 3 * k) + k
               /\ \A i \in 1..Len(f[k]) : f[k][i] = DigitAt(d, i)
<1> DEFINE N == Turns(d, 3)
           piece == Blocks(d)
           P(k) == /\ f[k] \in Seq(Bytes) /\ Len(f[k]) = Cut(d, 3 * k) + k
                   /\ \A i \in 1..Len(f[k]) : f[k][i] = DigitAt(d, i)
           T == {k \in 0..N : P(k)}
<1>1. /\ N \in Nat /\ Len(d) \in Nat
      /\ f[0] = <<>> /\ \A k \in 1..N : f[k] = f[k - 1] \o piece[k]
    <2>1. N \in Nat /\ Len(d) \in Nat
        BY BlocksType
    <2>2. f[0] = <<>> /\ \A k \in 1..N : f[k] = f[k - 1] \o piece[k]
        BY Zenon DEF Appends
    <2> QED
        BY <2>1, <2>2, Zenon
<1>2. 0 \in T
    <2>1. Cut(d, 3 * 0) + 0 = 0
        BY <1>1 DEF Cut
    <2>2. f[0] \in Seq(Bytes) /\ Len(f[0]) = 0
        BY <1>1
    <2>3. \A i \in 1..Len(f[0]) : f[0][i] = DigitAt(d, i)
        BY <2>2
    <2>4. P(0)
        BY <2>1, <2>2, <2>3, Zenon
    <2>5. 0 \in 0..N
        BY <1>1
    <2> HIDE DEF P
    <2> QED
        BY <2>4, <2>5
<1>3. ASSUME NEW k \in 0..(N - 1), k \in T PROVE k + 1 \in T
    <2> DEFINE u == f[k]
               w == piece[k + 1]
               v == f[k + 1]
    <2>1. k + 1 \in 1..N /\ k + 1 \in 0..N /\ (k + 1) - 1 = k /\ k \in Nat
        BY <1>1
    <2>2. u \in Seq(Bytes) /\ Len(u) = Cut(d, 3 * k) + k /\ \A i \in 1..Len(u) : u[i] = DigitAt(d, i)
        BY <1>3
    <2>3. /\ w \in Seq(Bytes) /\ 3 * ((k + 1) - 1) < Len(d)
          /\ Len(w) = IF 3 * (k + 1) <= Len(d) THEN 4 ELSE Len(d) - 3 * ((k + 1) - 1) + 1
          /\ Len(w) \in 1..4
          /\ \A j \in 1..Len(w) : w[j] = DigitOf(d, k + 1, j)
        <3>1. k + 1 \in 1..Turns(d, 3)
            BY <2>1
        <3> QED
            BY <3>1, BlocksProps, Zenon
    <2>4. v = u \o w
        BY <1>1, <2>1, Zenon
    <2> HIDE DEF u, v, w
    <2>5. /\ v \in Seq(Bytes) /\ Len(v) = Len(u) + Len(w)
          /\ \A i \in 1..Len(u) : v[i] = u[i]
          /\ \A j \in 1..Len(w) : v[Len(u) + j] = w[j]
        <3>1. u \in Seq(Bytes) /\ w \in Seq(Bytes)
            BY <2>2, <2>3
        <3>2. /\ u \o w \in Seq(Bytes) /\ Len(u \o w) = Len(u) + Len(w)
              /\ \A i \in 1..Len(u) : (u \o w)[i] = u[i]
              /\ \A j \in 1..Len(w) : (u \o w)[Len(u) + j] = w[j]
            BY <3>1, ConcatProps
        <3> QED
            BY <2>4, <3>2, Zenon
    <2>10. /\ Len(d) \in Nat /\ Len(u) = Cut(d, 3 * k) + k /\ 3 * ((k + 1) - 1) < Len(d)
           /\ Len(w) = IF 3 * (k + 1) <= Len(d) THEN 4 ELSE Len(d) - 3 * ((k + 1) - 1) + 1
           /\ Len(w) \in 1..4 /\ Len(v) = Len(u) + Len(w)
        BY <1>1, <2>2, <2>3, <2>5, Zenon
    <2>6. Len(u) = 4 * k
        BY <2>1, <2>10 DEF Cut
    <2>7. Len(v) = Cut(d, 3 * (k + 1)) + (k + 1)
        <3>1. ASSUME NEW n \in 1..4, n = IF 3 * (k + 1) <= Len(d) THEN 4 ELSE Len(d) - 3 * ((k + 1) - 1) + 1
              PROVE  4 * k + n = Cut(d, 3 * (k + 1)) + (k + 1)
            BY <2>1, <3>1, CutStep, Zenon
        <3> QED
            BY <2>6, <2>10, <3>1, Zenon
    <2>8. ASSUME NEW i \in 1..Len(v) PROVE v[i] = DigitAt(d, i)
        <3>1. CASE i <= Len(u)
            <4>1. i \in 1..Len(u)
                BY <2>6, <3>1
            <4> QED
                BY <2>2, <2>5, <4>1
        <3>2. CASE ~(i <= Len(u))
            <4> DEFINE j == i - 4 * k
            <4>1. j \in 1..Len(w) /\ j \in 1..4 /\ i = 4 * k + j
                <5>1. ASSUME NEW n \in 1..4, NEW m \in 1..(4 * k + n), ~(m <= 4 * k)
                      PROVE  m - 4 * k \in 1..n /\ m - 4 * k \in 1..4 /\ m = 4 * k + (m - 4 * k)
                    BY <2>1, <5>1
                <5>2. Len(w) \in 1..4 /\ i \in 1..(4 * k + Len(w)) /\ ~(i <= 4 * k)
                    BY <2>6, <2>10, <3>2, Zenon
                <5> QED
                    BY <5>1, <5>2, Zenon
            <4> HIDE DEF j
            <4>2. (i + 3) \div 4 = k + 1 /\ ((i - 1) % 4) + 1 = j
                BY <2>1, <4>1
            <4>3. v[i] = w[j]
                BY <2>5, <2>6, <4>1
            <4> QED
                BY <2>3, <4>1, <4>2, <4>3 DEF DigitAt
        <3> QED
            BY <3>1, <3>2
    <2>9. P(k + 1)
        BY <2>5, <2>7, <2>8 DEF v
    <2> HIDE DEF P
    <2> QED
        BY <2>1, <2>9
<1> HIDE DEF T
<1>4. \A k \in 0..N : k \in T
    BY <1>1, <1>2, <1>3, IntervalInduction, Zenon
<1> QED
    BY <1>4 DEF T

\* What encode() writes: a digit at every place that the data reaches into, and
\* "=" behind them up to a multiple of four.
LEMMA EncodeProps ==
    ASSUME NEW d \in Seq(Bytes)
    PROVE  /\ Encode(d) \in Seq(Bytes) /\ Turns(d, 3) \in Nat
           /\ Len(Encode(d)) = 4 * Turns(d, 3)
           /\ \A i \in 1..(4 * Turns(d, 3)) :
                  Encode(d)[i] = IF i > Len(d) + Turns(d, 3) THEN Pad ELSE DigitAt(d, i)
<1> DEFINE N == Turns(d, 3)
           L == Len(d)
<1>1. PICK f : Appends(f, N, Blocks(d)) /\ Encode(d) = f[N] \o Padding(L)
    BY EncodeLoop
<1> DEFINE u == f[N]
           w == Padding(L)
<1>2. N \in Nat /\ L \in Nat /\ 3 * N >= L /\ 3 * N < L + 3
    BY DEF Turns
<1>3. u \in Seq(Bytes) /\ Len(u) = L + N /\ \A i \in 1..Len(u) : u[i] = DigitAt(d, i)
    <2>1. N \in 0..N
        BY <1>2
    <2>2. /\ u \in Seq(Bytes) /\ Len(u) = Cut(d, 3 * N) + N
          /\ \A i \in 1..Len(u) : u[i] = DigitAt(d, i)
        BY <1>1, <2>1, EncodeLoopProps
    <2>3. Cut(d, 3 * N) = L
        BY <1>2 DEF Cut
    <2> QED
        BY <2>2, <2>3
<1>4. w \in Seq(Bytes) /\ Len(w) = 3 * N - L /\ \A j \in 1..Len(w) : w[j] = Pad
    <2>1. L % 3 = 0 \/ L % 3 = 1 \/ L % 3 = 2
        BY <1>2
    <2>2. Pad \in Bytes
        BY PadProps
    <2>3. CASE L % 3 = 0
        <3>1. w = <<>> /\ 3 * N - L = 0
            BY <1>2, <2>3 DEF Padding
        <3> QED
            BY <3>1
    <2>4. CASE L % 3 = 1
        <3>3. w = <<Pad, Pad>>
            BY <2>4 DEF Padding
        <3>4. 3 * N - L = 2
            BY <1>2, <2>4
        <3>1. w = <<Pad, Pad>> /\ 3 * N - L = 2
            BY <3>3, <3>4
        <3>2. \A j \in 1..2 : j = 1 \/ j = 2
            OBVIOUS
        <3> QED
            BY <2>2, <3>1, <3>2
    <2>5. CASE L % 3 = 2
        <3>1. w = <<Pad>> /\ 3 * N - L = 1
            BY <1>2, <2>5 DEF Padding
        <3>2. \A j \in 1..1 : j = 1
            OBVIOUS
        <3> QED
            BY <2>2, <3>1, <3>2
    <2> QED
        BY <2>1, <2>3, <2>4, <2>5
<1> DEFINE e == Encode(d)
<1>5. e = u \o w
    BY <1>1
<1> HIDE DEF u, w, N, L, e
<1>6. /\ e \in Seq(Bytes) /\ Len(e) = Len(u) + Len(w)
      /\ \A i \in 1..Len(u) : e[i] = u[i]
      /\ \A j \in 1..Len(w) : e[Len(u) + j] = w[j]
    <2>1. u \in Seq(Bytes) /\ w \in Seq(Bytes)
        BY <1>3, <1>4
    <2>2. /\ u \o w \in Seq(Bytes) /\ Len(u \o w) = Len(u) + Len(w)
          /\ \A i \in 1..Len(u) : (u \o w)[i] = u[i]
          /\ \A j \in 1..Len(w) : (u \o w)[Len(u) + j] = w[j]
        BY <2>1, ConcatProps
    <2> QED
        BY <1>5, <2>2, Zenon
<1>7. Len(e) = 4 * N
    BY <1>2, <1>3, <1>4, <1>6
<1>8. ASSUME NEW i \in 1..(4 * N) PROVE e[i] = IF i > L + N THEN Pad ELSE DigitAt(d, i)
    <2>1. CASE i > L + N
        <3>1. i - Len(u) \in 1..Len(w) /\ i = Len(u) + (i - Len(u))
            BY <1>2, <1>3, <1>4, <2>1
        <3>2. e[Len(u) + (i - Len(u))] = Pad
            BY <1>4, <1>6, <3>1
        <3> QED
            BY <2>1, <3>1, <3>2
    <2>2. CASE ~(i > L + N)
        <3>1. i \in 1..Len(u)
            BY <1>2, <1>3, <2>2
        <3> QED
            BY <1>3, <1>6, <2>2, <3>1
    <2> QED
        BY <2>1, <2>2
<1> QED
    BY <1>2, <1>6, <1>7, <1>8, Zenon DEF e, N, L

\* What RFC 4648 says.
LEMMA RfcProps ==
    ASSUME NEW d \in Seq(Bytes)
    PROVE  Rfc4648(d) = [i \in 1..(4 * Turns(d, 3)) |->
                            IF i > Len(d) + Turns(d, 3) THEN Pad ELSE DigitAt(d, i)]
<1> DEFINE N == Turns(d, 3)
           L == Len(d)
           added == (3 - (L % 3)) % 3
           zeros == [k \in 1..added |-> 0]
           full == d \o zeros
           number(k) == full[3 * k - 2] * 65536 + full[3 * k - 1] * 256 + full[3 * k]
           places == <<262144, 4096, 64, 1>>
           digit(k, j) == (number(k) \div places[j]) % 64
           size == 4 * (Len(full) \div 3)
           value(i) == IF i > size - added THEN Pad ELSE Encoded(digit((i + 3) \div 4, ((i - 1) % 4) + 1))
           wanted(i) == IF i > L + N THEN Pad ELSE DigitAt(d, i)
<1>1. Rfc4648(d) = [i \in 1..size |-> value(i)]
    BY DEF Rfc4648
<1>2. N \in Nat /\ L \in Nat /\ added \in 0..2 /\ added = 3 * N - L
    <2>1. L \in Nat
        OBVIOUS
    <2>2. N = (L + 2) \div 3
        BY <2>1 DEF Turns
    <2> HIDE DEF L, N
    <2> QED
        BY <2>1, <2>2
<1>3. /\ full \in Seq(Bytes) /\ Len(full) = 3 * N
      /\ \A i \in 1..(3 * N) : full[i] = Full(d, i)
    <2>1. zeros \in Seq(Bytes) /\ Len(zeros) = added
        <3>1. 0 \in Bytes /\ added \in Nat
            BY <1>2 DEF Bytes
        <3> HIDE DEF added
        <3> QED
            BY <3>1
    <2>2. \A j \in 1..added : zeros[j] = 0
        OBVIOUS
    <2> HIDE DEF zeros, added, L
    <2>6. d \in Seq(Bytes) /\ zeros \in Seq(Bytes)
        BY <2>1
    <2>3. /\ d \o zeros \in Seq(Bytes) /\ Len(d \o zeros) = Len(d) + Len(zeros)
          /\ \A i \in 1..Len(d) : (d \o zeros)[i] = d[i]
          /\ \A j \in 1..Len(zeros) : (d \o zeros)[Len(d) + j] = zeros[j]
        BY <2>6, ConcatProps
    <2>4. Len(d) + Len(zeros) = 3 * N
        BY <1>2, <2>1 DEF L
    <2>5. ASSUME NEW i \in 1..(3 * N) PROVE (d \o zeros)[i] = Full(d, i)
        <3>1. CASE i <= Len(d)
            <4>1. i \in 1..Len(d)
                BY <3>1
            <4> QED
                BY <2>3, <3>1, <4>1, Zenon DEF Full
        <3>2. CASE ~(i <= Len(d))
            <4>1. i - L \in 1..added /\ i = Len(d) + (i - L)
                BY <1>2, <3>2 DEF L
            <4>2. (d \o zeros)[Len(d) + (i - L)] = 0
                BY <2>1, <2>2, <2>3, <4>1, Zenon
            <4> QED
                BY <3>2, <4>1, <4>2, Zenon DEF Full
        <3> QED
            BY <3>1, <3>2, Zenon
    <2> QED
        BY <2>3, <2>4, <2>5, Zenon
<1> HIDE DEF full
<1>4. size = 4 * N
    <2>1. (3 * N) \div 3 = N
        BY <1>2
    <2> QED
        BY <1>3, <2>1, Zenon
<1>5. ASSUME NEW k \in 1..N, NEW j \in 1..4
      PROVE  Encoded(digit(k, j)) = DigitOf(d, k, j)
    <2> DEFINE x == Full(d, 3 * k - 2)
               y == Full(d, 3 * k - 1)
               z == Full(d, 3 * k)
    <2>1. 3 * k - 2 \in 1..(3 * N) /\ 3 * k - 1 \in 1..(3 * N) /\ 3 * k \in 1..(3 * N)
        BY <1>2
    <2>2. full[3 * k - 2] = x /\ full[3 * k - 1] = y /\ full[3 * k] = z
        BY <1>3, <2>1, Zenon
    <2>3. x \in Bytes /\ y \in Bytes /\ z \in Bytes
        <3>1. k \in Nat \ {0}
            BY <1>2
        <3> QED
            BY <3>1, DigitOfType, Zenon
    <2>4. number(k) = x * 65536 + y * 256 + z
        BY <2>2
    <2>5. DigitOf(d, k, j) = Encoded(Sextet(j, x, y, z))
        BY DEF DigitOf
    <2> HIDE DEF x, y, z, number
    <2>7. /\ (number(k) \div 262144) % 64 = Sextet(1, x, y, z)
          /\ (number(k) \div 4096) % 64 = Sextet(2, x, y, z)
          /\ (number(k) \div 64) % 64 = Sextet(3, x, y, z)
          /\ (number(k) \div 1) % 64 = Sextet(4, x, y, z)
        BY <2>3, <2>4, Digits
    <2>8. places[1] = 262144 /\ places[2] = 4096 /\ places[3] = 64 /\ places[4] = 1
        OBVIOUS
    <2>9. j = 1 \/ j = 2 \/ j = 3 \/ j = 4
        OBVIOUS
    <2> HIDE DEF places
    <2>10. digit(k, j) = Sextet(j, x, y, z)
        <3>1. CASE j = 1
            BY <2>7, <2>8, <3>1
        <3>2. CASE j = 2
            BY <2>7, <2>8, <3>2
        <3>3. CASE j = 3
            BY <2>7, <2>8, <3>3
        <3>4. CASE j = 4
            BY <2>7, <2>8, <3>4
        <3> QED
            BY <2>9, <3>1, <3>2, <3>3, <3>4
    <2> QED
        BY <2>5, <2>10, Zenon
<1> HIDE DEF digit
<1>6. ASSUME NEW i \in 1..(4 * N) PROVE value(i) = wanted(i)
    <2>1. (i + 3) \div 4 \in 1..N /\ ((i - 1) % 4) + 1 \in 1..4
        BY <1>2
    <2>2. Encoded(digit((i + 3) \div 4, ((i - 1) % 4) + 1)) = DigitAt(d, i)
        BY <1>5, <2>1, Zenon DEF DigitAt
    <2>3. size - added = L + N
        BY <1>2, <1>4
    <2> QED
        BY <2>2, <2>3, Zenon
<1> HIDE DEF value, wanted, size, N
<1>7. [i \in 1..size |-> value(i)] = [i \in 1..(4 * N) |-> wanted(i)]
    BY <1>4, <1>6, Zenon
<1> QED
    BY <1>1, <1>7 DEF wanted, N

\* encode() writes what RFC 4648 says, for data of any length.
THEOREM EncodeIsRfc4648 ==
    ASSUME NEW d \in Seq(Bytes)
    PROVE  Encode(d) = Rfc4648(d)
<1> DEFINE M == 4 * Turns(d, 3)
           e == Encode(d)
           v(i) == IF i > Len(d) + Turns(d, 3) THEN Pad ELSE DigitAt(d, i)
<1>1. e \in Seq(Bytes) /\ Len(e) = M /\ \A i \in 1..M : e[i] = v(i)
    BY EncodeProps
<1>2. Rfc4648(d) = [i \in 1..M |-> v(i)]
    BY RfcProps
<1> HIDE DEF e, M, v
<1>3. e = [i \in 1..Len(e) |-> e[i]]
    BY <1>1
<1>4. [i \in 1..Len(e) |-> e[i]] = [i \in 1..M |-> v(i)]
    BY <1>1, Zenon
<1> QED
    BY <1>2, <1>3, <1>4, Zenon DEF e

\* decode() puts the bytes together again.
LEMMA QuadSums ==
    ASSUME NEW x \in Bytes, NEW y \in Bytes, NEW z \in Bytes
    PROVE  /\ Byte(Sextet(1, x, y, z) * 4) + ((Sextet(2, x, y, z) \div 16) % 4) = x
           /\ Byte(Sextet(2, x, y, z) * 16) + (Sextet(3, x, y, z) \div 4) = y
           /\ Byte(Sextet(3, x, y, z) * 64) + Sextet(4, x, y, z) = z
<1> DEFINE a == x \div 4
           b == (x % 4) * 16 + y \div 16
           c == (y % 16) * 4 + z \div 64
           e == z % 64
<1>1. ((a * 4) % 256) + ((b \div 16) % 4) = x
    BY DEF Bytes
<1>2. ((b * 16) % 256) + (c \div 4) = y
    BY DEF Bytes
<1>3. ((c * 64) % 256) + e = z
    BY DEF Bytes
<1>4. /\ Sextet(1, x, y, z) = a /\ Sextet(2, x, y, z) = b
      /\ Sextet(3, x, y, z) = c /\ Sextet(4, x, y, z) = e
    BY SextetProps
<1> HIDE DEF a, b, c, e
<1> QED
    BY <1>1, <1>2, <1>3, <1>4 DEF Byte

\* c is the text of the first n of three bytes.
IsTextOf(c, n, x, y, z) ==
    /\ n < 2 => y = 0
    /\ n < 3 => z = 0
    /\ \A j \in 1..4 : c[j] = IF j > n + 1 THEN Pad ELSE Encoded(Sextet(j, x, y, z))

\* t are the first n of three bytes.
IsDataOf(t, n, x, y, z) ==
    t \in Seq(Bytes) /\ Len(t) = n /\ t[1] = x /\ (n >= 2 => t[2] = y) /\ (n >= 3 => t[3] = z)

\* decode() gives back the bytes of a block.
LEMMA QuadProps ==
    ASSUME NEW x \in Bytes, NEW y \in Bytes, NEW z \in Bytes, NEW n \in 1..3,
           NEW c, IsTextOf(c, n, x, y, z)
    PROVE  IsDataOf(Quad(c), n, x, y, z)
<1> DEFINE s(j) == Sextet(j, x, y, z)
           v(j) == Lookup(c[j])
<1>0. /\ n < 2 => y = 0
      /\ n < 3 => z = 0
      /\ \A j \in 1..4 : c[j] = IF j > n + 1 THEN Pad ELSE Encoded(s(j))
    BY DEF IsTextOf
<1>1. \A j \in 1..4 : s(j) \in 0..63
    BY SextetProps
<1>2. (n < 3 => s(4) = 0) /\ (n < 2 => s(3) = 0)
    <2>1. s(3) = (y % 16) * 4 + z \div 64 /\ s(4) = z % 64
        BY SextetProps
    <2>2. (0 % 16) * 4 + 0 \div 64 = 0 /\ 0 % 64 = 0
        OBVIOUS
    <2>3. n < 2 => n < 3
        OBVIOUS
    <2> QED
        BY <1>0, <2>1, <2>2, <2>3, Zenon
<1>3. ASSUME NEW j \in 1..4 PROVE v(j) = s(j) /\ (c[j] = Pad <=> j > n + 1)
    <2>1. CASE j > n + 1
        <3>1. c[j] = Pad /\ v(j) = 0
            BY <1>0, <2>1, PadProps, Zenon
        <3>2. (j = 4 /\ n < 3) \/ (j = 3 /\ n < 2)
            BY <2>1
        <3>3. s(j) = 0
            BY <1>2, <3>2, Zenon
        <3> QED
            BY <2>1, <3>1, <3>3, Zenon
    <2>2. CASE ~(j > n + 1)
        <3>1. c[j] = Encoded(s(j)) /\ s(j) \in 0..63
            BY <1>0, <1>1, <2>2, Zenon
        <3>2. Lookup(Encoded(s(j))) = s(j) /\ Encoded(s(j)) # Pad
            BY <3>1, EncodedProps, Zenon
        <3> QED
            BY <2>2, <3>1, <3>2, Zenon
    <2> QED
        BY <2>1, <2>2
<1> DEFINE buf == <<Byte(v(1) * 4) + ((v(2) \div 16) % 4), Byte(v(2) * 16) + (v(3) \div 4), Byte(v(3) * 64) + v(4)>>
           m == IF c[4] # Pad THEN 3 ELSE IF c[3] # Pad THEN 2 ELSE 1
<1>4. Quad(c) = SubSeq(buf, 1, m)
    BY DEF Quad
<1>5. v(1) = s(1) /\ v(2) = s(2) /\ v(3) = s(3) /\ v(4) = s(4)
    <2>1. 1 \in 1..4 /\ 2 \in 1..4 /\ 3 \in 1..4 /\ 4 \in 1..4
        OBVIOUS
    <2> QED
        BY <1>3, <2>1, Zenon
<1>6. buf = <<x, y, z>>
    <2>1. /\ Byte(s(1) * 4) + ((s(2) \div 16) % 4) = x
          /\ Byte(s(2) * 16) + (s(3) \div 4) = y
          /\ Byte(s(3) * 64) + s(4) = z
        BY QuadSums
    <2> HIDE DEF s, v
    <2>2. /\ Byte(v(1) * 4) + ((v(2) \div 16) % 4) = x
          /\ Byte(v(2) * 16) + (v(3) \div 4) = y
          /\ Byte(v(3) * 64) + v(4) = z
        BY <1>5, <2>1
    <2> QED
        BY <2>2
<1>7. m = n
    <2>1. (c[4] = Pad <=> 4 > n + 1) /\ (c[3] = Pad <=> 3 > n + 1)
        <3>1. 3 \in 1..4 /\ 4 \in 1..4
            OBVIOUS
        <3> QED
            BY <1>3, <3>1, Zenon
    <2>2. n = 1 \/ n = 2 \/ n = 3
        OBVIOUS
    <2> QED
        BY <2>1, <2>2
<1> HIDE DEF buf, m
<1>8. Quad(c) = SubSeq(<<x, y, z>>, 1, n)
    BY <1>4, <1>6, <1>7
<1>9. <<x, y, z>> \in Seq(Bytes) /\ Len(<<x, y, z>>) = 3
    OBVIOUS
<1>10. SubSeq(<<x, y, z>>, 1, n) \in Seq(Bytes) /\ Len(SubSeq(<<x, y, z>>, 1, n)) = n
    BY <1>9
<1>11. \A j \in 1..n : SubSeq(<<x, y, z>>, 1, n)[j] = <<x, y, z>>[j]
    BY <1>9
<1> DEFINE t == SubSeq(<<x, y, z>>, 1, n)
           u == <<x, y, z>>
<1>12. u[1] = x /\ u[2] = y /\ u[3] = z /\ \A j \in 1..n : t[j] = u[j]
    BY <1>11
<1>13. t \in Seq(Bytes) /\ Len(t) = n /\ Quad(c) = t
    BY <1>8, <1>10
<1> HIDE DEF t, u
<1>14. t[1] = x /\ (n >= 2 => t[2] = y) /\ (n >= 3 => t[3] = z)
    BY <1>12
<1> QED
    BY <1>13, <1>14 DEF IsDataOf

\* What decode() writes in each turn.
Quads(t) == [k \in 1..Turns(t, 4) |-> Quad(Piece(t, 4, k))]

\* Of what encode() has written, a turn gives the next three bytes, or the last.
LEMMA QuadsProps ==
    ASSUME NEW d \in Seq(Bytes), NEW k \in 1..Turns(d, 3)
    PROVE  /\ Turns(Encode(d), 4) = Turns(d, 3)
           /\ Quads(Encode(d))[k] \in Seq(Bytes)
           /\ Cut(d, 3 * k) - 3 * (k - 1) \in 1..3
           /\ Len(Quads(Encode(d))[k]) = Cut(d, 3 * k) - 3 * (k - 1)
           /\ \A j \in 1..Len(Quads(Encode(d))[k]) : Quads(Encode(d))[k][j] = d[3 * (k - 1) + j]
<1> DEFINE N == Turns(d, 3)
           L == Len(d)
           e == Encode(d)
           c == Piece(e, 4, k)
           n == Cut(d, 3 * k) - 3 * (k - 1)
           x == Full(d, 3 * k - 2)
           y == Full(d, 3 * k - 1)
           z == Full(d, 3 * k)
<1>1. /\ e \in Seq(Bytes) /\ N \in Nat /\ Len(e) = 4 * N
      /\ \A i \in 1..(4 * N) : e[i] = IF i > L + N THEN Pad ELSE DigitAt(d, i)
    BY EncodeProps
<1>2. L \in Nat /\ N \in Nat /\ 3 * N >= L /\ 3 * N < L + 3
    BY DEF Turns
<1>3. k \in Nat /\ k >= 1 /\ k <= N
    BY <1>2
<1> HIDE DEF e, N
<1>4. Turns(e, 4) = N
    <2>1. (4 * N + 4 - 1) \div 4 = N
        BY <1>2
    <2> QED
        BY <1>1, <2>1, Zenon DEF Turns
<1>5. Quads(e)[k] = Quad(c)
    <2>1. k \in 1..Turns(e, 4)
        BY <1>2, <1>3, <1>4
    <2> QED
        BY <2>1 DEF Quads
<1>6. n \in 1..3 /\ 3 * (k - 1) + n = Cut(d, 3 * k) /\ Cut(d, 3 * k) <= L
    BY <1>2, <1>3 DEF Cut
<1>7. /\ 4 * (k - 1) \in Nat /\ 4 * (k - 1) + 4 <= 4 * N
      /\ \A j \in 1..4 : 4 * (k - 1) + j > L + N <=> j > n + 1
    <2>1. CASE 3 * k <= L
        <3>1. n = 3
            BY <1>2, <1>3, <2>1 DEF Cut
        <3> HIDE DEF n
        <3> QED
            BY <1>2, <1>3, <2>1, <3>1
    <2>2. CASE ~(3 * k <= L)
        <3>1. n = L - 3 * (k - 1) /\ k = N
            BY <1>2, <1>3, <2>2 DEF Cut
        <3> HIDE DEF n
        <3> QED
            BY <1>2, <1>3, <2>2, <3>1
    <2> QED
        BY <2>1, <2>2
<1>8. \A j \in 1..4 : c[j] = e[4 * (k - 1) + j]
    <2>1. /\ Len(c) = IF 4 * k < Len(e) THEN 4 ELSE Len(e) - 4 * (k - 1)
          /\ \A j \in 1..Len(c) : c[j] = e[4 * (k - 1) + j]
        <3>1. k \in 1..Turns(e, 4) /\ 4 \in {3, 4} /\ e \in Seq(Bytes)
            BY <1>1, <1>2, <1>3, <1>4
        <3>2. IsPiece(Piece(e, 4, k), e, 4, k)
            BY <3>1, PieceProps
        <3> QED
            BY <3>2, Zenon DEF IsPiece
    <2>2. Len(e) = 4 * N
        BY <1>1
    <2>3. (IF 4 * k < 4 * N THEN 4 ELSE 4 * N - 4 * (k - 1)) = 4
        BY <1>2, <1>3
    <2>4. Len(c) = 4
        BY <2>1, <2>2, <2>3, Zenon
    <2> QED
        BY <2>1, <2>4, Zenon
<1>9. x \in Bytes /\ y \in Bytes /\ z \in Bytes
    <2>1. k \in Nat \ {0} /\ 1 \in 1..4
        BY <1>3
    <2> QED
        BY <2>1, DigitOfType, Zenon
<1>10. /\ x = d[3 * (k - 1) + 1] /\ (n >= 2 => y = d[3 * (k - 1) + 2]) /\ (n >= 3 => z = d[3 * (k - 1) + 3])
       /\ (n < 2 => y = 0) /\ (n < 3 => z = 0)
    <2>1. 3 * (k - 1) + 1 = 3 * k - 2 /\ 3 * (k - 1) + 2 = 3 * k - 1 /\ 3 * (k - 1) + 3 = 3 * k
        BY <1>3
    <2>2. /\ 3 * k - 2 <= L /\ (n >= 2 <=> 3 * k - 1 <= L) /\ (n >= 3 <=> 3 * k <= L)
          /\ (n < 2 <=> ~(n >= 2)) /\ (n < 3 <=> ~(n >= 3))
        <3>1. CASE 3 * k <= L
            <4>1. n = 3
                BY <1>2, <1>3, <3>1 DEF Cut
            <4> HIDE DEF n
            <4> QED
                BY <1>2, <1>3, <3>1, <4>1
        <3>2. CASE ~(3 * k <= L)
            <4>1. n = L - 3 * (k - 1) /\ k = N
                BY <1>2, <1>3, <3>2 DEF Cut
            <4> HIDE DEF n
            <4> QED
                BY <1>2, <1>3, <3>2, <4>1
        <3> QED
            BY <3>1, <3>2
    <2> HIDE DEF n
    <2> QED
        BY <2>1, <2>2, Zenon DEF Full
<1>11. \A j \in 1..4 : c[j] = IF j > n + 1 THEN Pad ELSE Encoded(Sextet(j, x, y, z))
    <2> SUFFICES ASSUME NEW j \in 1..4
                 PROVE  c[j] = IF j > n + 1 THEN Pad ELSE Encoded(Sextet(j, x, y, z))
        OBVIOUS
    <2> DEFINE i == 4 * (k - 1) + j
    <2>1. i \in 1..(4 * N) /\ (i + 3) \div 4 = k /\ ((i - 1) % 4) + 1 = j
        <3>1. ASSUME NEW m \in Nat, NEW M \in Nat, 4 * m + 4 <= 4 * M
              PROVE  /\ 4 * m + j \in 1..(4 * M) /\ (4 * m + j + 3) \div 4 = m + 1
                     /\ ((4 * m + j - 1) % 4) + 1 = j
            BY <3>1
        <3>2. k - 1 \in Nat /\ N \in Nat /\ 4 * (k - 1) + 4 <= 4 * N /\ (k - 1) + 1 = k
            BY <1>2, <1>3
        <3>3. /\ 4 * (k - 1) + j \in 1..(4 * N) /\ (4 * (k - 1) + j + 3) \div 4 = (k - 1) + 1
              /\ ((4 * (k - 1) + j - 1) % 4) + 1 = j
            BY <3>1, <3>2
        <3>4. (i + 3) \div 4 = (k - 1) + 1
            BY <3>3
        <3>5. (i + 3) \div 4 = k
            BY <3>2, <3>4, Zenon
        <3> QED
            BY <3>3, <3>5
    <2>2. c[j] = e[i] /\ (i > L + N <=> j > n + 1)
        BY <1>7, <1>8, Zenon
    <2> HIDE DEF i
    <2>3. c[j] = IF i > L + N THEN Pad ELSE DigitAt(d, i)
        BY <1>1, <2>1, <2>2, Zenon
    <2>4. DigitAt(d, i) = Encoded(Sextet(j, x, y, z))
        BY <2>1, Zenon DEF DigitAt, DigitOf
    <2> QED
        BY <2>2, <2>3, <2>4, Zenon
<1> HIDE DEF c, x, y, z, n
<1>12. /\ Quad(c) \in Seq(Bytes) /\ Len(Quad(c)) = n /\ Quad(c)[1] = x
       /\ (n >= 2 => Quad(c)[2] = y) /\ (n >= 3 => Quad(c)[3] = z)
    <2>1. n \in 1..3
        BY <1>6, Zenon
    <2>2. (n < 2 => y = 0) /\ (n < 3 => z = 0)
        BY <1>10, Zenon
    <2>3. IsTextOf(c, n, x, y, z)
        BY <1>11, <2>2, Zenon DEF IsTextOf
    <2>4. IsDataOf(Quad(c), n, x, y, z)
        BY <1>9, <2>1, <2>3, QuadProps
    <2> QED
        BY <2>4, Zenon DEF IsDataOf
<1>13. ASSUME NEW j \in 1..n PROVE Quad(c)[j] = d[3 * (k - 1) + j]
    <2>1. j = 1 \/ (j = 2 /\ n >= 2) \/ (j = 3 /\ n >= 3)
        BY <1>6
    <2> QED
        BY <1>10, <1>12, <2>1, Zenon
<1>14. /\ Turns(e, 4) = N /\ Quads(e)[k] \in Seq(Bytes) /\ n \in 1..3 /\ Len(Quads(e)[k]) = n
       /\ \A j \in 1..Len(Quads(e)[k]) : Quads(e)[k][j] = d[3 * (k - 1) + j]
    BY <1>4, <1>5, <1>6, <1>12, <1>13, Zenon
<1> QED
    BY <1>14, Zenon DEF n, e, N

\* decode() makes as many turns as encode().
LEMMA QuadsType ==
    ASSUME NEW d \in Seq(Bytes)
    PROVE  /\ Turns(Encode(d), 4) = Turns(d, 3) /\ Turns(d, 3) \in Nat
           /\ Quads(Encode(d)) \in PiecesOf(Bytes, Turns(d, 3))
<1> DEFINE N == Turns(d, 3)
           S == Seq(Bytes)
           e == Encode(d)
           b(k) == Quad(Piece(e, 4, k))
<1>1. \A k \in 1..N : Quads(e)[k] \in S
    BY QuadsProps, Zenon
<1>2. Quads(e) = [k \in 1..Turns(e, 4) |-> b(k)]
    BY DEF Quads
<1>3. Turns(e, 4) = N /\ N \in Nat
    <2>1. N \in Nat /\ Len(e) = 4 * N
        BY EncodeProps
    <2> HIDE DEF N, e
    <2>2. (4 * N + 4 - 1) \div 4 = N
        BY <2>1
    <2> QED
        BY <2>1, <2>2, Zenon DEF Turns
<1> HIDE DEF N, S, b, e
<1>4. \A k \in 1..N : b(k) \in S
    BY <1>1, <1>2, <1>3, Zenon
<1>5. [k \in 1..N |-> b(k)] \in [1..N -> S]
    BY <1>4
<1> QED
    BY <1>2, <1>3, <1>5 DEF N, S, e, PiecesOf

\* The loop of decode().
LEMMA DecodeLoop ==
    ASSUME NEW t, Turns(t, 4) \in Nat, Quads(t) \in PiecesOf(Bytes, Turns(t, 4))
    PROVE  \E f : Appends(f, Turns(t, 4), Quads(t)) /\ Decode(t) = f[Turns(t, 4)]
<1> DEFINE N == Turns(t, 4)
           piece == Quads(t)
           Body(f, i) == IF i = 0 THEN <<>> ELSE f[i - 1] \o Quad(Piece(t, 4, i))
           Eqn(f) == f = [i \in 0..N |-> Body(f, i)]
           data == CHOOSE f : Eqn(f)
<1>1. N \in Nat /\ piece \in PiecesOf(Bytes, N)
    OBVIOUS
<1>2. Decode(t) = data[N]
    BY DEF Decode
<1>3. \A i \in 1..N : piece[i] = Quad(Piece(t, 4, i))
    BY DEF Quads
<1> HIDE DEF N, piece
<1>4. PICK g : Appends(g, N, piece)
    BY <1>1, AppendLoopExists
<1> DEFINE f == [i \in 0..N |-> g[i]]
<1>5. ASSUME NEW i \in 0..N PROVE f[i] = Body(f, i)
    <2>1. CASE i # 0
        <3>1. i \in 1..N /\ i - 1 \in 0..N
            BY <1>1, <2>1
        <3>2. f[i] = g[i] /\ f[i - 1] = g[i - 1] /\ g[i] = g[i - 1] \o piece[i]
            BY <1>4, <3>1, Zenon DEF Appends
        <3> QED
            BY <1>3, <2>1, <3>1, <3>2, Zenon
    <2>2. CASE i = 0
        BY <1>1, <1>4, <2>2 DEF Appends
    <2> QED
        BY <2>1, <2>2
<1> HIDE DEF Body
<1>6. Eqn(f)
    BY <1>5
<1>7. Eqn(data)
    BY <1>6, Zenon
<1> HIDE DEF data
<1>8. \A i \in 0..N : data[i] = Body(data, i)
    BY <1>7, Zenon
<1>9. data[0] = <<>>
    BY <1>1, <1>8 DEF Body
<1>10. ASSUME NEW i \in 1..N PROVE data[i] = data[i - 1] \o piece[i]
    <2>1. i \in 0..N /\ i # 0
        BY <1>1
    <2> QED
        BY <1>3, <1>8, <2>1, Zenon DEF Body
<1>11. Appends(data, N, piece)
    BY <1>9, <1>10, Zenon DEF Appends
<1> QED
    BY <1>2, <1>11 DEF N, piece

\* The first m bytes of d.
IsStartOf(u, d, m) == u \in Seq(Bytes) /\ Len(u) = m /\ \A i \in 1..m : u[i] = d[i]

\* decode() gives what encode() was given, for data of any length.
THEOREM DecodeInvertsEncode ==
    ASSUME NEW d \in Seq(Bytes)
    PROVE  Decode(Encode(d)) = d
<1> DEFINE N == Turns(d, 3)
           e == Encode(d)
           piece == Quads(e)
<1>1. Turns(e, 4) = N /\ N \in Nat /\ piece \in PiecesOf(Bytes, N)
    BY QuadsType
<1>2. PICK f : Appends(f, N, piece) /\ Decode(e) = f[N]
    <2> HIDE DEF e
    <2>1. \E f : Appends(f, Turns(e, 4), Quads(e)) /\ Decode(e) = f[Turns(e, 4)]
        <3>1. Turns(e, 4) \in Nat /\ Quads(e) \in PiecesOf(Bytes, Turns(e, 4))
            BY <1>1
        <3> QED
            BY <3>1, DecodeLoop
    <2> QED
        BY <1>1, <2>1
<1> DEFINE T == {k \in 0..N : IsStartOf(f[k], d, Cut(d, 3 * k))}
<1>3. Len(d) \in Nat /\ 3 * N >= Len(d)
    BY DEF Turns
<1>4. f[0] = <<>> /\ \A k \in 1..N : f[k] = f[k - 1] \o piece[k]
    BY <1>2, Zenon DEF Appends
<1>5. 0 \in T
    <2>1. Cut(d, 3 * 0) = 0 /\ 0 \in 0..N
        BY <1>1, <1>3 DEF Cut
    <2>2. f[0] \in Seq(Bytes) /\ Len(f[0]) = 0 /\ \A i \in 1..0 : f[0][i] = d[i]
        BY <1>4
    <2>3. IsStartOf(f[0], d, Cut(d, 3 * 0))
        BY <2>1, <2>2, Zenon DEF IsStartOf
    <2> QED
        BY <2>1, <2>3
<1>6. ASSUME NEW k \in 0..(N - 1), k \in T PROVE k + 1 \in T
    <2> DEFINE u == f[k]
               w == piece[k + 1]
               v == f[k + 1]
               m == Cut(d, 3 * k)
               n == Cut(d, 3 * (k + 1)) - 3 * ((k + 1) - 1)
    <2>1. k + 1 \in 1..N /\ k + 1 \in 0..N /\ (k + 1) - 1 = k /\ k \in Nat
        BY <1>1
    <2>2. IsStartOf(u, d, m)
        BY <1>6
    <2>3. /\ w \in Seq(Bytes) /\ n \in 1..3 /\ Len(w) = n
          /\ \A j \in 1..Len(w) : w[j] = d[3 * ((k + 1) - 1) + j]
        <3>1. k + 1 \in 1..Turns(d, 3)
            BY <2>1
        <3> QED
            BY <3>1, QuadsProps, Zenon
    <2>4. v = u \o w
        BY <1>4, <2>1, Zenon
    <2>5. m = 3 * k /\ Cut(d, 3 * (k + 1)) = 3 * k + n
        <3>1. 3 * k <= Len(d)
            <4>1. N = (Len(d) + 2) \div 3
                BY DEF Turns
            <4> HIDE DEF N
            <4> QED
                BY <1>3, <2>1, <4>1
        <3>2. m = 3 * k
            BY <3>1 DEF Cut
        <3>3. Cut(d, 3 * (k + 1)) \in Nat
            BY <1>3, <2>1 DEF Cut
        <3> QED
            BY <2>1, <3>2, <3>3
    <2> HIDE DEF u, v, w, m, n
    <2>6. u \in Seq(Bytes) /\ w \in Seq(Bytes)
        BY <2>2, <2>3 DEF IsStartOf
    <2>7. /\ v \in Seq(Bytes) /\ Len(v) = Len(u) + Len(w)
          /\ \A i \in 1..Len(u) : v[i] = u[i]
          /\ \A j \in 1..Len(w) : v[Len(u) + j] = w[j]
        <3>1. /\ u \o w \in Seq(Bytes) /\ Len(u \o w) = Len(u) + Len(w)
              /\ \A i \in 1..Len(u) : (u \o w)[i] = u[i]
              /\ \A j \in 1..Len(w) : (u \o w)[Len(u) + j] = w[j]
            BY <2>6, ConcatProps
        <3> QED
            BY <2>4, <3>1, Zenon
    <2>8. Len(u) = 3 * k /\ Len(w) = n /\ Len(v) = 3 * k + n /\ n \in 1..3
        BY <2>2, <2>3, <2>5, <2>7, Zenon DEF IsStartOf
    <2>9. ASSUME NEW i \in 1..(3 * k + n) PROVE v[i] = d[i]
        <3>1. CASE i <= 3 * k
            <4>1. i \in 1..(3 * k)
                BY <2>1, <3>1
            <4> QED
                BY <2>2, <2>5, <2>7, <2>8, <4>1, Zenon DEF IsStartOf
        <3>2. CASE ~(i <= 3 * k)
            <4> DEFINE j == i - 3 * k
            <4>1. j \in 1..n /\ 3 * k + j = i
                BY <2>1, <2>8, <3>2
            <4> HIDE DEF j
            <4>2. v[3 * k + j] = w[j] /\ w[j] = d[3 * k + j]
                BY <2>1, <2>3, <2>7, <2>8, <4>1, Zenon
            <4> QED
                BY <4>1, <4>2, Zenon
        <3> QED
            BY <3>1, <3>2
    <2>10. IsStartOf(v, d, Cut(d, 3 * (k + 1)))
        BY <2>5, <2>7, <2>8, <2>9, Zenon DEF IsStartOf
    <2> QED
        BY <2>1, <2>10 DEF v
<1> HIDE DEF T
<1>7. \A k \in 0..N : k \in T
    BY <1>1, <1>5, <1>6, IntervalInduction, Zenon
<1>8. IsStartOf(f[N], d, Len(d))
    <2>1. N \in 0..N /\ Cut(d, 3 * N) = Len(d)
        BY <1>1, <1>3 DEF Cut
    <2>2. IsStartOf(f[N], d, Cut(d, 3 * N))
        BY <1>7, <2>1 DEF T
    <2> QED
        BY <2>1, <2>2, Zenon
<1> DEFINE z == Decode(e)
<1>9. z \in Seq(Bytes) /\ Len(z) = Len(d) /\ \A i \in 1..Len(d) : z[i] = d[i]
    BY <1>2, <1>8, Zenon DEF IsStartOf
<1> HIDE DEF z
<1>10. z = d
    BY <1>9
<1> QED
    BY <1>10 DEF z

-----------------------------------------------------------------------------
(* Reading *)

\* Bytes and positions are in range; text that was written is what is read.
CInv ==
    /\ input \in Seq(Bytes) /\ out \in Seq(Bytes)
    /\ q \in 0..Len(input) /\ reach \in 0..Len(input)
    /\ status \in {"scan", "ok", "error"}
    /\ source[1] \in {"given", "string", "data"}
    /\ source[1] = "string" => source[2] \in Seq(Bytes) /\ input = Escape(source[2]) \o <<Quote>>
    /\ source[1] = "data" => source[2] \in Binary /\ input = Encode(source[2]) \o <<Quote>>

\* Two hexadecimal digits are a byte.
LEMMA HexByteType ==
    ASSUME NEW x \in HexDigits, NEW y \in HexDigits
    PROVE  HexByte(x, y) \in Bytes
<1>1. Digit(x) \in 0..15 /\ Digit(y) \in 0..15
    BY DEF Digit, HexDigits
<1> QED
    BY <1>1 DEF HexByte, Bytes

\* UTF-8 is made of bytes.
LEMMA EncodeUTF8Type ==
    ASSUME NEW x \in Bytes, NEW y \in Bytes
    PROVE  EncodeUTF8(x, y) \in Seq(Bytes)
<1>1. CASE x = 0 /\ y < 128
    BY <1>1 DEF EncodeUTF8
<1>2. CASE ~(x = 0 /\ y < 128) /\ x < 8
    <2>1. 192 + x * 4 + y \div 64 \in Bytes /\ 128 + (y % 64) \in Bytes
        BY <1>2 DEF Bytes
    <2> QED
        BY <1>2, <2>1 DEF EncodeUTF8
<1>3. CASE ~(x = 0 /\ y < 128) /\ ~(x < 8)
    <2>1. /\ 224 + x \div 16 \in Bytes /\ 128 + ((x * 4 + y \div 64) % 64) \in Bytes
          /\ 128 + (y % 64) \in Bytes
        BY DEF Bytes
    <2> QED
        BY <1>3, <2>1 DEF EncodeUTF8
<1> QED
    BY <1>1, <1>2, <1>3

\* The turns of the loop in chars() read inside the text and write bytes.
LEMMA TurnType ==
    ASSUME CInv, Terminal \/ Plain \/ Escape2 \/ EscapeU \/ End, UNCHANGED <<input, source>>
    PROVE  CInv'
<1>1. /\ input \in Seq(Bytes) /\ out \in Seq(Bytes) /\ Len(input) \in Nat
      /\ q \in 0..Len(input) /\ reach \in 0..Len(input)
    BY DEF CInv
<1>2. \A i \in 1..Len(input) : At(i) = input[i] /\ At(i) \in Bytes
    BY <1>1 DEF At
<1> SUFFICES /\ out' \in Seq(Bytes) /\ q' \in 0..Len(input) /\ reach' \in 0..Len(input)
             /\ status' \in {"scan", "ok", "error"}
    BY Zenon DEF CInv
<1>3. CASE Terminal
    BY <1>1, <1>3 DEF Terminal, Scanning, Looked, CInv
<1>4. CASE Plain
    <2>1. q + 1 \in 1..Len(input) /\ At(q + 1) \in Bytes
        BY <1>1, <1>2, <1>4 DEF Plain, Scanning
    <2>2. out \o <<At(q + 1)>> \in Seq(Bytes)
        BY <1>1, <2>1
    <2>3. reach' \in 0..Len(input)
        BY <1>1, <1>4, <2>1 DEF Plain, Looked
    <2>4. Error \/ Take(1, <<At(q + 1)>>)
        BY <1>4 DEF Plain
    <2>5. CASE Error
        BY <1>1, <2>3, <2>5 DEF Error
    <2>6. CASE Take(1, <<At(q + 1)>>)
        BY <1>1, <2>1, <2>2, <2>3, <2>6 DEF Take, CInv
    <2> QED
        BY <2>4, <2>5, <2>6
<1>5. CASE Escape2
    <2>1. q + 2 \in 1..Len(input) /\ At(q + 2) \in Bytes
        BY <1>1, <1>2, <1>5 DEF Escape2, Escaped, Scanning
    <2> DEFINE c == IF At(q + 2) \in DOMAIN Named THEN Named[At(q + 2)] ELSE At(q + 2)
    <2>2. c \in Bytes
        <3>1. \A k \in DOMAIN Named : Named[k] \in {8, 9, 10, 11, 12, 13}
            BY DEF Named
        <3>2. {8, 9, 10, 11, 12, 13} \subseteq Bytes
            BY DEF Bytes
        <3> QED
            BY <2>1, <3>1, <3>2, Zenon
    <2> HIDE DEF c
    <2>3. out \o <<c>> \in Seq(Bytes)
        BY <1>1, <2>2
    <2>4. reach' \in 0..Len(input)
        BY <1>1, <1>5, <2>1 DEF Escape2, Looked
    <2>5. Error \/ Take(2, <<c>>)
        BY <1>5 DEF Escape2, c
    <2>6. CASE Error
        BY <1>1, <2>4, <2>6 DEF Error
    <2>7. CASE Take(2, <<c>>)
        BY <1>1, <2>1, <2>3, <2>4, <2>7 DEF Take, CInv
    <2> QED
        BY <2>5, <2>6, <2>7
<1>6. CASE EscapeU
    <2>1. q + 2 \in 1..Len(input)
        BY <1>1, <1>6 DEF EscapeU, Escaped, Scanning
    <2>2. CASE RoomForHex /\ \A i \in 3..6 : At(q + i) \in HexDigits
        <3> DEFINE b == EncodeUTF8(HexByte(At(q + 3), At(q + 4)), HexByte(At(q + 5), At(q + 6)))
        <3>1. b \in Seq(Bytes)
            <4>1. /\ At(q + 3) \in HexDigits /\ At(q + 4) \in HexDigits
                  /\ At(q + 5) \in HexDigits /\ At(q + 6) \in HexDigits
                BY <2>2
            <4>2. HexByte(At(q + 3), At(q + 4)) \in Bytes /\ HexByte(At(q + 5), At(q + 6)) \in Bytes
                BY <4>1, HexByteType
            <4> QED
                BY <4>2, EncodeUTF8Type
        <3>2. q + 6 \in 0..Len(input)
            BY <1>1, <2>2 DEF RoomForHex
        <3>3. Looked(q + 6) /\ Take(6, b)
            BY <1>6, <2>2 DEF EscapeU
        <3> HIDE DEF b
        <3>4. out \o b \in Seq(Bytes)
            BY <1>1, <3>1
        <3> QED
            BY <1>1, <3>2, <3>3, <3>4 DEF Looked, Take, CInv
    <2>3. CASE ~(RoomForHex /\ \A i \in 3..6 : At(q + i) \in HexDigits)
        <3>1. Error /\ ((RoomForHex /\ Looked(q + 6)) \/ Looked(q + 2))
            BY <1>6, <2>3 DEF EscapeU
        <3> QED
            BY <1>1, <2>1, <3>1 DEF Error, Looked, RoomForHex
    <2> QED
        BY <2>2, <2>3
<1>7. CASE End
    BY <1>1, <1>7 DEF End, Error
<1> QED
    BY <1>3, <1>4, <1>5, <1>6, <1>7

\* Every text of base64 passes the checks of binaryObject() and is read as it is.
LEMMA EncodePlain ==
    ASSUME NEW d \in Seq(Bytes)
    PROVE  /\ IsBase64(Encode(d))
           /\ \A i \in 1..Len(Encode(d)) : Encode(d)[i] \notin Controls \cup {Quote, Backslash}
<1> DEFINE N == Turns(d, 3)
           e == Encode(d)
<1>1. /\ N \in Nat /\ Len(e) = 4 * N
      /\ \A i \in 1..(4 * N) : e[i] = IF i > Len(d) + N THEN Pad ELSE DigitAt(d, i)
    BY EncodeProps
<1>2. ASSUME NEW i \in 1..(4 * N)
      PROVE  DigitAt(d, i) \in Chars /\ DigitAt(d, i) \notin Controls \cup {Quote, Backslash}
    <2> DEFINE k == (i + 3) \div 4
               j == ((i - 1) % 4) + 1
    <2>1. k \in Nat \ {0} /\ j \in 1..4
        BY <1>1
    <2>2. DigitAt(d, i) = Encoded(Sextet(j, Full(d, 3 * k - 2), Full(d, 3 * k - 1), Full(d, 3 * k)))
        BY DEF DigitAt, DigitOf
    <2> HIDE DEF k, j
    <2>3. Sextet(j, Full(d, 3 * k - 2), Full(d, 3 * k - 1), Full(d, 3 * k)) \in 0..63
        BY <2>1, DigitOfType, Zenon
    <2> QED
        BY <2>2, <2>3, EncodedProps, Zenon
<1> HIDE DEF N, e
<1>3. \A i \in 1..Len(e) : e[i] \in Chars \cup {Pad} /\ e[i] \notin Controls \cup {Quote, Backslash}
    BY <1>1, <1>2, PadProps, Zenon
<1>4. Len(e) % 4 = 0
    BY <1>1
<1> QED
    BY <1>3, <1>4 DEF e, IsBase64

\* What is written is read from its start, one character after the other.
StringInv ==
    source[1] = "string" =>
        \E i \in 0..Len(source[2]) :
            /\ q = Len(Escaping(source[2])[i]) /\ IsStartOf(out, source[2], i)
            /\ status # "error" /\ (status = "ok" => i = Len(source[2]))

DataInv ==
    source[1] = "data" =>
        /\ IsStartOf(out, input, q) /\ q < Len(input)
        /\ status # "error" /\ (status = "ok" => q + 1 = Len(input))

\* Nothing is a start of anything.
LEMMA EmptyStart == ASSUME NEW d PROVE IsStartOf(<<>>, d, 0)
BY DEF IsStartOf

\* A start is continued by the next byte.
LEMMA NextStart ==
    ASSUME NEW u, NEW d \in Seq(Bytes), NEW m \in 0..(Len(d) - 1), IsStartOf(u, d, m)
    PROVE  IsStartOf(u \o <<d[m + 1]>>, d, m + 1)
<1> DEFINE w == <<d[m + 1]>>
<1>1. u \in Seq(Bytes) /\ Len(u) = m /\ \A i \in 1..m : u[i] = d[i]
    BY DEF IsStartOf
<1>2. w \in Seq(Bytes) /\ Len(w) = 1 /\ w[1] = d[m + 1] /\ m \in Nat
    OBVIOUS
<1> HIDE DEF w
<1>3. /\ u \o w \in Seq(Bytes) /\ Len(u \o w) = Len(u) + Len(w)
      /\ \A i \in 1..Len(u) : (u \o w)[i] = u[i]
      /\ \A j \in 1..Len(w) : (u \o w)[Len(u) + j] = w[j]
    <2>1. u \in Seq(Bytes) /\ w \in Seq(Bytes)
        BY <1>1, <1>2
    <2> QED
        BY <2>1, ConcatProps
<1>4. Len(u \o w) = m + 1
    BY <1>1, <1>2, <1>3, Zenon
<1>5. (u \o w)[m + 1] = d[m + 1]
    <2>1. 1 \in 1..1
        OBVIOUS
    <2> QED
        BY <1>1, <1>2, <1>3, <2>1, Zenon
<1>6. \A i \in 1..(m + 1) : i \in 1..m \/ i = m + 1
    BY <1>2
<1>7. \A i \in 1..(m + 1) : (u \o w)[i] = d[i]
    BY <1>1, <1>3, <1>5, <1>6, Zenon
<1> QED
    BY <1>3, <1>4, <1>7, Zenon DEF IsStartOf, w

\* What chars() does with what escape() has written for c.
LEMMA WrittenTaken ==
    ASSUME CInv, NEW c \in Bytes, Ahead(EscapeOne(c)),
           Terminal \/ Plain \/ Escape2 \/ EscapeU \/ End
    PROVE  Take(Len(EscapeOne(c)), <<c>>)
<1> DEFINE w == EscapeOne(c)
<1>1. /\ w \in Seq(Bytes)
      /\ \/ Len(w) = 1 /\ w[1] = c /\ c \notin Controls \cup {Quote, Backslash}
         \/ /\ Len(w) = 2 /\ w[1] = Backslash /\ w[2] \notin {117, 120} \cup (48..55)
            /\ c = IF w[2] \in DOMAIN Named THEN Named[w[2]] ELSE w[2]
         \/ /\ Len(w) = 6 /\ w[1] = Backslash /\ w[2] = 117
            /\ \A i \in 3..6 : w[i] \in HexDigits
            /\ HexByte(w[3], w[4]) = 0 /\ HexByte(w[5], w[6]) = c /\ c < 128
    BY EscapeOneProps
<1>2. q \in Nat /\ Len(input) \in Nat
    BY DEF CInv
<1>3. q + Len(w) < Len(input) /\ \A j \in 1..Len(w) : At(q + j) = w[j]
    BY DEF Ahead
<1>4. Backslash # Quote /\ Backslash \notin Controls
    BY DEF Backslash, Quote, Controls
<1> HIDE DEF w
<1>5. CASE Len(w) = 1 /\ w[1] = c /\ c \notin Controls \cup {Quote, Backslash}
    <2>1. At(q + 1) = c /\ q < Len(input)
        BY <1>2, <1>3, <1>5
    <2>2. ~Terminal /\ ~Escape2 /\ ~EscapeU
        BY <1>5, <2>1 DEF Terminal, Escape2, EscapeU, Escaped
    <2>3. ~End
        BY <1>2, <2>1 DEF End
    <2>4. Plain
        BY <2>2, <2>3
    <2>5. Take(1, <<At(q + 1)>>)
        BY <1>5, <2>1, <2>4 DEF Plain
    <2> QED
        BY <1>5, <2>1, <2>5 DEF w
<1>6. CASE /\ Len(w) = 2 /\ w[1] = Backslash /\ w[2] \notin {117, 120} \cup (48..55)
           /\ c = IF w[2] \in DOMAIN Named THEN Named[w[2]] ELSE w[2]
    <2>1. At(q + 1) = Backslash /\ At(q + 2) = w[2] /\ q + 1 < Len(input)
        BY <1>2, <1>3, <1>6
    <2>2. ~Terminal /\ ~Plain /\ ~EscapeU
        BY <1>4, <1>6, <2>1 DEF Terminal, Plain, EscapeU
    <2>3. ~End
        BY <1>2, <2>1 DEF End
    <2>4. Escape2
        BY <2>2, <2>3
    <2>5. Take(2, <<IF At(q + 2) \in DOMAIN Named THEN Named[At(q + 2)] ELSE At(q + 2)>>)
        BY <1>6, <2>1, <2>4 DEF Escape2
    <2>6. (IF At(q + 2) \in DOMAIN Named THEN Named[At(q + 2)] ELSE At(q + 2)) = c
        BY <1>6, <2>1, Zenon
    <2> QED
        BY <1>6, <2>5, <2>6 DEF w
<1>7. CASE /\ Len(w) = 6 /\ w[1] = Backslash /\ w[2] = 117
           /\ \A i \in 3..6 : w[i] \in HexDigits
           /\ HexByte(w[3], w[4]) = 0 /\ HexByte(w[5], w[6]) = c /\ c < 128
    <2>1. /\ At(q + 1) = Backslash /\ At(q + 2) = 117 /\ q + 1 < Len(input)
          /\ q + 6 < Len(input)
          /\ At(q + 3) = w[3] /\ At(q + 4) = w[4] /\ At(q + 5) = w[5] /\ At(q + 6) = w[6]
        BY <1>2, <1>3, <1>7
    <2>2. ~Terminal /\ ~Plain /\ ~Escape2
        BY <1>4, <1>7, <2>1 DEF Terminal, Plain, Escape2
    <2>3. ~End
        BY <1>2, <2>1 DEF End
    <2>4. EscapeU /\ RoomForHex
        BY <2>1, <2>2, <2>3 DEF RoomForHex
    <2>5. \A i \in 3..6 : At(q + i) \in HexDigits
        <3>1. \A i \in 3..6 : i = 3 \/ i = 4 \/ i = 5 \/ i = 6
            OBVIOUS
        <3>2. 3 \in 3..6 /\ 4 \in 3..6 /\ 5 \in 3..6 /\ 6 \in 3..6
            OBVIOUS
        <3>3. w[3] \in HexDigits /\ w[4] \in HexDigits /\ w[5] \in HexDigits /\ w[6] \in HexDigits
            BY <1>7, <3>2, ZenonT(30)
        <3>4. /\ At(q + 3) \in HexDigits /\ At(q + 4) \in HexDigits
              /\ At(q + 5) \in HexDigits /\ At(q + 6) \in HexDigits
            BY <2>1, <3>3, Zenon
        <3> QED
            BY <3>1, <3>4
    <2>6. Take(6, EncodeUTF8(HexByte(At(q + 3), At(q + 4)), HexByte(At(q + 5), At(q + 6))))
        BY <2>4, <2>5, Zenon DEF EscapeU
    <2>7. EncodeUTF8(0, c) = <<c>>
        BY <1>7 DEF EncodeUTF8
    <2>8. EncodeUTF8(HexByte(At(q + 3), At(q + 4)), HexByte(At(q + 5), At(q + 6))) = <<c>>
        BY <1>7, <2>1, <2>7, Zenon
    <2> QED
        BY <1>7, <2>6, <2>8 DEF w
<1> QED
    BY <1>1, <1>5, <1>6, <1>7

\* A turn of the loop on a string that was written.
LEMMA StringTurn ==
    ASSUME CInv, StringInv, Terminal \/ Plain \/ Escape2 \/ EscapeU \/ End, UNCHANGED <<input, source>>
    PROVE  StringInv'
<1> SUFFICES ASSUME source[1] = "string" PROVE StringInv'
    BY DEF StringInv
<1> DEFINE s == source[2]
           Read(i) == /\ q = Len(Escaping(s)[i]) /\ IsStartOf(out, s, i)
                      /\ status # "error" /\ (status = "ok" => i = Len(s))
<1>1. s \in Seq(Bytes) /\ input = Escape(s) \o <<Quote>> /\ q \in 0..Len(input) /\ Len(input) \in Nat
    BY DEF CInv
<1>2. PICK i \in 0..Len(s) : Read(i)
    BY DEF StringInv
<1>3. status = "scan"
    BY DEF Terminal, Plain, Escape2, EscapeU, End, Escaped, Scanning
<1>4. s' = s
    OBVIOUS
<1> HIDE DEF s
<1>5. /\ i = Len(s) => q + 1 = Len(input) /\ At(q + 1) = Quote
      /\ i < Len(s) => /\ q + Len(EscapeOne(s[i + 1])) = Len(Escaping(s)[i + 1])
                       /\ Ahead(EscapeOne(s[i + 1]))
    BY <1>1, <1>2, NextWritten, Zenon
<1>6. CASE i = Len(s)
    <2>1. q + 1 = Len(input) /\ At(q + 1) = Quote /\ Quote # Backslash
        BY <1>5, <1>6 DEF Quote, Backslash
    <2>2. ~Plain /\ ~Escape2 /\ ~EscapeU
        BY <2>1 DEF Plain, Escape2, EscapeU, Escaped
    <2>3. ~End
        BY <1>1, <2>1 DEF End
    <2>4. status' = "ok" /\ q' = q /\ out' = out
        BY <2>2, <2>3 DEF Terminal
    <2>5. /\ q' = Len(Escaping(s)[i]) /\ IsStartOf(out', s, i)
          /\ status' # "error" /\ (status' = "ok" => i = Len(s))
        BY <1>2, <1>6, <2>4
    <2> QED
        BY <1>4, <2>5 DEF StringInv, s
<1>7. CASE i < Len(s)
    <2> DEFINE w == EscapeOne(s[i + 1])
    <2>1. s[i + 1] \in Bytes /\ i + 1 \in 0..Len(s) /\ i \in 0..(Len(s) - 1)
        BY <1>1, <1>7
    <2>2. Take(Len(w), <<s[i + 1]>>)
        BY <1>5, <1>7, <2>1, WrittenTaken
    <2>3. q' = Len(Escaping(s)[i + 1]) /\ status' = "scan" /\ out' = out \o <<s[i + 1]>>
        BY <1>3, <1>5, <1>7, <2>2, Zenon DEF Take
    <2>4. IsStartOf(out \o <<s[i + 1]>>, s, i + 1)
        BY <1>1, <1>2, <2>1, NextStart
    <2>5. /\ q' = Len(Escaping(s)[i + 1]) /\ IsStartOf(out', s, i + 1)
          /\ status' # "error" /\ (status' = "ok" => i + 1 = Len(s))
        BY <2>3, <2>4
    <2> QED
        BY <1>4, <2>1, <2>5 DEF StringInv, s
<1>8. i = Len(s) \/ i < Len(s)
    BY <1>1
<1> QED
    BY <1>6, <1>7, <1>8

\* A turn of the loop on binary data that was written.
LEMMA DataTurn ==
    ASSUME CInv, DataInv, Terminal \/ Plain \/ Escape2 \/ EscapeU \/ End, UNCHANGED <<input, source>>
    PROVE  DataInv'
<1> SUFFICES ASSUME source[1] = "data" PROVE DataInv'
    BY DEF DataInv
<1> DEFINE d == source[2]
           e == Encode(d)
<1>1. d \in Seq(Bytes) /\ input = e \o <<Quote>> /\ input \in Seq(Bytes) /\ q \in Nat
    BY CharsAssumption DEF CInv, Bytes
<1>2. /\ IsStartOf(out, input, q) /\ q < Len(input)
      /\ status # "error" /\ (status = "ok" => q + 1 = Len(input))
    BY DEF DataInv
<1>3. status = "scan"
    BY DEF Terminal, Plain, Escape2, EscapeU, End, Escaped, Scanning
<1> HIDE DEF d
<1>4. e \in Seq(Bytes) /\ \A i \in 1..Len(e) : e[i] \notin Controls \cup {Quote, Backslash}
    BY <1>1, EncodeProps, EncodePlain
<1> HIDE DEF e
<1>5. /\ Len(e) \in Nat /\ Len(input) = Len(e) + 1 /\ input[Len(e) + 1] = Quote
      /\ \A i \in 1..Len(e) : input[i] = e[i]
    BY <1>1, <1>4
<1>6. ~End
    BY <1>1, <1>2, <1>5 DEF End
<1>7. At(q + 1) = input[q + 1] /\ q + 1 \in 1..Len(input)
    BY <1>1, <1>2, <1>5 DEF At
<1>8. CASE q + 1 = Len(input)
    <2>1. At(q + 1) = Quote /\ Quote # Backslash
        BY <1>5, <1>7, <1>8 DEF Quote, Backslash
    <2>2. ~Plain /\ ~Escape2 /\ ~EscapeU
        BY <2>1 DEF Plain, Escape2, EscapeU, Escaped
    <2>3. status' = "ok" /\ q' = q /\ out' = out
        BY <1>6, <2>2 DEF Terminal
    <2> QED
        BY <1>2, <1>8, <2>3 DEF DataInv
<1>9. CASE q + 1 < Len(input)
    <2>1. q + 1 \in 1..Len(e)
        BY <1>1, <1>5, <1>9
    <2>2. At(q + 1) \notin Controls \cup {Quote, Backslash}
        BY <1>4, <1>5, <1>7, <2>1, Zenon
    <2>3. ~Terminal /\ ~Escape2 /\ ~EscapeU
        BY <2>2 DEF Terminal, Escape2, EscapeU, Escaped
    <2>4. Take(1, <<At(q + 1)>>)
        BY <1>6, <2>2, <2>3 DEF Plain
    <2>5. q' = q + 1 /\ status' = "scan" /\ out' = out \o <<input[q + 1]>>
        BY <1>3, <1>7, <2>4, Zenon DEF Take
    <2>6. q \in 0..(Len(input) - 1)
        BY <1>1, <1>2, <1>5
    <2>7. IsStartOf(out \o <<input[q + 1]>>, input, q + 1)
        BY <1>1, <1>2, <2>6, NextStart, Zenon
    <2>8. IsStartOf(out', input', q') /\ q' < Len(input') /\ status' = "scan"
        BY <1>9, <2>5, <2>7
    <2> QED
        BY <2>8 DEF DataInv
<1>10. q + 1 = Len(input) \/ q + 1 < Len(input)
    BY <1>1, <1>2, <1>5
<1> QED
    BY <1>8, <1>9, <1>10

\* What escape() writes, with the closing quote, is a text.
LEMMA EscapeType ==
    ASSUME NEW s \in Seq(Bytes)
    PROVE  /\ Escape(s) \o <<Quote>> \in Seq(Bytes)
           /\ Len(Escape(s) \o <<Quote>>) \in Nat
           /\ Escaping(s)[0] = <<>>
<1>1. 0 \in 0..Len(s) /\ Len(s) \in 0..Len(s)
    OBVIOUS
<1>2. Escape(s) \in Seq(Bytes) /\ Escaping(s)[0] = <<>>
    BY <1>1, EscapingProps, Zenon DEF Escape
<1>3. <<Quote>> \in Seq(Bytes)
    BY DEF Quote, Bytes
<1>4. Escape(s) \o <<Quote>> \in Seq(Bytes)
    BY <1>2, <1>3, ConcatProps
<1> QED
    BY <1>2, <1>4

ReadInv == CInv /\ StringInv /\ DataInv

\* At the start nothing is read.
LEMMA ReadStarts == InitChars => ReadInv
<1> SUFFICES ASSUME InitChars PROVE ReadInv
    OBVIOUS
<1>1. q = 0 /\ reach = 0 /\ out = <<>> /\ status = "scan"
    BY DEF InitChars
<1>2. IsStartOf(out, input, q)
    BY <1>1, EmptyStart
<1>3. CASE input \in Inputs /\ source = <<"given">>
    <2>1. source[1] = "given" /\ input \in Seq(Bytes) /\ Len(input) \in Nat
        BY <1>3, CharsAssumption DEF Bytes
    <2> QED
        BY <1>1, <2>1 DEF ReadInv, CInv, StringInv, DataInv
<1>4. ASSUME NEW d \in Binary, input = Encode(d) \o <<Quote>>, source = <<"data", d>> PROVE ReadInv
    <2>1. d \in Seq(Bytes) /\ source[1] = "data" /\ source[2] = d
        BY <1>4, CharsAssumption DEF Bytes
    <2>2. Encode(d) \in Seq(Bytes) /\ <<Quote>> \in Seq(Bytes) /\ Len(<<Quote>>) = 1
        BY <2>1, EncodeProps DEF Quote, Bytes
    <2>3. input \in Seq(Bytes) /\ Len(input) \in Nat /\ Len(input) >= 1
        BY <1>4, <2>2
    <2> QED
        BY <1>1, <1>2, <1>4, <2>1, <2>3 DEF ReadInv, CInv, StringInv, DataInv
<1> QED
    BY <1>3, <1>4 DEF InitChars

\* The string is written, and reading starts anew.
LEMMA RewriteKeeps == ReadInv /\ Rewrite => ReadInv'
<1> SUFFICES ASSUME ReadInv, Rewrite PROVE ReadInv'
    OBVIOUS
<1>1. /\ source' = <<"string", out>> /\ input' = Escape(out) \o <<Quote>>
      /\ q' = 0 /\ reach' = 0 /\ out' = <<>> /\ status' = "scan" /\ out \in Seq(Bytes)
    BY DEF Rewrite, ReadInv, CInv
<1>2. source'[1] = "string" /\ source'[2] = out
    BY <1>1
<1>3. input' \in Seq(Bytes) /\ Len(input') \in Nat /\ Escaping(out)[0] = <<>>
    BY <1>1, EscapeType
<1>4. CInv'
    BY <1>1, <1>2, <1>3 DEF CInv
<1>5. StringInv'
    <2>1. q' = Len(Escaping(out)[0]) /\ 0 \in 0..Len(out)
        BY <1>1, <1>3
    <2>2. IsStartOf(out', source'[2], 0)
        BY <1>1, EmptyStart
    <2> QED
        BY <1>1, <1>2, <2>1, <2>2 DEF StringInv
<1> QED
    BY <1>2, <1>4, <1>5 DEF ReadInv, DataInv

\* Reading keeps to what was written: every step of chars(), and the rewriting by
\* jsonString(), is at a place of what escape() or encode() wrote.
THEOREM ReadInvariant == CharsSpec => []ReadInv
<1>1. ReadInv /\ [NextChars]_chars => ReadInv'
    <2> SUFFICES ASSUME ReadInv, [NextChars]_chars PROVE ReadInv'
        OBVIOUS
    <2>1. CASE (Terminal \/ Plain \/ Escape2 \/ EscapeU \/ End) /\ UNCHANGED <<input, source>>
        BY <2>1, TurnType, StringTurn, DataTurn DEF ReadInv
    <2>2. CASE Rewrite
        BY <2>2, RewriteKeeps
    <2>3. CASE UNCHANGED chars
        BY <2>3 DEF chars, ReadInv, CInv, StringInv, DataInv
    <2> QED
        BY <2>1, <2>2, <2>3 DEF NextChars
<1> QED
    BY <1>1, ReadStarts, PTL DEF CharsSpec

\* A start as long as the whole is the whole.
LEMMA WholeStart ==
    ASSUME NEW d \in Seq(Bytes), NEW u, IsStartOf(u, d, Len(d))
    PROVE  u = d
<1>1. u \in Seq(Bytes) /\ Len(u) = Len(d) /\ \A i \in 1..Len(d) : u[i] = d[i]
    BY DEF IsStartOf
<1> QED
    BY <1>1

\* chars() looks at nothing behind the end of its text, for texts of any length
\* and however an escape is cut off.
THEOREM CharsReadInside == CharsSpec => []ReadsInside
<1>1. ReadInv => ReadsInside
    BY DEF ReadInv, CInv, ReadsInside
<1> QED
    BY <1>1, ReadInvariant, PTL

\* Every string that chars() has read, of any length, is written by escape() so
\* that chars() reads it again.
THEOREM EscapeIsRead == CharsSpec => []EscapeRestores
<1>1. ReadInv => EscapeRestores
    <2> SUFFICES ASSUME ReadInv, source[1] = "string"
                 PROVE  status # "error" /\ (status = "ok" => out = source[2])
        BY DEF EscapeRestores
    <2>1. PICK i \in 0..Len(source[2]) :
              /\ IsStartOf(out, source[2], i) /\ status # "error"
              /\ status = "ok" => i = Len(source[2])
        BY DEF ReadInv, StringInv
    <2>2. source[2] \in Seq(Bytes)
        BY DEF ReadInv, CInv
    <2>3. ASSUME status = "ok" PROVE out = source[2]
        BY <2>1, <2>2, <2>3, WholeStart
    <2> QED
        BY <2>1, <2>3
<1> QED
    BY <1>1, ReadInvariant, PTL

\* Binary data of any length is written as RFC 4648 says, read by chars(), passes
\* the checks of binaryObject(), and is what decode() gives.
THEOREM DataIsRestored == CharsSpec => []DecodeRestores
<1>1. ReadInv => DecodeRestores
    <2> SUFFICES ASSUME ReadInv, source[1] = "data"
                 PROVE  /\ input = Rfc4648(source[2]) \o <<Quote>>
                        /\ status # "error"
                        /\ status = "ok" => IsBase64(out) /\ Decode(out) = source[2]
        BY DEF DecodeRestores
    <2> DEFINE d == source[2]
               e == Encode(d)
    <2>1. d \in Seq(Bytes) /\ input = e \o <<Quote>>
        BY CharsAssumption, Zenon DEF ReadInv, CInv, Bytes
    <2>2. /\ IsStartOf(out, input, q) /\ status # "error" /\ q \in Nat
          /\ status = "ok" => q + 1 = Len(input)
        BY DEF ReadInv, CInv, DataInv
    <2> HIDE DEF d
    <2>3. e = Rfc4648(d)
        BY <2>1, EncodeIsRfc4648
    <2>4. e \in Seq(Bytes) /\ IsBase64(e) /\ Decode(e) = d
        BY <2>1, EncodeProps, EncodePlain, DecodeInvertsEncode
    <2> HIDE DEF e
    <2>5. ASSUME status = "ok" PROVE out = e
        <3>1. /\ Len(e) \in Nat /\ Len(input) = Len(e) + 1
              /\ \A i \in 1..Len(e) : input[i] = e[i]
            BY <2>1, <2>4
        <3>2. q = Len(e)
            BY <2>2, <2>5, <3>1
        <3>3. IsStartOf(out, e, Len(e))
            BY <2>2, <3>1, <3>2, Zenon DEF IsStartOf
        <3> QED
            BY <2>4, <3>3, WholeStart
    <2>6. status = "ok" => IsBase64(out) /\ Decode(out) = d
        BY <2>4, <2>5
    <2> QED
        BY <2>1, <2>2, <2>3, <2>6 DEF d
<1> QED
    BY <1>1, ReadInvariant, PTL

-----------------------------------------------------------------------------
(* The grammar *)

\* The character between two places of t, if there is one.
Between(x, t, j, k) == CHAR(x, SubSeq(t, j + 1, k))

\* The three widths of CHAR, and no other.
Widths(x, t, j, k) ==
    /\ k = j + 1 => Between(x, t, j, k) =
           IF t[j + 1] \notin Controls \cup {Quote, Backslash} THEN {<<t[j + 1]>>} ELSE {}
    /\ k = j + 2 => Between(x, t, j, k) =
           IF t[j + 1] = Backslash /\ t[j + 2] \notin {117, 120} \cup x
           THEN {<<IF t[j + 2] \in DOMAIN Named THEN Named[t[j + 2]] ELSE t[j + 2]>>} ELSE {}
    /\ k = j + 6 => Between(x, t, j, k) =
           IF t[j + 1] = Backslash /\ t[j + 2] = 117 /\ (\A i \in 3..6 : t[j + i] \in HexDigits)
           THEN {Utf8(((Digit(t[j + 3]) * 16 + Digit(t[j + 4])) * 16 + Digit(t[j + 5])) * 16 + Digit(t[j + 6]))}
           ELSE {}
    /\ k # j + 1 /\ k # j + 2 /\ k # j + 6 => Between(x, t, j, k) = {}

\* What lies between two places has one of these widths.
LEMMA BetweenProps ==
    ASSUME NEW x, NEW t \in Seq(Bytes), NEW j \in Nat, NEW k \in Nat, j < k, k <= Len(t)
    PROVE  Widths(x, t, j, k)
<1> DEFINE s == SubSeq(t, j + 1, k)
<1>1. s \in Seq(Bytes) /\ Len(s) = k - j
    OBVIOUS
<1>2. \A i \in 1..(k - j) : s[i] = t[j + i]
    OBVIOUS
<1>3. Between(x, t, j, k) = CHAR(x, s)
    BY DEF Between
<1> HIDE DEF s
<1>4. ASSUME k = j + 1
      PROVE  CHAR(x, s) = IF t[j + 1] \notin Controls \cup {Quote, Backslash} THEN {<<t[j + 1]>>} ELSE {}
    <2>1. Len(s) = 1 /\ s[1] = t[j + 1] /\ s = <<t[j + 1]>>
        BY <1>1, <1>2, <1>4
    <2> QED
        BY <2>1 DEF CHAR
<1>5. ASSUME k = j + 2
      PROVE  CHAR(x, s) = IF t[j + 1] = Backslash /\ t[j + 2] \notin {117, 120} \cup x
                       THEN {<<IF t[j + 2] \in DOMAIN Named THEN Named[t[j + 2]] ELSE t[j + 2]>>} ELSE {}
    <2>1. Len(s) = 2 /\ s[1] = t[j + 1] /\ s[2] = t[j + 2]
        BY <1>1, <1>2, <1>5
    <2> QED
        BY <2>1 DEF CHAR
<1>6. ASSUME k = j + 6
      PROVE  CHAR(x, s) =
                 IF t[j + 1] = Backslash /\ t[j + 2] = 117 /\ (\A i \in 3..6 : t[j + i] \in HexDigits)
                 THEN {Utf8(((Digit(t[j + 3]) * 16 + Digit(t[j + 4])) * 16 + Digit(t[j + 5])) * 16 + Digit(t[j + 6]))}
                 ELSE {}
    <2>1. /\ Len(s) = 6 /\ s[1] = t[j + 1] /\ s[2] = t[j + 2] /\ s[3] = t[j + 3] /\ s[4] = t[j + 4]
          /\ s[5] = t[j + 5] /\ s[6] = t[j + 6] /\ \A i \in 3..6 : s[i] = t[j + i]
        BY <1>1, <1>2, <1>6
    <2>2. (\A i \in 3..6 : s[i] \in HexDigits) <=> (\A i \in 3..6 : t[j + i] \in HexDigits)
        BY <2>1
    <2> QED
        BY <2>1, <2>2 DEF CHAR
<1>7. ASSUME k # j + 1, k # j + 2, k # j + 6 PROVE CHAR(x, s) = {}
    <2>1. Len(s) # 1 /\ Len(s) # 2 /\ Len(s) # 6
        BY <1>1, <1>7
    <2> QED
        BY <2>1 DEF CHAR
<1> QED
    BY <1>3, <1>4, <1>5, <1>6, <1>7, Zenon DEF Widths

\* encodeUTF8() is UTF-8.
LEMMA EncodeUTF8IsUtf8 ==
    ASSUME NEW a \in HexDigits, NEW b \in HexDigits, NEW c \in HexDigits, NEW e \in HexDigits
    PROVE  EncodeUTF8(HexByte(a, b), HexByte(c, e)) =
               Utf8(((Digit(a) * 16 + Digit(b)) * 16 + Digit(c)) * 16 + Digit(e))
<1> DEFINE x == HexByte(a, b)
           y == HexByte(c, e)
           n == ((Digit(a) * 16 + Digit(b)) * 16 + Digit(c)) * 16 + Digit(e)
<1>1. Digit(a) \in 0..15 /\ Digit(b) \in 0..15 /\ Digit(c) \in 0..15 /\ Digit(e) \in 0..15
    BY DEF Digit, HexDigits
<1>2. x \in 0..255 /\ y \in 0..255 /\ n = x * 256 + y
    <2> DEFINE f == Digit(a)
               g == Digit(b)
               h == Digit(c)
               l == Digit(e)
    <2>1. x = 16 * f + g /\ y = 16 * h + l /\ n = ((f * 16 + g) * 16 + h) * 16 + l
        BY DEF HexByte
    <2>2. f \in 0..15 /\ g \in 0..15 /\ h \in 0..15 /\ l \in 0..15
        BY <1>1
    <2> HIDE DEF f, g, h, l, x, y, n
    <2>3. x \in 0..255 /\ y \in 0..255
        BY <2>1, <2>2
    <2>4. n = x * 256 + y
        BY <2>1, <2>2
    <2> QED
        BY <2>3, <2>4
<1> SUFFICES EncodeUTF8(x, y) = Utf8(n)
    BY Zenon DEF x, y, n
<1> HIDE DEF x, y, n
<1>3. /\ n \div 64 = x * 4 + y \div 64 /\ n % 64 = y % 64 /\ n \div 4096 = x \div 16
      /\ (n < 128 <=> x = 0 /\ y < 128) /\ (n \in 128..2047 <=> ~(x = 0 /\ y < 128) /\ x < 8)
    <2>1. n \div 64 = x * 4 + y \div 64
        BY <1>2
    <2>2. n % 64 = y % 64
        BY <1>2
    <2>3. n \div 4096 = x \div 16
        BY <1>2
    <2>4. (n < 128 <=> x = 0 /\ y < 128) /\ (n \in 128..2047 <=> ~(x = 0 /\ y < 128) /\ x < 8)
        BY <1>2, SMTT(30)
    <2> QED
        BY <2>1, <2>2, <2>3, <2>4
<1>4. CASE x = 0 /\ y < 128
    <2>1. n = y /\ n < 128 /\ ~(n \in 128..2047)
        BY <1>2, <1>3, <1>4
    <2>2. EncodeUTF8(x, y) = <<y>> /\ Utf8(n) = <<n>>
        BY <1>4, <2>1, SMTT(30) DEF EncodeUTF8, Utf8
    <2> QED
        BY <2>1, <2>2, SMTT(30)
<1>5. CASE ~(x = 0 /\ y < 128) /\ x < 8
    <2>1. ~(n < 128) /\ n \in 128..2047
        BY <1>3, <1>5
    <2>2. EncodeUTF8(x, y) = <<192 + x * 4 + y \div 64, 128 + (y % 64)>>
        BY <1>5 DEF EncodeUTF8
    <2>3. Utf8(n) = <<192 + n \div 64, 128 + (n % 64)>>
        <3> DEFINE A == n < 128
                   B == n \in 128..2047
                   P == <<n>>
                   Q == <<192 + n \div 64, 128 + (n % 64)>>
                   R == <<224 + n \div 4096, 128 + ((n \div 64) % 64), 128 + (n % 64)>>
        <3>1. Utf8(n) = CASE A -> P [] B -> Q [] OTHER -> R
            BY DEF Utf8
        <3> HIDE DEF A, B, P, Q, R
        <3>2. ~A /\ B
            BY <2>1 DEF A, B
        <3>3. Utf8(n) = Q
            BY <3>1, <3>2
        <3> QED
            BY <3>3 DEF Q
    <2>4. 192 + n \div 64 = 192 + x * 4 + y \div 64
        BY <1>2, <1>3, SMTT(30)
    <2> QED
        BY <1>3, <2>2, <2>3, <2>4, SMTT(30)
<1>6. CASE ~(x = 0 /\ y < 128) /\ ~(x < 8)
    <2>1. ~(n < 128) /\ ~(n \in 128..2047)
        BY <1>3, <1>6
    <2>2. EncodeUTF8(x, y) = <<224 + x \div 16, 128 + ((x * 4 + y \div 64) % 64), 128 + (y % 64)>>
        BY <1>6 DEF EncodeUTF8
    <2>3. Utf8(n) = <<224 + n \div 4096, 128 + ((n \div 64) % 64), 128 + (n % 64)>>
        BY <2>1 DEF Utf8
    <2> QED
        BY <1>3, <2>2, <2>3, SMTT(30)
<1> QED
    BY <1>4, <1>5, <1>6

\* An escaped letter stands for a byte.
LEMMA NamedType ==
    ASSUME NEW x \in Bytes
    PROVE  (IF x \in DOMAIN Named THEN Named[x] ELSE x) \in Bytes
<1>1. \A y \in DOMAIN Named : Named[y] \in Bytes
    BY DEF Named, Bytes
<1> QED
    BY <1>1, SMTT(30)

\* A character stands for bytes.
LEMMA BetweenType ==
    ASSUME NEW x, NEW t \in Seq(Bytes), NEW j \in Nat, NEW k \in Nat, j < k, k <= Len(t)
    PROVE  Between(x, t, j, k) \subseteq Seq(Bytes)
<1>0. Widths(x, t, j, k)
    BY BetweenProps
<1>1. CASE k = j + 1
    <2>1. t[j + 1] \in Bytes
        BY <1>1
    <2>2. <<t[j + 1]>> \in Seq(Bytes)
        BY <2>1
    <2>3. Between(x, t, j, k) = IF t[j + 1] \notin Controls \cup {Quote, Backslash} THEN {<<t[j + 1]>>} ELSE {}
        BY <1>0, <1>1, Zenon DEF Widths
    <2> QED
        BY <2>2, <2>3, Zenon
<1>2. CASE k = j + 2
    <2> DEFINE c == IF t[j + 2] \in DOMAIN Named THEN Named[t[j + 2]] ELSE t[j + 2]
    <2>1. t[j + 2] \in Bytes
        BY <1>2
    <2>2. c \in Bytes
        BY <2>1, NamedType
    <2>3. Between(x, t, j, k) = IF t[j + 1] = Backslash /\ t[j + 2] \notin {117, 120} \cup x
                             THEN {<<c>>} ELSE {}
        BY <1>0, <1>2, Zenon DEF Widths
    <2> HIDE DEF c
    <2>4. <<c>> \in Seq(Bytes)
        BY <2>2
    <2> QED
        BY <2>3, <2>4, Zenon
<1>3. CASE k = j + 6
    <2> DEFINE u == Utf8(((Digit(t[j + 3]) * 16 + Digit(t[j + 4])) * 16 + Digit(t[j + 5])) * 16 + Digit(t[j + 6]))
    <2>1. Between(x, t, j, k) =
              IF t[j + 1] = Backslash /\ t[j + 2] = 117 /\ (\A i \in 3..6 : t[j + i] \in HexDigits)
              THEN {u} ELSE {}
        BY <1>0, <1>3, Zenon DEF Widths
    <2>2. CASE \A i \in 3..6 : t[j + i] \in HexDigits
        <3>1. t[j + 3] \in HexDigits /\ t[j + 4] \in HexDigits /\ t[j + 5] \in HexDigits /\ t[j + 6] \in HexDigits
            BY <2>2
        <3>2. u = EncodeUTF8(HexByte(t[j + 3], t[j + 4]), HexByte(t[j + 5], t[j + 6]))
            BY <3>1, EncodeUTF8IsUtf8
        <3>3. HexByte(t[j + 3], t[j + 4]) \in Bytes /\ HexByte(t[j + 5], t[j + 6]) \in Bytes
            BY <3>1, HexByteType
        <3>4. u \in Seq(Bytes)
            BY <3>2, <3>3, EncodeUTF8Type
        <3> HIDE DEF u
        <3> QED
            BY <2>1, <3>4
    <2>3. CASE ~\A i \in 3..6 : t[j + i] \in HexDigits
        <3>1. Between(x, t, j, k) = {}
            BY <2>1, <2>3, Zenon
        <3> QED
            BY <3>1, Zenon
    <2> QED
        BY <2>2, <2>3
<1>4. CASE k # j + 1 /\ k # j + 2 /\ k # j + 6
    <2>1. Between(x, t, j, k) = {}
        BY <1>0, <1>4, Zenon DEF Widths
    <2> QED
        BY <2>1, Zenon
<1> QED
    BY <1>1, <1>2, <1>3, <1>4

\* The forms of a character.
Single(t, j) == t[j + 1] \notin Controls \cup {Quote, Backslash}
Pair(t, j) == t[j + 1] = Backslash /\ t[j + 2] \notin {117, 120} \cup Octal
Hex(t, j) == t[j + 1] = Backslash /\ t[j + 2] = 117 /\ \A i \in 3..6 : t[j + i] \in HexDigits

\* A CHAR has one of three forms.
LEMMA BetweenForm ==
    ASSUME NEW t \in Seq(Bytes), NEW j \in Nat, NEW n \in Nat, j < n, n <= Len(t), Between(Octal, t, j, n) # {}
    PROVE  (n = j + 1 /\ Single(t, j)) \/ (n = j + 2 /\ Pair(t, j)) \/ (n = j + 6 /\ Hex(t, j))
<1>0. Widths(Octal, t, j, n)
    BY BetweenProps
<1>1. CASE n = j + 1
    <2>1. Between(Octal, t, j, n) = IF Single(t, j) THEN {<<t[j + 1]>>} ELSE {}
        BY <1>0, <1>1, Zenon DEF Widths, Single
    <2> QED
        BY <1>1, <2>1, Zenon
<1>2. CASE n = j + 2
    <2>1. Between(Octal, t, j, n) =
              IF Pair(t, j) THEN {<<IF t[j + 2] \in DOMAIN Named THEN Named[t[j + 2]] ELSE t[j + 2]>>} ELSE {}
        BY <1>0, <1>2, Zenon DEF Widths, Pair
    <2> QED
        BY <1>2, <2>1, Zenon
<1>3. CASE n = j + 6
    <2> DEFINE u == Utf8(((Digit(t[j + 3]) * 16 + Digit(t[j + 4])) * 16 + Digit(t[j + 5])) * 16 + Digit(t[j + 6]))
    <2>1. Between(Octal, t, j, n) = IF Hex(t, j) THEN {u} ELSE {}
        BY <1>0, <1>3, Zenon DEF Widths, Hex
    <2> QED
        BY <1>3, <2>1, Zenon
<1>4. CASE n # j + 1 /\ n # j + 2 /\ n # j + 6
    BY <1>0, <1>4, Zenon DEF Widths
<1> QED
    BY <1>1, <1>2, <1>3, <1>4

\* No two characters start at the same place, and none with a quote.
LEMMA BetweenUnique ==
    ASSUME NEW t \in Seq(Bytes), NEW j \in Nat, NEW k \in Nat, j < k, k <= Len(t), Between(Octal, t, j, k) # {}
    PROVE  /\ t[j + 1] # Quote
           /\ \A n \in Nat : j < n /\ n <= Len(t) /\ Between(Octal, t, j, n) # {} => n = k
<1>1. \A n \in Nat : j < n /\ n <= Len(t) /\ Between(Octal, t, j, n) # {} =>
          (n = j + 1 /\ Single(t, j)) \/ (n = j + 2 /\ Pair(t, j)) \/ (n = j + 6 /\ Hex(t, j))
    BY BetweenForm
<1>2. /\ ~(Single(t, j) /\ Pair(t, j)) /\ ~(Single(t, j) /\ Hex(t, j)) /\ ~(Pair(t, j) /\ Hex(t, j))
    BY Zenon DEF Single, Pair, Hex
<1>3. Backslash # Quote
    BY DEF Backslash, Quote
<1>4. (Single(t, j) \/ Pair(t, j) \/ Hex(t, j)) => t[j + 1] # Quote
    BY <1>3, Zenon DEF Single, Pair, Hex
<1>5. (k = j + 1 /\ Single(t, j)) \/ (k = j + 2 /\ Pair(t, j)) \/ (k = j + 6 /\ Hex(t, j))
    BY <1>1
<1> QED
    BY <1>1, <1>2, <1>4, <1>5, Zenon

\* What the first k bytes of a text stand for: what a part of them stands for, and
\* a character behind it.
Joins(f, x, t, k, w) == \E j \in 0..(k - 1) : \E m \in f[j], c \in Between(x, t, j, k) : w = m \o c
Grows(f, x, t) ==
    /\ f[0] = {<<>>}
    /\ \A k \in 0..Len(t) : f[k] \subseteq Seq(Bytes)
    /\ \A k \in 1..Len(t), w \in Seq(Bytes) : w \in f[k] <=> Joins(f, x, t, k, w)

\* The meanings of a prefix are those of a shorter one with a CHAR behind it.
LEMMA MeaningsProps ==
    ASSUME NEW x, NEW t \in Seq(Bytes)
    PROVE  Grows(Meanings(x, t), x, t)
<1> DEFINE N == Len(t)
           S == Seq(Bytes)
           X == SUBSET S
           Body(f, k) == IF k = 0 THEN {<<>>}
                         ELSE UNION {{m \o c : m \in f[j], c \in CHAR(x, SubSeq(t, j + 1, k))} : j \in 0..(k - 1)}
           Eqn(f) == f = [k \in 0..N |-> Body(f, k)]
           upTo == CHOOSE f : Eqn(f)
<1>1. Meanings(x, t) = upTo
    BY DEF Meanings
<1>2. N \in Nat /\ <<>> \in S
    OBVIOUS
<1>3. ASSUME NEW f, NEW k, NEW w, k # 0 PROVE w \in Body(f, k) <=> Joins(f, x, t, k, w)
    <2> DEFINE R == 0..(k - 1)
               C(j) == CHAR(x, SubSeq(t, j + 1, k))
               P(j) == {m \o c : m \in f[j], c \in C(j)}
    <2>1. Body(f, k) = UNION {P(j) : j \in R}
        BY <1>3
    <2>2. \A j : C(j) = Between(x, t, j, k)
        BY DEF Between
    <2> HIDE DEF C, R, Body
    <2>3. \A j : w \in P(j) <=> \E m \in f[j], c \in C(j) : w = m \o c
        OBVIOUS
    <2> HIDE DEF P
    <2>4. w \in Body(f, k) <=> \E j \in R : w \in P(j)
        BY <2>1, Zenon
    <2>5. Joins(f, x, t, k, w) <=> \E j \in R : \E m \in f[j], c \in Between(x, t, j, k) : w = m \o c
        BY Zenon DEF Joins, R
    <2> QED
        BY <2>2, <2>3, <2>4, <2>5, Zenon
<1>4. \A f : Body(f, 0) = {<<>>}
    OBVIOUS
<1>5. ASSUME NEW f, NEW k \in 1..N, \A j \in 0..(k - 1) : f[j] \subseteq S, NEW w, Joins(f, x, t, k, w)
      PROVE  w \in S
    <2>1. PICK j \in 0..(k - 1) : \E m \in f[j], c \in Between(x, t, j, k) : w = m \o c
        BY <1>5, Zenon DEF Joins
    <2>2. PICK m \in f[j], c \in Between(x, t, j, k) : w = m \o c
        BY <2>1, Zenon
    <2>3. j \in Nat /\ k \in Nat /\ j < k /\ k <= Len(t)
        BY <1>2
    <2>4. m \in Seq(Bytes) /\ c \in Seq(Bytes)
        BY <1>5, <2>3, BetweenType
    <2> QED
        BY <2>2, <2>4, ConcatProps
<1> HIDE DEF Body, N, S
<1> DEFINE made(k, s) == {w \in S : (k = 0 /\ w = <<>>) \/
                                    (k # 0 /\ \E j \in 0..(k - 1) : \E m \in s[j + 1], c \in Between(x, t, j, k) : w = m \o c)}
           Q == Seq(X)
           make == [k \in 0..N |-> [s \in Q |-> made(k, s)]]
<1>6. \A k, s : made(k, s) \in X
    OBVIOUS
<1>7. \A k \in 0..N, s \in Q : make[k][s] = made(k, s)
    OBVIOUS
<1>8. make \in MakersOf(X, N)
    <2> HIDE DEF made, X, Q
    <2>1. make \in [0..N -> [Q -> X]]
        BY <1>6
    <2> QED
        BY <2>1 DEF MakersOf, Q
<1>9. PICK g : IsCourse(g, X, N, make)
    <2> HIDE DEF make, X
    <2> QED
        BY <1>2, <1>8, CourseExists
<1>10. g \in [0..N -> X] /\ \A k \in 0..N : g[k] \subseteq S
    BY <1>9 DEF IsCourse
<1>11. ASSUME NEW k \in 0..N PROVE g[k] = Body(g, k)
    <2>1. PICK s \in Q : (\A j \in 0..(k - 1) : s[j + 1] = g[j]) /\ g[k] = make[k][s]
        BY <1>9, Zenon DEF IsCourse
    <2>2. g[k] = made(k, s)
        BY <1>7, <2>1
    <2>3. CASE k = 0
        BY <1>2, <1>4, <2>2, <2>3
    <2>4. CASE k # 0
        <3>1. \A w : w \in g[k] <=> w \in S /\ Joins(g, x, t, k, w)
            <4>1. \A w : w \in g[k] <=>
                      w \in S /\ \E j \in 0..(k - 1) : \E m \in s[j + 1], c \in Between(x, t, j, k) : w = m \o c
                BY <2>2, <2>4, Zenon
            <4>2. \A w : (\E j \in 0..(k - 1) : \E m \in s[j + 1], c \in Between(x, t, j, k) : w = m \o c) <=> Joins(g, x, t, k, w)
                BY <2>1, Zenon DEF Joins
            <4> QED
                BY <4>1, <4>2, Zenon
        <3>2. k \in 1..N /\ \A j \in 0..(k - 1) : g[j] \subseteq S
            <4>1. k \in 1..N /\ \A j \in 0..(k - 1) : j \in 0..N
                BY <1>2, <2>4
            <4> QED
                BY <1>10, <4>1, Zenon
        <3>3. \A w : Joins(g, x, t, k, w) => w \in S
            BY <1>5, <3>2, Zenon
        <3>4. \A w : w \in g[k] <=> w \in Body(g, k)
            BY <1>3, <2>4, <3>1, <3>3, Zenon
        <3> QED
            BY <3>4, Zenon
    <2> QED
        BY <2>3, <2>4
<1>12. Eqn(g)
    BY <1>10, <1>11
<1>13. Eqn(upTo)
    BY <1>12, Zenon
<1> HIDE DEF upTo
<1>14. \A k \in 0..N : upTo[k] = Body(upTo, k)
    BY <1>13, Zenon
<1>15. upTo[0] = {<<>>}
    BY <1>2, <1>4, <1>14
<1>16. ASSUME NEW k \in 1..N PROVE \A w : w \in upTo[k] <=> Joins(upTo, x, t, k, w)
    <2>1. k \in 0..N /\ k # 0
        BY <1>2
    <2> QED
        BY <1>3, <1>14, <2>1, Zenon
<1> DEFINE T == {n \in 0..N : \A j \in 0..n : upTo[j] \subseteq S}
<1>17. 0 \in T
    BY <1>2, <1>15
<1>18. ASSUME NEW n \in 0..(N - 1), n \in T PROVE n + 1 \in T
    <2>1. n + 1 \in 1..N /\ n + 1 \in 0..N /\ (n + 1) - 1 = n /\ \A j \in 0..(n + 1) : j \in 0..n \/ j = n + 1
        BY <1>2
    <2>2. \A j \in 0..n : upTo[j] \subseteq S
        BY <1>18
    <2>3. \A j \in 0..((n + 1) - 1) : upTo[j] \subseteq S
        BY <2>1, <2>2, Zenon
    <2>4. upTo[n + 1] \subseteq S
        BY <1>5, <1>16, <2>1, <2>3, Zenon
    <2>5. \A j \in 0..(n + 1) : upTo[j] \subseteq S
        BY <2>1, <2>2, <2>4, Zenon
    <2> QED
        BY <2>1, <2>5, Zenon
<1> HIDE DEF T
<1>19. \A n \in 0..N : n \in T
    BY <1>2, <1>17, <1>18, IntervalInduction
<1>20. \A k \in 0..N : upTo[k] \subseteq S
    <2>1. N \in 0..N
        BY <1>2
    <2> QED
        BY <1>19, <2>1, Zenon DEF T
<1> QED
    BY <1>1, <1>15, <1>16, <1>20, Zenon DEF Grows, N, S

\* The first k bytes are CHARS.
Reached(t, k) == Meanings(Octal, t)[k] # {}

\* A prefix is CHARS if a shorter one is and a CHAR lies between.
LEMMA ReachedStep ==
    ASSUME NEW t \in Seq(Bytes), NEW k \in 1..Len(t)
    PROVE  Reached(t, k) <=> \E j \in 0..(k - 1) : Reached(t, j) /\ Between(Octal, t, j, k) # {}
<1> DEFINE M == Meanings(Octal, t)
<1>1. /\ \A i \in 0..Len(t) : M[i] \subseteq Seq(Bytes)
      /\ \A w \in Seq(Bytes) : w \in M[k] <=> Joins(M, Octal, t, k, w)
    BY MeaningsProps, Zenon DEF Grows
<1> HIDE DEF M
<1>2. k \in Nat /\ k \in 0..Len(t) /\ \A j \in 0..(k - 1) : j \in 0..Len(t) /\ j \in Nat /\ j < k /\ k <= Len(t)
    OBVIOUS
<1>3. ASSUME M[k] # {} PROVE \E j \in 0..(k - 1) : M[j] # {} /\ Between(Octal, t, j, k) # {}
    <2>1. PICK w : w \in M[k]
        BY <1>3, Zenon
    <2>2. Joins(M, Octal, t, k, w)
        BY <1>1, <1>2, <2>1, Zenon
    <2> QED
        BY <2>2, Zenon DEF Joins
<1>4. ASSUME NEW j \in 0..(k - 1), M[j] # {}, Between(Octal, t, j, k) # {} PROVE M[k] # {}
    <2>1. PICK m : m \in M[j]
        BY <1>4, Zenon
    <2>2. PICK c : c \in Between(Octal, t, j, k)
        BY <1>4, Zenon
    <2>3. Between(Octal, t, j, k) \subseteq Seq(Bytes)
        BY <1>2, BetweenType, Zenon
    <2>4. m \in Seq(Bytes) /\ c \in Seq(Bytes)
        BY <1>1, <1>2, <2>1, <2>2, <2>3, Zenon
    <2>5. m \o c \in Seq(Bytes)
        BY <2>4, ConcatProps
    <2>6. Joins(M, Octal, t, k, m \o c)
        BY <2>1, <2>2, Zenon DEF Joins
    <2> QED
        BY <1>1, <2>5, <2>6, Zenon
<1> QED
    BY <1>3, <1>4, Zenon DEF Reached, M

\* A place that is reached is on the way to every later one: there is only one way
\* to cut a text into characters.
OnTheWay(t, k) ==
    \A j \in 0..(k - 1) : Reached(t, j) /\ Reached(t, k) => \E n \in (j + 1)..k : Between(Octal, t, j, n) # {}

\* There is one way to cut CHARS up: every shorter prefix that is CHARS is on it.
LEMMA OneWay ==
    ASSUME NEW t \in Seq(Bytes)
    PROVE  \A k \in 0..Len(t) : OnTheWay(t, k)
<1> DEFINE N == Len(t)
           T == {n \in 0..N : \A k \in 0..n : OnTheWay(t, k)}
<1>1. N \in Nat
    OBVIOUS
<1>2. 0 \in T
    <2>1. OnTheWay(t, 0)
        BY DEF OnTheWay
    <2> QED
        BY <1>1, <2>1
<1>3. ASSUME NEW n \in 0..(N - 1), n \in T PROVE n + 1 \in T
    <2> DEFINE k == n + 1
    <2>1. /\ k \in 1..N /\ k \in 0..N /\ n \in 0..N /\ k \in Nat /\ k <= Len(t)
          /\ \A i \in 0..k : i \in 0..n \/ i = k
          /\ \A i \in 0..(k - 1) : i \in 0..n /\ i \in Nat /\ i < k
        BY <1>1
    <2>2. \A i \in 0..n : OnTheWay(t, i)
        BY <1>3
    <2> HIDE DEF k
    <2>3. ASSUME NEW j \in 0..(k - 1), Reached(t, j), Reached(t, k)
          PROVE  \E m \in (j + 1)..k : Between(Octal, t, j, m) # {}
        <3>1. PICK i \in 0..(k - 1) : Reached(t, i) /\ Between(Octal, t, i, k) # {}
            BY <2>1, <2>3, ReachedStep
        <3>2. CASE j = i
            <4>1. k \in (j + 1)..k
                BY <2>1
            <4> QED
                BY <3>1, <3>2, <4>1, Zenon
        <3>3. CASE j < i
            <4>1. j \in 0..(i - 1) /\ OnTheWay(t, i)
                BY <2>1, <2>2, <3>3
            <4>2. PICK m \in (j + 1)..i : Between(Octal, t, j, m) # {}
                BY <2>3, <3>1, <4>1, Zenon DEF OnTheWay
            <4>3. m \in (j + 1)..k
                BY <2>1
            <4> QED
                BY <4>2, <4>3, Zenon
        <3>4. CASE i < j
            <4>1. i \in 0..(j - 1) /\ OnTheWay(t, j)
                BY <2>1, <2>2, <3>4
            <4>2. PICK m \in (i + 1)..j : Between(Octal, t, i, m) # {}
                BY <2>3, <3>1, <4>1, Zenon DEF OnTheWay
            <4>3. m \in Nat /\ i \in Nat /\ i < m /\ m <= Len(t) /\ m < k /\ i < k
                BY <2>1
            <4>4. m = k
                BY <2>1, <3>1, <4>2, <4>3, BetweenUnique
            <4> QED
                BY <4>3, <4>4
        <3>5. j = i \/ j < i \/ i < j
            OBVIOUS
        <3> QED
            BY <3>2, <3>3, <3>4, <3>5
    <2>4. OnTheWay(t, k)
        BY <2>3, Zenon DEF OnTheWay
    <2>5. \A i \in 0..k : OnTheWay(t, i)
        BY <2>1, <2>2, <2>4, Zenon
    <2>6. k \in T
        BY <2>1, <2>5, Zenon
    <2> QED
        BY <2>6 DEF k
<1> HIDE DEF T
<1>4. \A n \in 0..N : n \in T
    BY <1>1, <1>2, <1>3, IntervalInduction
<1>5. N \in 0..N
    BY <1>1
<1> QED
    BY <1>4, <1>5, Zenon DEF T

\* No quote ends a string.
NoEnd(t) == \A k \in 1..Len(t) : t[k] = Quote => Meanings(Octal, t)[k - 1] = {}

\* Where reading is stuck, no quote can end the string.
LEMMA NoEndAfter ==
    ASSUME NEW t \in Seq(Bytes), NEW p \in 0..(Len(t) - 1), Reached(t, p), t[p + 1] # Quote,
           \A n \in (p + 1)..(Len(t) - 1) : Between(Octal, t, p, n) = {}
    PROVE  NoEnd(t)
<1> SUFFICES ASSUME NEW k \in 1..Len(t), t[k] = Quote, Reached(t, k - 1) PROVE FALSE
    BY Zenon DEF NoEnd, Reached
<1> DEFINE j == k - 1
<1>1. j \in 0..(Len(t) - 1) /\ j + 1 = k /\ j \in Nat /\ p \in Nat /\ j \in 0..Len(t) /\ p \in 0..Len(t) /\ Len(t) \in Nat
    OBVIOUS
<1>2. OnTheWay(t, j) /\ OnTheWay(t, p)
    BY <1>1, OneWay, Zenon
<1>3. Reached(t, j) /\ t[j + 1] = Quote
    BY <1>1
<1> HIDE DEF j
<1>4. CASE j = p
    BY <1>3, <1>4
<1>5. CASE j < p
    <2>1. j \in 0..(p - 1)
        BY <1>1, <1>5
    <2>2. PICK n \in (j + 1)..p : Between(Octal, t, j, n) # {}
        BY <1>2, <1>3, <2>1, Zenon DEF OnTheWay
    <2>3. n \in Nat /\ j < n /\ n <= Len(t)
        BY <1>1
    <2> QED
        BY <1>1, <1>3, <2>2, <2>3, BetweenUnique
<1>6. CASE p < j
    <2>1. p \in 0..(j - 1)
        BY <1>1, <1>6
    <2>2. PICK n \in (p + 1)..j : Between(Octal, t, p, n) # {}
        BY <1>2, <1>3, <2>1, Zenon DEF OnTheWay
    <2>3. n \in (p + 1)..(Len(t) - 1)
        BY <1>1
    <2> QED
        BY <2>2, <2>3, Zenon
<1>7. j = p \/ j < p \/ p < j
    BY <1>1
<1> QED
    BY <1>4, <1>5, <1>6, <1>7

\* What has been read is CHARS, and out what it stands for.  Where reading cannot go
\* on, no quote ends the string; a backslash at the very end is read, although it is
\* no CHAR, but then there is no quote.
GrammarInv ==
    /\ status = "ok" => q < Len(input)
    /\ q < Len(input) => out \in Meanings(Octal, input)[q]
    /\ (status = "error" \/ (status = "scan" /\ q = Len(input))) => NoEnd(input)

\* A character is read.
LEMMA TakeKeeps ==
    ASSUME CInv, GrammarInv, status = "scan", q < Len(input), UNCHANGED input,
           NEW n \in Nat, n >= 1, q + n <= Len(input),
           NEW b, b \in Between(Octal, input, q, q + n), Take(n, b)
    PROVE  GrammarInv'
<1> DEFINE M == Meanings(Octal, input)
           k == q + n
<1>1. /\ input \in Seq(Bytes) /\ q \in Nat /\ Len(input) \in Nat /\ k \in Nat
      /\ q < k /\ k <= Len(input) /\ k \in 1..Len(input) /\ q \in 0..Len(input)
      /\ q \in 0..(k - 1) /\ q \in 0..(Len(input) - 1)
    BY DEF CInv
<1>2. q' = k /\ out' = out \o b /\ status' = "scan"
    BY DEF Take
<1>3. out \in M[q]
    BY DEF GrammarInv
<1>4. Grows(M, Octal, input)
    BY <1>1, MeaningsProps
<1> HIDE DEF M, k
<1>5. b \in Between(Octal, input, q, k)
    BY DEF k
<1>6. out \o b \in M[k]
    <2>1. M[q] \subseteq Seq(Bytes) /\ \A w \in Seq(Bytes) : w \in M[k] <=> Joins(M, Octal, input, k, w)
        BY <1>1, <1>4, Zenon DEF Grows
    <2>2. Between(Octal, input, q, k) \subseteq Seq(Bytes)
        BY <1>1, BetweenType
    <2>3. out \in Seq(Bytes) /\ b \in Seq(Bytes)
        BY <1>3, <1>5, <2>1, <2>2, Zenon
    <2>4. out \o b \in Seq(Bytes)
        BY <2>3, ConcatProps
    <2>5. Joins(M, Octal, input, k, out \o b)
        BY <1>1, <1>3, <1>5, Zenon DEF Joins
    <2> QED
        BY <2>1, <2>4, <2>5, Zenon
<1>7. ASSUME k = Len(input) PROVE NoEnd(input)
    <2>1. Between(Octal, input, q, k) # {} /\ Reached(input, q)
        BY <1>3, <1>5, Zenon DEF Reached, M
    <2>2. /\ input[q + 1] # Quote
          /\ \A i \in Nat : q < i /\ i <= Len(input) /\ Between(Octal, input, q, i) # {} => i = k
        BY <1>1, <2>1, BetweenUnique
    <2>3. \A i \in (q + 1)..(Len(input) - 1) : i \in Nat /\ q < i /\ i <= Len(input) /\ i # k
        BY <1>1, <1>7
    <2>4. \A i \in (q + 1)..(Len(input) - 1) : Between(Octal, input, q, i) = {}
        BY <2>2, <2>3, Zenon
    <2> QED
        BY <1>1, <2>1, <2>2, <2>4, NoEndAfter
<1>8. /\ status' = "scan" /\ input' = input /\ out' \in Meanings(Octal, input')[q']
      /\ q' = Len(input') => NoEnd(input')
    BY <1>2, <1>6, <1>7, Zenon DEF M
<1> QED
    BY <1>8, Zenon DEF GrammarInv

\* An error is raised where no character starts, or one that takes up all the rest.
LEMMA ErrorKeeps ==
    ASSUME CInv, GrammarInv, q < Len(input), UNCHANGED input, Error, input[q + 1] # Quote,
           \A n \in (q + 1)..(Len(input) - 1) : Between(Octal, input, q, n) = {}
    PROVE  GrammarInv'
<1>1. input \in Seq(Bytes) /\ q \in 0..(Len(input) - 1)
    BY DEF CInv
<1>2. out \in Meanings(Octal, input)[q] /\ Reached(input, q)
    BY Zenon DEF GrammarInv, Reached
<1>3. NoEnd(input)
    BY <1>1, <1>2, NoEndAfter
<1>4. status' = "error" /\ q' = q /\ out' = out /\ input' = input
    BY DEF Error
<1>5. status' # "ok"
    BY <1>4
<1> QED
    BY <1>2, <1>3, <1>4, <1>5, Zenon DEF GrammarInv

\* One turn of chars(), in each of its branches.
LEMMA GrammarTurn ==
    ASSUME CInv, GrammarInv, Terminal \/ Plain \/ Escape2 \/ EscapeU \/ End, UNCHANGED <<input, source>>
    PROVE  GrammarInv'
<1>1. input \in Seq(Bytes) /\ Len(input) \in Nat /\ q \in Nat /\ q <= Len(input) /\ input' = input
    BY DEF CInv
<1>2. status = "scan"
    BY DEF Terminal, Plain, Escape2, EscapeU, End, Escaped, Scanning
<1>3. Backslash # Quote /\ Backslash \notin Controls /\ Quote \notin Controls
    BY DEF Backslash, Quote, Controls
<1>4. \A i \in 1..6 : q + i <= Len(input) => At(q + i) = input[q + i]
    BY DEF At
<1>5. \A n \in (q + 1)..Len(input) : n \in Nat /\ q < n /\ n <= Len(input)
    BY <1>1
<1>6. \A n \in (q + 1)..Len(input) : Between(Octal, input, q, n) # {} =>
          \/ n = q + 1 /\ Single(input, q)
          \/ n = q + 2 /\ Pair(input, q)
          \/ n = q + 6 /\ Hex(input, q)
    BY <1>1, <1>5, BetweenForm
<1>7. CASE End
    <2>1. q = Len(input) /\ q' = q /\ status' = "error"
        BY <1>1, <1>7 DEF End, Error
    <2>2. NoEnd(input) /\ ~(q < Len(input)) /\ status' # "ok"
        BY <1>1, <1>2, <2>1 DEF GrammarInv
    <2> QED
        BY <1>1, <2>1, <2>2, Zenon DEF GrammarInv
<1>8. CASE Terminal
    <2>1. q < Len(input) /\ q' = q /\ out' = out /\ status' = "ok"
        BY <1>8 DEF Terminal, Scanning
    <2>2. status' # "error" /\ status' # "scan"
        BY <2>1
    <2> QED
        BY <1>1, <2>1, <2>2, Zenon DEF GrammarInv
<1>9. CASE Plain
    <2>1. q < Len(input) /\ At(q + 1) # Quote /\ q + 1 <= Len(input) /\ q + 1 \in Nat /\ q < q + 1
        BY <1>1, <1>9 DEF Plain, Scanning
    <2>2. At(q + 1) = input[q + 1] /\ input[q + 1] \in Bytes
        BY <1>1, <1>4, <2>1
    <2>3. CASE At(q + 1) \in Controls
        <3>1. Error
            BY <1>9, <2>3 DEF Plain
        <3>2. ~Single(input, q) /\ ~Pair(input, q) /\ ~Hex(input, q)
            <4>1. input[q + 1] \in Controls /\ input[q + 1] # Backslash
                BY <1>3, <2>2, <2>3
            <4> HIDE DEF Backslash, Controls
            <4> QED
                BY <4>1 DEF Single, Pair, Hex
        <3>3. \A n \in (q + 1)..(Len(input) - 1) : n \in (q + 1)..Len(input)
            BY <1>1
        <3>4. \A n \in (q + 1)..(Len(input) - 1) : Between(Octal, input, q, n) = {}
            BY <1>6, <3>2, <3>3, Zenon
        <3> QED
            BY <1>1, <2>1, <2>2, <3>1, <3>4, ErrorKeeps
    <2>4. CASE At(q + 1) \notin Controls
        <3>1. Take(1, <<At(q + 1)>>) /\ ~(At(q + 1) = Backslash /\ q + 1 < Len(input))
            BY <1>9, <2>4 DEF Plain
        <3>2. CASE At(q + 1) # Backslash
            <4>0. Widths(Octal, input, q, q + 1)
                BY <1>1, <2>1, BetweenProps
            <4>1. Between(Octal, input, q, q + 1) =
                      IF input[q + 1] \notin Controls \cup {Quote, Backslash} THEN {<<input[q + 1]>>} ELSE {}
                BY <4>0, Zenon DEF Widths
            <4>2. <<At(q + 1)>> \in Between(Octal, input, q, q + 1)
                BY <2>1, <2>2, <2>4, <3>2, <4>1, Zenon
            <4> DEFINE b == <<At(q + 1)>>
                       n == 1
            <4>3. b \in Between(Octal, input, q, q + n) /\ Take(n, b) /\ n \in Nat /\ n >= 1 /\ q + n <= Len(input)
                BY <2>1, <3>1, <4>2
            <4> HIDE DEF b, n
            <4> QED
                BY <1>1, <1>2, <2>1, <4>3, TakeKeeps
        <3>3. CASE At(q + 1) = Backslash
            <4>1. q + 1 = Len(input) /\ q' = q + 1 /\ status' = "scan"
                BY <1>1, <1>2, <2>1, <3>1, <3>3 DEF Take
            <4>2. Reached(input, q)
                BY <2>1, Zenon DEF GrammarInv, Reached
            <4>3. q \in 0..(Len(input) - 1) /\ \A n \in (q + 1)..(Len(input) - 1) : Between(Octal, input, q, n) = {}
                BY <1>1, <4>1
            <4>4. NoEnd(input)
                BY <1>1, <2>1, <2>2, <4>2, <4>3, NoEndAfter
            <4>5. ~(q' < Len(input)) /\ status' # "ok"
                BY <1>1, <4>1
            <4> QED
                BY <1>1, <4>4, <4>5, Zenon DEF GrammarInv
        <3> QED
            BY <3>2, <3>3
    <2> QED
        BY <2>3, <2>4
<1>10. CASE Escape2 \/ EscapeU
    <2>1. /\ q < Len(input) /\ At(q + 1) = Backslash /\ q + 2 <= Len(input)
          /\ q + 2 \in Nat /\ q < q + 2 /\ q + 1 <= Len(input)
        BY <1>1, <1>10 DEF Escape2, EscapeU, Escaped, Scanning
    <2>2. At(q + 1) = input[q + 1] /\ At(q + 2) = input[q + 2] /\ input[q + 2] \in Bytes
        BY <1>1, <1>4, <2>1
    <2>3. input[q + 1] = Backslash /\ input[q + 1] # Quote
        BY <1>3, <2>1, <2>2
    <2>4. ~Single(input, q)
        BY <2>3 DEF Single
    <2>5. \A n \in (q + 1)..(Len(input) - 1) : n \in (q + 1)..Len(input)
        BY <1>1
    <2>6. CASE Escape2
        <3>1. CASE At(q + 2) \in {120} \cup Octal
            <4>1. Error
                BY <2>6, <3>1 DEF Escape2, Octal
            <4>2. ~Pair(input, q) /\ ~Hex(input, q)
                BY <2>2, <3>1 DEF Pair, Hex, Octal
            <4>3. \A n \in (q + 1)..(Len(input) - 1) : Between(Octal, input, q, n) = {}
                BY <1>6, <2>4, <2>5, <4>2, Zenon
            <4> QED
                BY <1>1, <2>1, <2>3, <4>1, <4>3, ErrorKeeps
        <3>2. CASE At(q + 2) \notin {120} \cup Octal
            <4> DEFINE b == <<IF At(q + 2) \in DOMAIN Named THEN Named[At(q + 2)] ELSE At(q + 2)>>
                       c == <<IF input[q + 2] \in DOMAIN Named THEN Named[input[q + 2]] ELSE input[q + 2]>>
                       n == 2
            <4>1. Take(n, b) /\ At(q + 2) # 117
                BY <2>6, <3>2 DEF Escape2, Octal
            <4>2. input[q + 2] \notin {117, 120} \cup Octal
                BY <2>2, <3>2, <4>1
            <4>0. Widths(Octal, input, q, q + 2)
                BY <1>1, <2>1, BetweenProps
            <4>3. Between(Octal, input, q, q + 2) =
                      IF input[q + 1] = Backslash /\ input[q + 2] \notin {117, 120} \cup Octal THEN {c} ELSE {}
                BY <4>0, Zenon DEF Widths
            <4>4. b = c
                BY <2>2
            <4> HIDE DEF b, c
            <4>5. b \in Between(Octal, input, q, q + 2)
                BY <2>3, <4>2, <4>3, <4>4
            <4>6. b \in Between(Octal, input, q, q + n) /\ n \in Nat /\ n >= 1 /\ q + n <= Len(input)
                BY <2>1, <4>5
            <4> HIDE DEF n
            <4> QED
                BY <1>1, <1>2, <2>1, <4>1, <4>6, TakeKeeps
        <3> QED
            BY <3>1, <3>2
    <2>7. CASE EscapeU
        <3>1. At(q + 2) = 117 /\ ~Pair(input, q)
            BY <2>2, <2>7 DEF EscapeU, Pair
        <3>2. CASE ~RoomForHex
            <4>1. Error
                BY <2>7, <3>2 DEF EscapeU
            <4>2. \A n \in (q + 1)..(Len(input) - 1) : n # q + 6
                BY <1>1, <3>2 DEF RoomForHex
            <4>3. \A n \in (q + 1)..(Len(input) - 1) : Between(Octal, input, q, n) = {}
                BY <1>6, <2>4, <2>5, <3>1, <4>2, Zenon
            <4> QED
                BY <1>1, <2>1, <2>3, <4>1, <4>3, ErrorKeeps
        <3>3. CASE RoomForHex /\ ~\A i \in 3..6 : At(q + i) \in HexDigits
            <4>1. Error
                BY <2>7, <3>3 DEF EscapeU
            <4>2. \A i \in 3..6 : i \in 1..6 /\ q + i <= Len(input)
                BY <1>1, <3>3 DEF RoomForHex
            <4>3. ~\A i \in 3..6 : input[q + i] \in HexDigits
                BY <1>4, <3>3, <4>2, Zenon
            <4>4. ~Hex(input, q)
                BY <4>3, Zenon DEF Hex
            <4>5. \A n \in (q + 1)..(Len(input) - 1) : Between(Octal, input, q, n) = {}
                BY <1>6, <2>4, <2>5, <3>1, <4>4, Zenon
            <4> QED
                BY <1>1, <2>1, <2>3, <4>1, <4>5, ErrorKeeps
        <3>4. CASE RoomForHex /\ \A i \in 3..6 : At(q + i) \in HexDigits
            <4> DEFINE b == EncodeUTF8(HexByte(At(q + 3), At(q + 4)), HexByte(At(q + 5), At(q + 6)))
                       c == Utf8(((Digit(input[q + 3]) * 16 + Digit(input[q + 4])) * 16 + Digit(input[q + 5])) * 16
                                 + Digit(input[q + 6]))
                       n == 6
            <4>1. Take(n, b)
                BY <2>7, <3>4 DEF EscapeU
            <4>2. /\ q + 6 <= Len(input) /\ q + 6 \in Nat /\ q < q + 6
                  /\ \A i \in 3..6 : i \in 1..6 /\ q + i <= Len(input)
                BY <1>1, <3>4 DEF RoomForHex
            <4>3. \A i \in 3..6 : At(q + i) = input[q + i] /\ input[q + i] \in HexDigits
                BY <1>4, <3>4, <4>2, Zenon
            <4>4. /\ At(q + 3) = input[q + 3] /\ At(q + 4) = input[q + 4]
                  /\ At(q + 5) = input[q + 5] /\ At(q + 6) = input[q + 6]
                  /\ input[q + 3] \in HexDigits /\ input[q + 4] \in HexDigits
                  /\ input[q + 5] \in HexDigits /\ input[q + 6] \in HexDigits
                BY <4>3
            <4>5. EncodeUTF8(HexByte(input[q + 3], input[q + 4]), HexByte(input[q + 5], input[q + 6])) = c
                BY <4>4, EncodeUTF8IsUtf8
            <4>6. b = c
                BY <4>4, <4>5, Zenon
            <4>0. Widths(Octal, input, q, q + 6)
                BY <1>1, <4>2, BetweenProps
            <4>7. Between(Octal, input, q, q + 6) =
                      IF input[q + 1] = Backslash /\ input[q + 2] = 117 /\ (\A i \in 3..6 : input[q + i] \in HexDigits)
                      THEN {c} ELSE {}
                BY <4>0, Zenon DEF Widths
            <4>8. input[q + 2] = 117
                BY <2>2, <3>1
            <4> HIDE DEF b, c
            <4>9. b \in Between(Octal, input, q, q + 6)
                BY <2>3, <4>3, <4>6, <4>7, <4>8
            <4>10. b \in Between(Octal, input, q, q + n) /\ n \in Nat /\ n >= 1 /\ q + n <= Len(input)
                BY <4>2, <4>9
            <4> HIDE DEF n
            <4> QED
                BY <1>1, <1>2, <2>1, <4>1, <4>10, TakeKeeps, SMTT(30)
        <3> QED
            BY <3>2, <3>3, <3>4
    <2> QED
        BY <1>10, <2>6, <2>7
<1> QED
    BY <1>7, <1>8, <1>9, <1>10

\* At the start of a text nothing is read, and nothing is meant.
LEMMA GrammarStarts ==
    ASSUME NEW t \in Seq(Bytes)
    PROVE  <<>> \in Meanings(Octal, t)[0] /\ (Len(t) = 0 => NoEnd(t))
<1>1. Meanings(Octal, t)[0] = {<<>>}
    BY MeaningsProps, Zenon DEF Grows
<1>2. ASSUME Len(t) = 0 PROVE NoEnd(t)
    BY <1>2 DEF NoEnd
<1> QED
    BY <1>1, <1>2, Zenon

\* Reading a string, and writing it to read it again, keeps to the grammar.
THEOREM GrammarInvariant == CharsSpec => []GrammarInv
<1>1. InitChars => GrammarInv
    <2> SUFFICES ASSUME InitChars PROVE GrammarInv
        OBVIOUS
    <2>1. input \in Seq(Bytes) /\ q = 0 /\ status = "scan" /\ out = <<>>
        BY ReadStarts DEF InitChars, ReadInv, CInv
    <2>2. <<>> \in Meanings(Octal, input)[0] /\ (Len(input) = 0 => NoEnd(input))
        BY <2>1, GrammarStarts
    <2>3. status # "ok" /\ status # "error" /\ (q = Len(input) => Len(input) = 0)
        BY <2>1
    <2> QED
        BY <2>1, <2>2, <2>3, Zenon DEF GrammarInv
<1>2. ReadInv /\ ReadInv' /\ GrammarInv /\ [NextChars]_chars => GrammarInv'
    <2> SUFFICES ASSUME ReadInv, ReadInv', GrammarInv, [NextChars]_chars PROVE GrammarInv'
        OBVIOUS
    <2>1. CASE (Terminal \/ Plain \/ Escape2 \/ EscapeU \/ End) /\ UNCHANGED <<input, source>>
        BY <2>1, GrammarTurn DEF ReadInv
    <2>2. CASE Rewrite
        <3>1. input' \in Seq(Bytes) /\ q' = 0 /\ status' = "scan" /\ out' = <<>>
            BY <2>2 DEF Rewrite, ReadInv, CInv
        <3>2. <<>> \in Meanings(Octal, input')[0] /\ (Len(input') = 0 => NoEnd(input'))
            BY <3>1, GrammarStarts
        <3>3. status' # "ok" /\ status' # "error" /\ (q' = Len(input') => Len(input') = 0)
            BY <3>1
        <3> QED
            BY <3>1, <3>2, <3>3, Zenon DEF GrammarInv
    <2>3. CASE UNCHANGED chars
        <3>1. input' = input /\ q' = q /\ status' = status /\ out' = out
            BY <2>3 DEF chars
        <3> QED
            BY <3>1, Zenon DEF GrammarInv
    <2> QED
        BY <2>1, <2>2, <2>3 DEF NextChars
<1> QED
    BY <1>1, <1>2, ReadInvariant, PTL DEF CharsSpec

\* Without \8 and \9 on the way, both sets of digits give the same meanings.
LEMMA SameMeanings ==
    ASSUME NEW t \in Seq(Bytes), NEW p \in 0..Len(t),
           ~\E i \in 0..(p - 2) : /\ Meanings(Octal, t)[i] # {}
                                 /\ t[i + 1] = Backslash /\ t[i + 2] \in Decimal \ Octal
    PROVE  Meanings(Decimal, t)[p] = Meanings(Octal, t)[p]
<1> DEFINE M == Meanings(Octal, t)
           L == Meanings(Decimal, t)
           T == {n \in 0..p : \A k \in 0..n : L[k] = M[k]}
<1>1. Len(t) \in Nat /\ p \in Nat /\ p <= Len(t)
    OBVIOUS
<1>2. Grows(M, Octal, t) /\ Grows(L, Decimal, t)
    BY MeaningsProps
<1>3. \A i \in 0..(p - 2) : M[i] # {} => ~(t[i + 1] = Backslash /\ t[i + 2] \in Decimal \ Octal)
    OBVIOUS
<1> HIDE DEF M, L
<1>4. 0 \in T
    <2>1. L[0] = M[0]
        BY <1>2, Zenon DEF Grows
    <2>2. \A k \in 0..0 : k = 0
        OBVIOUS
    <2>3. 0 \in 0..p
        BY <1>1
    <2> QED
        BY <2>1, <2>2, <2>3, Zenon
<1>5. ASSUME NEW n \in 0..(p - 1), n \in T PROVE n + 1 \in T
    <2> DEFINE k == n + 1
    <2>1. k \in 1..p /\ k \in 1..Len(t) /\ k \in Nat /\ k - 1 = n /\ k \in 0..p /\ n \in Nat
        BY <1>1
    <2>2. \A j \in 0..(k - 1) : L[j] = M[j]
        BY <1>5, <2>1
    <2> HIDE DEF k
    <2>3. ASSUME NEW j \in 0..(k - 1), M[j] # {} PROVE Between(Decimal, t, j, k) = Between(Octal, t, j, k)
        <3>1. j \in Nat /\ j < k /\ k <= Len(t)
            BY <1>1, <2>1
        <3>6. Widths(Octal, t, j, k) /\ Widths(Decimal, t, j, k)
            BY <2>1, <3>1, BetweenProps
        <3>2. CASE k = j + 2
            <4>1. j \in 0..(p - 2)
                BY <1>1, <2>1, <3>1, <3>2
            <4>2. ~(t[j + 1] = Backslash /\ t[j + 2] \in Decimal \ Octal)
                BY <1>3, <2>3, <4>1
            <4>3. Octal \subseteq Decimal
                BY DEF Octal, Decimal
            <4>4. (t[j + 1] = Backslash /\ t[j + 2] \notin {117, 120} \cup Octal)
                  <=> (t[j + 1] = Backslash /\ t[j + 2] \notin {117, 120} \cup Decimal)
                BY <4>2, <4>3, Zenon
            <4> DEFINE c == {<<IF t[j + 2] \in DOMAIN Named THEN Named[t[j + 2]] ELSE t[j + 2]>>}
            <4>5. Between(Octal, t, j, k) =
                      IF t[j + 1] = Backslash /\ t[j + 2] \notin {117, 120} \cup Octal THEN c ELSE {}
                BY <3>2, <3>6, Zenon DEF Widths
            <4>6. Between(Decimal, t, j, k) =
                      IF t[j + 1] = Backslash /\ t[j + 2] \notin {117, 120} \cup Decimal THEN c ELSE {}
                BY <3>2, <3>6, Zenon DEF Widths
            <4> HIDE DEF c
            <4> QED
                BY <4>4, <4>5, <4>6, Zenon
        <3>3. CASE k = j + 1
            BY <3>3, <3>6, Zenon DEF Widths
        <3>4. CASE k = j + 6
            BY <3>4, <3>6, Zenon DEF Widths
        <3>5. CASE k # j + 1 /\ k # j + 2 /\ k # j + 6
            BY <3>5, <3>6, Zenon DEF Widths
        <3> QED
            BY <3>2, <3>3, <3>4, <3>5, Zenon
    <2>4. \A w : Joins(L, Decimal, t, k, w) <=> Joins(M, Octal, t, k, w)
        BY <2>2, <2>3, Zenon DEF Joins
    <2>5. \A w \in Seq(Bytes) : w \in L[k] <=> w \in M[k]
        BY <1>2, <2>1, <2>4, Zenon DEF Grows
    <2>6. k \in 0..Len(t)
        BY <1>1, <2>1
    <2>7. L[k] \subseteq Seq(Bytes) /\ M[k] \subseteq Seq(Bytes)
        BY <1>2, <2>6, Zenon DEF Grows
    <2>8. L[k] = M[k]
        BY <2>5, <2>7, Zenon
    <2>9. \A i \in 0..k : i \in 0..(k - 1) \/ i = k
        BY <2>1
    <2>10. \A i \in 0..k : L[i] = M[i]
        BY <2>2, <2>8, <2>9, Zenon
    <2> QED
        BY <2>1, <2>10, Zenon DEF k
<1> HIDE DEF T
<1>6. \A n \in 0..p : n \in T
    BY <1>1, <1>4, <1>5, IntervalInduction
<1>7. p \in T
    BY <1>1, <1>6
<1>8. p \in 0..p
    BY <1>1
<1> QED
    BY <1>7, <1>8, Zenon DEF T, M, L

\* What chars() accepts is CHARS of the grammar, and its result what the grammar
\* says, for texts of any length.
THEOREM AcceptedIsGrammar == CharsSpec => []CharsAccepted
<1>1. GrammarInv /\ ReadInv => CharsAccepted
    <2> SUFFICES ASSUME GrammarInv, ReadInv, status = "ok"
                 PROVE  out \in Meanings(IF OtherDigit THEN Octal ELSE Decimal, input)[q]
        BY DEF CharsAccepted
    <2>1. out \in Meanings(Octal, input)[q]
        BY Zenon DEF GrammarInv
    <2>2. CASE OtherDigit
        BY <2>1, <2>2, Zenon
    <2>3. CASE ~OtherDigit
        <3>1. input \in Seq(Bytes) /\ q \in 0..Len(input)
            BY DEF ReadInv, CInv
        <3>2. Meanings(Decimal, input)[q] = Meanings(Octal, input)[q]
            BY <2>3, <3>1, SameMeanings DEF OtherDigit
        <3> QED
            BY <2>1, <2>3, <3>2, Zenon
    <2> QED
        BY <2>2, <2>3
<1> QED
    BY <1>1, GrammarInvariant, ReadInvariant, PTL

\* chars() raises an error only where no quote ends a text of the grammar.
THEOREM RejectedHasNoEnd == CharsSpec => []CharsRejected
<1>1. GrammarInv => CharsRejected
    BY Zenon DEF GrammarInv, CharsRejected, NoEnd
<1> QED
    BY <1>1, GrammarInvariant, PTL
=============================================================================
