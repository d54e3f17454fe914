------------------------------ MODULE JsonText ------------------------------
(***************************************************************************)
(* JSON texts as the parser and jsonString see them, and the fields of     *)
(* documents they stand for.                                               *)
(*                                                                         *)
(* A text is a sequence of lexemes; white space only separates words.  A   *)
(* string, quoted either way, is the label of its contents.  A number has  *)
(* an integer part n and in s how it goes on: "" is the end, ".5", "e" or  *)
(* "e-" are characters that strtoll() leaves and strtod() reads, the last  *)
(* an exponent that takes it below the least normal double.  The fields of *)
(* a document are <<"value", element>>, or <<"doc", <<name, type>>,        *)
(* fields>> for an object or array, as in BsonDocument.                    *)
(*                                                                         *)
(* Word stands for 2^32, so that all widths keep their relations.          *)
(***************************************************************************)
EXTENDS Integers, Sequences

CONSTANTS
    Word,       \* 2^32
    MaxDouble,  \* the greatest double
    Exact,      \* integers up to it have a double of their own (2^53)
    OidOf,      \* from strings of 24 hex digits, in either case, to the id
    DataOf,     \* from strings that are base64, in any form, to the bytes
    ByteOf,     \* from strings of two hex digits to the byte
    OptionsOf,  \* from strings of regular expression options to a number for them
    Gims        \* those of them that have no other letters than gims

ASSUME TextAssumption ==
    /\ {Word, MaxDouble, Exact} \subseteq Nat \ {0}
    /\ Word % 2 = 0 /\ Word < Exact /\ 2 * Exact <= Word * Word
    /\ Gims \subseteq DOMAIN OptionsOf

Lexeme(k, s, n) == [k |-> k, s |-> s, n |-> n]
Sym(s) == Lexeme("sym", s, 0)
Bare(s) == Lexeme("bare", s, 0)  \* an unquoted word
Str(s) == Lexeme("str", s, 0)
Num(n, s) == Lexeme("num", s, n)
Eof == Lexeme("eof", "", 0)      \* _input >= _input_end

El(name, type, s, n) == [name |-> name, type |-> type, s |-> s, n |-> n]
Field(name, type, s, n) == <<"value", El(name, type, s, n)>>
Embedded(name, type, fields) == <<"doc", <<name, type>>, fields>>
NameOf(f) == IF f[1] = "value" THEN f[2].name ELSE f[2][1]
Named(f, name) == IF f[1] = "value" THEN <<"value", [f[2] EXCEPT !.name = name]>>
                  ELSE <<"doc", <<name, f[2][2]>>, f[3]>>

\* First field names that make an object something else (json.cpp:186-248).
Reserved == {"$oid", "$binary", "$date", "$timestamp", "$regex", "$ref", "$undefined"}

-----------------------------------------------------------------------------
(* Numbers *)

Long == Word * Word
IsInt(n) == -(Word \div 2) <= n /\ n < Word \div 2
IsLong(n) == -(Long \div 2) <= n /\ n < Long \div 2

\* The bits of an unsigned number as a long long.
AsSigned(n) == IF n % Long >= Long \div 2 THEN (n % Long) - Long ELSE n % Long

\* strtod() reports ERANGE above the greatest double and below the least normal one.
OutOfRange(t) == t.n \notin -MaxDouble..MaxDouble \/ t.s = "e-"

\* It gives the nearest double, ties to even; |n| < 2 * Exact, or a double.
NearestDouble(n) ==
    IF n % 2 = 0 \/ n \in -Exact..Exact THEN n
    ELSE IF (n + 1) % 4 = 0 THEN n + 1 ELSE n - 1

Fraction(s) == IF s = ".5" THEN ".5" ELSE ""

\* JParse::number: what strtod() reads and strtoll() does not is a double, the
\* others the smallest integer type they fit.
NumberField(name, t) ==
    IF t.s # "" \/ ~IsLong(t.n) THEN Field(name, "double", Fraction(t.s), NearestDouble(t.n))
    ELSE Field(name, IF IsInt(t.n) THEN "int" ELSE "long", "", t.n)

\* strtoll(), and where it overflows strtoull(), which takes a sign: Date and $date.
IsMillis(t) == t.k = "num" /\ t.s = "" /\ -Long < t.n /\ t.n < Long

\* A minus sign is refused; strtoul() is 64 bits wide, the result is stored in 32.
IsUnsigned(t) == t.k = "num" /\ t.s = "" /\ 0 <= t.n /\ t.n < Long
Stored32(t) == t.n % Word
=============================================================================
