---------------------------- MODULE JsonGrammar ----------------------------
(***************************************************************************)
(* The grammar in the comments of json.h, as sets of derivations: a text   *)
(* with the fields it stands for.  Derivations are grouped by their cost   *)
(* (see JsonParse).  An object whose first field has a reserved name is a  *)
(* SPECIALOBJECT or nothing.                                               *)
(*                                                                         *)
(* In three places the code takes more than the comments say.  Those       *)
(* derivations are here as well, but marked: "by" is the set of departures *)
(* from the comments that a derivation makes.                              *)
(***************************************************************************)
EXTENDS JsonRoundTrip
LOCAL INSTANCE SequencesExt

Derives(t, d) == [t |-> t, d |-> d, by |-> {}]
Departs(t, d, by) == [t |-> t, d |-> d, by |-> by]

Departures ==
    {"date",       \* milliseconds outside of a signed 64 bit integer
     "timestamp",  \* seconds or an increment of more than 32 bits
     "id"}         \* an $id other than an object id or its 24 digits

\* FIELD(s) where s is the first field of an object, or a later one; any FIELD
IsName(f) == f.k \in {"str", "bare"}
First(s) == {f \in Lexemes["first"] : IsName(f) /\ f.s = s}
Later(s) == {f \in Lexemes["key"] : IsName(f) /\ f.s = s}
FIRSTFIELD == {f \in Lexemes["first"] : IsName(f)}
FIELD == {f \in Lexemes["field"] : IsName(f)}

QUOTED == {t \in Lexemes["arg"] : t.k = "str"}
Strings(set) == {t \in QUOTED : t.s \in set}
INTEGER == {t \in Lexemes["arg"] : t.k = "num" /\ t.s = ""}

\* The comments have a signed integer of 64 bits; what only fits without its sign
\* is taken with the same bits.
MILLIS == {t \in INTEGER : -Long < t.n /\ t.n < Long}
Date(t, x) ==
    Departs(t, Field("", "date", "", CHOOSE ms \in -(Long \div 2)..(Long \div 2 - 1) : (ms - x.n) % Long = 0),
            IF IsLong(x.n) THEN {} ELSE {"date"})

\* The comments have unsigned integers of 32 bits; of 64 bits the lower 32 are taken.
UNSIGNED == {t \in INTEGER : 0 <= t.n /\ t.n < Long}
Stamp(t, x, y) ==
    Departs(t, Field("", "timestamp", "", (x.n % Word) * Word + (y.n % Word)),
            IF x.n < Word /\ y.n < Word THEN {} ELSE {"timestamp"})

-----------------------------------------------------------------------------
(* SPECIALOBJECT, DATE, TIMESTAMP, OBJECTID *)

Braces(f, body) == <<Sym("{"), f, Sym(":")>> \o body \o <<Sym("}")>>

SPECIALOBJECT ==
    {Derives(Braces(f, <<x>>), Field("", "oid", OidOf[x.s], 0)) :
        f \in First("$oid"), x \in Strings(DOMAIN OidOf)}
    \cup {Derives(Braces(f, <<x, Sym(","), g, Sym(":"), y>>), Field("", "bindata", DataOf[x.s], ByteOf[y.s])) :
        f \in First("$binary"), x \in Strings(DOMAIN DataOf), g \in Later("$type"), y \in Strings(DOMAIN ByteOf)}
    \cup {Date(Braces(f, <<x>>), x) : f \in First("$date"), x \in MILLIS}
    \cup {Stamp(Braces(f, Braces(g, <<x, Sym(","), h, Sym(":"), y>>)), x, y) :
        f \in First("$timestamp"), g \in Later("t"), x \in UNSIGNED, h \in Later("i"), y \in UNSIGNED}
    \cup {Derives(Braces(f, <<x>>), Field("", "regex", x.s, OptionsOf[""])) : f \in First("$regex"), x \in QUOTED}
    \cup {Derives(Braces(f, <<x, Sym(","), g, Sym(":"), y>>), Field("", "regex", x.s, OptionsOf[y.s])) :
        f \in First("$regex"), x \in QUOTED, g \in Later("$options"), y \in Strings(Gims)}
    \cup {Derives(Braces(f, <<Bare("true")>>), Field("", "undefined", "", 0)) : f \in First("$undefined")}

Parens(word, body) == <<Bare(word), Sym("(")>> \o body \o <<Sym(")")>>

DATE == {Date(Parens("Date", <<x>>), x) : x \in MILLIS}

CONSTRUCTED ==
    DATE
    \cup {Departs(<<Bare("new")>> \o e.t, e.d, e.by) : e \in DATE}
    \cup {Stamp(Parens("Timestamp", <<x, Sym(","), y>>), x, y) : x \in UNSIGNED, y \in UNSIGNED}
    \cup {Derives(Parens("ObjectId", <<x>>), Field("", "oid", OidOf[x.s], 0)) : x \in Strings(DOMAIN OidOf)}

\* REFOBJECT and DBREF.  The $id is a string of 24 hex digits, and in a REFOBJECT
\* an OBJECTID or OIDOBJECT; any VALUE is taken.
HexString(e) == Len(e.t) = 1 /\ e.t[1].k = "str" /\ e.t[1].s \in DOMAIN OidOf
ObjectId(e) == e.d[1] = "value" /\ e.d[2].type = "oid"
Ref(t, x, e, documented) ==
    Departs(t, Embedded("", "object", <<Field("$ref", "string", x.s, 0), Named(e.d, "$id")>>),
            e.by \cup IF documented THEN {} ELSE {"id"})
REF(ids) ==
    {Ref(Braces(f, <<x, Sym(","), g, Sym(":")>> \o e.t), x, e, HexString(e) \/ ObjectId(e)) :
        f \in First("$ref"), x \in QUOTED, g \in Later("$id"), e \in ids}
    \cup {Ref(Parens("Dbref", <<x, Sym(",")>> \o e.t), x, e, HexString(e)) :
              x \in {y \in QUOTED : Bare("Dbref") \in Lexemes["value"]}, e \in ids}

-----------------------------------------------------------------------------
(* VALUE, MEMBERS, ELEMENTS of cost n *)

SIMPLE ==
    {Derives(<<t>>, Field("", "string", t.s, 0)) : t \in {x \in Lexemes["value"] : x.k = "str"}}
    \cup {Derives(<<t>>, NumberField("", t)) :
        t \in {x \in Lexemes["value"] : x.k = "num" /\ ~OutOfRange(x)}}
    \cup {Derives(<<t>>, Field("", "regex", t.s, t.n)) : t \in {x \in Lexemes["value"] : x.k = "regex"}}
    \cup {Derives(<<Bare("true")>>, Field("", "bool", "", 1)), Derives(<<Bare("false")>>, Field("", "bool", "", 0))}
    \cup {Derives(<<Bare(w)>>, Field("", w, "", 0)) : w \in {"null", "undefined"}}
    \cup {Derives(<<Bare(w)>>, Field("", "double", w, 0)) : w \in {"NaN", "Infinity"}}
    \cup {Derives(<<Bare("inf")>>, Field("", "double", "Infinity", 0))}  \* NUMBER: as strtod() has it
    \cup {Derives(<<Sym("-Infinity")>>, Field("", "double", "-Infinity", 0))}

EMPTY == {Derives(<<Sym("{"), Sym("}")>>, Embedded("", "object", <<>>)),
          Derives(<<Sym("["), Sym("]")>>, Embedded("", "array", <<>>))}

OBJECT(members) ==
    {Departs(<<Sym("{")>> \o m.t \o <<Sym("}")>>, m.d, m.by) : m \in {x \in members : NameOf(x.d[1]) \notin Reserved}}
ARRAY(elements) ==
    {Departs(<<Sym("[")>> \o m.t \o <<Sym("]")>>,
             Embedded("", "array", [i \in 1..Len(m.d) |-> Named(m.d[i], NumStr[i])]), m.by) : m \in elements}
PAIR(fields, values) == {Departs(<<f, Sym(":")>> \o e.t, <<Named(e.d, f.s)>>, e.by) : f \in fields, e \in values}
List(first, rest) == {Departs(x.t \o <<Sym(",")>> \o y.t, x.d \o y.d, x.by \cup y.by) : x \in first, y \in rest}
Single(values) == {Departs(e.t, <<e.d>>, e.by) : e \in values}

\* The VALUEs, MEMBERS, rests of MEMBERS behind a comma, and ELEMENTS of cost n,
\* from those that cost less.
Derivations(below, n) ==
    LET value ==
            {e \in SIMPLE \cup EMPTY : e.t[1] \in Lexemes["value"] /\ Cost(e.t[1]) = n}
            \cup {e \in SPECIALOBJECT \cup CONSTRUCTED : e.t[1] \in Lexemes["value"] /\ n = 2}
            \cup IF n = 1 THEN {}
                 ELSE {Departs(o.t, Embedded("", "object", o.d), o.by) : o \in OBJECT(below[n - 1].members)}
                      \cup ARRAY(below[n - 1].elements)
                      \cup REF(below[n - 1].value)
        members(fields) ==
            PAIR(fields, value)
            \cup UNION {List(PAIR(fields, below[k].value), below[n - k].rest) : k \in 1..(n - 1)}
    IN  [value |-> value, members |-> members(FIRSTFIELD), rest |-> members(FIELD),
         elements |-> Single(value)
             \cup UNION {List(Single(below[k].value), below[n - k].elements) : k \in 1..(n - 1)}]

Grammar ==
    FoldLeft(LAMBDA below, n : Append(below, Derivations(below, n)), <<>>, [n \in 1..MaxCost |-> n])

Sentences ==
    {Derives(<<Sym("{"), Sym("}")>>, <<>>)} \cup UNION {OBJECT(Grammar[n].members) : n \in 1..MaxCost}

\* The beginnings of sentences.
Beginnings ==
    LET texts == {s.t : s \in Sentences}
        cut(t, k) == SubSeq(t, 1, IF k < Len(t) THEN k ELSE Len(t))
    IN  {cut(t, k) : t \in texts, k \in 0..Max({Len(t) : t \in texts})}

-----------------------------------------------------------------------------
(* Properties *)

Given == round = 0  \* the text does not come from jsonString()
Accepted == Given /\ result[1] = "finished" /\ text # <<Eof>>
Consumed == SubSeq(text, 1, pos)

\* A Date behind "new" that constructor() has dropped.
Dropped(i) ==
    /\ text[i] = Bare("new")
    /\ ~(i + 4 <= Len(text) /\ text[i + 2] = Sym("(") /\ IsMillis(text[i + 3]) /\ text[i + 4] = Sym(")"))

\* Whatever fromjson() accepts is an OBJECT of the grammar, but for the departures
\* and for dropped dates, and the document it has built is the one the grammar gives
\* it: no field is lost, misnamed or put into another document, in whatever way
\* objects and arrays are nested, and a number that is too wide keeps its low bits.
AcceptedIsMeant ==
    Accepted /\ (\A i \in 1..Len(text) : ~Dropped(i)) =>
        \E by \in SUBSET Departures : Departs(Consumed, result[2], by) \in Sentences

\* The same without exceptions, as the comments of json.h describe the functions.
AcceptedIsInGrammar == Accepted => Derives(Consumed, result[2]) \in Sentences

\* A text is rejected only where it leaves the grammar and its departures: up to the lexeme that
\* made the parser fail it may still be the beginning of an OBJECT, with that
\* lexeme it is not.
RejectedInTime ==
    Given /\ result = Builder!Failed =>
        LET n == Len(text)
        IN  IF text[n] = Eof THEN SubSeq(text, 1, n - 1) \notin {s.t : s \in Sentences}
            ELSE text \notin Beginnings

\* A call of fromjson() returns or throws, whatever the text.
ParseEnds == result = Builder!Pending ~> result # Builder!Pending
=============================================================================
