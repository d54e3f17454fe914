------------------------------- MODULE MCJson -------------------------------
(* 2^32 is 8, so that ints are -4..3 and longs -32..31; 2^53 is 16, 10^16 is  *)
(* 20.  Texts have every form of value, right and wrong, alone or next to or  *)
(* inside plain ones.  Stored documents have every type.                      *)
EXTENDS JsonGrammar

Oids == [s \in {"h24"} |-> "id"]
Data == [s \in {"b64"} |-> "bytes"]
Bytes == [s \in {"h2"} |-> 5]
Opts == [s \in {"", "gi", "ix"} |-> CASE s = "" -> 0 [] s = "gi" -> 3 [] s = "ix" -> 7]

\* A namespace with a quote in its middle, and one with a backslash before an n.
Raws == [s \in {"quote", "backslash"} |-> IF s = "quote" THEN <<Str("quo"), Bare("te")>> ELSE <<Str("newline")>>]

Marks == {Sym(s) : s \in {"{", "}", "(", ")", "]", ":", ","}} \cup {Bare("true"), Bare("Date")}

Texts ==
    [first |-> {Bare("a"), Sym(",")} \cup {Str(s) : s \in Reserved},
     field |-> {Str("b"), Str("$oid"), Sym(",")},
     key |-> {Str(s) : s \in {"$type", "t", "i", "$options", "$id"}},
     value |-> {Sym("{"), Sym("["), Sym("-Infinity"), Sym(","), Str("s"), Lexeme("regex", "s", 3)}
               \cup {Bare(w) : w \in {"true", "false", "null", "undefined", "NaN", "Infinity"}}
               \cup {Bare(w) : w \in Constructors}
               \cup {Num(1, ""), Num(3, ".5"), Num(5, ""), Num(17, ""), Num(40, ""), Num(102, ""), Num(200, ""), Num(0, "e-")}
               \cup {Str("h24"), Bare("inf")},
     arg |-> {Str(s) : s \in {"h24", "b64", "h2", "gi", "s"}}
             \cup {Num(n, "") : n \in {-64, -40, -5, 7, 8, 40}} \cup {Num(1, ".5")},
     mark |-> Marks]
PlainValues == {Sym("{"), Sym("["), Num(1, "")}

\* Texts where the code takes more than json.h says: dates behind "new", wide
\* numbers, references.
Dates ==
    [first |-> {Bare("a")}, field |-> {Bare("a")}, key |-> {},
     value |-> {Num(1, "")} \cup {Bare(w) : w \in {"new", "Date", "Timestamp", "Dbref"}},
     arg |-> {Str("s"), Num(1, ""), Num(40, "")}, mark |-> Marks]

-----------------------------------------------------------------------------
\* Values of every type; numbers at and past the limits of the types.
Leaves(name) ==
    {Field(name, "int", "", n) : n \in {-4, 3}}
    \cup {Field(name, "long", "", n) : n \in {-32, 3, 4, 17}}
    \cup {Field(name, "double", "", n) : n \in {-102, 3, 4, 18, 22, 24, 98, 102}}
    \cup {Field(name, "double", s, 0) : s \in {"NaN", "Infinity", "-Infinity"}}
    \cup {Field(name, "double", s, 1) : s \in {".5", ".51"}}
    \cup {Field(name, "double", "tiny", 0)}
    \cup {Field(name, type, "s", 0) : type \in {"string", "symbol", "dbref", "code"}}
    \cup {Field(name, "dbref", s, 0) : s \in DOMAIN Raws}
    \cup {Field(name, "code", w, 0) : w \in {"true", "null"}}
    \cup {Field(name, type, "", 0) : type \in {"null", "undefined", "minkey", "maxkey"}}
    \cup {Field(name, "bool", "", n) : n \in {0, 1}}
    \cup {Field(name, "oid", "id", 0), Field(name, "bindata", "bytes", 5)}
    \cup {Field(name, "date", "", n) : n \in {-32, 0, 31}}
    \cup {Field(name, "timestamp", "", n) : n \in {0, 7, 8, 63}}
    \cup {Field(name, "regex", "s", n) : n \in {0, 3, 7}}

Few(name) == {Field(name, "long", "", 3), Field(name, "oid", "id", 0), Field(name, "code", "s", 0),
              Embedded(name, "object", <<>>), Embedded(name, "array", <<>>)}

Reference(name, id) == Embedded(name, "object", <<Field("$ref", "string", "s", 0), id>>)

\* Objects that begin with a reserved name, with what a value of the form has
\* there or something else.
Words(name) == {Field(name, "string", s, 0) : s \in {"h24", "b64", "h2", "gi", "ix", ""}}
               \cup {Field(name, "int", "", 3), Field(name, "double", "", 22), Field(name, "bool", "", 1)}
Two == {<<"$binary", "$type">>, <<"$regex", "$options">>, <<"$ref", "$id">>, <<"$oid", "b">>}
Clock(fields) == <<Embedded("$timestamp", "object", fields)>>
Lookalikes ==
    UNION {{<<f>> : f \in Words(first)} : first \in Reserved}
    \cup UNION {{<<f, g>> : f \in Words(names[1]), g \in Words(names[2])} : names \in Two}
    \cup {Clock(<<Field("t", "int", "", 3), f>>) : f \in Words("i") \cup Words("b")}

Nested(name) ==
    {Embedded(name, "object", <<f>>) : f \in Leaves("b")}
    \cup {Embedded(name, "object", <<f, g>>) : f \in Few("b"), g \in Few("$oid")}
    \cup {Embedded(name, "array", <<f>>) : f \in Leaves("0")}
    \cup {Embedded(name, "array", <<f, g>>) : f \in Few("0"), g \in Few("1") \cup Few("2") \cup Few("3")}
    \cup {Embedded(name, "codewscope", <<Field("", "code", w, 0)>> \o scope) :
              w \in {"s", "true"}, scope \in {<<f>> : f \in Few("b")} \cup {<<>>}}
    \cup {Reference(name, id) : id \in Few("$id")}

Stored ==
    {<<>>}
    \cup {<<f>> : f \in Leaves("a") \cup Nested("a") \cup {Embedded("a", "object", fields) : fields \in Lookalikes}}
    \cup {<<f, g>> : f \in Few("a") \cup Nested("a"), g \in Few("$ref")}
    \cup {Reference("a", id)[3] : id \in Few("$id")}
=============================================================================
