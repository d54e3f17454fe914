----------------------------- MODULE JsonParse -----------------------------
(***************************************************************************)
(* fromjson(): the recursive descent of JParse over a text, appending to   *)
(* a document builder (BsonDocument) as it goes.                           *)
(*                                                                         *)
(* An activation of a parsing function is the list of what it has left to  *)
(* do: accept() a lexeme, read a field name, read an argument, or make a   *)
(* decision or a call of the builder.  Each is one step.  The text is not  *)
(* chosen beforehand but lexeme by lexeme, when the parser first looks at  *)
(* it, so that all texts with the same beginning share its parse.          *)
(***************************************************************************)
EXTENDS JsonText

CONSTANTS
    Lexemes,   \* Lexemes[c]: what texts are made of where the "first" or a later
               \* "field" of an object, a given "key", a "value", an "arg"ument or
               \* a punctuation "mark" is due: what is right there and what is wrong
    Plain,     \* values of which a text may have many, at a cost of 1 each; the
               \* others and a reserved name cost more, the value of $id less
    MaxCost    \* bound on what a text costs

ASSUME CostAssumption == MaxCost \in Nat /\ {Sym("{"), Sym("[")} \subseteq Plain

VARIABLES
    text,   \* the lexemes that have been looked at
    left,   \* what the rest of the text may cost
    pos,    \* how many of them are consumed: _input
    stack,  \* activations, innermost last
    open,   \* builders in scope
    result  \* Pending, Failed (an exception), or <<"finished", fields>>

parser == <<text, left, pos, stack>>
call == <<parser, open, result>>

Builder == INSTANCE BsonDocument WITH Values <- {}, Names <- {}

-----------------------------------------------------------------------------
(* The parsing functions *)

A(s) == <<"accept", s>>   \* if (!accept(s)) return parseError(...)
F(s) == <<"field", s>>    \* if (!acceptField(s)) ...
V(c) == <<"arg", c>>      \* quotedString() or strto*(), with the checks on it
D(op) == <<"do", op>>     \* a decision, or a call of the builder

AnyField == ""

Body(kind) ==
    CASE kind = "$oid" -> <<A(":"), V("hex24"), D("append"), A("}")>>
      [] kind = "$binary" ->
             <<A(":"), V("base64"), A(","), F("$type"), A(":"), V("hex2"), D("append"), A("}")>>
      [] kind = "$date" -> <<A(":"), V("ms"), D("append"), A("}")>>
      [] kind = "$timestamp" ->
             <<A(":"), A("{"), F("t"), A(":"), V("uint"), A(","), F("i"), A(":"), V("uint"),
               A("}"), D("append"), A("}")>>
      [] kind = "$regex" -> <<A(":"), V("str"), D("options")>>
      [] kind = "$ref" ->
             <<D("begin"), A(":"), V("str"), D("ref"), A(","), F("$id"), A(":"), D("id"),
               D("end"), A("}")>>
      [] kind = "$undefined" -> <<A(":"), A("true"), D("append"), A("}")>>
      [] kind = "Date" -> <<A("("), V("ms"), A(")"), D("append")>>
      [] kind = "Timestamp" -> <<A("("), V("uint"), A(","), V("uint"), A(")"), D("append")>>
      [] kind = "ObjectId" -> <<A("("), V("hex24"), A(")"), D("append")>>
      [] kind = "Dbref" ->
             <<D("begin"), A("("), V("str"), D("ref"), A(","), D("id"), A(")"), D("end")>>
      [] kind = "new" -> <<A("Date"), D("date")>>
      [] kind = "object" -> <<A("{"), D("members")>>
      [] kind = "array" -> <<A("["), D("begin"), D("elements")>>

Pair == <<A(":"), D("value"), D("more")>>

\* A call of the function for kind, which is to append a field of that name.
\* field is the name of the field it reads at the moment, index the position in
\* an array.
Activation(kind, name) ==
    [kind |-> kind, name |-> name, prog |-> Body(kind), args |-> <<>>, field |-> "", index |-> 0]

IsArg(class, t) ==
    CASE class = "str" -> t.k = "str"
      [] class = "hex24" -> t.k = "str" /\ t.s \in DOMAIN OidOf
      [] class = "base64" -> t.k = "str" /\ t.s \in DOMAIN DataOf
      [] class = "hex2" -> t.k = "str" /\ t.s \in DOMAIN ByteOf
      [] class = "opts" -> t.k = "str" /\ t.s \in Gims
      [] class = "ms" -> IsMillis(t)
      [] class = "uint" -> IsUnsigned(t)

OpTime(seconds, inc) == seconds * Word + inc

\* What an activation appends once it has its arguments.
Appended(f) ==
    CASE f.kind \in {"$oid", "ObjectId"} -> El(f.name, "oid", OidOf[f.args[1].s], 0)
      [] f.kind = "$binary" -> El(f.name, "bindata", DataOf[f.args[1].s], ByteOf[f.args[2].s])
      [] f.kind \in {"$date", "Date", "new"} -> El(f.name, "date", "", AsSigned(f.args[1].n))
      [] f.kind \in {"$timestamp", "Timestamp"} ->
             El(f.name, "timestamp", "", OpTime(Stored32(f.args[1]), Stored32(f.args[2])))
      [] f.kind = "$regex" ->
             El(f.name, "regex", f.args[1].s, OptionsOf[IF Len(f.args) = 2 THEN f.args[2].s ELSE ""])
      [] f.kind = "$undefined" -> El(f.name, "undefined", "", 0)

\* Values of one lexeme: a set, empty if t is none.
Simple(name, t) ==
    CASE t.k = "str" -> {El(name, "string", t.s, 0)}
      [] t.k = "regex" -> {El(name, "regex", t.s, t.n)}
      [] t.k = "num" -> IF OutOfRange(t) THEN {} ELSE {NumberField(name, t)[2]}
      [] t.k = "bare" /\ t.s \in {"true", "false"} -> {El(name, "bool", "", IF t.s = "true" THEN 1 ELSE 0)}
      [] t.k = "bare" /\ t.s \in {"null", "undefined"} -> {El(name, t.s, "", 0)}
      [] t.k \in {"bare", "sym"} /\ t.s \in {"NaN", "Infinity", "-Infinity"} -> {El(name, "double", t.s, 0)}
      [] t.k = "bare" /\ t.s = "inf" -> {El(name, "double", "Infinity", 0)}  \* strtod() knows it
      [] OTHER -> {}

\* Functions that value() calls; the others it only peeks at.
Constructors == {"new", "Date", "Timestamp", "ObjectId", "Dbref"}  \* or DBRef

-----------------------------------------------------------------------------
(* Steps *)

Top == stack[Len(stack)]
Item == Head(Top.prog)

Going(kind) == result = Builder!Pending /\ stack # <<>> /\ Top.prog # <<>> /\ Item[1] = kind
Doing(op) == Going("do") /\ Item[2] = op

Cost(t) == IF t \in Plain THEN 1 ELSE 2
Price(t) == IF Item = D("id") THEN Cost(t) - 1 ELSE Cost(t)
Spend(n) == left' = IF left < n THEN 0 ELSE left - n
Affordable == {t \in Lexemes["value"] : Price(t) <= left}

\* JParse::field: quoted, or a word.
IsField(t) == t.k \in {"str", "bare"}
IsReserved(t) == IsField(t) /\ t.s \in Reserved

Lexicon ==
    CASE Item[1] = "arg" -> Lexemes["arg"]
      [] Item[1] = "field" -> Lexemes[IF Item[2] = AnyField THEN "field" ELSE "key"]
      [] Item = D("members") -> {t \in Lexemes["first"] \cup {Sym("}")} : IsReserved(t) => left > 0}
      [] Item \in {D("value"), D("id")} -> Affordable
      [] Item = D("elements") -> {Sym("]")} \cup Affordable
      [] OTHER -> Lexemes["mark"]

Peek == IF pos < Len(text) THEN {text[pos + 1]} ELSE Lexicon \cup {Eof}

\* The next lexeme is t.
Look(t) == text' = IF pos < Len(text) THEN text ELSE Append(text, t)
Consume == pos' = pos + 1
Keep == pos' = pos

Is(t, s) == t.k \in {"sym", "bare"} /\ t.s = s

Replace(f) == stack' = [stack EXCEPT ![Len(stack)] = f]
Rest == [Top EXCEPT !.prog = Tail(@)]
Then(prog) == [Top EXCEPT !.prog = prog]
Call(kind, name) == stack' = Append([stack EXCEPT ![Len(stack)] = Rest], Activation(kind, name))
Return == stack' = SubSeq(stack, 1, Len(stack) - 1)

Base == Len(stack) = 1
Quiet == UNCHANGED <<open, result>>

\* parseError: the status goes up through all activations, fromjson() throws.
ParseError == Builder!Fail /\ stack' = <<>>

\* Mutant of Mismatch: constructor() calls date() until it succeeds.
MutMismatchRetry == IF Top.kind = "new" /\ Item # A("Date") THEN UNCHANGED stack /\ Quiet ELSE ParseError

\* A lexeme is not the expected one.  constructor() drops the status of date(),
\* so that a Date behind "new" is given up and parsing goes on where it stopped.
Mismatch ==
    IF Top.kind = "new" /\ Item # A("Date") THEN Return /\ Quiet ELSE ParseError

Matches(t) ==
    CASE Item[1] = "accept" -> Is(t, Item[2])
      [] Item[1] = "field" -> IsField(t) /\ Item[2] \in {AnyField, t.s}
      [] Item[1] = "arg" -> IsArg(Item[2], t)

Take(t) ==
    CASE Item[1] = "accept" -> Rest
      [] Item[1] = "field" -> [Rest EXCEPT !.field = t.s]
      [] Item[1] = "arg" -> [Rest EXCEPT !.args = Append(@, t)]

Read(t) ==
    /\ ~(pos = 0 /\ t = Eof)
    /\ \E kind \in {"accept", "field", "arg"} : Going(kind)
    /\ Look(t) /\ UNCHANGED left
    /\ IF Matches(t) THEN Consume /\ Replace(Take(t)) /\ Quiet
       ELSE Keep /\ Mismatch

\* object() behind its brace: empty, special, or a list of fields.  Only a
\* sub-object has a builder of its own.
Members(t) ==
    /\ Doing("members") /\ Look(t) /\ Spend(IF IsReserved(t) THEN 1 ELSE 0)
    /\ \/ /\ Is(t, "}") /\ Consume
          /\ IF Base THEN Replace(Then(<<>>)) /\ Quiet
             ELSE Replace(Then(<<D("end")>>)) /\ Builder!Begin(<<Top.name, "object">>)
       \/ /\ IsReserved(t) /\ Consume
          /\ IF Base THEN ParseError
             ELSE Replace([Then(Body(t.s)) EXCEPT !.kind = t.s]) /\ Quiet
       \/ /\ IsField(t) /\ ~IsReserved(t) /\ Consume
          /\ Replace([Then(Pair) EXCEPT !.field = t.s])
          /\ IF Base THEN Quiet ELSE Builder!Begin(<<Top.name, "object">>)
       \/ ~Is(t, "}") /\ ~IsField(t) /\ Keep /\ ParseError

\* while (accept(COMMA)), in object(), whose builder is done before the brace is
\* accepted.
More(t) ==
    /\ Doing("more") /\ Look(t) /\ UNCHANGED left /\ Quiet
    /\ IF Is(t, ",") THEN Consume /\ Replace(Then(<<F(AnyField)>> \o Pair))
       ELSE Keep /\ Replace(Then(IF Base THEN <<A("}")>> ELSE <<D("end"), A("}")>>))

\* Mutant of Elements: the index is that of the last field appended.
MutElementsSame(t) ==
    /\ \/ Doing("elements") \/ Doing("next element")
    /\ Look(t) /\ UNCHANGED left /\ Quiet
    /\ IF IF Item[2] = "elements" THEN ~Is(t, "]") ELSE Is(t, ",")
       THEN /\ IF Item[2] = "elements" THEN Keep ELSE Consume
            /\ Replace(Then(<<D("value"), D("next element")>>))
       ELSE Keep /\ Replace(Then(<<D("end"), A("]")>>))

\* Mutant of Elements: no test for an empty array.
MutElementsEmpty(t) ==
    /\ \/ Doing("elements") \/ Doing("next element")
    /\ Look(t) /\ UNCHANGED left /\ Quiet
    /\ IF Item[2] = "elements" \/ Is(t, ",")
       THEN /\ IF Item[2] = "elements" THEN Keep ELSE Consume
            /\ Replace([Then(<<D("value"), D("next element")>>) EXCEPT
                           !.index = IF Item[2] = "elements" THEN 0 ELSE @ + 1])
       ELSE Keep /\ Replace(Then(<<D("end"), A("]")>>))

\* do ... while (accept(COMMA)), in array(), whose builder is done before the
\* bracket is accepted.  Position k has the name k.
Elements(t) ==
    /\ \/ Doing("elements") \/ Doing("next element")
    /\ Look(t) /\ UNCHANGED left /\ Quiet
    /\ IF IF Item[2] = "elements" THEN ~Is(t, "]") ELSE Is(t, ",")
       THEN /\ IF Item[2] = "elements" THEN Keep ELSE Consume
            /\ Replace([Then(<<D("value"), D("next element")>>) EXCEPT
                           !.index = IF Item[2] = "elements" THEN 0 ELSE @ + 1])
       ELSE Keep /\ Replace(Then(<<D("end"), A("]")>>))

NumStr == <<"0", "1", "2", "3", "4", "5", "6", "7">>

\* The name of the field that value() is called for.
FieldName ==
    CASE Item[2] = "id" -> "$id"
      [] Top.kind = "array" -> NumStr[Top.index + 1]
      [] OTHER -> Top.field

Value(t) ==
    /\ Doing("value") \/ Doing("id")
    /\ Look(t) /\ Spend(Price(t))
    /\ \/ Is(t, "{") /\ Keep /\ Call("object", FieldName) /\ Quiet
       \/ Is(t, "[") /\ Keep /\ Call("array", FieldName) /\ Quiet
       \/ t.k = "bare" /\ t.s \in Constructors /\ Consume /\ Call(t.s, FieldName) /\ Quiet
       \/ \E e \in Simple(FieldName, t) : Consume /\ Builder!Add(e) /\ Replace(Rest)
       \/ /\ ~Is(t, "{") /\ ~Is(t, "[") /\ ~(t.k = "bare" /\ t.s \in Constructors)
          /\ Simple(FieldName, t) = {}
          /\ Keep /\ ParseError

\* if (accept(COMMA)), in regexObject().
Options(t) ==
    /\ Doing("options") /\ Look(t) /\ UNCHANGED left /\ Quiet
    /\ IF Is(t, ",")
       THEN Consume /\ Replace(Then(<<F("$options"), A(":"), V("opts"), D("append"), A("}")>>))
       ELSE Keep /\ Replace(Then(<<D("append"), A("}")>>))

\* Steps that look at no lexeme: calls of the builder and between functions.
Work ==
    /\ UNCHANGED <<text, left, pos>>
    /\ \/ Doing("append") /\ Builder!Add(Appended(Top)) /\ Replace(Rest)
       \/ Doing("ref") /\ Builder!Add(El("$ref", "string", Top.args[1].s, 0)) /\ Replace(Rest)
       \/ /\ Doing("begin") /\ Replace(Rest)
          /\ Builder!Begin(<<Top.name, IF Top.kind = "array" THEN "array" ELSE "object">>)
       \/ Doing("end") /\ Builder!End /\ Replace(Rest)
       \/ Doing("date") /\ Replace(Then(Body("Date"))) /\ Quiet
       \/ /\ result = Builder!Pending /\ Len(stack) > 1 /\ Top.prog = <<>>
          /\ Return /\ Quiet

\* fromjson() on the empty string.
Empty(t) ==
    /\ pos = 0 /\ t = Eof
    /\ Going("accept") /\ Look(t) /\ UNCHANGED left /\ Keep /\ Builder!Finish /\ stack' = <<>>

\* object() is back in fromjson(): obj().  What follows the text is not looked at.
Finish ==
    /\ result = Builder!Pending /\ Len(stack) = 1 /\ Top.prog = <<>>
    /\ Builder!Finish /\ stack' = <<>>
    /\ UNCHANGED <<text, left, pos>>

InitParse ==
    /\ text = <<>> /\ pos = 0 /\ left = MaxCost
    /\ stack = <<Activation("object", "UNUSED")>>
    /\ Builder!Init

NextParse ==
    \/ /\ result = Builder!Pending /\ Top.prog # <<>>
       /\ \E t \in Peek :
             Empty(t) \/ Read(t) \/ Members(t) \/ More(t) \/ Elements(t) \/ Value(t) \/ Options(t)
    \/ Work \/ Finish
=============================================================================
