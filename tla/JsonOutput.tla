----------------------------- MODULE JsonOutput -----------------------------
(***************************************************************************)
(* jsonString(), strict and on one line: the text of a document.  Besides  *)
(* what the parser makes, a document from another source may have longs    *)
(* that are small, doubles that are integers or have no exact text, flags  *)
(* of regular expressions that the parser does not know, symbols, code,    *)
(* references of the old kind, least and greatest keys, arrays with holes, *)
(* and objects that look like a value of another type.                     *)
(***************************************************************************)
EXTENDS JsonParse
LOCAL INSTANCE SequencesExt

CONSTANTS
    Digits,  \* doubles from here on have more than the 16 digits printed (10^16)
    Step,    \* and are rounded to a multiple of it
    RawOf    \* what a string with a quote or a backslash is if it is quoted without
             \* escape(): from the string to the lexemes it is read as

\* A string that is read as v.
Spelled(f, v) == CHOOSE s \in DOMAIN f : f[s] = v

\* The nearest multiple of Step, of two the even one.
Rounded(n) ==
    CHOOSE m \in (n - Step)..(n + Step) :
        /\ m % Step = 0
        /\ 2 * m \in (2 * n - Step)..(2 * n + Step)
        /\ 2 * m \in {2 * n - Step, 2 * n + Step} => m % (2 * Step) = 0

\* precision(16): integers without point or exponent while they fit; of a
\* fraction with 17 digits the last is lost; then rounded, with an exponent.
Double(e) ==
    CASE e.s \in {"NaN", "Infinity"} -> Bare(e.s)
      [] e.s = "-Infinity" -> Sym(e.s)
      [] e.s = "tiny" -> Num(0, "e-")
      [] e.s = "" /\ e.n \in -(Digits - 1)..(Digits - 1) -> Num(e.n, "")
      [] e.s = "" /\ e.n \notin -(Digits - 1)..(Digits - 1) -> Num(Rounded(e.n), "e")
      [] e.s \in {".5", ".51"} -> Num(e.n, ".5")

\* The namespace of a reference is copied between quotes as it is.
Raw(s) == IF s \in DOMAIN RawOf THEN RawOf[s] ELSE <<Str(s)>>

Special(key, body) == <<Sym("{"), Str(key), Sym(":")>> \o body \o <<Sym("}")>>
And(key, body) == <<Sym(","), Str(key), Sym(":")>> \o body

\* Types that are written as an object or as they are.  Code is copied without
\* quotes: a word that may be a value.  All flags of a regular expression are
\* written, known to the parser or not.
Extended(e) ==
    CASE e.type = "dbref" -> Special("$ref", Raw(e.s) \o And("$id", <<Str(CHOOSE s \in DOMAIN OidOf : TRUE)>>))
      [] e.type = "oid" -> Special("$oid", <<Str(Spelled(OidOf, e.s))>>)
      [] e.type = "bindata" ->
             Special("$binary", <<Str(Spelled(DataOf, e.s))>> \o And("$type", <<Str(Spelled(ByteOf, e.n))>>))
      [] e.type = "date" -> Special("$date", <<Num(e.n, "")>>)
      [] e.type = "regex" -> Special("$regex", <<Str(e.s)>> \o And("$options", <<Str(Spelled(OptionsOf, e.n))>>))
      [] e.type = "code" -> <<Bare(e.s)>>
      [] e.type = "timestamp" -> Special("$timestamp",
             Special("t", <<Num(e.n \div Word, "")>> \o And("i", <<Num(e.n % Word, "")>>)))
      [] e.type = "minkey" -> Special("$minKey", <<Num(1, "")>>)
      [] e.type = "maxkey" -> Special("$maxKey", <<Num(1, "")>>)

\* BSONElement::jsonString for types without embedded documents.
Scalar(e) ==
    CASE e.type \in {"string", "symbol"} -> <<Str(e.s)>>
      [] e.type \in {"int", "long"} -> <<Num(e.n, "")>>
      [] e.type = "double" -> <<Double(e)>>
      [] e.type = "bool" -> <<Bare(IF e.n = 0 THEN "false" ELSE "true")>>
      [] e.type = "null" -> <<Bare("null")>>
      [] e.type = "undefined" -> Special("$undefined", <<Bare("true")>>)
      [] OTHER -> Extended(e)

\* strtol() of a field name: other names are 0.
Index(name) == IF \E i \in 1..Len(NumStr) : NumStr[i] = name
               THEN (CHOOSE i \in 1..Len(NumStr) : NumStr[i] = name) - 1
               ELSE 0

\* Mutant of Join: a comma before it is known that there is a next element.
MutJoinTrailing(parts) == FoldLeft(LAMBDA joined, p : joined \o p \o <<Sym(",")>>, <<>>, parts)

Join(parts) == FoldLeft(LAMBDA joined, p : IF joined = <<>> THEN p ELSE joined \o <<Sym(",")>> \o p, <<>>, parts)

RECURSIVE Written(_), Slots(_, _), CodeWScope(_)

\* Mutant of Slots: holes are closed.
MutSlotsClosed(fields, count) == [i \in 1..Len(fields) |-> Written(fields[i])]

\* The elements of an array from position count on; positions that are left out
\* are printed as undefined.
Slots(fields, count) ==
    CASE fields = <<>> -> <<>>
      [] fields # <<>> /\ Index(NameOf(fields[1])) > count ->
             <<(<<Bare("undefined")>>)>> \o Slots(fields, count + 1)
      [] OTHER -> <<Written(fields[1])>> \o Slots(Tail(fields), count + 1)

\* Code with scope: the first of the fields is the code.  An empty scope is lost.
CodeWScope(fields) ==
    IF Len(fields) = 1 THEN Written(fields[1])
    ELSE Special("$code", Written(fields[1]) \o And("$scope", Written(Embedded("", "object", Tail(fields)))))

\* An element without its name.
Written(f) ==
    CASE f[1] = "value" -> Scalar(f[2])
      [] f[1] = "doc" /\ f[2][2] = "array" -> <<Sym("[")>> \o Join(Slots(f[3], 0)) \o <<Sym("]")>>
      [] f[1] = "doc" /\ f[2][2] = "codewscope" -> CodeWScope(f[3])
      [] f[1] = "doc" /\ f[2][2] = "object" ->
             <<Sym("{")>>
             \o Join([i \in 1..Len(f[3]) |-> <<Str(NameOf(f[3][i])), Sym(":")>> \o Written(f[3][i])])
             \o <<Sym("}")>>

\* BSONObj::jsonString
JsonString(fields) == Written(Embedded("", "object", fields))
=============================================================================
