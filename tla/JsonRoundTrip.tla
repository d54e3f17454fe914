--------------------------- MODULE JsonRoundTrip ---------------------------
(***************************************************************************)
(* A document comes into a table, from a text that bson_in reads or in     *)
(* another way.  Then it is dumped and restored: bson_out writes it,       *)
(* bson_in reads the text, and the same once more with what was restored.  *)
(***************************************************************************)
EXTENDS JsonOutput

CONSTANT Docs  \* documents that may be stored without being read from a text

VARIABLES
    stored,  \* the document that the text was written from
    round    \* 0 for a text from elsewhere, then the number of the dump

all == <<call, stored, round>>

Dumped(fields) == JsonString(fields) \o <<Eof>>

\* bson_in is called with a text, or with the dump of a stored document.
InitText ==
    \/ InitParse /\ stored = <<>> /\ round = 0
    \/ /\ stored \in Docs /\ round = 1
       /\ text = Dumped(stored) /\ pos = 0 /\ left = 0
       /\ stack = <<Activation("object", "UNUSED")>>
       /\ Builder!Init

\* What was read is dumped and restored.
Redump ==
    /\ round < 2 /\ result[1] = "finished"
    /\ round' = round + 1 /\ stored' = result[2]
    /\ text' = Dumped(result[2]) /\ pos' = 0 /\ left' = 0
    /\ stack' = <<Activation("object", "UNUSED")>>
    /\ open' = <<[name |-> 0, fields |-> <<>>]>> /\ result' = Builder!Pending

NextText == (NextParse /\ UNCHANGED <<stored, round>>) \/ Redump

\* A call of bson_in goes on until it returns.
TextSpec == InitText /\ [][NextText]_all /\ WF_all(NextParse /\ UNCHANGED <<stored, round>>)

-----------------------------------------------------------------------------
(* What a text keeps *)

\* A value comes back as one value, or as none if its text is refused.  Numbers
\* get the smallest type that holds what is printed of them.
Kept(e) ==
    CASE e.type \in {"int", "long"} \/ (e.type = "double" /\ e.s = "" /\ e.n \in -(Digits - 1)..(Digits - 1)) ->
             {[e EXCEPT !.type = IF IsInt(e.n) THEN "int" ELSE "long"]}
      [] e.type = "double" /\ e.s = "" /\ e.n \notin -(Digits - 1)..(Digits - 1) ->
             {[e EXCEPT !.n = NearestDouble(n)] : n \in {Rounded(e.n)} \cap -MaxDouble..MaxDouble}
      [] e.type = "double" /\ e.s = "tiny" -> {}
      [] e.type = "double" /\ e.s = ".51" -> {[e EXCEPT !.s = ".5"]}
      [] e.type = "regex" -> {x \in {e} : \E o \in Gims : OptionsOf[o] = x.n}
      [] e.type = "code" -> Simple(e.name, Bare(e.s))
      [] e.type = "symbol" -> {[e EXCEPT !.type = "string"]}
      [] OTHER -> {e}

\* An array with all its positions.
Filled(fields) ==
    IF fields = <<>> THEN <<>>
    ELSE LET size == Index(NameOf(fields[Len(fields)])) + 1
             at(i) == SelectSeq(fields, LAMBDA f : Index(NameOf(f)) = i - 1)
         IN  [i \in 1..size |-> IF at(i) = <<>> THEN Field(NumStr[i], "undefined", "", 0) ELSE at(i)[1]]

RECURSIVE Restored(_)

\* Fields come back if all of them do.
Back(fields) ==
    LET back == [i \in 1..Len(fields) |-> Restored(fields[i])]
    IN  IF \E i \in 1..Len(fields) : back[i] = {} THEN {}
        ELSE {[i \in 1..Len(fields) |-> CHOOSE f \in back[i] : TRUE]}

\* An object that begins with a reserved name is read as a value of another type,
\* as a reference, or not at all.
Reread(name, fields) ==
    LET names == [i \in 1..Len(fields) |-> NameOf(fields[i])]
        parts == IF fields[1][1] = "doc" THEN fields[1][3] ELSE <<>>
        arg(f) == Written(f)[1]
        is(f, class) == Len(Written(f)) = 1 /\ IsArg(class, arg(f))
    IN  CASE names = <<"$oid">> /\ is(fields[1], "hex24") ->
                 {Field(name, "oid", OidOf[arg(fields[1]).s], 0)}
          [] names = <<"$binary", "$type">> /\ is(fields[1], "base64") /\ is(fields[2], "hex2") ->
                 {Field(name, "bindata", DataOf[arg(fields[1]).s], ByteOf[arg(fields[2]).s])}
          [] names = <<"$date">> /\ is(fields[1], "ms") ->
                 {Field(name, "date", "", AsSigned(arg(fields[1]).n))}
          [] /\ names = <<"$timestamp">> /\ fields[1] = Embedded("$timestamp", "object", parts)
             /\ [i \in 1..Len(parts) |-> NameOf(parts[i])] = <<"t", "i">>
             /\ is(parts[1], "uint") /\ is(parts[2], "uint") ->
                 {Field(name, "timestamp", "", OpTime(Stored32(arg(parts[1])), Stored32(arg(parts[2]))))}
          [] names = <<"$regex">> /\ is(fields[1], "str") ->
                 {Field(name, "regex", arg(fields[1]).s, OptionsOf[""])}
          [] names = <<"$regex", "$options">> /\ is(fields[1], "str") /\ is(fields[2], "opts") ->
                 {Field(name, "regex", arg(fields[1]).s, OptionsOf[arg(fields[2]).s])}
          [] names = <<"$undefined">> /\ Written(fields[1]) = <<Bare("true")>> ->
                 {Field(name, "undefined", "", 0)}
          [] names = <<"$ref", "$id">> /\ is(fields[1], "str") ->
                 {Embedded(name, "object", <<Field("$ref", "string", arg(fields[1]).s, 0), id>>) :
                     id \in Restored(fields[2])}
          [] OTHER -> {}

\* What a field comes back as: one field, or none if its text is refused.
Restored(f) ==
    LET name == NameOf(f)
        object(fields) == {Embedded(name, "object", back) : back \in Back(fields)}
        key(word) == object(<<Field(word, "int", "", 1)>>)
    IN  CASE f[1] = "value" /\ f[2].type = "dbref" ->
                 IF Len(Raw(f[2].s)) > 1 THEN {}
                 ELSE object(<<Field("$ref", "string", Raw(f[2].s)[1].s, 0),
                               Field("$id", "string", CHOOSE s \in DOMAIN OidOf : TRUE, 0)>>)
          [] f[1] = "value" /\ f[2].type = "minkey" -> key("$minKey")
          [] f[1] = "value" /\ f[2].type = "maxkey" -> key("$maxKey")
          [] f[1] = "value" /\ f[2].type \notin {"dbref", "minkey", "maxkey"} ->
                 {<<"value", e>> : e \in Kept(f[2])}
          [] f[1] = "doc" /\ f[2][2] = "array" ->
                 {Embedded(name, "array", back) : back \in Back(Filled(f[3]))}
          [] f[1] = "doc" /\ f[2][2] = "codewscope" ->
                 IF Len(f[3]) = 1 THEN Restored(Named(f[3][1], name))
                 ELSE object(<<Named(f[3][1], "$code"), Embedded("$scope", "object", Tail(f[3]))>>)
          [] f[1] = "doc" /\ f[2][2] = "object" ->
                 IF f[3] # <<>> /\ NameOf(f[3][1]) \in Reserved THEN Reread(name, f[3])
                 ELSE object(f[3])

\* A document that itself begins with a reserved name, as a reference taken out of
\* a document does, is refused.
RestoredDocument(fields) ==
    IF fields # <<>> /\ NameOf(fields[1]) \in Reserved THEN {} ELSE Back(fields)

-----------------------------------------------------------------------------
(* Properties *)

\* bson_in refuses what bson_out has written for exactly those documents that have
\* a value without a readable text: code, unless its text is that of a value, a
\* double that 16 digits round past the greatest or that is below the least normal
\* one, a regular expression with a flag other than gims, a reference of the old
\* kind whose namespace is not one string when it is copied, or an object that begins with a reserved
\* name and is no value of that form.
RestoreAccepts ==
    round > 0 /\ result # Builder!Pending => (result = Builder!Failed <=> RestoredDocument(stored) = {})

\* The restored document has the fields of the stored one, in their order and
\* places, with the same values; other types of number, symbols, code, holes, keys
\* and objects that look like a value come back as something else, doubles with 17
\* digits as their neighbours, and a reference of the old kind with its namespace
\* unescaped.  Once restored a document survives all further dumps unchanged.
RestoreKeepsValues ==
    /\ round > 0 /\ result[1] = "finished" => result[2] \in RestoredDocument(stored)
    /\ round = 2 /\ result # Builder!Pending => result = <<"finished", stored>>
=============================================================================
