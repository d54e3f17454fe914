---------------------------- MODULE MCRowToBson ----------------------------
(* Rows of up to three columns with every type, dropped and null columns,   *)
(* repeated and dotted names, and records in records, a row type inside     *)
(* itself among them.                                                       *)
EXTENDS RowRoundTrip

NoRow == [desc |-> "none", cols |-> <<>>]
Col(name, typ, v) ==
    [name |-> name, dropped |-> FALSE, null |-> FALSE, typ |-> typ, v |-> v, rec |-> NoRow, doc |-> <<>>]
Rec(name, row) == [Col(name, "record", <<>>) EXCEPT !.rec = row]

A == <<"a">>
B == <<"b">>

Scalars ==
    {Col(A, t, <<7>>) : t \in {"bool", "char", "int2", "int8", "float8", "timestamp"}}
    \cup {Col(B, "int4", <<9>>), Col(B, "text", <<1, 2>>), Col(B, "text", <<>>), Col(B, "inet", <<3>>)}
    \cup {[Col(B, "text", <<1>>) EXCEPT !.null = TRUE], [Col(B, "record", <<>>) EXCEPT !.null = TRUE]}
    \cup {[Col(<<"dropped">>, "none", <<>>) EXCEPT !.dropped = TRUE]}
    \cup {[Col(B, "bson", <<>>) EXCEPT !.doc = <<Scalar(A, "int", <<7>>)>>], Col(<<"b", "a">>, "int4", <<5>>)}

Few == {Col(A, "int8", <<7>>), Col(B, "text", <<1, 2>>),
        [Col(<<"dropped">>, "none", <<>>) EXCEPT !.dropped = TRUE]}

Row(d, cols) == [desc |-> d, cols |-> cols]

Flat == {Row("s", <<x, Col(B, "text", <<1, 2>>)>>) : x \in Scalars}
Small == {Row("s", <<>>)} \cup {Row("s", <<x>>) : x \in Few} \cup {Row("s", <<x, y>>) : x, y \in Few}
Nested == {Row("r", <<x, Rec(B, y), Col(<<"c">>, "int4", <<9>>)>>) : x \in Few, y \in Small}
Deep == {Row("s", <<Rec(A, x), Rec(B, y)>>) : x \in {n \in Nested : n.cols[1].dropped},
                                              y \in {Row("s", <<>>), Row("s", <<Col(A, "int2", <<7>>)>>)}}

MCDescs == {"r", "s"}
MCComposites == Flat \cup Small \cup Nested \cup Deep \cup {Row("s", <<Col(A, "int2", <<7>>)>>)}
MCPastEnd == {0, 1}
ContractRows == {Row("s", <<Col(A, "char", <<7>>), Col(B, "text", <<1, 2>>), Col(<<"c">>, "timestamp", <<5000>>)>>)}
NotZero == {1}
=============================================================================
