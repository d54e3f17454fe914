---------------------------- MODULE MCFieldAccess ----------------------------
(* Documents with fields of every kind of type, repeated names, an array in   *)
(* an array, empty documents, a field named "" and fields with dots.          *)
EXTENDS FieldAccess

A == <<"a">>
B == <<"b">>

Leaves ==
    {Scalar(A, "int", <<7>>), Scalar(A, "long", <<12>>), Scalar(A, "double", <<12>>),
     Scalar(A, "string", <<1, 0>>), Scalar(A, "date", <<3>>), Scalar(A, "date", <<9>>),
     Scalar(A, "bool", <<1>>), Scalar(A, "null", <<>>), Scalar(<<"">>, "oid", <<1>>),
     Embedded(A, "object", <<>>), Scalar(<<"a", "b">>, "int", <<5>>)}

Inner == {<<x>> : x \in Leaves} \cup {<<x, y>> : x, y \in Leaves}

Others == {Scalar(A, "int", <<7>>), Scalar(<<"b", "a">>, "int", <<5>>)}

MCDocs ==
    Inner \cup {<<Embedded(B, "object", d)>> : d \in Inner}
    \cup {<<Embedded(B, "array", <<Embedded(<<"0">>, "array", <<Scalar(<<"0">>, "int", <<4>>)>>),
                                   [x EXCEPT !.name = <<"1">>]>>), y>> : x \in Leaves, y \in Others}
    \cup {<<Embedded(B, "object", <<Embedded(A, "object", <<x>>)>>), y>> :
            x \in Leaves, y \in Others}

MCLabels == {"", "a", "b", "0", "1"}
MCPaths == {A, B, <<"">>, <<"0">>, <<"a", "b">>, <<"b", "a">>, <<"", "0">>, <<"", "1">>, <<"b", "1">>}
MCDates == 0..5
=============================================================================
