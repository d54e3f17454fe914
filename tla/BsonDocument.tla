---------------------------- MODULE BsonDocument ----------------------------
(* What a document builder promises, without a buffer: a stack of documents *)
(* being written, and the tree that comes out when the outermost is done.   *)
EXTENDS Naturals, Sequences

CONSTANTS Values,  \* what a field may hold
          Names    \* field names of embedded documents

Pending == <<"pending">>
Failed == <<"failed">>

VARIABLES
    open,   \* documents not finished yet, outermost first
    result  \* Pending, Failed, or <<"finished", fields>>

Init == open = <<[name |-> 0, fields |-> <<>>]>> /\ result = Pending

Extended(s, f) == [s EXCEPT ![Len(s)].fields = Append(@, f)]

Add(v) ==
    /\ open # <<>>
    /\ open' = Extended(open, <<"value", v>>)
    /\ UNCHANGED result

Begin(n) ==
    /\ open # <<>>
    /\ open' = Append(open, [name |-> n, fields |-> <<>>])
    /\ UNCHANGED result

End ==
    /\ Len(open) > 1
    /\ LET inner == open[Len(open)]
       IN  open' = Extended(SubSeq(open, 1, Len(open) - 1),
                            <<"doc", inner.name, inner.fields>>)
    /\ UNCHANGED result

Finish ==
    /\ Len(open) = 1
    /\ result' = <<"finished", open[1].fields>>
    /\ open' = <<>>

Fail ==
    /\ open # <<>>
    /\ open' = <<>>
    /\ result' = Failed

Next ==
    \/ \E v \in Values : Add(v)
    \/ \E n \in Names : Begin(n)
    \/ End \/ Finish \/ Fail

Spec == Init /\ [][Next]_<<open, result>>
=============================================================================
