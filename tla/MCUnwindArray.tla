--------------------------- MODULE MCUnwindArray ---------------------------
(* Small instance of UnwindArray: two calls in one query, and arguments of  *)
(* every kind, with arrays in order, out of order, with a repeated, a       *)
(* missing, a non-numeric and a too large position.                         *)
EXTENDS UnwindArray

Scalar(n) == [obj |-> FALSE, v |-> n]
Document(n) == [obj |-> TRUE, v |-> n]
At(i, e) == [idx |-> i, el |-> e]

Array(t, f) == [toasted |-> t, kind |-> "array", fields |-> f]
Value(t, e) == [toasted |-> t, kind |-> "value", fields |-> <<At(None, e)>>]

MCArgs == {
    [toasted |-> TRUE, kind |-> "missing", fields |-> <<>>],
    Value(TRUE, Document(1)),
    Array(FALSE, <<>>),
    Array(FALSE, <<At(0, Scalar(1)), At(1, Document(2))>>),
    Array(TRUE, <<At(0, Scalar(1)), At(1, Document(2))>>),
    Array(TRUE, <<At(1, Scalar(1)), At(0, Document(2))>>),
    Array(FALSE, <<At(0, Scalar(1)), At(0, Scalar(2))>>),
    Array(TRUE, <<At(0, Scalar(1)), At(2, Scalar(2))>>),
    Array(FALSE, <<At(None, Scalar(1)), At(0, Scalar(2))>>),
    Array(FALSE, <<At(0, Scalar(1)), At(3, Scalar(2))>>)}
=============================================================================
