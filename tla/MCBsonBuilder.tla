--------------------------- MODULE MCBsonBuilder ---------------------------
(* Small instance of BsonReader: a buffer of at most 32 bytes that starts   *)
(* at 12 and is reallocated at 16 and 32.                                   *)
EXTENDS BsonReader

MCNameSizes == {1, 3}
MCValueSizes == {<<0, 0>>, <<4, 2>>}
=============================================================================
