---------------------------- MODULE MCJsonChars ----------------------------
(* Strings put together from pieces: ", \, \u, hex digits around the borders *)
(* of UTF-8, letters with and without a meaning, bytes past 127.  Data of up *)
(* to seven bytes, so that blocks of every size end it.                      *)
EXTENDS JsonChars

Parts == {<<34>>, <<92>>, <<92, 117>>, <<48, 48>>, <<48, 55>>, <<48, 56>>, <<55, 102>>, <<56, 48>>,
          <<57>>, <<70, 49>>, <<110>>, <<118>>, <<39>>, <<120>>, <<10>>, <<195>>}

Texts ==
    {<<>>} \cup {p \o e : p \in Parts, e \in {<<>>, <<34>>}}
    \cup {p \o r \o e : p \in Parts, r \in Parts, e \in {<<>>, <<34>>}}
    \cup {p \o r \o s \o e : p \in Parts, r \in Parts, s \in Parts, e \in {<<>>, <<34>>}}
    \cup {p \o r \o s \o <<110, 34>> : p \in Parts, r \in Parts, s \in Parts}

Ends == {0, 3, 15, 64, 255}
Blocks == UNION {[1..n -> Ends] : n \in 0..3} \cup UNION {[1..n -> {1, 254}] : n \in 4..7}
=============================================================================
