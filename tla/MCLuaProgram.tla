----------------------------- MODULE MCLuaProgram -----------------------------
(***************************************************************************)
(* An instance of LuaProgram for TLC.                                      *)
(***************************************************************************)
EXTENDS LuaProgram, MCApiCalls

\* WrappedCalls
Param(kind, copied) == [kind |-> kind, copied |-> copied]
MCWrapped ==
  [ set_name |-> <<Param("reference", FALSE), Param("text", FALSE)>>,
    find     |-> <<Param("object", TRUE), Param("string", FALSE), Param("vector", TRUE)>>,
    copy     |-> <<Param("string", TRUE), Param("object", TRUE), Param("object", TRUE)>> ]

\* Utf8: the bytes at which the ranges of the encoding begin and end.
Bytes == {65, 128, 144, 160, 191, 193, 194, 224, 240, 244, 248}
FewBytes == {65, 128, 160, 191, 194, 225, 240, 245}
MCStrings == (UNION {[1..n -> Bytes] : n \in 0..3}) \union [1..4 -> FewBytes]
===============================================================================
