------------------------------ MODULE MCApiCalls ------------------------------
(***************************************************************************)
(* An instance of ApiCalls for TLC.  Integers are -4..9 against an int of  *)
(* 3 bits (-4..3), a size_t of 4 (0..15) and doubles exact up to 8.        *)
(***************************************************************************)
EXTENDS ApiCalls

Wrong == {Nil, Struct("RimeApi", "p")}
Pointers(type) == {Struct(type, "p"), Struct(type, Nullptr), Light("q")} \union Wrong
Texts == {Text, Integer(1)} \union Wrong
Integers_ == {Integer(n) : n \in {-4, -1, 0, 3, 5}} \union {Numeral(2), Fraction, Text}

MCInputs(kind) ==
  CASE kind = "session" ->
         {Session(1), Session(9), Integer(8), Integer(9), Integer(-1),
          Numeral(1), Numeral(-1), Fraction, Text, Nil}
    [] kind = "string" -> Texts
    [] kind = "strings" -> {Table(<<>>), Table(<<Text, Text>>), Table(<<Text, Nil>>), Nil}
    [] kind \in {"boolean", "flag"} -> {Boolean(TRUE), Boolean(FALSE), Integer(1), Nil}
    [] kind \in {"integer", "index"} \union Sizes -> Integers_
    [] kind = "settings" -> UNION {Pointers(type) : type \in SettingsTypes}
    [] kind = "RimeCustomSettings" -> Pointers(kind) \union Pointers("RimeSwitcherSettings")
    [] kind = "RimeTraits!" -> Pointers("RimeTraits")
    [] OTHER -> Pointers(kind)
===============================================================================
