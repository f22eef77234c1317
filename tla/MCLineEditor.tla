----------------------------- MODULE MCLineEditor -----------------------------
(***************************************************************************)
(* Instances of LineEditor for TLC: entries that share prefixes, one of    *)
(* two lines, one with a blank, and two longer than MaxLength; and one     *)
(* history longer than its limit, with a blank line and a line twice.      *)
(***************************************************************************)
EXTENDS LineEditor

MCPrintable == {"a", " "}
MCBlank == {" ", "n"}
MCArrows == {<<"ESC", "[", "A">>, <<"ESC", "[", "B">>, <<"ESC", "[", "C">>, <<"ESC", "[", "D">>}
MCPlainKeys == {<<"a">>, <<" ">>, <<"CR">>, <<"DEL">>, <<"HT">>, <<"EOT">>, <<"ETX">>}
MCKeys == MCArrows \union MCPlainKeys \union {<<"ESC">>}
MCHistories ==
  { << <<"a", "n", "a">>, <<"a">> >>,
    << <<"a", "a", "a">>, <<" ", "a">> >>,
    << <<"a">>, <<" ">>, <<"a">> >> }
MCContexts == { <<>>, <<"a", "n">> }
=============================================================================
