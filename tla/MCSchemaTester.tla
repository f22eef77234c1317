-------------------------- MODULE MCSchemaTester --------------------------
(* A deployment with an option and no patch, one with an option and a      *)
(* patch of two lines, and one with a patch only.                          *)
EXTENDS SchemaTester

CONSTANTS plain, env, patched, none, k1, k2, simp, mode, chosen, empty

NoValues == [k \in {} |-> none]

MCConfig ==
  plain :> [patch |-> none, options |-> simp :> TRUE, properties |-> NoValues, tests |-> 1]
  @@ env :> [patch |-> <<k1, k2>>, options |-> simp :> TRUE, properties |-> NoValues, tests |-> 1]
  @@ patched :> [patch |-> <<k2>>, options |-> NoValues, properties |-> NoValues, tests |-> 1]

(* A deployment that sets a property, and one that does not. *)
MCPropertyConfig ==
  plain :> [patch |-> none, options |-> NoValues, properties |-> NoValues, tests |-> 2]
  @@ env :> [patch |-> none, options |-> NoValues, properties |-> mode :> chosen, tests |-> 1]

MCOptions == simp :> FALSE
MCProperties == mode :> empty
===========================================================================
