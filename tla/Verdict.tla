------------------------------ MODULE Verdict ------------------------------
(***************************************************************************)
(* How the models write a chain of checks that stops at the first failure: *)
(* a verdict is Ok or the name of an error, and x ?? y is Rust's `?`, the  *)
(* early return that hides every later check.                              *)
(***************************************************************************)
Ok == "ok"

x ?? y == IF x = Ok THEN y ELSE x

Require(condition, error) == IF condition THEN Ok ELSE error
=============================================================================
