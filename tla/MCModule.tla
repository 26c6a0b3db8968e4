------------------------------ MODULE MCModule ------------------------------
(* A small instance of Module for TLC: two sources that define different   *)
(* functions, with one name in common.                                     *)
EXTENDS Module
MCDefines(s) == IF s = "a" THEN {"main"} ELSE {"main", "other"}
=============================================================================
