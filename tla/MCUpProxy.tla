------------------------------ MODULE MCUpProxy ------------------------------
(* Constants for UpProxy: "user:password" of 3, 4 and 5 bytes, so that the *)
(* base-64 encoding ends in no, two and one "=".                           *)
EXTENDS UpProxy

CredsTried == {[user |-> <<97>>, pwd |-> <<98>>],
               [user |-> <<97, 127>>, pwd |-> <<98>>],
               [user |-> <<97>>, pwd |-> <<98, 1, 63>>]}
=============================================================================
