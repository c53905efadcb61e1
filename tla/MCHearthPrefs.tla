---------------------------- MODULE MCHearthPrefs ----------------------------
(* Names whose characters run together the same way, values of two types   *)
(* with one length, and a string with its NUL.                             *)
EXTENDS HearthPrefs

MCNames    == {<<1>>, <<1, 1>>}
MCContents == {[type |-> 1, data |-> <<7>>], [type |-> 1, data |-> <<9>>],
               [type |-> STR, data |-> <<7, 0>>]}
=============================================================================
