------------------------------ MODULE MCBrowser ------------------------------
(***************************************************************************)
(* Two texts of a capital, a character without a key and a small letter.   *)
(***************************************************************************)
EXTENDS Browser

MCText == <<"A", "?", "a">>
=============================================================================
