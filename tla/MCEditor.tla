------------------------------ MODULE MCEditor ------------------------------
(***************************************************************************)
(* Every text of at most five of these characters: a letter and a digit    *)
(* (both hexadecimal, and 0b a prefix), what begins and ends strings,      *)
(* escapes and comments, a line's end, and a character of two bytes.       *)
(***************************************************************************)
EXTENDS Editor

MCChars ==
  { <<"b">>, <<"0">>, <<"\"">>, <<"\\">>, <<"#">>, <<"/">>, <<"\n">>, <<"lead", "cont">> }
=============================================================================
