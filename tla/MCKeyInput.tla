----------------------------- MODULE MCKeyInput -----------------------------
(* A keyboard of three keys: a letter, Shift, and one the host has no code   *)
(* for.                                                                      *)
EXTENDS KeyInput

Keys == {"a", "shift", "menu"}
LetterKeys == {"a"}
Shifts == {"shift"}
NoCodeKeys == {"menu"}
=============================================================================
