---------------------------- MODULE MCBlurBehind ----------------------------
(* Three windows toggled in any order, so that one window's round trips     *)
(* flush the other's buffered deletes.                                     *)
EXTENDS BlurBehind

CONSTANTS w1, w2, w3

MCWindows == {w1, w2, w3}
=============================================================================
