---------------------- MODULE MCSemanticBlockProtocol ----------------------
(* The protocol with tokens written out as their four 16-bit parts.  The  *)
(* generator may return any of 2^64 tokens; the model keeps three, which  *)
(* pairwise agree in three parts and differ in one (the first or the      *)
(* last), so a check that compares only some parts is told apart.         *)
EXTENDS SemanticBlockProtocol

CONSTANTS c1

MCTokens == {<<0, 0, 0, 0>>, <<0, 0, 0, 1>>, <<1, 0, 0, 0>>}
MCCommandLines == {c1}
MCExitCodes == {0, 1}
=============================================================================
