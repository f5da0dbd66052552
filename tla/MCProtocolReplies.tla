--------------------------- MODULE MCProtocolReplies ---------------------------
(* The protocol under the tests' reply buffer.  Tokens, as in              *)
(* MCSemanticBlockProtocol, pairwise differ in one part only; their parts  *)
(* are 0, 9, 10 and 65535, the edges of one, two and five decimal digits   *)
(* and of the 16-bit range.                                                *)
EXTENDS ProtocolReplies

CONSTANTS c1

MCTokens == {<<0, 9, 10, 65535>>, <<0, 9, 10, 0>>, <<65535, 9, 10, 65535>>}
MCCommandLines == {c1}
MCExitCodes == {0, 1}
=============================================================================
