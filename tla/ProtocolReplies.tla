--------------------------- MODULE ProtocolReplies ---------------------------
(***************************************************************************)
(* The shell-integration tests' view of the protocol: every reply the     *)
(* terminal writes (SemanticBlockProtocol) is appended, as characters      *)
(* (TokenWire), to the MockTerm's reply buffer, which a test clears with  *)
(* resetReplyData().  enableModeAndGetToken                                *)
(* (src/src/vtbackend/ShellIntegration_test.cpp) clears the buffer, sends *)
(* DECSM 2034 and reads the token back with extractTokenFromDecsetReply.  *)
(* MockTerm is not among the sources: the buffer is what the tests use it *)
(* as, an append-only string between resets.                              *)
(***************************************************************************)
EXTENDS Integers, Sequences, TokenWire

CONSTANTS
  MaxBlocks, Tokens, CommandLines, ExitCodes, None, MaxCount, RedundantDecsm,
  MaxReplies   \* bound on the replies written between two resets

VARIABLES
  enabled, token, completedBlocks, currentBlock, issued, reply,
  replyData,   \* mc.replyData()
  written,     \* replies appended since the last reset (bounded by MaxReplies)
  helperResult \* what enableModeAndGetToken read, when it was the last step;
               \* None otherwise

P == INSTANCE SemanticBlockProtocol

protocolVars == <<enabled, token, completedBlocks, currentBlock, issued, reply>>
vars == <<protocolVars, replyData, written, helperResult>>

Init ==
  /\ P!Init
  /\ replyData = <<>>
  /\ written = 0
  /\ helperResult = None

(* mc.writeToScreen(seq) followed by flushInput(): the terminal handles   *)
(* one sequence and its reply, if any, lands in the buffer.               *)
WriteToScreen ==
  /\ P!Next
  /\ reply' # P!NoReply => written < MaxReplies
  /\ replyData' = replyData \o Encode(reply')
  /\ written' = IF reply' = P!NoReply THEN written ELSE written + 1
  /\ helperResult' = None

(* mc.resetReplyData()                                                      *)
ResetReplyData ==
  /\ replyData' = <<>>
  /\ written' = 0
  /\ helperResult' = None
  /\ UNCHANGED protocolVars

(* enableModeAndGetToken without its resetReplyData() call.                *)
EnableModeAndGetTokenNoReset ==
  /\ written < MaxReplies
  /\ P!Decsm2034
  /\ replyData' = replyData \o Encode(reply')
  /\ written' = written + 1
  /\ helperResult' = ExtractTokenFromDecsetReply(replyData')

(* enableModeAndGetToken(mc): reset, DECSM 2034, flush, extract.  Its      *)
(* REQUIRE(token.has_value()) is the property below, not a guard.          *)
EnableModeAndGetToken ==
  /\ P!Decsm2034
  /\ replyData' = Encode(reply')
  /\ written' = 1
  /\ helperResult' = ExtractTokenFromDecsetReply(replyData')

Next == WriteToScreen \/ ResetReplyData \/ EnableModeAndGetToken

Spec == Init /\ [][Next]_vars

-----------------------------------------------------------------------------
TypeOK ==
  /\ P!TypeOK
  /\ written \in 0..MaxReplies
  /\ helperResult \in {None} \cup {Parsed(t) : t \in Tokens} \cup {Nullopt, Throws}

(* The handlers implement the abstract SessionQueries specification, with *)
(* the tests' reply buffer and helper alongside (SemanticBlockProtocol's *)
(* ImplementsSessionQueries): queries disclose only the open session's    *)
(* current command or newest history, and only to its token's holder.     *)
ImplementsSessionQueries == P!ImplementsSessionQueries

(* The token a test reads with enableModeAndGetToken is the one the       *)
(* tracker now holds (test TokenOnEnable's CHECK, and what every           *)
(* authenticated query of the tests relies on): the text the terminal      *)
(* writes parses back to all four 16-bit parts, and the helper reads the   *)
(* reply of this enable, not an earlier one still in the buffer: find()    *)
(* returns the first DECSM reply, so this rests on the reset before it.   *)
HelperReadsCurrentToken ==
  helperResult # None => helperResult = Parsed(token) /\ token = issued

=============================================================================
