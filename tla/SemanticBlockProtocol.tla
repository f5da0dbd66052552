----------------------- MODULE SemanticBlockProtocol -----------------------
(***************************************************************************)
(* The semantic block protocol as the VT stream drives it: the terminal's *)
(* handlers for DECSM/DECRM/DECRQM 2034, for OSC 133 A/C/D and SETMARK,   *)
(* and for SBQUERY (CSI > Ps ; Pn [; T1 ; T2 ; T3 ; T4] b), each calling  *)
(* into the tracker module and emitting the reply the spec defines.       *)
(*                                                                         *)
(* These handlers live in Terminal/Screen, which is not among the sources;*)
(* they are written from spec.md sections 4.C and 4.D.  The tracker they  *)
(* call is the SemanticBlockTracker module, written from the C++.          *)
(*                                                                         *)
(* Input is one escape sequence per step, any sequence in any order: the  *)
(* byte stream of a pty is written by the shell and by every program it   *)
(* runs, so nothing orders OSC 133, mode changes and queries.              *)
(***************************************************************************)
EXTENDS Integers, Sequences

CONSTANTS
  MaxBlocks, Tokens, CommandLines, ExitCodes, None,
  MaxCount,       \* largest Pn a query carries
  RedundantDecsm  \* whether DECSM 2034 may arrive while the mode is set

ASSUME MaxCount \in Nat
ASSUME RedundantDecsm \in BOOLEAN

VARIABLES
  enabled, token, completedBlocks, currentBlock,
  issued,  \* the token carried by the most recent DECSM 2034 reply
  reply    \* what the last handled sequence wrote back to the pty

T == INSTANCE SemanticBlockTracker

vars == <<enabled, token, completedBlocks, currentBlock, issued, reply>>

\* SBQueryType
LastCommand == 1
LastNumberOfCommands == 2
InProgress == 3
QueryTypes == {LastCommand, LastNumberOfCommands, InProgress, 4}

(***************************************************************************)
(* Replies.  kind "decset" is ESC P > 2034 ; 1 b T1;T2;T3;T4 ESC \ with   *)
(* `auth` the token sent; "decrqm" is CSI ? 2034 ; status $ y; "sbquery"  *)
(* is ESC P > status b json ESC \, with `auth` the token the query        *)
(* carried (None: fewer than six parameters) and `blocks` the JSON body.  *)
(* JSON is abstracted to the sequence of blocks it serialises.            *)
(***************************************************************************)
Reply ==
  [kind : {"none", "decset", "decrqm", "sbquery"}, status : 0..3,
   auth : Tokens \cup {None}, blocks : Seq(T!CommandBlockInfo)]

NoReply == [kind |-> "none", status |-> 0, auth |-> None, blocks |-> <<>>]

\* Step 4 of the query dispatch: the records a query type selects.
SelectBlocks(ps, pn) ==
  CASE ps = LastCommand ->
         IF completedBlocks = <<>> THEN <<>>
         ELSE <<completedBlocks[Len(completedBlocks)]>>
    [] ps = LastNumberOfCommands ->
         IF pn <= 0 THEN <<>> ELSE T!Newest(completedBlocks, pn)
    [] ps = InProgress ->
         IF currentBlock = None THEN <<>> ELSE <<currentBlock>>
    [] OTHER -> <<>>

\* Steps 1-5 of the query dispatch, in order, as the reply status.
QueryStatus(ps, pn, tok) ==
  CASE ~enabled -> 0
    [] tok = None -> 2
    [] ~T!ValidateToken(tok) -> 3
    [] SelectBlocks(ps, pn) = <<>> -> 0
    [] OTHER -> 1

-----------------------------------------------------------------------------

Init ==
  /\ T!Init
  /\ issued = None
  /\ reply = NoReply

\* DECSM 2034: enable the tracker, then reply with the token it now holds.
Decsm2034 ==
  /\ RedundantDecsm \/ ~enabled
  /\ T!SetEnabled(TRUE)
  /\ issued' = token'
  /\ reply' = [NoReply EXCEPT !.kind = "decset", !.auth = token']

\* DECRM 2034
Decrm2034 ==
  /\ T!SetEnabled(FALSE)
  /\ reply' = NoReply
  /\ UNCHANGED issued

\* DECRQM 2034: 1 when set, 2 when reset.
Decrqm2034 ==
  /\ reply' = [NoReply EXCEPT !.kind = "decrqm",
                              !.status = IF enabled THEN 1 ELSE 2]
  /\ UNCHANGED <<enabled, token, completedBlocks, currentBlock, issued>>

\* OSC 133;A and CSI > M: the tracker sees promptStart when enabled.
PromptStartSeq ==
  /\ IF enabled THEN T!PromptStart
     ELSE UNCHANGED <<enabled, token, completedBlocks, currentBlock>>
  /\ reply' = NoReply
  /\ UNCHANGED issued

Osc133A == PromptStartSeq
SetMark == PromptStartSeq

\* OSC 133;C [;cmdline_url=...]: the decoded command line, if any.
Osc133C(commandLine) ==
  /\ IF enabled THEN T!CommandOutputStart(commandLine)
     ELSE UNCHANGED <<enabled, token, completedBlocks, currentBlock>>
  /\ reply' = NoReply
  /\ UNCHANGED issued

\* OSC 133;D [;exit]: the exit code defaults to 0.
Osc133D(exitCode) ==
  /\ IF enabled THEN T!CommandFinished(exitCode)
     ELSE UNCHANGED <<enabled, token, completedBlocks, currentBlock>>
  /\ reply' = NoReply
  /\ UNCHANGED issued

\* SBQUERY: a reply and no state change.
SbQuery(ps, pn, tok) ==
  LET status == QueryStatus(ps, pn, tok) IN
  /\ reply' = [kind |-> "sbquery", status |-> status, auth |-> tok,
               blocks |-> IF status = 1 THEN SelectBlocks(ps, pn) ELSE <<>>]
  /\ UNCHANGED <<enabled, token, completedBlocks, currentBlock, issued>>

Next ==
  \/ Decsm2034
  \/ Decrm2034
  \/ Decrqm2034
  \/ Osc133A
  \/ SetMark
  \/ \E c \in CommandLines \cup {None} : Osc133C(c)
  \/ \E x \in ExitCodes : Osc133D(x)
  \/ \E ps \in QueryTypes, pn \in 0..MaxCount, tok \in Tokens \cup {None} :
       SbQuery(ps, pn, tok)

Spec == Init /\ [][Next]_vars

-----------------------------------------------------------------------------

(* Type invariant: the tracker's, the issued token and the reply.         *)
TypeOK ==
  /\ T!TypeOK
  /\ issued \in Tokens \cup {None}
  /\ reply \in Reply

(* The token scopes the history: every block a successful query returns  *)
(* was recorded in the session of the token that authenticated it, so a  *)
(* program that enables mode 2034 never reads commands of an earlier     *)
(* session (spec: "each enable transition ... resets all history").      *)
SessionIsolation ==
  reply.kind = "sbquery" /\ reply.status = 1 =>
    \A i \in 1..Len(reply.blocks) : reply.blocks[i].session = reply.auth

(***************************************************************************)
(* Refinement.  The session is the tracker's token, the history its      *)
(* completed blocks and the current command its current block.  A        *)
(* program's answer is the body of an SBQUERY reply with status 1, with  *)
(* the token the query carried; every other reply (a refusal, an empty   *)
(* result, a DECRQM or DECSM reply, none) tells it nothing.               *)
(***************************************************************************)
AnswerOf(r) ==
  IF r.kind = "sbquery" /\ r.status = 1
    THEN [granted |-> TRUE, data |-> r.blocks, to |-> r.auth]
    ELSE [granted |-> FALSE, data |-> <<>>, to |-> None]

Q == INSTANCE SessionQueries
       WITH session <- token, history <- completedBlocks,
            current <- currentBlock, answer <- AnswerOf(reply),
            Blocks <- T!CommandBlockInfo,
            Finished <- {b \in T!CommandBlockInfo : b.finished}

(* The handlers implement SessionQueries: whatever order the shell's     *)
(* markers, mode changes and queries arrive in, a query gets data only   *)
(* with the token of the session now open, and only the current command *)
(* or the newest entries of that session's own history, which opening a *)
(* session starts empty and which keeps its MaxBlocks newest commands.   *)
ImplementsSessionQueries == Q!Spec

=============================================================================
