--------------------------- MODULE SessionQueries ---------------------------
(***************************************************************************)
(* What mode 2034 promises a program that queries the command history    *)
(* (spec.md 4.B-4.D), with no tracker, no reply encoding and no query     *)
(* types: a session is opened with a fresh token and closed again; while *)
(* it is open, the shell's markers move a current command into a bounded *)
(* history; a query answers with data only to the holder of the session *)
(* token, and only with the current command or a newest-first suffix of *)
(* the session's own history.                                            *)
(*                                                                         *)
(* SemanticBlockProtocol implements this specification under the mapping *)
(* given there (ImplementsSessionQueries).                                *)
(***************************************************************************)
EXTENDS Integers, Sequences

CONSTANTS
  Tokens,     \* session tokens
  Blocks,     \* what the history records about one command
  Finished,   \* the Blocks of commands that have run to completion
  MaxBlocks,  \* the bound on the history
  None

VARIABLES
  session,  \* the open session's token, None when closed
  history,  \* the session's finished commands, oldest first
  current,  \* the command the shell is running, or None
  answer    \* what the last step told a querying program, and the token
            \* its query carried when that told it anything

vars == <<session, history, current, answer>>

NoAnswer == [granted |-> FALSE, data |-> <<>>, to |-> None]

\* The non-empty tails of s: the newest k entries for some k >= 1.
NewestRuns(s) == {SubSeq(s, k, Len(s)) : k \in 1..Len(s)}

\* What the holder of the session token may be shown.
Disclosable ==
  NewestRuns(history) \cup (IF current = None THEN {} ELSE {<<current>>})

Init ==
  /\ session = None
  /\ history = <<>>
  /\ current = None
  /\ answer = NoAnswer

\* A session opens with a fresh token and nothing recorded.
Open(t) ==
  /\ session = None
  /\ session' = t
  /\ history' = <<>>
  /\ current' = None
  /\ answer' = NoAnswer

\* Closing a session forgets everything it recorded.
Close ==
  /\ session' = None
  /\ history' = <<>>
  /\ current' = None
  /\ answer' = NoAnswer

\* The shell's markers change the current command.  A finished command
\* leaves it only into the history, which keeps its MaxBlocks newest;
\* an unfinished one is dropped, and the history changes in no other way.
Track ==
  /\ session # None
  /\ current' \in Blocks \cup {None}
  /\ history' =
       IF current \in Finished /\ current' \notin Finished
         THEN LET h == Append(history, current)
              IN IF Len(h) <= MaxBlocks THEN h
                 ELSE SubSeq(h, Len(h) - MaxBlocks + 1, Len(h))
         ELSE history
  /\ answer' = NoAnswer
  /\ UNCHANGED session

\* A query carrying tok: data only for the session's holder.
Answer(tok) ==
  /\ answer' \in {NoAnswer} \cup
       (IF session # None /\ tok = session
          THEN {[granted |-> TRUE, data |-> d, to |-> tok] : d \in Disclosable}
          ELSE {})
  /\ UNCHANGED <<session, history, current>>

Next ==
  \/ \E t \in Tokens : Open(t)
  \/ Close
  \/ Track
  \/ \E tok \in Tokens \cup {None} : Answer(tok)

Spec == Init /\ [][Next]_vars

=============================================================================
