------------------------ MODULE SemanticBlockTracker ------------------------
(***************************************************************************)
(* The semantic block tracker of src/vtbackend/SemanticBlockTracker.cpp:  *)
(* the mode-2034 gated state machine that records one CommandBlockInfo    *)
(* per shell command (OSC 133 A/C/D) and keeps a bounded history of the   *)
(* completed ones, plus the session token issued on every enable.         *)
(*                                                                         *)
(* Each public mutator of the class is one action.  A call made while the *)
(* tracker is disabled returns early without touching anything, so it is  *)
(* a stuttering step and is not written out.                               *)
(***************************************************************************)
EXTENDS Integers, Sequences

CONSTANTS
  MaxBlocks,     \* _maxBlocks, the cap on _completedBlocks
  Tokens,        \* the values generateToken() can return (4 x uint16_t)
  CommandLines,  \* command lines a shell can report with cmdline_url
  ExitCodes,     \* exit codes a shell can report with OSC 133;D
  None           \* the empty std::optional

ASSUME MaxBlocks \in Nat \ {0}
ASSUME None \notin Tokens \cup CommandLines
ASSUME Tokens # {}

VARIABLES
  enabled,          \* _enabled
  token,            \* _token (None when reset)
  completedBlocks,  \* _completedBlocks, oldest first
  currentBlock      \* _currentBlock (None when reset)

vars == <<enabled, token, completedBlocks, currentBlock>>

(***************************************************************************)
(* CommandBlockInfo.  The field `session` is auxiliary: it is not in the  *)
(* C++ struct and records the session token that was current when the    *)
(* block was created, so that properties can tell the blocks of two      *)
(* sessions apart.  No operation of the tracker reads it.                 *)
(***************************************************************************)
CommandBlockInfo ==
  [commandLine : CommandLines \cup {None}, exitCode : ExitCodes \cup {-1},
   finished : BOOLEAN, session : Tokens]

\* CommandBlockInfo {}: no command line, exit code -1, not finished.
NewBlock ==
  [commandLine |-> None, exitCode |-> -1, finished |-> FALSE, session |-> token]

\* Seeded faults.  Each operator below is a plausible slip in the C++ that
\* one property must catch; it replaces the definition that follows it.
ValidateTokenPrefix(candidate) ==
  token # None /\ \A i \in 1..3 : token[i] = candidate[i]

\* validateToken(candidate)
ValidateToken(candidate) == token # None /\ token = candidate

\* The `if (!_currentBlock) _currentBlock = CommandBlockInfo {}` of
\* commandOutputStart and commandFinished.
EnsureCurrentAlwaysNew == NewBlock

EnsureCurrent == IF currentBlock = None THEN NewBlock ELSE currentBlock

EvictNever(s) == s
EvictNewest(s) == IF Len(s) > MaxBlocks THEN SubSeq(s, 1, Len(s) - 1) ELSE s

\* push_back followed by the single pop_front when the cap is exceeded.
Evict(s) == IF Len(s) > MaxBlocks THEN Tail(s) ELSE s

ArchivableAny(b) == b # None

\* A current block that promptStart archives rather than discards.
Archivable(b) == b # None /\ b.finished

-----------------------------------------------------------------------------

Init ==
  /\ enabled = FALSE
  /\ token = None
  /\ completedBlocks = <<>>
  /\ currentBlock = None

\* generateToken(): four parts, each drawn from std::random_device.
GenerateToken == Tokens

\* setEnabled(true): a fresh token from std::random_device; history kept.
Enable ==
  /\ enabled' = TRUE
  /\ token' \in GenerateToken
  /\ UNCHANGED <<completedBlocks, currentBlock>>

DisableKeepsHistory ==
  /\ enabled' = FALSE
  /\ token' = None
  /\ currentBlock' = None
  /\ UNCHANGED completedBlocks

DisableKeepsCurrent ==
  /\ enabled' = FALSE
  /\ token' = None
  /\ completedBlocks' = <<>>
  /\ UNCHANGED currentBlock

\* setEnabled(false): token, history and current block all reset.
Disable ==
  /\ enabled' = FALSE
  /\ token' = None
  /\ completedBlocks' = <<>>
  /\ currentBlock' = None

SetEnabled(e) == IF e THEN Enable ELSE Disable

\* promptStart(): archive a finished current block, drop an unfinished
\* one, and start a new block.
PromptStart ==
  /\ enabled
  /\ completedBlocks' = IF Archivable(currentBlock)
                          THEN Evict(Append(completedBlocks, currentBlock))
                          ELSE completedBlocks
  /\ currentBlock' = NewBlock
  /\ UNCHANGED <<enabled, token>>

\* commandOutputStart(commandLine)
CommandOutputStart(commandLine) ==
  /\ enabled
  /\ currentBlock' = [EnsureCurrent EXCEPT !.commandLine = commandLine]
  /\ UNCHANGED <<enabled, token, completedBlocks>>

\* commandFinished(exitCode)
CommandFinished(exitCode) ==
  /\ enabled
  /\ currentBlock' = [EnsureCurrent EXCEPT !.exitCode = exitCode,
                                           !.finished = TRUE]
  /\ UNCHANGED <<enabled, token, completedBlocks>>

Next ==
  \/ \E e \in BOOLEAN : SetEnabled(e)
  \/ PromptStart
  \/ \E c \in CommandLines \cup {None} : CommandOutputStart(c)
  \/ \E x \in ExitCodes : CommandFinished(x)

Spec == Init /\ [][Next]_vars

-----------------------------------------------------------------------------

(* Type invariant.  _completedBlocks is a deque the cap keeps at no more *)
(* than _maxBlocks entries after every promptStart.                       *)
TypeOK ==
  /\ enabled \in BOOLEAN
  /\ token \in Tokens \cup {None}
  /\ completedBlocks \in Seq(CommandBlockInfo)
  /\ Len(completedBlocks) <= MaxBlocks
  /\ currentBlock \in CommandBlockInfo \cup {None}

(* Mode 2034 and the session state agree (spec invariants 1 and 4): a     *)
(* token exists exactly while setEnabled(true) is in force, and while the *)
(* mode is reset no block of any earlier session survives, whatever order *)
(* of setEnabled, promptStart, commandOutputStart and commandFinished     *)
(* calls led here.                                                         *)
ModeGatesSession ==
  /\ enabled <=> token # None
  /\ ~enabled => completedBlocks = <<>> /\ currentBlock = None

(* Only commands that ran to completion are archived: promptStart drops a *)
(* current block that never saw OSC 133;D (Ctrl+C), however the A, C and *)
(* D calls interleave, so every block of the history is finished.        *)
ArchivedBlocksFinished ==
  \A i \in 1..Len(completedBlocks) : completedBlocks[i].finished

\* The newest n entries of s, in order.
Newest(s, n) == IF Len(s) <= n THEN s ELSE SubSeq(s, Len(s) - n + 1, Len(s))

(* The history is a sliding window: a step that replaces a finished      *)
(* current block by a fresh one, while staying enabled, appends that      *)
(* block and keeps exactly the MaxBlocks newest entries, dropping the     *)
(* oldest first; every other step leaves the history alone or clears it.  *)
(* This is what the push_back / pop_front pair in promptStart must do at  *)
(* the cap, and no finished command is lost on the way.                   *)
HistoryIsSlidingWindow ==
  [][ IF enabled' /\ Archivable(currentBlock) /\ ~Archivable(currentBlock')
        THEN completedBlocks' =
               Newest(completedBlocks \o <<currentBlock>>, MaxBlocks)
        ELSE completedBlocks' \in {completedBlocks, <<>>}
    ]_vars

(* spec 4.B, set_enabled(true): "history cleared" -- every enable, also a *)
(* token rotation while the mode is already set, leaves no block behind.  *)
EnableClearsHistory ==
  [][ (enabled' /\ token' # token)
        => completedBlocks' = <<>> /\ currentBlock' = None ]_vars

=============================================================================
