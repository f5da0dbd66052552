-------------------------- MODULE ShellIntegration --------------------------
(***************************************************************************)
(* A shell with OSC 133 integration driving the tracker.  Each shell step *)
(* writes one OSC 133 sequence, which the terminal handles in byte order   *)
(* (spec 4.C: A -> promptStart, C -> commandOutputStart, D ->              *)
(* commandFinished, each a no-op while mode 2034 is off).  Programs the    *)
(* shell runs may switch mode 2034 at any point of the shell's cycle, so a *)
(* command's C or D may be seen without its A, or its D without its C.    *)
(*                                                                         *)
(* The shell sends A before every prompt (precmd), C;cmdline before each  *)
(* command (preexec) and D;exit when the command ends; a command           *)
(* interrupted by Ctrl+C gets no D.                                         *)
(***************************************************************************)
EXTENDS Integers, Sequences

CONSTANTS MaxBlocks, Tokens, CommandLines, ExitCodes, None,
          MaxCommands   \* bound on the commands the shell runs

VARIABLES
  enabled, token, completedBlocks, currentBlock,
  phase,      \* the shell: "prompt", "running" or "finished"
  commands,   \* the commands the shell has started
  seenLine,   \* the current command's line as the session saw it (None if its C was not seen)
  seenExit,   \* the current command's exit code if its D was seen in this session, else None
  ran         \* the commands that ended (D) and were followed by A, in this session

T == INSTANCE SemanticBlockTracker

vars == <<enabled, token, completedBlocks, currentBlock, phase, commands,
          seenLine, seenExit, ran>>
shellVars == <<phase, commands, seenLine, seenExit, ran>>

Init == T!Init /\ phase = "prompt" /\ commands = 0
        /\ seenLine = None /\ seenExit = None /\ ran = <<>>

\* A program writes DECSM 2034 (setEnabled(true)) at any point.
Enable == T!Enable /\ UNCHANGED shellVars

\* A program writes DECRM 2034: the session ends, its commands with it.
Disable ==
  /\ T!Disable
  /\ seenLine' = None /\ seenExit' = None /\ ran' = <<>>
  /\ UNCHANGED <<phase, commands>>

\* The tracker's handling of one OSC 133 event: a no-op while disabled.
Handle(A) == IF enabled THEN A ELSE UNCHANGED <<enabled, token, completedBlocks, currentBlock>>

(* precmd: OSC 133;A, from any phase (after a Ctrl+C the running command  *)
(* has no D).  A command whose D the session saw is now history.           *)
ShellPrompt ==
  /\ Handle(T!PromptStart)
  /\ ran' = IF enabled /\ seenExit # None
              THEN Append(ran, [commandLine |-> seenLine, exitCode |-> seenExit])
              ELSE ran
  /\ phase' = "prompt" /\ seenLine' = None /\ seenExit' = None
  /\ UNCHANGED commands

(* preexec: OSC 133;C;cmdline_url=<line>                                   *)
ShellExec(line) ==
  /\ phase = "prompt" /\ commands < MaxCommands
  /\ Handle(T!CommandOutputStart(line))
  /\ phase' = "running" /\ commands' = commands + 1
  /\ seenLine' = IF enabled THEN line ELSE None
  /\ UNCHANGED <<seenExit, ran>>

(* the command ends: OSC 133;D;exit                                        *)
ShellDone(exit) ==
  /\ phase = "running"
  /\ Handle(T!CommandFinished(exit))
  /\ phase' = "finished"
  /\ seenExit' = IF enabled THEN exit ELSE None
  /\ UNCHANGED <<commands, seenLine, ran>>

Next ==
  \/ Enable \/ Disable
  \/ ShellPrompt
  \/ \E line \in CommandLines : ShellExec(line)
  \/ \E exit \in ExitCodes : ShellDone(exit)

Spec == Init /\ [][Next]_vars

-----------------------------------------------------------------------------
TypeOK ==
  /\ T!TypeOK
  /\ phase \in {"prompt", "running", "finished"}
  /\ commands \in 0..MaxCommands
  /\ seenLine \in CommandLines \cup {None}
  /\ seenExit \in ExitCodes \cup {None}

Entry(b) == [commandLine |-> b.commandLine, exitCode |-> b.exitCode]

(* While mode 2034 is on, the archived history is the newest MaxBlocks    *)
(* commands the shell ran to completion in this session, each with its own *)
(* command line (null when its C preceded the session) and exit code;      *)
(* commands cut off by Ctrl+C are not among them.  It rests on the         *)
(* implicit block creation of commandOutputStart / commandFinished for a   *)
(* command whose A preceded the session.                                   *)
ShellHistoryArchived ==
  enabled =>
    [i \in DOMAIN completedBlocks |-> Entry(completedBlocks[i])] = T!Newest(ran, MaxBlocks)

====
