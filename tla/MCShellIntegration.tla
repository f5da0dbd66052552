------------------------- MODULE MCShellIntegration -------------------------
(* A shell running up to 6 commands, two command lines, exit codes {0, 1}, *)
(* a history cap of 3 so that the window slides more than once.            *)
EXTENDS ShellIntegration

CONSTANTS t1, c1, c2

MCTokens == {t1}
MCCommandLines == {c1, c2}
MCExitCodes == {0, 1}
====
