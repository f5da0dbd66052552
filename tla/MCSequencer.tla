---------------------------- MODULE MCSequencer ----------------------------
(* Sequencer instance: one code digit, OSC payload characters {1, ;, a}    *)
(* with a cut at 3, one leader, intermediate, parameter set, final and     *)
(* DCS byte, two sub-parser identities.                                    *)
EXTENDS Sequencer

CONSTANTS p1, p2

MCDigits == {"1"}
MCOscChars == {"1", ";", "a"}
MCLeaders == {"?"}
MCIntermediates == {"$"}
MCParamChars == {"1", ";"}
MCFinals == {"m"}
MCDcsBytes == {"x"}
MCSubParsers == {p1, p2}
====
