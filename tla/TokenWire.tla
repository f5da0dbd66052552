----------------------------- MODULE TokenWire -----------------------------
(***************************************************************************)
(* The session token on the wire, as characters.  The terminal's reply to *)
(* DECSM 2034 (spec.md 4.D: ESC P > 2034 ; 1 b T1 ; T2 ; T3 ; T4 ESC \,   *)
(* the parts in decimal) and the other replies that share its reply       *)
(* channel are written from the spec: Terminal is not among the sources. *)
(* The reader is the test helper extractTokenFromDecsetReply              *)
(* (src/src/vtbackend/ShellIntegration_test.cpp), written from the C++:  *)
(* std::string::find, substr, std::stoul and the cast to uint16_t.        *)
(*                                                                         *)
(* A string is a sequence of one-character strings; ESC is the escape     *)
(* character.  Positions are 1-based and 0 stands for std::string::npos.  *)
(***************************************************************************)
EXTENDS Integers, Sequences, SequencesExt

ESC == "ESC"
DigitChars == <<"0", "1", "2", "3", "4", "5", "6", "7", "8", "9">>
IsDigit(c) == c \in ToSet(DigitChars)
DigitValue(c) == CHOOSE d \in 0..9 : DigitChars[d + 1] = c

(* fmt's "{}" of an unsigned integer: its decimal digits, most significant *)
(* first, no leading zeros.                                                *)
RECURSIVE Decimal(_)
Decimal(n) ==
  IF n < 10 THEN <<DigitChars[n + 1]>>
  ELSE Decimal(n \div 10) \o <<DigitChars[(n % 10) + 1]>>

DCS == <<ESC, "P">>
ST == <<ESC, "\\">>
CSI == <<ESC, "[">>

(* The replies of SemanticBlockProtocol's Reply records, as characters.   *)
(* The JSON body of a successful SBQUERY is abstracted to "{}": JSON       *)
(* escapes control characters, so no body holds an ESC.                    *)
DecsetReply(t) ==
  DCS \o <<">">> \o Decimal(2034) \o <<";", "1", "b">>
      \o Decimal(t[1]) \o <<";">> \o Decimal(t[2]) \o <<";">>
      \o Decimal(t[3]) \o <<";">> \o Decimal(t[4]) \o ST
DecrqmReply(status) ==
  CSI \o <<"?">> \o Decimal(2034) \o <<";">> \o Decimal(status) \o <<"$", "y">>
SbqueryReply(status) ==
  DCS \o <<">">> \o Decimal(status) \o <<"b">>
      \o (IF status = 1 THEN <<"{", "}">> ELSE <<>>) \o ST

Encode(r) ==
  CASE r.kind = "decset" -> DecsetReply(r.auth)
    [] r.kind = "decrqm" -> DecrqmReply(r.status)
    [] r.kind = "sbquery" -> SbqueryReply(r.status)
    [] OTHER -> <<>>

-----------------------------------------------------------------------------
(* s.find(pat, from): the first position >= from where pat occurs, else 0. *)
Find(s, pat, from) ==
  LET I == {i \in from..(Len(s) - Len(pat) + 1) :
              SubSeq(s, i, i + Len(pat) - 1) = pat}
  IN IF I = {} THEN 0 ELSE Min(I)

(* std::stoul on a string of this alphabet: the value of its leading      *)
(* digits; with none, it throws std::invalid_argument.  (No part holds    *)
(* the whitespace or sign stoul would also skip, nor 20 digits.)           *)
StoulDigits(s) ==
  LET n == IF \A i \in 1..Len(s) : IsDigit(s[i]) THEN Len(s)
           ELSE SelectInSeq(s, LAMBDA c : ~IsDigit(c)) - 1
  IN SubSeq(s, 1, n)
Stoul(s) == FoldLeft(LAMBDA acc, c : 10 * acc + DigitValue(c), 0, StoulDigits(s))

(* Outcomes of the helper: a token, std::nullopt, or an exception out of  *)
(* stoul (which fails the test case).                                      *)
Parsed(t) == [status |-> "token", token |-> t]
Nullopt == [status |-> "nullopt", token |-> <<>>]
Throws == [status |-> "throws", token |-> <<>>]

Prefix == DCS \o <<">">> \o <<"2", "0", "3", "4">> \o <<";", "1", "b">>

(* The loop over the four parts: for i < 3 the part ends at the next ';'  *)
(* from start (none: nullopt), the last runs to the end of tokenStr; each *)
(* is stoul'ed and cast to uint16_t.                                       *)
RECURSIVE ParseParts(_, _, _, _)
ParseParts(tokenStr, start, i, acc) ==
  IF i = 4 THEN Parsed(acc)
  ELSE LET sep == IF i < 3 THEN Find(tokenStr, <<";">>, start)
                  ELSE Len(tokenStr) + 1
           part == SubSeq(tokenStr, start, sep - 1)
       IN CASE i < 3 /\ sep = 0 -> Nullopt
            [] StoulDigits(part) = <<>> -> Throws
            [] OTHER -> ParseParts(tokenStr, sep + 1, i + 1,
                                   Append(acc, Stoul(part) % 2^16))

ExtractTokenFromDecsetReply(replyData) ==
  LET pos == Find(replyData, Prefix, 1)
      dataStart == pos + Len(Prefix)
      stPos == Find(replyData, ST, dataStart)
  IN CASE pos = 0 -> Nullopt
       [] stPos = 0 -> Nullopt
       [] OTHER -> ParseParts(SubSeq(replyData, dataStart, stPos - 1), 1, 0, <<>>)

=============================================================================
