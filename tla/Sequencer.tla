----------------------------- MODULE Sequencer -----------------------------
(***************************************************************************)
(* vtbackend::Sequencer (src/src/vtbackend/Sequencer.cpp): the sink of the *)
(* VT parser's callbacks.  It builds one Sequence (category, leader,       *)
(* intermediate characters, parameters, final character) and hands it to   *)
(* the terminal's sequence handler; OSC payloads are accumulated in the    *)
(* intermediate characters and cut at MaxOscLength; DCS payload bytes go   *)
(* to the sub-parser ("hooked parser") the handler installed at hook time. *)
(*                                                                         *)
(* The parser itself (vtparser, not among the sources) is the environment: *)
(* `parser` is its state, and the callbacks are offered in the orders its  *)
(* DEC ANSI state machine produces them.  Entering the escape state calls  *)
(* clear(), as the DEC parser's entry action does.                         *)
(***************************************************************************)
EXTENDS Integers, Sequences, SequencesExt

CONSTANTS
    MaxOscLength,     \* Sequence::MaxOscLength
    Digits,           \* characters of an OSC code prefix
    OscChars,         \* characters an OSC payload may carry (Digits, ";" included)
    Leaders,          \* leader characters ("?", ">", ...)
    Intermediates,    \* intermediate characters ("$", " ", ...)
    ParamChars,       \* "0".."9", ";", ":" (the only ones param() accepts)
    Finals,           \* final characters
    DcsBytes,         \* bytes of a DCS payload
    SubParsers,       \* identities of the sub-parsers the handler may hook
    MaxLen,           \* bound on collected characters of one sequence
    None

VARIABLES
    parser,           \* the VT parser's state (environment)
    category,         \* _sequence.category()
    leader,           \* _sequence.leader()
    intermediates,    \* _sequence.intermediateCharacters()
    params,           \* the characters given to the parameter builder
    finalChar,        \* _sequence.finalChar()
    hooked,           \* _hookedParser (None when reset)
    received,         \* received[p]: the bytes sub-parser p got through pass()
    finalized,        \* finalized[p]: how often p->finalize() ran
    handled,          \* the last event the terminal's handler received
    payload,          \* auxiliary: characters the parser passed in the current OSC/DCS string
    dcsOwner,         \* auxiliary: the sub-parser installed by the current DCS
    dcsSent           \* auxiliary: dcsSent[p], the bytes put while p's DCS ran

vars == <<parser, category, leader, intermediates, params, finalChar, hooked,
          received, finalized, handled, payload, dcsOwner, dcsSent>>

ParserStates == {"ground", "escape", "csi", "osc", "dcs", "dcsPassthrough"}
Categories == {None, "ESC", "CSI", "OSC", "DCS"}

(* The sequence the handler sees: processSequence(_sequence) after        *)
(* _parameterBuilder.fixiate().                                            *)
Snapshot == [kind |-> category, leader |-> leader, inter |-> intermediates,
             params |-> params, final |-> finalChar]

HandleSequence == handled' = Snapshot'

Event(kind) == [kind |-> kind, leader |-> None, inter |-> <<>>, params |-> <<>>,
                final |-> None]

(* Sequencer::clear() (Sequencer.h): the sequence and its parameters are  *)
(* reset; the hooked parser is not touched.                                *)
Clear ==
    /\ category' = None
    /\ leader' = None
    /\ intermediates' = <<>>
    /\ params' = <<>>
    /\ finalChar' = None

Init ==
    /\ parser = "ground"
    /\ category = None /\ leader = None /\ intermediates = <<>>
    /\ params = <<>> /\ finalChar = None
    /\ hooked = None
    /\ received = [p \in SubParsers |-> <<>>]
    /\ finalized = [p \in SubParsers |-> 0]
    /\ handled = Event("none")
    /\ payload = <<>>
    /\ dcsOwner = None
    /\ dcsSent = [p \in SubParsers |-> <<>>]

Building == <<category, leader, intermediates, params, finalChar>>
Aux == <<payload, dcsOwner, dcsSent>>
SubParserState == <<hooked, received, finalized>>

-----------------------------------------------------------------------------
(* Text and control codes go straight to the handler (writeText,        *)
(* writeTextEnd, executeControlCode); only the kind of event is kept.      *)
GroundEvent(kind) ==
    /\ parser = "ground"
    /\ handled' = Event(kind)
    /\ UNCHANGED <<parser, Building, SubParserState, Aux>>

\* print(codepoint)
WriteText == GroundEvent("text")
\* print(chars, cellCount): asserts a non-empty run of cells
WriteTextRun(cellCount) == cellCount >= 1 /\ GroundEvent("text")
\* printEnd()
WriteTextEnd == GroundEvent("textEnd")
\* execute(controlCode)
Execute == GroundEvent("control")

(* The parser enters the escape state (ESC): its entry action clear().     *)
EnterEscape ==
    /\ parser = "ground"
    /\ parser' = "escape"
    /\ Clear
    /\ UNCHANGED <<hooked, received, finalized, handled, Aux>>

(* ESC [ and ESC P: CSI entry and DCS entry.                              *)
EnterCsi ==
    /\ parser = "escape" /\ intermediates = <<>>
    /\ parser' = "csi"
    /\ UNCHANGED <<Building, SubParserState, handled, Aux>>

EnterDcs ==
    /\ parser = "escape" /\ intermediates = <<>>
    /\ parser' = "dcs"
    /\ UNCHANGED <<Building, SubParserState, handled, Aux>>

-----------------------------------------------------------------------------
(* Sequencer::collect: append an intermediate character.                   *)
Collect(ch) ==
    /\ parser \in {"escape", "csi", "dcs"}
    /\ Len(intermediates) < MaxLen
    /\ intermediates' = Append(intermediates, ch)
    /\ UNCHANGED <<parser, category, leader, params, finalChar,
                   SubParserState, handled, Aux>>

(* Sequencer::collectLeader                                                *)
CollectLeader(l) ==
    /\ parser \in {"csi", "dcs"}
    /\ params = <<>> /\ intermediates = <<>>
    /\ leader' = l
    /\ UNCHANGED <<parser, category, intermediates, params, finalChar,
                   SubParserState, handled, Aux>>

(* Sequencer::param: ';', ':' and digits go to the parameter builder; any *)
(* other character is unreachable, so it is not offered.                  *)
Param(ch) ==
    /\ parser \in {"csi", "dcs"}
    /\ ch \in ParamChars
    /\ intermediates = <<>>
    /\ Len(params) < MaxLen
    /\ params' = Append(params, ch)
    /\ UNCHANGED <<parser, category, leader, intermediates, finalChar,
                   SubParserState, handled, Aux>>

(* dispatchESC / dispatchCSI: set category and final, hand over.  Neither *)
(* clears; the next sequence's escape entry does.                          *)
DispatchESC(f) ==
    /\ parser = "escape"
    /\ category' = "ESC" /\ finalChar' = f
    /\ parser' = "ground"
    /\ UNCHANGED <<leader, intermediates, params, SubParserState, Aux>>
    /\ HandleSequence

DispatchCSI(f) ==
    /\ parser = "csi"
    /\ category' = "CSI" /\ finalChar' = f
    /\ parser' = "ground"
    /\ UNCHANGED <<leader, intermediates, params, SubParserState, Aux>>
    /\ HandleSequence

-----------------------------------------------------------------------------
(* OSC.  startOSC (ESC ]) sets the category; putOSC appends a character   *)
(* only while size() + 1 < MaxOscLength and silently drops the rest.       *)
StartOSC ==
    /\ parser = "escape" /\ intermediates = <<>>
    /\ parser' = "osc"
    /\ category' = "OSC"
    /\ payload' = <<>>
    /\ UNCHANGED <<leader, intermediates, params, finalChar, SubParserState,
                   handled, dcsOwner, dcsSent>>

OscHasRoomOffByOne(s) == Len(s) < MaxOscLength
OscHasRoom(s) == Len(s) + 1 < MaxOscLength

PutOSC(ch) ==
    /\ parser = "osc"
    /\ Len(payload) < MaxOscLength
    /\ payload' = Append(payload, ch)
    /\ intermediates' = IF OscHasRoom(intermediates)
                           THEN Append(intermediates, ch)
                           ELSE intermediates
    /\ UNCHANGED <<parser, category, leader, params, finalChar, SubParserState,
                   handled, dcsOwner, dcsSent>>

(* vtparser::extractCodePrefix: the leading digits are the code; they and *)
(* a ';' right after them are skipped.                                     *)
DigitRun(s) ==
    CHOOSE n \in 0..Len(s) : /\ \A i \in 1..n : s[i] \in Digits
                             /\ n = Len(s) \/ s[n + 1] \notin Digits
ExtractCodePrefixAlwaysSkip(s) ==
    [code |-> SubSeq(s, 1, DigitRun(s)), skip |-> DigitRun(s) + 1]
ExtractCodePrefix(s) ==
    LET n == DigitRun(s)
    IN  [code |-> SubSeq(s, 1, n),
         skip |-> IF n < Len(s) /\ s[n + 1] = ";" THEN n + 1 ELSE n]

(* dispatchOSC (ST or BEL): the code becomes the single parameter, the    *)
(* prefix is erased, the sequence is handled, then clear().                *)
DispatchOSC ==
    /\ parser = "osc"
    /\ LET cp == ExtractCodePrefix(intermediates)
       IN  handled' = [kind |-> "OSC", leader |-> leader,
                       inter |-> SubSeq(intermediates, cp.skip + 1, Len(intermediates)),
                       params |-> cp.code, final |-> finalChar]
    /\ Clear
    /\ parser' = "ground"
    /\ UNCHANGED <<SubParserState, Aux>>

-----------------------------------------------------------------------------
(* DCS.  hook(): category DCS, final, handled; the handler may install a  *)
(* sub-parser for it (Terminal hooks one for the DCS it supports) or not.  *)
Fresh == {p \in SubParsers : finalized[p] = 0 /\ received[p] = <<>>
                             /\ p # hooked /\ p # dcsOwner}

Hook(f) ==
    /\ parser = "dcs"
    /\ category' = "DCS" /\ finalChar' = f
    /\ \E install \in Fresh \cup {None} :
          /\ hooked' = IF install = None THEN hooked ELSE install
          /\ dcsOwner' = install
    /\ parser' = "dcsPassthrough"
    /\ payload' = <<>>
    /\ UNCHANGED <<leader, intermediates, params, received, finalized, dcsSent>>
    /\ HandleSequence

(* put(): pass the byte to the hooked parser, if there is one.             *)
Put(b) ==
    /\ parser = "dcsPassthrough"
    /\ Len(payload) < MaxLen
    /\ payload' = Append(payload, b)
    /\ received' = IF hooked = None THEN received
                   ELSE [received EXCEPT ![hooked] = Append(@, b)]
    /\ dcsSent' = IF dcsOwner = None THEN dcsSent
                  ELSE [dcsSent EXCEPT ![dcsOwner] = Append(@, b)]
    /\ UNCHANGED <<parser, Building, hooked, finalized, handled, dcsOwner>>

(* unhook() (the parser leaves DCS passthrough): finalize and reset.      *)
UnhookNoReset ==
    /\ finalized' = IF hooked = None THEN finalized
                    ELSE [finalized EXCEPT ![hooked] = @ + 1]
    /\ UNCHANGED hooked
Unhook ==
    /\ finalized' = IF hooked = None THEN finalized
                    ELSE [finalized EXCEPT ![hooked] = @ + 1]
    /\ hooked' = None
LeaveDcs ==
    /\ parser = "dcsPassthrough"
    /\ Unhook
    /\ parser' = "ground"
    /\ dcsOwner' = None
    /\ UNCHANGED <<Building, received, handled, payload, dcsSent>>

-----------------------------------------------------------------------------
Next ==
    \/ WriteText \/ WriteTextEnd \/ Execute \/ \E n \in 1..2 : WriteTextRun(n)
    \/ EnterEscape \/ EnterCsi \/ EnterDcs
    \/ \E ch \in Intermediates : Collect(ch)
    \/ \E l \in Leaders : CollectLeader(l)
    \/ \E ch \in ParamChars : Param(ch)
    \/ \E f \in Finals : DispatchESC(f) \/ DispatchCSI(f) \/ Hook(f)
    \/ StartOSC \/ DispatchOSC \/ \E ch \in OscChars : PutOSC(ch)
    \/ \E b \in DcsBytes : Put(b)
    \/ LeaveDcs

Spec == Init /\ [][Next]_vars

-----------------------------------------------------------------------------
(* The collected characters never exceed the sequence's bounds: MaxLen   *)
(* for ESC/CSI/DCS, MaxOscLength - 1 for an OSC payload.                  *)
TypeOK ==
    /\ parser \in ParserStates
    /\ category \in Categories
    /\ leader \in Leaders \cup {None}
    /\ finalChar \in Finals \cup {None}
    /\ intermediates \in BoundedSeq(Intermediates \cup OscChars, MaxLen)
    /\ params \in BoundedSeq(ParamChars \cup Digits, MaxLen)
    /\ Len(intermediates) < MaxOscLength \/ category # "OSC"
    /\ hooked \in SubParsers \cup {None}
    /\ dcsOwner \in SubParsers \cup {None}
    /\ received \in [SubParsers -> Seq(DcsBytes)]
    /\ finalized \in [SubParsers -> Nat]

Prefix(s, n) == SubSeq(s, 1, IF n < Len(s) THEN n ELSE Len(s))

(* An OSC reaches the handler as the first MaxOscLength - 1 characters the *)
(* parser passed to putOSC, split losslessly into a code parameter and the *)
(* text after it: nothing of an earlier sequence, nothing past the cut,    *)
(* nothing in between lost (putOSC's size check, dispatchOSC's erase).     *)
OscPayloadIsCutPrefix ==
    (parser = "ground" /\ handled.kind = "OSC") =>
        \E sep \in {<<>>, <<";">>} :
            handled.params \o sep \o handled.inter = Prefix(payload, MaxOscLength - 1)

(* Every sub-parser receives exactly the bytes of the DCS whose hook       *)
(* installed it, and is finalized at most once: put() never feeds a        *)
(* sub-parser of an earlier DCS, which relies on unhook() resetting it.    *)
SubParserGetsOwnDcs ==
    \A p \in SubParsers : received[p] = dcsSent[p] /\ finalized[p] <= 1

====
