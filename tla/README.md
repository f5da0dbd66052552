# TLA+ models of contour's VT, pty, semantic block and GUI-side logic

These modules model the parts of the terminal in this repository. The main
one is the OSC 133 / mode 2034 semantic block subsystem: the tracker that
records one block per shell command
(`src/src/vtbackend/SemanticBlockTracker.{h,cpp}`), the terminal handlers that
feed it and answer queries (described in `spec.md`; their code, in Terminal and
Screen, is not among the sources), and a shell driving it. Around it: the VT
sequencer that turns parser callbacks into sequences
(`src/src/vtbackend/Sequencer.cpp`), the mock pty the tests feed bytes through
(`src/src/terminal/pty/MockPty.cpp`) with the page-size arithmetic
(`src/src/vtpty/PageSize.h`), and on the GUI side the blur-behind switch
(`src/src/contour/BlurBehind.cpp`), which asks the compositor to blur a window
by setting X11 window properties (or by a Win32 composition call), the
input-binding lookup (`src/src/contour/Config.h`), the session's QML getters
(`src/src/contour/TerminalSession.h`) and the colour palette's slot layout
(`src/src/vtbackend/ColorPalette.h`).

## Inventory

### Components

| Component | Code | State | Operations |
|---|---|---|---|
| Block tracker | `SemanticBlockTracker.cpp` | `_enabled`, `_token`, `_completedBlocks` (deque, oldest first, cap `_maxBlocks`), `_currentBlock` | `setEnabled(bool)`, `promptStart()`, `commandOutputStart(cmd)`, `commandFinished(code)`, `validateToken(t)`, accessors |
| Token generator | `SemanticBlockTracker::generateToken` | none (std::random_device) | four `uint16_t` parts from `rd()` |
| Mode 2034 handling | Terminal (spec 4.D, 6) | the tracker's `_enabled` | DECSM (enable + DCS reply with the token), DECRM (disable), DECRQM (`2034;1$y` / `2034;2$y`) |
| Shell-integration sink | Screen (spec 4.C) | line flags of the active line | OSC 133 A (Marked, promptStart), B (callback only), C (OutputStart iff enabled, commandOutputStart), D (CommandEnd iff enabled, commandFinished), `CSI > M` (as A) |
| Query responder | Terminal (spec 4.D) | none | SBQUERY `CSI > Ps ; Pn [; T1..T4] b`: status 0 (disabled / no data / unknown type), 2 (no token), 3 (wrong token), 1 (JSON blocks) |
| VT sequencer | `Sequencer.cpp` | the `Sequence` being built (category, leader, intermediates, parameters, final char), the hooked DCS sub-parser | `collect`, `collectLeader`, `param`, `dispatchESC/CSI`, `startOSC`, `putOSC` (truncates at `MaxOscLength`), `dispatchOSC`, `hook`, `put`, `unhook`, `print`, `execute` |
| Test helpers | `ShellIntegration_test.cpp` | the MockTerm's reply buffer, mock callback counters | `enableModeAndGetToken` (reset the buffer, DECSM 2034, extract), `extractTokenFromDecsetReply` parses the DECSM reply text back into a token |
| Blur-behind | `BlurBehind.cpp` | the X server's window properties, the xcb connection's output buffer | `setEnabled(window, enable)`: on xcb intern-atom round trips, `xcb_change_property` + `xcb_flush` on enable, `xcb_delete_property` (no flush) on disable; Win32 `SetWindowCompositionAttribute` with accent state |
| Mock pty | `MockPty.cpp` | `outputBuffer_`, `outputReadOffset_`, `inputBuffer_`, `pageSize_`, `pixelSize_`, `closed_` | `read(size)`, `read(storage)`, `write`, `resizeScreen`, `close`, getters |
| Page size arithmetic | `PageSize.h` | none (values) | `area`, `+`/`-` lines, `ImageSize * PageSize`, `ImageSize / PageSize` |
| Input-binding lookup | `Config.h` | the terminal's mode flags | `apply(mappings, input, modifier, flags)`, `testMatchMode`, equality for keys, characters and mouse buttons, gamepad button and axis matching |
| Session view | `TerminalSession.h` | `_accumulatedScrollX/Y`, `_currentScreenType`; reads profile and terminal | the Q_PROPERTY getters, `addScroll*`/`resetScroll*`, `setTitle`, `name()` |
| Colour palette | `ColorPalette.h` | `palette` (256 + 8 colours) | `normalColor`, `brightColor`, `dimColor`, `indexedColor` |

### How they interact

Everything runs on the VT thread in byte order of the pty stream (spec 5):
the parser calls the Sequencer, which builds a `Sequence` and hands it to the
terminal; the terminal's handlers call the tracker synchronously and write
replies back to the pty. There are no suspension points, so the hard
behaviours are not thread interleavings but *orderings of the input*: the
stream is written by the shell and by every program running in it, so OSC 133
events, mode changes and queries arrive in any order, a command may never see
its OSC 133;D (Ctrl+C), OSC 133;C/D may arrive without A, and DECSM may arrive
while the mode is already set. The session token is a capability: whoever
read the latest DECSM reply can query, nobody else.

The mock pty sits before the parser: the test appends to its output buffer,
the terminal's read loop reads it with `read(size)` or into its buffer object
with `read(storage)` and parses it in order.

Blur-behind is independent of the VT side: the GUI thread calls
`BlurBehind::setEnabled` per window; its xcb requests go into the shared xcb
connection's output buffer, which reaches the X server when something flushes
it: `xcb_flush` in `setPropertyX11`, the round trip of `xcb_intern_atom_reply`
for any window, or Qt's event loop. The input-binding lookup runs on the GUI
thread for every key, button and axis event, under the mode flags the VT
stream last set; the session's getters are read by QML.

### What makes each component correct

* Tracker: the mode and the session agree (a token exists iff enabled; while
  disabled nothing is kept); only finished blocks are archived; the history is
  a sliding window of the newest `MaxBlocks` archived blocks; every enable
  starts an empty session (spec 4.B).
* Mode handling + responder: together with the tracker they implement the
  abstract `SessionQueries`: data goes only to the holder of the open
  session's token, and is only that session's current command or newest
  finished commands; statuses follow the dispatch order of spec 4.D.
* Sequencer: an OSC payload reaches the handler as its first
  `MaxOscLength - 1` characters; a sequence's state does not leak into the
  next; a DCS sub-parser receives exactly the bytes between hook and unhook.
* Mock pty: the reader parses the output in order, each byte once, whichever
  read overload it uses, and under the read loop eventually reads all of it.
* Input bindings: the binding that fires is the earliest configured one that
  covers the event under the current modes.
* Session view: every getter is defined in every state; each scroll
  accumulator is the sum of its axis's deltas since its last reset.
* Colour palette: each accessor reads its own region for the indices its
  assert admits.
* Blur-behind: after disabling, the X server holds none of the properties
  that enabling set (the KDE region and the Mutter hints); when an intern
  reply fails, a later call whose round trips all succeed repairs the
  half-applied request; and a disable that was requested eventually reaches
  the server.

## Modules

| Module | Models | Kind |
|---|---|---|
| `SemanticBlockTracker` | the tracker class, action per mutator | from the C++ |
| `MCSemanticBlockTracker` | tracker instance: 2 model-value tokens, 2 command lines, exit codes {0,1}, cap 3 | MC |
| `SemanticBlockProtocol` | DECSM/DECRM/DECRQM 2034, OSC 133 A/C/D, SETMARK, SBQUERY over `INSTANCE SemanticBlockTracker` | handlers from spec.md, tracker from the C++ |
| `SessionQueries` | abstract: sessions opened and closed, a current command and a bounded history of finished ones, answers only to the session's token holder | abstract spec |
| `MCSemanticBlockProtocol` | 3 tokens as 4-tuples of parts, one command line, cap 2, Pn in 0..3 | MC |
| `TokenWire` | the replies as characters (decimal parts, DCS/CSI framing) and `extractTokenFromDecsetReply` with `find`, `stoul` and the `uint16_t` cast | replies from spec.md, reader from the C++ test helper |
| `ProtocolReplies` | `INSTANCE SemanticBlockProtocol` with every reply appended to the tests' reply buffer, `resetReplyData`, `enableModeAndGetToken` | composition |
| `MCProtocolReplies` | 3 tokens with parts 0, 9, 10, 65535; at most 2 replies between resets | MC |
| `BlurBehind` | `setEnabled` per window on xcb and Win32, the xcb output buffer, the server's properties, Qt's flush | from the C++ |
| `MCBlurBehind` | 3 windows as model values | MC |
| `ShellIntegration` | a shell's prompt/exec/done cycle writing OSC 133 A/C/D, mode 2034 toggled anywhere, over `INSTANCE SemanticBlockTracker` | shell from spec.md, tracker from the C++ |
| `MCShellIntegration` | one token, two command lines, exit codes {0,1}, cap 3, 6 commands | MC |
| `Sequencer` | the `Sequencer` callbacks building a `Sequence`, the OSC buffer and the hooked DCS sub-parsers | from the C++ |
| `MCSequencer` | one-character alphabets per role, OSC cap 3, two sub-parsers | MC |
| `ByteChannel` | abstract: a byte stream whose receiver sees a growing prefix of what was sent | abstract spec |
| `PageSize` | `PageSize` / `ImageSize` arithmetic as operators | from the C++ |
| `MockPty` | `MockPty` with the terminal's two read paths; refines `ByteChannel` | from the C++ |
| `MCMockPty` | bytes {a,b}, 3 output bytes, read size 2, storage 2, two page sizes | MC |
| `InputBinding` | `config::apply` over key, char, mouse, gamepad button and axis mappings with `testMatchMode` | from the C++ |
| `MCInputBinding` | 4 flags; 4 key, 2 char, 2 mouse, 2 button and 2 axis mappings with overlapping constraints | MC |
| `SessionView` | `TerminalSession.h` getters and scroll accumulators | from the C++ |
| `MCSessionView` | 3 scrollbar positions, 3 bell settings, 2 images, opacities {0,255}, deltas -120 and 120 | MC |
| `ColorPalette` | the accessors' slot arithmetic, release build | from the C++ |
| `MCColorPalette` | indices 0..17 and 253..266 | MC |

### Correspondence with the code

`SemanticBlockTracker`: variables are the four private members. `Enable` and
`Disable` are the two branches of `setEnabled`; `generateToken()` is the
choice `token' \in Tokens`. `PromptStart`, `CommandOutputStart`,
`CommandFinished` are the three event methods; their `if (!_enabled) return`
is the `enabled` conjunct (a call while disabled changes nothing and is a
stuttering step). `EnsureCurrent` is the implicit `CommandBlockInfo {}` of C
and D, `Archivable` the `_currentBlock && _currentBlock->finished` test,
`Evict` the `push_back` / `pop_front` pair. Blocks carry one auxiliary field,
`session`, the token current when the block was created: no operation reads
it; it lets properties tell the blocks of two sessions apart.

`SemanticBlockProtocol`: one action per escape sequence. Each step consumes one
sequence; `reply` is what that step wrote to the pty (`NoReply` for none) and
`issued` the token of the latest DECSM reply, i.e. what a program reading the
pty has learnt. The query's JSON body is abstracted to the sequence of blocks
it serialises; a command line is a model value, and its `cmdline_url`
percent-decoding is abstracted.
`RedundantDecsm` says whether DECSM 2034 may arrive while the mode is set.

`TokenWire`: strings are sequences of one-character strings, positions
1-based with 0 for `npos`. `Decimal` is the terminal's formatting of a part
(RECURSIVE), `Encode` turns a protocol `Reply` record into its characters.
`Find` is `std::string::find`, `Stoul` the value of the leading digits
(`StoulDigits` empty: `stoul` throws, outcome `Throws`), `ParseParts` the
four-iteration loop with `% 2^16` as the cast, and
`ExtractTokenFromDecsetReply` the helper with its two `nullopt` exits.

`SessionQueries` is what mode 2034 promises a querying program, without
query types, encodings or the tracker. `Open` and `Close` are the session's
two transitions, `Track` any marker (a finished current command leaves only
into the history, which keeps its `MaxBlocks` newest), and `Answer(tok)`
discloses, to `tok` only if it is the session's, the current command or a
non-empty newest run of the history. `SemanticBlockProtocol` maps `session`,
`history` and `current` to the tracker's token, completed blocks and current
block, and `answer` to the body and token of an SBQUERY reply with status 1
(`AnswerOf`; every other reply is `NoAnswer`). `ImplementsSessionQueries ==
Q!Spec` is checked as a PROPERTY through `ProtocolReplies`.

`ProtocolReplies`: the protocol's variables plus `replyData` (the buffer),
`written` (replies since the last reset, bounded) and `helperResult` (what
`enableModeAndGetToken` read, when that was the last step). `WriteToScreen`
is any protocol step with its reply appended; `EnableModeAndGetToken` is the
helper as one step: reset, `Decsm2034`, extract.

`ShellIntegration`: the tracker's variables plus the shell's `phase`, the
command count, and what this session saw of the current command (`seenLine`,
`seenExit`) and of the commands it completed (`ran`). `Handle(A)` is the
`if (!_enabled) return` of each event method. `Disable` drops the session's
record, as `setEnabled(false)` drops the tracker's. `ShellExec(line)`
is the tracker's `commandOutputStart(line)`, with `seenLine` the line itself.

`Sequencer`: `parser` is the parser's state (ground, escape, CSI, OSC, DCS),
the `Sequence` fields are variables, `HandleSequence` records the snapshot the
terminal receives, and `hooked`, `received`, `finalized` are the sub-parser
side. `PutOSC` appends while `OscHasRoom` (`size() + 1 < MaxOscLength`),
`DispatchOSC` splits the numeric code prefix (`ExtractCodePrefix`) and clears;
`Hook` installs the sub-parser the terminal returns (possibly none), `Put`
forwards to it, `Unhook` finalizes and resets it.

`MockPty`: variables are the private members plus the terminal's `storage`
(its buffer object) and `parsed`. `ReadCount` / `StorageCount` are the two
`std::min` computations. The refinement maps `ByteChannel`'s `sent` to the
output buffer and `recv` to its prefix up to the read offset.

`InputBinding`: `modeFlags` is the flag byte, `fired` what `apply` returned.
`TestMatchModeFlag` is the switch with its fall-through, `Apply` the loop
(`SelectInSeq` for the first match). Action lists are model values.

`SessionView`: one operator per getter; the terminal and profile changes that
move the inputs are environment actions. `AddScrollX/Y` and `ResetScrollX/Y`
are the wheel setters, bounded by `MaxScroll`. `PathToBackground` yields
`NullDeref` when the profile has no background image, since line 118 reads
`image->location` without the null test the other background getters make. `TerminalSession.h` reads profile fields
(`scrollbar`, `bell`, `background`) that this repository's `Config.h` does not
declare (it has `scrollbarPosition`, `hideScrollbarInAltScreen`,
`backgroundOpacity`); the model follows `TerminalSession.h`.

`ColorPalette`: `probe` is the last accessor call and the slot it read, or
`Abort` (assert), `OutOfRange` (`at()` throws) or `Undefined` (`operator[]`
past the end).

`BlurBehind`: `server[w]` is the set of property names the X server holds on
window `w`, `pending` the xcb output buffer (a sequence of change / delete
requests), `accent[w]` the Win32 accent state, `requested[w]` the last
`enable` argument and `lastOk[w]` whether every intern reply of that call
was non-NULL (both auxiliary, read by properties only). `Flushed` applies the
buffer in order (`FoldLeft`). `X11Connection` is whether `x11Connection()`
returns a connection (it does not without a `QGuiApplication` or under
Wayland). `QueryXcbPropertyInfo` is the intern-atom round
trip (it flushes, and may fail when `InternMayFail`), `SetPropertyX11` the
change + flush, `UnsetPropertyX11` the delete without flush, and
`SetEnabledXcb` the xcb branch of `setEnabled` with its early returns. Atom
values, the region and hint payloads are abstracted to property names.
`QtFlush` is the event loop flushing the connection.

## Runs

| Run | Checks | Shows |
|---|---|---|
| `tracker` (pass) | `TypeOK`, `ModeGatesSession`, `ArchivedBlocksFinished`, `HistoryIsSlidingWindow` | all call sequences keep mode and session consistent, archive only finished blocks, and keep the newest 2 in order across evictions |
| `tracker_enable_clears` (violation) | `EnableClearsHistory` | `setEnabled(true)` on an enabled tracker keeps the current block and history (finding) |
| `protocol_replies` (pass) | `TypeOK`, `HelperReadsCurrentToken`, `ImplementsSessionQueries` | if DECSM only arrives while reset, the handlers refine `SessionQueries`: any query token (absent, stale, forged in one part) gets data only if it is the open session's, and only that session's current command or newest finished commands, archived in a sliding window; with every reply written as text into the tests' buffer, `enableModeAndGetToken` reads back exactly the tracker's current token |
| `protocol_reenable` (violation) | `SessionIsolation` | DECSM while set gives a new token that reads the old session's blocks (finding) |
| `blur_xcb` (pass) | `TypeOK`, `MutterHintsFollowLastFullCall`, `DisableEventuallyReachesServer` | on xcb with intern replies that may fail, a call whose round trips all succeeded leaves the Mutter hints exactly as it asked once flushed (repairing any half-applied earlier call), and every successful disable reaches the server under Qt's flushing |
| `blur_xcb_disable` (violation) | `BlurClearedOnDisable` | disabling deletes `kwin_blur`, not the `_KDE_NET_WM_BLUR_BEHIND_REGION` enabling set, so the blur stays (finding) |
| `sequencer` (pass) | `TypeOK`, `OscPayloadIsCutPrefix`, `SubParserGetsOwnDcs` | an OSC reaches the handler as its first `MaxOscLength - 1` characters split at the code prefix; each DCS sub-parser gets exactly its own bytes and is finalized at most once |
| `mockpty` (pass) | `TypeOK`, `ReaderSeesStreamInOrder`, `CellSizeRoundTrip`, `ImplementsByteChannel` | both read paths deliver the output in order; the pty refines a byte channel, with every byte eventually read; cell size times page size gives back the pixel size within a cell |
| `shell_integration` (pass) | `TypeOK`, `ShellHistoryArchived` | while enabled, the archive is exactly the newest 3 commands the shell completed in the session, with their own lines and exit codes, across Ctrl+C and mode toggles mid-command |
| `input_binding` (pass) | `FiredIsEarliestCoveringBinding` | `apply` agrees with the set-based reading of the mappings for every event under every mode combination |
| `session_view` (violation) | `NoGetterDereferencesNull` | violated in the initial state: with a profile that has no background image, `pathToBackground` dereferences a null pointer (finding below) |
| `color_palette` (pass) | `AccessorsReadTheirRegion` | in a release build the accessors read their regions within their asserts, and another region, a throw or an out-of-bounds read outside them |

Every passing property has a seeded fault in PROJECT.json "mutants" (each fault
operator is defined just before the definition it replaces) under which its run fails.

### Bounds

The tracker run's cap of 3 makes `promptStart` reach the `pop_front` branch
after the fourth archived command and lets a window hold three distinct
blocks, so order, the middle and the evicted end are observable; TLC
explores every call sequence, so any number of evictions is reached. The
protocol instances keep a cap of 2 to leave room for tokens and replies. Two exit codes and one or two command lines distinguish blocks.
Tokens: the tracker instance needs only two distinct values; the protocol
instance uses three 4-tuples that pairwise differ in exactly one part, so a
check comparing fewer than four parts is told apart, and a rotation can
produce a different or (as `random_device` may) an equal token. `Pn` ranges
over 0..3, covering 0, fewer, exactly and more than the history holds.
Unknown query type 4 is included. `protocol_replies` uses parts 0, 9, 10 and
65535 (one, two and five digits, both ends of `uint16_t`) and allows two
replies between resets, so an earlier DECSM reply can sit in the buffer
before the helper's.
Blur-behind uses three windows so that one window's unflushed delete can be
flushed by another window's round trip or change; the buffer bound in
`TypeOK` (one request) holds because every xcb request but the delete is
followed by a flush. `blur_xcb` lets every intern reply fail, so either
half of a call can be lost while other windows' calls interleave.
The sequencer's OSC cap of 3 with alphabets containing a digit, `;` and a
letter reaches the cut, codes with and without a separator, and non-numeric
payloads; two sub-parsers show a DCS reaching the wrong one. The mock pty's 3
output bytes with read size 2 and storage 2 make reads partial and mix the two
paths. The shell runs 6 commands against a cap of 3, enough for two evictions
in one session or one after a toggle. The input-binding mappings overlap so that order, every
status of every flag, both press states and the shared axis boundary 0
decide which binding fires. The palette indices straddle 8, 16, 256 and 264.
The session view's `MaxScroll` of 240 only bounds the wheel accumulators;
the violation needs no step at all.

### Fairness

The semantic block models assume none. That subsystem reacts to input and
never waits; there is no step the code promises to take on its own, so all
its properties are safety properties.

`MockPty` assumes weak fairness of the terminal's direct read and of parsing
its buffer object: the terminal's read loop keeps reading while the pty has
output. The test's appends, writes, resizes and close get none.

`BlurBehind` assumes weak fairness of `QtFlush` only. Qt's event loop flushes
the xcb connection each time it goes idle, so a non-empty buffer does not stay
unflushed for ever. The GUI calls (`SetEnabled`) get no fairness, because
nothing obliges the user to toggle blur.

### Findings

`setEnabled(true)` does not clear the history (spec 4.B says it does). In the
protocol this means a DECSM 2034 received while the mode is already set hands
out a fresh token that reads the blocks, and the in-progress block, recorded
under the previous token.

Blur-behind on X11 (`BlurBehind.cpp:154`): enabling sets
`_KDE_NET_WM_BLUR_BEHIND_REGION` but disabling deletes `kwin_blur`, so on KDE
the window stays blurred after blur is switched off. The Mutter hints are
cleared correctly.

`TerminalSession::pathToBackground` (`TerminalSession.h:118`) reads
`_profile.background.image->location` without testing the pointer, while
`getOpacityBackground`, `getIsImageBackground` and `getIsBlurBackground`
test it first. With a profile that has no background image, reading the QML
property is a null dereference. The QML that reads it is not in the
repository, so whether it guards the read with `isImageBackground` is not
known.

## Plan

Done: the tracker, the protocol and its findings, the shell composed with the
tracker, the sequencer, the mock pty with its refinement of a byte channel,
page-size arithmetic, the input-binding lookup, the session getters and the
palette layout, the token wire form and the tests' reply buffer, and the
abstract `SessionQueries` specification the protocol is shown to implement
(restricted to streams without redundant DECSM, where the code's
`setEnabled(true)` keeps history and the refinement does not hold).

1. The sequencer composed under the protocol, so an OSC 133;C arrives through
   `putOSC`.
2. Blur-behind: a run of the Win32 branch.

## Not modelled

The sink's percent-decoding of `cmdline_url` and the query's JSON body are
abstracted: command lines and blocks are model values, because no property
depends on their text.

`TerminalSession.cpp`, the configuration loader and `ColorPalette.cpp` are
not in the repository, so the session's handlers, the profile lookup's
callers and colour application are not modelled; `Config::profile()`
dereferencing a missing default profile is listed as a hazard (the
`showResizeIndicator` getter that would reach it reads a profile field,
`sizeIndicatorOnResize`, that this repository's `Config.h` does not declare).
The blur-behind Win32 branch is modelled but no run checks it (its only state
is the accent value the call sets). The accumulators' 32-bit overflow is not
reached with wheel-sized deltas. The JSON text is abstracted (no property is about its characters). Line
flags are not modelled: the sink sets them on the active line, and which line
that is depends on the grid's cursor movement and scrolling, which neither the
sources nor spec.md describe. OSC 133;B only calls the external callback and changes
no modelled state. The probability that a re-enable draws the previous token
(2^-64) is outside what a model checker can weigh; the models let it happen.
