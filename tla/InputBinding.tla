---------------------------- MODULE InputBinding ----------------------------
(***************************************************************************)
(* The input-binding lookup of contour's configuration                    *)
(* (src/src/contour/Config.h): config::apply walks the mappings of one     *)
(* input kind in configuration order and returns the binding of the first  *)
(* whose modifier and input match and whose mode constraints the terminal's *)
(* current modes satisfy (helper::testMatchMode).  Key, character and     *)
(* mouse inputs match by equality; gamepad buttons and gamepad axes have   *)
(* their own operator==.                                                   *)
(*                                                                         *)
(* The terminal's modes change with the VT stream (alternate screen,       *)
(* application cursor and keypad, selection); each input event looks up    *)
(* its binding under the modes of that moment.                             *)
(***************************************************************************)
EXTENDS Integers, Sequences, SequencesExt

CONSTANTS
    Flags,            \* MatchModes::Flag: AlternateScreen, AppCursor, AppKeypad, Select
    KeyEvents,        \* the key inputs with their modifiers
    CharEvents,       \* the character inputs
    MouseEvents,      \* the mouse button inputs
    ButtonEvents,     \* the gamepad button inputs
    AxisEvents,       \* the gamepad axis inputs
    KeyMappings,      \* inputMappings.keyMappings, in configuration order
    CharMappings,     \* inputMappings.charMappings
    MouseMappings,    \* inputMappings.mouseMappings
    ButtonMappings,   \* inputMappings.gamepadButtonMappings
    AxisMappings,     \* inputMappings.gamepadAxisMappings
    None

VARIABLES
    modeFlags,  \* the terminal's mode flags (the bits of _actualModeFlags)
    event,      \* the last input event, None after a mode change
    fired       \* the action list apply() returned for it (None: nullptr)

vars == <<modeFlags, event, fired>>

-----------------------------------------------------------------------------
(* testMatchMode(flags, expected, flag): Enabled needs the bit set,       *)
(* (without its break it would fall into the Disabled test),             *)
(* Disabled needs it clear (and falls through to Any's break), Any passes. *)
TestMatchModeFallThrough(actual, expected, flag) ==
    CASE expected[flag] = "Enabled" -> flag \in actual /\ flag \notin actual
      [] expected[flag] = "Disabled" -> flag \notin actual
      [] OTHER -> TRUE
TestMatchModeFlag(actual, expected, flag) ==
    CASE expected[flag] = "Enabled" -> flag \in actual
      [] expected[flag] = "Disabled" -> flag \notin actual
      [] OTHER -> TRUE

\* testMatchMode(flags, expected): every one of the four flags matches.
TestMatchMode(actual, expected) ==
    \A flag \in Flags : TestMatchModeFlag(actual, expected, flag)

\* operator==(GamepadButtonState, GamepadButtonState)
ButtonStateEq(lhs, rhs) ==
    lhs.deviceId = rhs.deviceId /\ lhs.button = rhs.button /\ lhs.pressed = rhs.pressed

\* operator==(GamepadAxisState, GamepadAxisRange): a half-open range
AxisInRange(state, range) ==
    state.deviceId = range.deviceId /\ state.axis = range.axis
    /\ range.begin <= state.value /\ state.value < range.end

KeyEq(input, key) == input = key

\* The `_input == mapping.input` of each input kind.
InputMatches(kind, input, pattern) ==
    CASE kind \in {"key", "char", "mouse"} -> KeyEq(input, pattern)
      [] kind = "button" -> ButtonStateEq(input, pattern)
      [] kind = "axis" -> AxisInRange(input, pattern)

(* apply(mappings, input, modifier, flags): the first mapping in order    *)
(* that matches; &mapping.binding, or nullptr.                             *)
Apply(mappings, ev, kind, actual) ==
    LET i == SelectInSeq(mappings, LAMBDA m : m.modifier = ev.modifier
                                             /\ InputMatches(kind, ev.input, m.input)
                                             /\ TestMatchMode(actual, m.modes))
    IN  IF i = 0 THEN None ELSE mappings[i].binding

-----------------------------------------------------------------------------
Init == modeFlags = {} /\ event = None /\ fired = None

\* DECSET / DECRST of the mode behind a flag (the environment).
SetMode(flag, on) ==
    /\ modeFlags' = IF on THEN modeFlags \cup {flag} ELSE modeFlags \ {flag}
    /\ event' = None /\ fired' = None

\* A key, gamepad button or gamepad axis event looks up its binding.
KeyEvent(ev) ==
    /\ event' = [kind |-> "key", ev |-> ev]
    /\ fired' = Apply(KeyMappings, ev, "key", modeFlags)
    /\ UNCHANGED modeFlags

CharEvent(ev) ==
    /\ event' = [kind |-> "char", ev |-> ev]
    /\ fired' = Apply(CharMappings, ev, "char", modeFlags)
    /\ UNCHANGED modeFlags

MouseEvent(ev) ==
    /\ event' = [kind |-> "mouse", ev |-> ev]
    /\ fired' = Apply(MouseMappings, ev, "mouse", modeFlags)
    /\ UNCHANGED modeFlags

ButtonEvent(ev) ==
    /\ event' = [kind |-> "button", ev |-> ev]
    /\ fired' = Apply(ButtonMappings, ev, "button", modeFlags)
    /\ UNCHANGED modeFlags

AxisEvent(ev) ==
    /\ event' = [kind |-> "axis", ev |-> ev]
    /\ fired' = Apply(AxisMappings, ev, "axis", modeFlags)
    /\ UNCHANGED modeFlags

Next ==
    \/ \E flag \in Flags, on \in BOOLEAN : SetMode(flag, on)
    \/ \E ev \in KeyEvents : KeyEvent(ev)
    \/ \E ev \in CharEvents : CharEvent(ev)
    \/ \E ev \in MouseEvents : MouseEvent(ev)
    \/ \E ev \in ButtonEvents : ButtonEvent(ev)
    \/ \E ev \in AxisEvents : AxisEvent(ev)

Spec == Init /\ [][Next]_vars

-----------------------------------------------------------------------------
(* Reference semantics of a binding, stated over sets: its modifier is    *)
(* the event's, its input covers the event's input (same key; same device, *)
(* button and press state; same device and axis with begin <= value < end) *)
(* and the current modes include every flag it requires Enabled and none   *)
(* it requires Disabled.                                                   *)
Covers(kind, ev, m) ==
    /\ m.modifier = ev.modifier
    /\ CASE kind \in {"key", "char", "mouse", "button"} -> ev.input = m.input
         [] kind = "axis" -> /\ ev.input.deviceId = m.input.deviceId
                             /\ ev.input.axis = m.input.axis
                             /\ ev.input.value \in m.input.begin..(m.input.end - 1)
    /\ {f \in Flags : m.modes[f] = "Enabled"} \subseteq modeFlags
    /\ {f \in Flags : m.modes[f] = "Disabled"} \cap modeFlags = {}

MappingsOf(kind) ==
    CASE kind = "key" -> KeyMappings [] kind = "char" -> CharMappings
      [] kind = "mouse" -> MouseMappings [] kind = "button" -> ButtonMappings
      [] kind = "axis" -> AxisMappings

(* The action list an input fires is that of the earliest mapping, in     *)
(* configuration order, that covers it under the modes of that moment, and *)
(* none when no mapping does: config::apply's loop, testMatchMode's switch *)
(* with its fall-through and the half-open axis ranges agree with it.      *)
FiredIsEarliestCoveringBinding ==
    event # None =>
        LET ms == MappingsOf(event.kind)
            covering == {i \in DOMAIN ms : Covers(event.kind, event.ev, ms[i])}
        IN  IF covering = {} THEN fired = None
            ELSE fired = ms[CHOOSE i \in covering : \A j \in covering : i <= j].binding

====
