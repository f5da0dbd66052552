--------------------------- MODULE MCInputBinding ---------------------------
(* Four mode flags; one key with two modifiers bound four times under     *)
(* overlapping mode constraints; a gamepad button bound twice; two         *)
(* adjacent axis ranges [-1, 0) and [0, 1) probed at -1, 0 and 1; the     *)
(* character 'c' and its upper case, and two mouse buttons, bound under    *)
(* complementary alternate-screen constraints.                             *)
EXTENDS InputBinding

CONSTANTS AlternateScreen, AppCursor, AppKeypad, Select,
          a1, a2, a3, a4, c1, c2, m1, m2, b1, b2, x1, x2   \* the action lists, as model values

MCFlags == {AlternateScreen, AppCursor, AppKeypad, Select}

Modes(enabled, disabled) ==
    [f \in MCFlags |-> IF f \in enabled THEN "Enabled"
                       ELSE IF f \in disabled THEN "Disabled" ELSE "Any"]
AnyMode == Modes({}, {})

MCKeyEvents == {[input |-> "k", modifier |-> mod] : mod \in {"none", "shift"}}
MCKeyMappings ==
    << [input |-> "k", modifier |-> "none", modes |-> Modes({AlternateScreen}, {}), binding |-> a1],
       [input |-> "k", modifier |-> "none", modes |-> Modes({}, {AppCursor, Select}), binding |-> a2],
       [input |-> "k", modifier |-> "shift", modes |-> AnyMode, binding |-> a3],
       [input |-> "k", modifier |-> "none", modes |-> Modes({AppKeypad}, {AlternateScreen}), binding |-> a4] >>

MCCharEvents == {[input |-> ch, modifier |-> "control"] : ch \in {"c", "C"}}
MCCharMappings ==
    << [input |-> "c", modifier |-> "control", modes |-> Modes({}, {AlternateScreen}), binding |-> c1],
       [input |-> "c", modifier |-> "control", modes |-> AnyMode, binding |-> c2] >>

MCMouseEvents == {[input |-> b, modifier |-> mod] : b \in {"Left", "WheelUp"}, mod \in {"none", "shift"}}
MCMouseMappings ==
    << [input |-> "WheelUp", modifier |-> "none", modes |-> Modes({AlternateScreen}, {}), binding |-> m1],
       [input |-> "WheelUp", modifier |-> "none", modes |-> Modes({}, {AlternateScreen}), binding |-> m2] >>

Button(pressed) == [deviceId |-> 0, button |-> "A", pressed |-> pressed]
MCButtonEvents == {[input |-> Button(p), modifier |-> "none"] : p \in BOOLEAN}
MCButtonMappings ==
    << [input |-> Button(TRUE), modifier |-> "none", modes |-> Modes({AppKeypad}, {}), binding |-> b1],
       [input |-> Button(TRUE), modifier |-> "none", modes |-> AnyMode, binding |-> b2] >>

AxisRange(b, e) == [deviceId |-> 0, axis |-> "LeftX", begin |-> b, end |-> e]
MCAxisEvents == {[input |-> [deviceId |-> 0, axis |-> "LeftX", value |-> v], modifier |-> "none"]
                    : v \in {-1, 0, 1}}
MCAxisMappings ==
    << [input |-> AxisRange(-1, 0), modifier |-> "none", modes |-> AnyMode, binding |-> x1],
       [input |-> AxisRange(0, 1), modifier |-> "none", modes |-> Modes({}, {Select}), binding |-> x2] >>
====
