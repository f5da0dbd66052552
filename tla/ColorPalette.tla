---------------------------- MODULE ColorPalette ----------------------------
(***************************************************************************)
(* The slot arithmetic of vtbackend::ColorPalette                          *)
(* (src/src/vtbackend/ColorPalette.h): one array of 256 + 8 colours holds  *)
(* the 256 indexed colours, whose first 8 are the normal and next 8 the    *)
(* bright ANSI colours, followed by the 8 dim colours.  Each accessor      *)
(* asserts its index range; at() throws past the end, operator[] does not  *)
(* check.  A colour is abstracted to the slot it is read from.             *)
(***************************************************************************)
EXTENDS Integers, FiniteSetsExt

CONSTANTS
    Indices,      \* the indices the renderer asks for
    Debug,        \* TRUE: asserts are compiled in; FALSE: NDEBUG
    Abort, Undefined, OutOfRange   \* the outcomes of a call that reads no slot

PaletteSize == 256 + 8           \* Palette = std::array<RGBColor, 256 + 8>
Accessors == {"normal", "bright", "dim", "indexed"}

VARIABLE probe   \* the last accessor call: [accessor, index, result]

(* assert(index < 8) / assert(index < 256)                                 *)
Precondition(acc, index) == IF acc = "indexed" THEN index < 256 ELSE index < 8

DimSlotOffByOne(index) == 255 + index
DimSlot(index) == 256 + index

(* The slot each accessor reads: normalColor(i) at(i), brightColor(i)      *)
(* at(i + 8), dimColor(i) palette[256 + i], indexedColor(i) at(i).          *)
Slot(acc, index) ==
    CASE acc = "normal" -> index
      [] acc = "bright" -> index + 8
      [] acc = "dim" -> DimSlot(index)
      [] acc = "indexed" -> index

(* at() checks its slot and throws std::out_of_range; operator[] past the  *)
(* end is undefined behaviour.                                             *)
Read(acc, index) ==
    LET s == Slot(acc, index)
    IN  CASE s < PaletteSize -> s
          [] acc = "dim" -> Undefined
          [] OTHER -> OutOfRange

Init == probe = [accessor |-> "none", index |-> 0, result |-> 0]

(* A call of one accessor: an assert that fails aborts the program.        *)
Call(acc, index) ==
    probe' = [accessor |-> acc, index |-> index,
              result |-> IF Debug /\ ~Precondition(acc, index) THEN Abort
                         ELSE Read(acc, index)]

Next == \E acc \in Accessors, index \in Indices : Call(acc, index)

Spec == Init /\ [][Next]_probe

-----------------------------------------------------------------------------
Failures == {Abort, Undefined, OutOfRange}

(* The palette's layout, stated by region: normal colours in 0..7, bright  *)
(* in 8..15, the remaining indexed colours in 16..255, dim in 256..263.    *)
Region(acc) ==
    CASE acc = "normal" -> 0..7 [] acc = "bright" -> 8..15
      [] acc = "dim" -> 256..263 [] acc = "indexed" -> 0..255

(* A call within its assert's precondition reads the slot its region      *)
(* assigns to the index, in order; in particular an indexed colour set by  *)
(* OSC 4 never aliases a dim colour.  A call outside it aborts in a debug  *)
(* build and, in a release build, reads another region, throws, or (dim)   *)
(* reads past the array.                                                   *)
AccessorsReadTheirRegion ==
    probe.accessor \in Accessors =>
        IF Precondition(probe.accessor, probe.index)
        THEN /\ probe.result \notin Failures
             /\ probe.result = Min(Region(probe.accessor)) + probe.index
             /\ probe.result \in Region(probe.accessor)
        ELSE \/ probe.result \in Failures
             \/ probe.result \notin Region(probe.accessor)
====
