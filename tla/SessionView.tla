----------------------------- MODULE SessionView -----------------------------
(***************************************************************************)
(* The state a terminal session exposes to its QML view                    *)
(* (src/src/contour/TerminalSession.h): the Q_PROPERTY getters derive what *)
(* the view shows from the profile, the terminal's screen and modes and   *)
(* the colour palette's background image; the wheel-scroll accumulators   *)
(* are the session's own state, added to and reset by the display.         *)
(*                                                                         *)
(* The terminal (screen switches, DECSCNM reverse video, OSC titles, tab   *)
(* names) and profile changes are the environment; they are not under      *)
(* src/ and move their variables freely within the constants.              *)
(***************************************************************************)
EXTENDS Integers

CONSTANTS
    Positions,    \* config::ScrollBarPosition: "Hidden", "Left", "Right"
    Sounds,       \* bell sound settings: "default", "off" or a file name
    Titles,       \* window titles
    TabNames,     \* tab names set by the user
    Images,       \* background images: [location, opacity, blur]
    Opacities,    \* profile background opacities (terminal::Opacity, 0..255)
    Deltas,       \* wheel deltas the display adds
    MaxScroll,    \* bound on the absolute value of an accumulator
    None

VARIABLES
    screenType,      \* _currentScreenType
    reverseVideo,    \* DECMode::ReverseVideo
    backgroundImage, \* colorPalette().backgroundImage (None: null)
    scrollbar,       \* profile().scrollbar: [position, hideScrollbarInAltScreen]
    bellSound,       \* _profile.bell.sound
    opacity,         \* _profile.background.opacity
    tabName,         \* terminal().tabName() (None: nullopt)
    windowTitle,     \* terminal().windowTitle()
    namingMode,      \* terminal().getTabsNamingMode(): "Title" or "Indicator"
    accumulatedScrollX, accumulatedScrollY

vars == <<screenType, reverseVideo, backgroundImage, scrollbar, bellSound, opacity,
          tabName, windowTitle, namingMode, accumulatedScrollX,
          accumulatedScrollY>>
terminalVars == <<screenType, reverseVideo, backgroundImage, scrollbar,
                  bellSound, opacity, tabName, windowTitle, namingMode>>
scrollVars == <<accumulatedScrollX, accumulatedScrollY>>

\* The outcome of dereferencing the null backgroundImage shared_ptr: the
\* read of ->location at address 0 faults.
NullDeref == "null dereference"

-----------------------------------------------------------------------------
(* The Q_PROPERTY getters.                                                 *)
BellSource ==
    CASE bellSound = "default" -> "qrc:/contour/bell.wav"
      [] bellSound = "off" -> ""
      [] OTHER -> bellSound

(* pathToBackground(): get_if on backgroundImage->location, with no test  *)
(* that backgroundImage is set.                                            *)
PathToBackground ==
    CASE backgroundImage = None -> NullDeref
      [] backgroundImage.location = "path" -> "file:path"
      [] OTHER -> ""

(* getOpacity(): opacity / numeric_limits<uint8_t>::max(), as a fraction. *)
Opacity == [num |-> opacity, den |-> 255]

(* getBackgroundColor(): the default foreground under reverse video, with  *)
(* the profile opacity as alpha (static_cast<uint8_t>).                    *)
BackgroundColor ==
    [rgb |-> IF reverseVideo THEN "defaultForeground" ELSE "defaultBackground",
     alpha |-> opacity % 256]

IsImageBackground == backgroundImage # None

OpacityBackground == IF IsImageBackground THEN backgroundImage.opacity ELSE 0

IsBlurBackground == IsImageBackground /\ backgroundImage.blur

IsScrollbarRight == scrollbar.position = "Right"

IsScrollbarVisible ==
    /\ scrollbar.position # "Hidden"
    /\ ~(screenType = "Alternate" /\ scrollbar.hideScrollbarInAltScreen)

Name ==
    CASE tabName # None -> tabName
      [] namingMode = "Title" -> windowTitle
      [] OTHER -> None

-----------------------------------------------------------------------------
Init ==
    /\ screenType = "Primary"
    /\ reverseVideo = FALSE
    /\ backgroundImage \in Images \cup {None}
    /\ scrollbar \in [position : Positions, hideScrollbarInAltScreen : BOOLEAN]
    /\ bellSound \in Sounds
    /\ opacity \in Opacities
    /\ tabName = None
    /\ windowTitle \in Titles
    /\ namingMode \in {"Title", "Indicator"}
    /\ accumulatedScrollX = 0 /\ accumulatedScrollY = 0

(* The terminal switches between primary and alternate screen.             *)
BufferChanged(screen) ==
    /\ screenType' = screen
    /\ UNCHANGED <<reverseVideo, backgroundImage, scrollbar, bellSound,
                   opacity, tabName, windowTitle, namingMode>>
    /\ UNCHANGED scrollVars

(* DECSCNM, OSC 0/2, the tab-name action: the terminal's own state.        *)
TerminalChanges ==
    /\ reverseVideo' \in BOOLEAN
    /\ tabName' \in TabNames \cup {None}
    /\ windowTitle' \in Titles
    /\ UNCHANGED <<screenType, backgroundImage, scrollbar, bellSound, opacity,
                   namingMode>>
    /\ UNCHANGED scrollVars

(* A profile switch or config reload.                                      *)
ProfileChanged ==
    /\ backgroundImage' \in Images \cup {None}
    /\ scrollbar' \in [position : Positions, hideScrollbarInAltScreen : BOOLEAN]
    /\ bellSound' \in Sounds
    /\ opacity' \in Opacities
    /\ namingMode' \in {"Title", "Indicator"}
    /\ UNCHANGED <<screenType, reverseVideo, tabName, windowTitle>>
    /\ UNCHANGED scrollVars

(* setTitle(value): terminal().setWindowTitle(value)                        *)
SetTitle(t) ==
    /\ windowTitle' = t
    /\ UNCHANGED <<screenType, reverseVideo, backgroundImage, scrollbar,
                   bellSound, opacity, tabName, namingMode>>
    /\ UNCHANGED scrollVars

(* addScrollX(v) / resetScrollX(), and the same for Y; MaxScroll caps    *)
(* the accumulated value.                                                  *)
AddScrollX(v) ==
    /\ accumulatedScrollX + v \in -MaxScroll..MaxScroll
    /\ accumulatedScrollX' = accumulatedScrollX + v
    /\ UNCHANGED accumulatedScrollY /\ UNCHANGED terminalVars

ResetScrollX ==
    /\ accumulatedScrollX' = 0
    /\ UNCHANGED accumulatedScrollY /\ UNCHANGED terminalVars

AddScrollY(v) ==
    /\ accumulatedScrollY + v \in -MaxScroll..MaxScroll
    /\ accumulatedScrollY' = accumulatedScrollY + v
    /\ UNCHANGED accumulatedScrollX /\ UNCHANGED terminalVars

ResetScrollY ==
    /\ accumulatedScrollY' = 0
    /\ UNCHANGED accumulatedScrollX /\ UNCHANGED terminalVars

Next ==
    \/ \E screen \in {"Primary", "Alternate"} : BufferChanged(screen)
    \/ TerminalChanges \/ ProfileChanged
    \/ \E t \in Titles : SetTitle(t)
    \/ \E v \in Deltas : AddScrollX(v) \/ AddScrollY(v)
    \/ ResetScrollX \/ ResetScrollY

Spec == Init /\ [][Next]_vars

-----------------------------------------------------------------------------
(* No getter dereferences a null background image.  getOpacityBackground, *)
(* getIsImageBackground and getIsBlurBackground test backgroundImage       *)
(* before following it; pathToBackground (TerminalSession.h:115-123)       *)
(* follows it unconditionally, yet the palette's backgroundImage is a      *)
(* shared_ptr that is null until an image is configured, and the getter is *)
(* a Q_PROPERTY the view may read in any state.                            *)
NoGetterDereferencesNull == PathToBackground # NullDeref

====
