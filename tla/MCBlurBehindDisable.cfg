CONSTANTS
  w1 = w1
  w2 = w2
  w3 = w3
  Windows <- MCWindows
  HasX11Connection = TRUE
  InternMayFail = FALSE
  HasCompositionApi = TRUE
  Win32CallMayFail = FALSE
  Platform = "xcb"

SPECIFICATION Spec

INVARIANT BlurClearedOnDisable
