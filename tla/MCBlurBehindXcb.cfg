CONSTANTS
  w1 = w1
  w2 = w2
  w3 = w3
  Windows <- MCWindows
  HasX11Connection = TRUE
  InternMayFail = TRUE
  HasCompositionApi = TRUE
  Win32CallMayFail = FALSE
  Platform = "xcb"

SPECIFICATION Spec

INVARIANT TypeOK
INVARIANT MutterHintsFollowLastFullCall
PROPERTY DisableEventuallyReachesServer
