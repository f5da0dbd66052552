CONSTANTS
    Positions = {"Hidden", "Left", "Right"}
    Sounds = {"default", "off", "bell.wav"}
    Titles = {"t1", "t2"}
    TabNames = {"tab"}
    Images <- MCImages
    Deltas <- MCDeltas
    MaxScroll = 240
    Opacities = {0, 255}
    None = None

SPECIFICATION Spec
INVARIANT NoGetterDereferencesNull
