CONSTANTS
    AlternateScreen = AlternateScreen
    AppCursor = AppCursor
    AppKeypad = AppKeypad
    Select = Select
    None = None
    a1 = a1
    a2 = a2
    a3 = a3
    a4 = a4
    c1 = c1
    c2 = c2
    m1 = m1
    m2 = m2
    b1 = b1
    b2 = b2
    x1 = x1
    x2 = x2
    Flags <- MCFlags
    KeyEvents <- MCKeyEvents
    CharEvents <- MCCharEvents
    MouseEvents <- MCMouseEvents
    CharMappings <- MCCharMappings
    MouseMappings <- MCMouseMappings
    ButtonEvents <- MCButtonEvents
    AxisEvents <- MCAxisEvents
    KeyMappings <- MCKeyMappings
    ButtonMappings <- MCButtonMappings
    AxisMappings <- MCAxisMappings

SPECIFICATION Spec
INVARIANTS
    FiredIsEarliestCoveringBinding
