CONSTANTS
    MaxOscLength = 3
    MaxLen = 2
    None = None
    p1 = p1
    p2 = p2
    Digits <- MCDigits
    OscChars <- MCOscChars
    Leaders <- MCLeaders
    Intermediates <- MCIntermediates
    ParamChars <- MCParamChars
    Finals <- MCFinals
    DcsBytes <- MCDcsBytes
    SubParsers <- MCSubParsers

SPECIFICATION Spec
INVARIANTS
    TypeOK
    OscPayloadIsCutPrefix
    SubParserGetsOwnDcs
