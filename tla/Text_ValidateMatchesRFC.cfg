CONSTANTS
    Bytes <- MC_Bytes
    CodePoints <- MC_CodePoints
    MaxLen = 4
    MaxWide = 2
    WcharBits = 32
    ConvBytes = {65, 128, 160, 194, 224, 248}
    DOSChars = {13, 10, 97}
    MaxDOS = 4
    Tokens <- MC_Tokens
    MaxTokens = 3
    Hashes <- MC_HashSet
    FileNames = {"a.txt"}
    MaxSize = 2
SPECIFICATION MagnetSpec
INVARIANT ValidateMatchesRFC
