CONSTANTS
    BundleTokens = {b1, b2}
    UploadTokens = {u1, u2}
    Sizes = {1}
    MaxGen = 1
    BundleDelaySeconds = 1
    MaxCommands = 3
    MaxUploads = 2
    None = None
SPECIFICATION Spec
CHECK_DEADLOCK FALSE
INVARIANT TypeOK
PROPERTY IdleBundleExpires
