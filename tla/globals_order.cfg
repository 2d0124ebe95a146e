SPECIFICATION GlobalsSpec
CONSTANT Declarations <- SeveralFunctions
INVARIANT SoundGlobalsAreAccepted
CHECK_DEADLOCK FALSE
