SPECIFICATION PathSpec
CONSTANT Fits <- AllFits
INVARIANTS ParkedWhenUnloaded GripRespected
PROPERTIES LoadedSeen RecoversSafely
