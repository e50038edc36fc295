SPECIFICATION Spec
CONSTANTS
    Fingerprints = {cat, dog}
    LoopWindow = 3
    LoopThreshold = 2
INVARIANTS
    TwoWindowBound
PROPERTIES
    NoDenialWithoutLoop
    WindowCloses
