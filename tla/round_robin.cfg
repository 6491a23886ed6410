CONSTANT N = 4
SPECIFICATION Spec
INVARIANTS TypeOK NotPassedOver ThrowsOnlyIfNoneReady
