SPECIFICATION Spec
CONSTANT MaxRetries = 1
INVARIANT
    RepollMeansClaimQueued
