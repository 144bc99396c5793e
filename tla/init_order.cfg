SPECIFICATION Spec

INVARIANT InitNoMissingDevice
