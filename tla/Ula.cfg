SPECIFICATION Spec
CONSTANT Starts <- MCStarts
INVARIANTS TypeOK InterruptLong AccessHeldOnce StretchBounded
PROPERTY RasterImplemented
CHECK_DEADLOCK FALSE
