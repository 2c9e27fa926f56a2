CONSTANTS
    BodyLens = {0, 22, 149, 170, 334}
    HeadLens = {0, 30}
    FieldLens = {0, 8, 100}
SPECIFICATION Spec
CHECK_DEADLOCK FALSE
INVARIANTS
    AssertsStopPayload
    TailBounded
PROPERTIES
    FrameHoldsThread
