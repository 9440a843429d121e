CONSTANTS
    Frame <- Frames
    BufLen = {7, 20}
    HeaderLen = 2
    MaxSent = 3
SPECIFICATION Spec
INVARIANTS TypeOK ReadInOrder AsksForThisFrame
PROPERTIES ImplementsQueue
CHECK_DEADLOCK FALSE
