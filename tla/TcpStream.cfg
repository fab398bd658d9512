\* Buffers of two bytes, three bytes each way.
CONSTANTS
    Room = 2
    MaxBytes = 3
SPECIFICATION Spec
INVARIANTS NoStrandedHalf PumpTold AnswersHonest
CHECK_DEADLOCK FALSE
