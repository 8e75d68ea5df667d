\* createMultipleSequential with two recipients.
SPECIFICATION Spec
CONSTANTS
    N = 2
    Variants = {"sequential"}
    Durable = TRUE
INVARIANTS
    OneResultEach
