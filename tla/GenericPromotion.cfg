SPECIFICATION GenericSpec
CONSTANTS
    Artifacts = {a1, a2}
    MaxValidations = 3
INVARIANT RefusedOnlyIfChanged
CHECK_DEADLOCK FALSE
