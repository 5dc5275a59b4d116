SPECIFICATION Spec
CONSTANTS
    NUMBER_OF_TASKS = 4
INVARIANTS BothWays
PROPERTIES ImplementsSet
