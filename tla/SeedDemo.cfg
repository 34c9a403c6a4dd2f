\* Three scenarios, three starts of the script, stops anywhere, and a velocity
\* check of any account at any moment.
CONSTANTS
    Scenarios = 3
    MaxStarts = 3
SPECIFICATION Spec
INVARIANTS
    SeedInv
    CountsHaveVolumes
PROPERTIES
    MarkedUntouched
\* the last start ends
CHECK_DEADLOCK FALSE
