SPECIFICATION Spec
CONSTANTS
    Labels <- MCLabels
    OVERLAP = 3
INVARIANTS
    ImportsBack
