SPECIFICATION Spec
CONSTANTS
    Budget = 2
    Revised = FALSE
INVARIANTS BudgetBoundaryAttempted
