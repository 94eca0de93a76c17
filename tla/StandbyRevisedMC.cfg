SPECIFICATION Spec
CONSTANTS
    Budget = 2
    Revised = TRUE

PROPERTIES UnownedLineDefers
