\* A start and a delete, two requests at a time, one failing call or restart.
SPECIFICATION Spec
CONSTANTS
    n1 = n1
    h1 = h1
    h2 = h2
    detector = detector
    Names <- MCNames
    Handlers <- MCHandlers
    Detector = detector
    Kinds <- MCCrossing
    MaxMishaps = 1
INVARIANTS TypeOK CleanDelete AnswerIsCurrent
SYMMETRY MCSymmetry
VIEW MCView
