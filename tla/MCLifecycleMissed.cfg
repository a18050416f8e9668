\* Nothing fails: is every change of a unit left alone reported?
SPECIFICATION FairSpec
CONSTANTS
    n1 = n1
    h1 = h1
    h2 = h2
    detector = detector
    Names <- MCNames
    Handlers <- MCOneHandler
    Detector = detector
    Kinds <- MCWatched
    MaxMishaps = 0
PROPERTY ChangesReported
