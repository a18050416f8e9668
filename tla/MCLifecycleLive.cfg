\* One request at a time of five kinds beside the detector; one failure or restart.
SPECIFICATION FairSpec
CONSTANTS
    n1 = n1
    h1 = h1
    h2 = h2
    detector = detector
    Names <- MCNames
    Handlers <- MCOneHandler
    Detector = detector
    Kinds <- MCWatched
    MaxMishaps = 1
PROPERTIES DetectorConverges ViewConverges
