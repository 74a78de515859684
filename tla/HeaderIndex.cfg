SPECIFICATION Spec
CONSTANTS
    ListSize = 3
    MaxBatch = 3
    MaxHeight = 10
PROPERTIES
    IndexKeptRight
    StartLosesAtMostOne
