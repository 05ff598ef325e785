SPECIFICATION Spec
CONSTANTS
    c1 = c1
    Clients = {c1}
    Cap = 2
    MaxRead = 2
    MaxBurst = 3
    MaxEmpty = 2
    MaxHead = 6
    MaxGen = 3
PROPERTIES NoDataMeansSilence
CHECK_DEADLOCK FALSE
