SPECIFICATION PushSpec
CONSTANTS
    slow1 = slow1
    slow2 = slow2
    fitful = fitful
    fickle = fickle
    Members = {m1, m2}
    Writers = {m1}
    Browsers = {fickle, fitful, slow1, slow2}
    Keys = {k1, k2, k3, k4}
    Answers <- MCAnswers
    Budget = 2
    MaxRefusals = 2
    MaxDevices = 3
    MaxChanges = 4
    MaxCrashes = 1
    None = None
PROPERTIES EveryoneHears RefusalsDecide
CHECK_DEADLOCK FALSE
