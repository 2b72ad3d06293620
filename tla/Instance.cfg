SPECIFICATION InstanceSpec
CONSTANTS
    root = root  ann = ann
    f1 = f1  f2 = f2
    old = old  new = new
    Nobody = Nobody
    People = {root, ann}
    Forms = {f1, f2}
    Things = {"certificate"}
    Names = {old, new}
    Life = 1
    Warn = 0
    StaleCopy = 0
    MaxSecrets = 2
    MaxChanges = 2
INVARIANTS OneSetup NoSurprise
PROPERTIES SecretGoesAway AlarmIsHeard
CHECK_DEADLOCK FALSE
