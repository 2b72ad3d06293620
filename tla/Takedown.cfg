SPECIFICATION Spec
CONSTANTS
    ann = ann  bea = bea  cal = cal
    both = both  left = left  right = right  shore = shore  club = club
    hers = hers  his = his  lake = lake
    t1 = t1  t2 = t2
    Nobody = Nobody
    People = {ann, bea, cal}
    Admins = {ann, bea}
    InstanceAdmins = {ann}
    Moved <- MCMoved
    Does <- MCBothModerate
    Audiences <- MCAudiences
    Pods = {both, left, right, shore, club}
    Groups = {club}
    Sides <- MCSides
    Founding <- MCFounding
    Kinds = {"heart"}
    Tabs = {t1, t2}
    Muted <- MCMuted
    PageSize = 1
    LastTick = 1
    MaxPosts = 1
    MaxReplies = 1
    MaxReactions = 1
    MaxMoves = 1
PROPERTIES FirstTakedownStands
CHECK_DEADLOCK FALSE
SYMMETRY TabsAlike
