SPECIFICATION DemoSpec
CONSTANTS
    dot = dot  rae = rae
    tent = tent  flat = flat  cabin = cabin  club = club
    demo = demo  real = real
    Nobody = Nobody
    People = {dot, rae}
    Pods = {tent, flat, cabin, club}
    Sides = {demo, real}
    Clubs = {club}
    SidesOf <- MCSidesOf
    Settled <- MCSettled
    Later = {cabin, club}
    Foreign = {flat}
    MaxWords = 2
    MaxMoves = 2
PROPERTIES RealPostsStay HomesSurvive
CHECK_DEADLOCK FALSE
