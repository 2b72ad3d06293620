SPECIFICATION Spec
CONSTANTS
    Members = {ada, ben, cem}
    Founder = ada
    Links = {i1, i2}
    Requests = {r1}
    Nothing = Nothing
    MaxUses = 2
    MaxActs = 2
    home = home
    new = new
    s1 = s1
    s2 = s2
    Home = home
    Pods <- MCPods
    Sides <- MCSides
    SidesOf <- MCSidesOf
SYMMETRY Interchangeable
INVARIANT NoLinkOfARemovedMember
