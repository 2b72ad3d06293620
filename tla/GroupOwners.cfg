SPECIFICATION PagesSpec
CONSTANTS
    Members = {m1, m2}
    Requests = {r1, r2}
    Nobody = Nobody
    Unchanged = Unchanged
    m1 = m1
    Target = m1
    Tabs = {}
    MaxPages = 0
    h1 = h1
    h2 = h2
    g = g
    s1 = s1
    s2 = s2
    Pods <- MCPods
    Households <- MCHouseholds
    Sides <- MCSides
    SidesOf <- MCSidesOf
SYMMETRY Interchangeable
INVARIANT OwnershipFollowsMembership
