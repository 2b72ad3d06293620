SPECIFICATION PagesSpec
CONSTANTS
    m1 = m1
    Members = {m1, m2, m3}
    Requests = {r1, r2}
    Nobody = Nobody
    Unchanged = Unchanged
    h1 = h1
    h2 = h2
    g = g
    s1 = s1
    s2 = s2
    Pods <- MCPods
    Households <- MCHouseholds
    Sides <- MCSides
    SidesOf <- MCSidesOf
    Target = m1
    Tabs = {t1, t2}
    MaxPages = 1
SYMMETRY Interchangeable
CONSTRAINT OneMore
INVARIANT SpentOnce
