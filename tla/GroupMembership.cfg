SPECIFICATION Spec
CONSTANTS
    Processes = {p1, p2}
    Users = {u1}
    Groups = {g1, g2}
    Spaces = {s1}
    None = None
    MaxRequests = 3
SYMMETRY Symmetry
INVARIANTS
    LinksAgree
PROPERTIES
    SaveRepairs
    SaveTouchesItsLinksOnly
CHECK_DEADLOCK FALSE
