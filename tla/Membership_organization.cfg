SPECIFICATION Spec
CONSTANTS
    Users = {dev, admin, u1}
    Orgs = {o1, o2}
    Complexes = {c1, c2}
    Clients = {r1, r2}
    Nil = Nil
    Dev = dev
    Admin = admin
    HomeOrg = o1
    HomeComplex = c1
    dev = dev
    admin = admin
    o1 = o1
    c1 = c1
INVARIANTS
    OrganizationFollowsComplex
