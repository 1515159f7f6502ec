SPECIFICATION Spec
CONSTANTS
    Users = {u1, u2}
    Emails = {e1}
    Tokens = {t1, t2, t3}
    Requests = {r1, r2}
    Nil = Nil
SYMMETRY Symmetry
VIEW LiveData
INVARIANTS
    TypeOK
    PasswordsComeFromLinks
    NewLinkSupersedesOld
    GhostsOnlyWhenCut
PROPERTIES
    SpentLinksStaySpent
    ImplementsCredentials
    DeactivationsLast
