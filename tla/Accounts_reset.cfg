SPECIFICATION Spec
CONSTANTS
    Users = {u1}
    Emails = {e1}
    Tokens = {t1, t2, t3}
    Requests = {r1, r2}
    Nil = Nil
PROPERTIES
    ResetLeavesNoOtherLink
