SPECIFICATION LiveSpec
CONSTANTS
    Users = {u1}
    Emails = {e1}
    Tokens = {t1, t2}
    Requests = {r1, r2}
    Nil = Nil
PROPERTIES
    InvitationsSettle
