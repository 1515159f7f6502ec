---------------------------- MODULE MCFrontDesk ----------------------------
(* FrontDesk on a small instance: two rows of any table, two overlapping    *)
(* requests, one connection and one stored file.                            *)
EXTENDS FrontDesk, TLC

CONSTANTS
    FirstRow,       \* the row that is inserted first
    FirstComplex    \* its complex

\* Bounds of the search.  The first two lose nothing: ids and complexes are
\* interchangeable, so a behaviour may as well use them in this order.  The
\* others are real: a ticket is open or closed; there is one post; no second
\* row is there once a user is deleted; and the screen is only connected while
\* there is neither a post, which no event is about, nor a stored photo.
Explored ==
    /\ (\E r \in Rows : row[r] # Unborn) => row[FirstRow] # Unborn
    /\ row[FirstRow].complex \in {Nil, FirstComplex}
    /\ \A r \in Rows : row[r].status \notin {"IN_PROGRESS", "RESOLVED"}
    /\ \A q \in Requests : request[q].status \notin {"IN_PROGRESS", "RESOLVED"}
    /\ \A r, s \in Rows : row[r].kind = "post" /\ row[s].kind = "post" => r = s
    /\ gone = {} \/ \E r \in Rows : row[r] = Unborn
    /\ \/ \A s \in Sockets : socket[s] = Offline
       \/ (\A f \in Files : bucket[f] = Nil) /\ (\A r \in Rows : row[r].kind # "post")

=============================================================================
