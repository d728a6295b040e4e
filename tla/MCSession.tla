----------------------------- MODULE MCSession -----------------------------
(* Session for TLC.  Bounds of the search: a tab has one change under way, *)
(* requests of the Users page are sent in the first login only, and the    *)
(* first login is always the same user's, all users being alike.           *)
EXTENDS Session, FiniteSets

FewRequests ==
    /\ \A t \in Tabs :
          /\ Cardinality(changes'[t]) <= 1
          /\ \A c \in changes'[t] \cup {fetch'[t]} : c # None => c.token \in {1, None}
    /\ owner'[1] \in {None, CHOOSE u \in Users : TRUE}

=============================================================================
