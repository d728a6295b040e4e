--------------------------- MODULE AccountRegister --------------------------
(***************************************************************************)
(* What the users table promises, as if every request were one statement:  *)
(* an account is opened under an id that was never used and a name that is *)
(* free, and keeps both, and the password chosen for it, until it is       *)
(* closed.  The last account is not closed, unless deletes have crossed;   *)
(* when the panel comes up again there is an account, and it is kept.      *)
(***************************************************************************)
CONSTANTS Names, Ids

VARIABLES
    accounts,   \* the accounts there are
    used,       \* the ids ever given out
    lastIsKept  \* no two deletes have crossed since the panel came up

regVars == <<accounts, used, lastIsKept>>

Account(i, n) == [id |-> i, name |-> n, password |-> n]

RegisterInit ==
    /\ \E i \in Ids, n \in Names : accounts = {Account(i, n)} /\ used = {i}
    /\ lastIsKept = TRUE

Open(i, n) ==
    /\ i \notin used
    /\ \A a \in accounts : a.name # n
    /\ accounts' = accounts \cup {Account(i, n)}
    /\ used' = used \cup {i}

Close(a) ==
    /\ lastIsKept => accounts # {a}
    /\ accounts' = accounts \ {a}
    /\ UNCHANGED <<used, lastIsKept>>

Cross == lastIsKept' = FALSE /\ UNCHANGED <<accounts, used>>

Reboot ==
    /\ \/ accounts = {} /\ \E i \in Ids, n \in Names : Open(i, n)
       \/ accounts # {} /\ UNCHANGED <<accounts, used>>
    /\ lastIsKept' = TRUE

RegisterNext ==
    \/ \E i \in Ids, n \in Names : Open(i, n) /\ lastIsKept' = lastIsKept
    \/ \E a \in accounts : Close(a)
    \/ Cross \/ Reboot

RegisterSpec == RegisterInit /\ [][RegisterNext]_regVars

=============================================================================
