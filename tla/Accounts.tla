------------------------------ MODULE Accounts ------------------------------
(***************************************************************************)
(* The panel's accounts: the users table of internal/db/users.go, the      *)
(* handlers of internal/httpapi/user_handlers.go and auth_handlers.go over *)
(* it, and bootstrapAdmin of cmd/panel/main.go.  A session is a signed     *)
(* token that carries a username and outlives the account; a delete names  *)
(* an account by the id the operator last saw, and takes three statements  *)
(* between which other requests run.                                       *)
(***************************************************************************)
EXTENDS Naturals, FiniteSets

CONSTANTS
    Names,        \* usernames
    Admin,        \* bootstrap_admin.username
    Operators,    \* goroutines that serve requests, with the session they carry
    MaxId,        \* bound on the accounts ever created
    None

ASSUME AccountsAssumption ==
    /\ Admin \in Names
    /\ None \notin Names
    /\ MaxId \in Nat \ {0}

Ids     == 1..MaxId
Entries == [id : Ids, name : Names]
Targets == [id : Ids, name : Names, by : Names, checked : BOOLEAN]

VARIABLES
    users,      \* users[i]: the username of the row with id i, None without one
    password,   \* password[i]: the account its password was chosen for
    nextId,     \* the AUTOINCREMENT counter, which no DELETE lowers
    session,    \* the username in the token an operator holds
    view,       \* the list of users an operator last loaded
    pc,         \* where the request it makes is
    target,     \* the entry that request is about, the token's username, and
                \* (for the properties) whether the self lookup gave an answer
    crossed     \* history: since the panel came up, two deletes have been between
                \* their count and their DELETE at once

vars == <<users, password, nextId, session, view, pc, target, crossed>>

Live      == {i \in Ids : users[i] # None}
Listed    == {[id |-> i, name |-> users[i]] : i \in Live}
Taken(n)  == \E i \in Ids : users[i] = n

AccountsTypeOK ==
    /\ users \in [Ids -> Names \cup {None}]
    /\ password \in [Ids -> Names \cup {None}]
    /\ nextId \in 1..(MaxId + 1)
    /\ session \in [Operators -> Names \cup {None}]
    /\ view \in [Operators -> SUBSET Entries]
    /\ pc \in [Operators -> {"idle", "self", "count", "delete", "set"}]
    /\ target \in [Operators -> Targets \cup {None}]
    /\ crossed \in BOOLEAN

\* bootstrapAdmin has run over an empty table.
Init ==
    /\ users = [i \in Ids |-> IF i = 1 THEN Admin ELSE None]
    /\ password = [i \in Ids |-> IF i = 1 THEN Admin ELSE None]
    /\ nextId = 2
    /\ session = [o \in Operators |-> None]
    /\ view = [o \in Operators |-> {}]
    /\ pc = [o \in Operators |-> "idle"]
    /\ target = [o \in Operators |-> None]
    /\ crossed = FALSE

-----------------------------------------------------------------------------
(* The statements of internal/db/users.go; each is atomic.                 *)

\* Mutant: the id of a deleted account is given out again.
InsertUser_ReusesId(n) ==
    /\ ~Taken(n)
    /\ \E i \in Ids \ Live :
          /\ \A j \in Ids \ Live : i <= j
          /\ users' = [users EXCEPT ![i] = n]
          /\ password' = [password EXCEPT ![i] = n]
    /\ nextId' = nextId

\* INSERT: the UNIQUE username decides, the counter gives the id.
InsertUser(n) ==
    /\ ~Taken(n)
    /\ nextId <= MaxId
    /\ users' = [users EXCEPT ![nextId] = n]
    /\ password' = [password EXCEPT ![nextId] = n]
    /\ nextId' = nextId + 1

RemoveUser(i) ==
    /\ users' = [users EXCEPT ![i] = None]
    /\ password' = [password EXCEPT ![i] = None]
    /\ nextId' = nextId

-----------------------------------------------------------------------------
(* Requests.                                                               *)

SignedIn(o) == pc[o] = "idle" /\ session[o] # None

\* loginHandler: the holder of account n knows the password chosen for it.
Login(o, n) ==
    /\ pc[o] = "idle"
    /\ \E i \in Ids : users[i] = n /\ password[i] = n
    /\ session' = [session EXCEPT ![o] = n]
    /\ UNCHANGED <<users, password, nextId, view, pc, target, crossed>>

\* The token expires, or the operator signs out.
Expire(o) ==
    /\ SignedIn(o)
    /\ session' = [session EXCEPT ![o] = None]
    /\ UNCHANGED <<users, password, nextId, view, pc, target, crossed>>

List(o) ==
    /\ SignedIn(o)
    /\ view' = [view EXCEPT ![o] = Listed]
    /\ UNCHANGED <<users, password, nextId, session, pc, target, crossed>>

\* createUserHandler; the last id is kept for a bootstrap, so that the bound
\* never stops the panel.
Create(o, n) ==
    /\ SignedIn(o)
    /\ nextId < MaxId
    /\ InsertUser(n)
    /\ UNCHANGED <<session, view, pc, target, crossed>>

\* A DELETE or a PUT .../password for an entry the operator sees.
Ask(o, e, l) ==
    /\ SignedIn(o)
    /\ e \in view[o]
    /\ pc' = [pc EXCEPT ![o] = l]
    /\ target' = [target EXCEPT ![o] = 
           [id |-> e.id, name |-> e.name, by |-> session[o], checked |-> FALSE]]
    /\ UNCHANGED <<users, password, nextId, session, view, crossed>>

Answer(o) ==
    /\ pc' = [pc EXCEPT ![o] = "idle"]
    /\ target' = [target EXCEPT ![o] = None]
    /\ UNCHANGED <<session, view, crossed>>

\* On to the DELETE, on the strength of a count that others may act on as well.
GoOn(o) ==
    /\ pc' = [pc EXCEPT ![o] = "delete"]
    /\ crossed' = (crossed \/ \E u \in Operators : pc[u] = "delete")
    /\ UNCHANGED <<session, view, target>>

Pass(o, answered) ==
    /\ pc' = [pc EXCEPT ![o] = "count"]
    /\ target' = [target EXCEPT ![o].checked = answered]
    /\ UNCHANGED <<session, view, crossed>>

\* GetUserByUsername(claims.Username): the request is refused when it finds the
\* target; a lookup that finds nothing, or fails (a full disk, a client that hung
\* up), lets it through.
CheckSelf(o) ==
    /\ pc[o] = "self"
    /\ \/ users[target[o].id] = target[o].by /\ Answer(o)
       \/ users[target[o].id] # target[o].by /\ Pass(o, TRUE)
       \/ Pass(o, FALSE)
    /\ UNCHANGED <<users, password, nextId>>

\* Mutant: the last account may go.
CountUsers_OffByOne(o) ==
    /\ pc[o] = "count"
    /\ IF Cardinality(Live) < 1 THEN Answer(o) ELSE GoOn(o)
    /\ UNCHANGED <<users, password, nextId>>

\* count <= 1 refuses (the COUNT itself may fail, which refuses too).
CountUsers(o) ==
    /\ pc[o] = "count"
    /\ \/ Answer(o)
       \/ Cardinality(Live) > 1 /\ GoOn(o)
    /\ UNCHANGED <<users, password, nextId>>

\* DELETE ... WHERE id: no row, 404; a failed statement changes nothing either.
Delete(o) ==
    /\ pc[o] = "delete"
    /\ \/ RemoveUser(target[o].id)
       \/ UNCHANGED <<users, password, nextId>>
    /\ Answer(o)

\* UPDATE ... WHERE id: no row, 404.
SetPassword(o) ==
    /\ pc[o] = "set"
    /\ password' = IF target[o].id \in Live
                     THEN [password EXCEPT ![target[o].id] = target[o].name]
                     ELSE password
    /\ Answer(o)
    /\ UNCHANGED <<users, nextId>>

\* The panel stops and starts: requests in flight are lost, tokens stay valid
\* (the signing key is configured), an empty table gets the admin again.
Restart ==
    /\ IF Live = {} THEN InsertUser(Admin) ELSE UNCHANGED <<users, password, nextId>>
    /\ pc' = [o \in Operators |-> "idle"]
    /\ target' = [o \in Operators |-> None]
    /\ crossed' = FALSE
    /\ UNCHANGED <<session, view>>

-----------------------------------------------------------------------------
Serve(o) ==
    \/ \E n \in Names : Login(o, n) \/ Create(o, n)
    \/ \E e \in Entries : Ask(o, e, "self") \/ Ask(o, e, "set")
    \/ Expire(o) \/ List(o) \/ CheckSelf(o) \/ CountUsers(o) \/ Delete(o) \/ SetPassword(o)

Next == Restart \/ \E o \in Operators : Serve(o)

Spec == Init /\ [][Next]_vars

-----------------------------------------------------------------------------
(* Properties.                                                             *)

\* "Can't delete the last remaining account" (user_handlers.go:27-30): there is
\* always an account, whoever deletes.
LastUserRemains == Live # {}

\* What the count does guarantee: deletes, creates, failed self lookups and
\* restarts leave an account in whatever order, until one request passes its
\* count while another is between its own and its DELETE.
LastUserIsKept == crossed \/ Live # {}

\* "Can't delete yourself" (user_handlers.go:27-30), of the deletes whose self
\* lookup was answered: two statements later the target still is not the
\* account of the session.
CheckedIsNotSelf ==
    [][\A o \in Operators : pc[o] = "delete" /\ Delete(o) /\ target[o].checked
          => \/ users'[target[o].id] = users[target[o].id]
             \/ users[target[o].id] # target[o].by]_vars

\* A request that names an account by the id of a list loaded long ago reaches
\* that account or none, however many were deleted and created meanwhile.
StaleIdIsHarmless ==
    \A o \in Operators :
        pc[o] # "idle" => users[target[o].id] \in {target[o].name, None}

\* So a password change never gives one account the password chosen for another
\* and its holder can always sign in.
HolderCanLogin == \A i \in Live : password[i] = users[i]

\* The table as its users see it.
Registered == {[id |-> i, name |-> users[i], password |-> password[i]] : i \in Live}

Register == INSTANCE AccountRegister
              WITH accounts <- Registered, used <- 1..(nextId - 1), lastIsKept <- ~crossed

\* The requests, in their many statements and with their stale ids, implement
\* AccountRegister, the last account being kept until deletes cross.
ImplementsRegister == Register!RegisterSpec

-----------------------------------------------------------------------------
(* The inductive invariant.                                                *)

\* The UNIQUE constraint.
NamesAreUnique == \A i, j \in Live : users[i] = users[j] => i = j

\* No id from the counter on was ever given out, and an id keeps its name.
IdsInv ==
    /\ \A i \in Live : i < nextId
    /\ \A o \in Operators : \A e \in view[o] :
          e.id < nextId /\ users[e.id] \in {e.name, None}

TargetOK(o) ==
    pc[o] # "idle" =>
        /\ target[o] \in Targets
        /\ target[o].id < nextId
        /\ users[target[o].id] \in {target[o].name, None}

\* Past a self check that was answered, the target is another's.
SelfOK(o) ==
    pc[o] \in {"count", "delete"} /\ target[o].checked => users[target[o].id] # target[o].by

\* Until deletes cross, one at a time is past its count, and nothing else is
\* deleted before its DELETE.
CountOK(o) ==
    ~crossed /\ pc[o] = "delete" =>
        /\ Cardinality(Live) > 1
        /\ \A u \in Operators : pc[u] = "delete" => u = o

AccountsInv ==
    /\ AccountsTypeOK
    /\ IdsInv
    /\ HolderCanLogin
    /\ NamesAreUnique
    /\ \A o \in Operators : TargetOK(o) /\ SelfOK(o) /\ CountOK(o)
    /\ LastUserIsKept

=============================================================================
