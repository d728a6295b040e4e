--------------------------- MODULE AccountsProofs ---------------------------
(***************************************************************************)
(* Proofs about Accounts, for any usernames, operators and number of ids.  *)
(* AccountsInv is inductive; each request is shown to preserve it, one     *)
(* lemma per statement that writes the table.  From it every step is one   *)
(* of AccountRegister or leaves the register alone.                        *)
(***************************************************************************)
EXTENDS Accounts, FiniteSetTheorems, TLAPS

USE AccountsAssumption DEF Ids, Entries, Targets, Live, Registered

\* The table of accounts is finite.
LEMMA LiveFinite == IsFiniteSet(Live)
<1>1. IsFiniteSet(1..MaxId) BY FS_Interval
<1>2. Live \subseteq 1..MaxId OBVIOUS
<1> QED BY <1>1, <1>2, FS_Subset

\* Of two accounts or more, a DELETE leaves one (CountUsers guards Delete).
LEMMA OneIsLeft ==
  ASSUME Cardinality(Live) > 1, NEW i \in Ids
  PROVE  Live \ {i} # {}
<1> SUFFICES ASSUME Live \subseteq {i} PROVE FALSE OBVIOUS
<1>1. IsFiniteSet({i}) /\ Cardinality({i}) = 1 BY FS_Singleton
<1>2. Cardinality(Live) <= 1 BY <1>1, FS_Subset
<1>3. Cardinality(Live) \in Nat BY LiveFinite, FS_CardinalityType
<1> QED BY <1>2, <1>3

\* The invariant holds when bootstrapAdmin has run.
LEMMA InitHolds == Init => AccountsInv
<1> SUFFICES ASSUME Init PROVE AccountsInv OBVIOUS
<1> USE DEF Init
<1>1. AccountsTypeOK
  <2>1. /\ users \in [Ids -> Names \cup {None}] /\ password \in [Ids -> Names \cup {None}]
        /\ nextId \in 1..(MaxId + 1)
    OBVIOUS
  <2>2. /\ session \in [Operators -> Names \cup {None}]
        /\ view \in [Operators -> SUBSET Entries]
        /\ pc \in [Operators -> {"idle", "self", "count", "delete", "set"}]
        /\ target \in [Operators -> Targets \cup {None}]
        /\ crossed \in BOOLEAN
    OBVIOUS
  <2> QED BY <2>1, <2>2 DEF AccountsTypeOK
<1>2. Live = {1} OBVIOUS
<1>3. HolderCanLogin /\ NamesAreUnique /\ LastUserIsKept
  BY <1>2 DEF HolderCanLogin, NamesAreUnique, LastUserIsKept
<1>4. IdsInv BY <1>2 DEF IdsInv
<1>5. \A o \in Operators : TargetOK(o) /\ SelfOK(o) /\ CountOK(o)
  BY DEF TargetOK, SelfOK, CountOK
<1> QED BY <1>1, <1>3, <1>4, <1>5 DEF AccountsInv

\* A step that leaves the table alone preserves all that is about the table.
LEMMA TableStays ==
  ASSUME AccountsInv, AccountsTypeOK', UNCHANGED <<users, password, nextId>>,
         \A o \in Operators : \A e \in view'[o] : e \in view[o] \/ e \in Listed,
         \A o \in Operators :
            TargetOK(o)' /\ SelfOK(o)' /\ CountOK(o)',
         Live # {} \/ (crossed => crossed')
  PROVE  AccountsInv'
<1> USE DEF AccountsInv
<1>1. Live' = Live OBVIOUS
<1>2. HolderCanLogin' /\ NamesAreUnique' BY <1>1 DEF HolderCanLogin, NamesAreUnique
<1>3. \A e \in Listed : e.id < nextId /\ users[e.id] = e.name BY DEF Listed, IdsInv
<1>4. IdsInv' BY <1>1, <1>3 DEF IdsInv
<1>5. LastUserIsKept' BY <1>1 DEF LastUserIsKept
<1> QED BY <1>2, <1>4, <1>5

\* The account that InsertUser adds disturbs nobody: its id is new, its name
\* free, its password its own.  Used for Create and for the bootstrap.
LEMMA InsertKeeps ==
  ASSUME AccountsInv, NEW n \in Names, InsertUser(n), AccountsTypeOK',
         UNCHANGED view,
         \A o \in Operators : pc'[o] # "idle" =>
            pc'[o] = pc[o] /\ target'[o] = target[o],
         ~crossed' => ~crossed \/ \A o \in Operators : pc'[o] = "idle"
  PROVE  AccountsInv'
<1> USE DEF AccountsInv, InsertUser
<1>1. nextId \in Ids /\ nextId' = nextId + 1 /\ users[nextId] = None
  BY DEF IdsInv, AccountsTypeOK
<1>2. /\ users'[nextId] = n
      /\ \A i \in Ids : i # nextId => users'[i] = users[i] /\ password'[i] = password[i]
  BY <1>1 DEF AccountsTypeOK
<1>3. Live' = Live \cup {nextId} BY <1>1, <1>2
<1>4. HolderCanLogin' BY <1>1, <1>2, <1>3 DEF HolderCanLogin, AccountsTypeOK
<1>5. NamesAreUnique' BY <1>1, <1>2, <1>3 DEF NamesAreUnique, Taken
<1>6. IdsInv'
  <2>1. \A i \in Live' : i < nextId' BY <1>1, <1>3 DEF IdsInv
  <2>2. \A o \in Operators : \A e \in view'[o] :
           e.id < nextId' /\ users'[e.id] \in {e.name, None}
    <3> SUFFICES ASSUME NEW o \in Operators, NEW e \in view[o]
                 PROVE  e.id < nextId' /\ users'[e.id] \in {e.name, None}
      OBVIOUS
    <3>1. e \in Entries BY DEF AccountsTypeOK
    <3>2. e.id \in Ids /\ e.id < nextId /\ users[e.id] \in {e.name, None} BY <3>1 DEF IdsInv
    <3> QED BY <1>1, <1>2, <3>2
  <2> QED BY <2>1, <2>2 DEF IdsInv
<1>7. ASSUME NEW o \in Operators PROVE TargetOK(o)' /\ SelfOK(o)'
  <2> SUFFICES ASSUME pc'[o] # "idle" PROVE TargetOK(o)' /\ SelfOK(o)' BY DEF TargetOK, SelfOK
  <2>1. pc'[o] = pc[o] /\ target'[o] = target[o] OBVIOUS
  <2>2. TargetOK(o) /\ SelfOK(o) OBVIOUS
  <2>3. target[o] \in Targets /\ target[o].id < nextId BY <2>1, <2>2 DEF TargetOK
  <2>4. users'[target[o].id] = users[target[o].id] BY <1>1, <1>2, <2>3
  <2> QED BY <1>1, <2>1, <2>2, <2>3, <2>4 DEF TargetOK, SelfOK
<1>8. ASSUME NEW o \in Operators PROVE CountOK(o)'
  <2> SUFFICES ASSUME ~crossed', pc'[o] = "delete" PROVE CountOK(o)' BY DEF CountOK
  <2>1. ~crossed /\ pc[o] = "delete" OBVIOUS
  <2>2. Cardinality(Live) > 1 /\ \A u \in Operators : pc[u] = "delete" => u = o
    BY <2>1 DEF CountOK
  <2>3. IsFiniteSet(Live) /\ nextId \notin Live BY LiveFinite, <1>1
  <2>4. Cardinality(Live') = Cardinality(Live) + 1 BY <1>3, <2>3, FS_AddElement
  <2>5. Cardinality(Live) \in Nat BY <2>3, FS_CardinalityType
  <2> QED BY <2>2, <2>4, <2>5 DEF CountOK
<1>9. LastUserIsKept' BY <1>3 DEF LastUserIsKept
<1> QED BY <1>4, <1>5, <1>6, <1>7, <1>8, <1>9

\* Login, Expire and List touch no request; Ask makes one of a listed entry.
LEMMA SessionKeeps ==
  ASSUME AccountsInv, NEW o \in Operators,
         Expire(o) \/ List(o) \/ \E n \in Names : Login(o, n)
  PROVE  AccountsInv'
<1> USE DEF AccountsInv, Expire, List, Login
<1>1. AccountsTypeOK'
  <2>1. Listed \in SUBSET Entries BY DEF Listed, AccountsTypeOK
  <2> HIDE DEF Listed
  <2> QED BY <2>1 DEF AccountsTypeOK
<1>2. UNCHANGED <<users, password, nextId, pc, target, crossed>> OBVIOUS
<1>3. \A u \in Operators : \A e \in view'[u] : e \in view[u] \/ e \in Listed
  BY DEF AccountsTypeOK
<1>4. \A u \in Operators : TargetOK(u)' /\ SelfOK(u)' /\ CountOK(u)'
  BY <1>2 DEF TargetOK, SelfOK, CountOK
<1> QED BY <1>1, <1>2, <1>3, <1>4, TableStays

\* A request is made of an entry of the operator's list, so TargetOK holds of it.
LEMMA AskKeeps ==
  ASSUME AccountsInv, NEW o \in Operators, NEW e \in Entries, NEW l \in {"self", "set"},
         Ask(o, e, l)
  PROVE  AccountsInv'
<1> USE DEF AccountsInv, Ask
<1> DEFINE T == [id |-> e.id, name |-> e.name, by |-> session[o], checked |-> FALSE]
<1>1. T \in Targets /\ target' = [target EXCEPT ![o] = T]
  BY DEF SignedIn, AccountsTypeOK
<1>2. AccountsTypeOK' BY <1>1 DEF AccountsTypeOK
<1>3. ASSUME NEW u \in Operators
      PROVE  TargetOK(u)' /\ SelfOK(u)' /\ CountOK(u)'
  <2>1. CASE u = o
    <3>1. target'[u] = T /\ T.checked = FALSE /\ pc'[u] = l BY <1>1, <2>1 DEF AccountsTypeOK
    <3>2. e.id < nextId /\ users[e.id] \in {e.name, None} BY DEF IdsInv
    <3> HIDE DEF T
    <3>3. T.id = e.id /\ T.name = e.name BY DEF T
    <3> QED BY <1>1, <3>1, <3>2, <3>3 DEF TargetOK, SelfOK, CountOK
  <2>2. CASE u # o
    <3>1. target'[u] = target[u] /\ pc'[u] = pc[u] BY <1>1, <2>2 DEF AccountsTypeOK
    <3>2. \A v \in Operators : pc'[v] = "delete" => pc[v] = "delete" BY DEF AccountsTypeOK
    <3> QED BY <3>1, <3>2 DEF TargetOK, SelfOK, CountOK
  <2> QED BY <2>1, <2>2
<1> QED BY <1>2, <1>3, TableStays

\* The self check of a delete: what SelfOK remembers.
LEMMA CheckSelfKeeps ==
  ASSUME AccountsInv, NEW o \in Operators, CheckSelf(o)
  PROVE  AccountsInv'
<1> USE DEF AccountsInv, CheckSelf
<1>1. /\ pc[o] = "self" /\ TargetOK(o) /\ SelfOK(o)
      /\ target[o] \in Targets /\ target \in [Operators -> Targets \cup {None}]
      /\ pc \in [Operators -> {"idle", "self", "count", "delete", "set"}]
  BY DEF TargetOK, AccountsTypeOK
<1>2. CASE Answer(o)
  <2>1. AccountsTypeOK' BY <1>2 DEF AccountsTypeOK, Answer
  <2>2. \A u \in Operators : TargetOK(u)' /\ SelfOK(u)' /\ CountOK(u)'
    BY <1>1, <1>2 DEF Answer, TargetOK, SelfOK, CountOK
  <2> QED BY <1>2, <2>1, <2>2, TableStays DEF Answer
<1>3. ASSUME NEW b \in BOOLEAN, Pass(o, b), b => users[target[o].id] # target[o].by
      PROVE  AccountsInv'
  <2> DEFINE T == [target[o] EXCEPT !.checked = b]
  <2>1. /\ T \in Targets /\ T.checked = b
        /\ T.id = target[o].id /\ T.name = target[o].name /\ T.by = target[o].by
    BY <1>1 DEF Targets
  <2>2. target' = [target EXCEPT ![o] = T] /\ pc' = [pc EXCEPT ![o] = "count"]
    BY <1>3 DEF Pass
  <2> HIDE DEF T
  <2>3. AccountsTypeOK'
    <3>1. /\ target' \in [Operators -> Targets \cup {None}]
          /\ pc' \in [Operators -> {"idle", "self", "count", "delete", "set"}]
      BY <1>1, <2>1, <2>2
    <3>2. UNCHANGED <<users, password, nextId, session, view, crossed>> BY <1>3 DEF Pass
    <3> QED BY <3>1, <3>2 DEF AccountsTypeOK
  <2>4. ASSUME NEW u \in Operators
        PROVE  TargetOK(u)' /\ SelfOK(u)' /\ CountOK(u)'
    <3>1. CASE u = o
      <4>1. target'[u] = T /\ pc'[u] = "count" BY <1>1, <2>2, <3>1
      <4>2. T.id < nextId /\ users[T.id] \in {T.name, None} BY <1>1, <2>1 DEF TargetOK
      <4> QED BY <1>3, <2>1, <3>1, <4>1, <4>2 DEF TargetOK, SelfOK, CountOK
    <3>2. CASE u # o
      <4>1. target'[u] = target[u] /\ pc'[u] = pc[u] BY <1>1, <2>2, <3>2
      <4>2. /\ \A v \in Operators : pc'[v] = "delete" => pc[v] = "delete"
            /\ crossed' = crossed
        BY <1>1, <1>3, <2>2 DEF Pass
      <4>3. TargetOK(u) /\ SelfOK(u) /\ CountOK(u) /\ UNCHANGED <<users, nextId>>
        BY <1>3
      <4>4. TargetOK(u)' /\ SelfOK(u)' BY <4>1, <4>3 DEF TargetOK, SelfOK
      <4> QED BY <4>1, <4>2, <4>3, <4>4 DEF CountOK
    <3> QED BY <3>1, <3>2
  <2> QED BY <1>3, <2>3, <2>4, TableStays DEF Pass
<1>4. \/ Answer(o)
      \/ \E b \in BOOLEAN : Pass(o, b) /\ (b => users[target[o].id] # target[o].by)
  OBVIOUS
<1> QED BY <1>2, <1>3, <1>4

\* The COUNT of a delete: what CountOK remembers.
LEMMA CountUsersKeeps ==
  ASSUME AccountsInv, NEW o \in Operators, CountUsers(o)
  PROVE  AccountsInv'
<1> USE DEF AccountsInv, CountUsers, Answer, GoOn
<1>1. AccountsTypeOK' BY DEF AccountsTypeOK
<1>2. Live' = Live OBVIOUS
<1>3. ASSUME NEW u \in Operators PROVE TargetOK(u)' /\ SelfOK(u)'
  <2>1. TargetOK(u) /\ SelfOK(u) /\ pc[o] = "count" OBVIOUS
  <2>2. CASE u = o
    <3>1. \/ pc'[u] = "idle"
          \/ pc'[u] = "delete" /\ target'[u] = target[u]
      BY <2>2 DEF AccountsTypeOK
    <3> QED BY <2>1, <2>2, <3>1 DEF TargetOK, SelfOK
  <2>3. CASE u # o
    <3>1. target'[u] = target[u] /\ pc'[u] = pc[u] BY <2>3 DEF AccountsTypeOK
    <3> QED BY <2>1, <3>1 DEF TargetOK, SelfOK
  <2> QED BY <2>2, <2>3
<1>4. ASSUME NEW u \in Operators PROVE CountOK(u)'
  <2>1. CASE Answer(o)
    <3>1. \A v \in Operators : pc'[v] = "delete" => pc[v] = "delete"
      BY <2>1 DEF AccountsTypeOK
    <3> QED BY <1>2, <2>1, <3>1 DEF CountOK
  <2>2. CASE Cardinality(Live) > 1 /\ GoOn(o)
    <3>1. \A v \in Operators : v # o => pc'[v] = pc[v] BY <2>2 DEF AccountsTypeOK
    <3> QED BY <1>2, <2>2, <3>1 DEF CountOK
  <2> QED BY <2>1, <2>2
<1>5. crossed => crossed' OBVIOUS
<1>6. UNCHANGED <<users, password, nextId, view>> OBVIOUS
<1> QED BY <1>1, <1>3, <1>4, <1>5, <1>6, TableStays

\* A DELETE takes one account away and leaves another, if nobody deletes meanwhile.
LEMMA DeleteKeeps ==
  ASSUME AccountsInv, NEW o \in Operators, Delete(o)
  PROVE  AccountsInv'
<1> USE DEF AccountsInv, Delete, Answer
<1> DEFINE i == target[o].id
<1>1. i \in Ids BY DEF TargetOK
<1>2. AccountsTypeOK' BY DEF AccountsTypeOK, RemoveUser
<1>3. nextId' = nextId /\ view' = view BY DEF RemoveUser
<1>4. /\ \A j \in Ids : users'[j] \in {users[j], None}
      /\ \A j \in Live' : users'[j] = users[j] /\ password'[j] = password[j]
      /\ Live' \subseteq Live
      /\ Live \ {i} \subseteq Live'
  BY <1>1 DEF RemoveUser, AccountsTypeOK
<1>5. HolderCanLogin' /\ NamesAreUnique' BY <1>4 DEF HolderCanLogin, NamesAreUnique
<1>6. ASSUME NEW u \in Operators, NEW e \in view'[u]
      PROVE  e.id < nextId' /\ users'[e.id] \in {e.name, None}
  <2>1. e \in Entries BY <1>3 DEF AccountsTypeOK
  <2>2. e.id < nextId /\ users[e.id] \in {e.name, None} BY <1>3 DEF IdsInv
  <2>3. users'[e.id] \in {users[e.id], None} BY <1>4, <2>1
  <2> QED BY <1>3, <2>2, <2>3
<1>7. IdsInv' BY <1>3, <1>4, <1>6 DEF IdsInv
<1>8. pc'[o] = "idle" BY DEF AccountsTypeOK
<1>9. ASSUME NEW u \in Operators, u # o PROVE pc'[u] = pc[u] /\ target'[u] = target[u]
  BY <1>9 DEF AccountsTypeOK
<1>10. ASSUME NEW u \in Operators PROVE TargetOK(u)' /\ SelfOK(u)'
  <2>1. CASE u = o BY <1>8, <2>1 DEF TargetOK, SelfOK
  <2>2. CASE u # o
    <3> SUFFICES ASSUME pc[u] # "idle" PROVE TargetOK(u)' /\ SelfOK(u)'
      BY <1>9, <2>2 DEF TargetOK, SelfOK
    <3>1. TargetOK(u) /\ SelfOK(u) OBVIOUS
    <3>2. target[u].id \in Ids /\ target[u].by \in Names BY <3>1 DEF TargetOK
    <3>3. users'[target[u].id] \in {users[target[u].id], None} BY <1>4, <3>2
    <3> QED BY <1>3, <1>9, <2>2, <3>1, <3>2, <3>3 DEF TargetOK, SelfOK
  <2> QED BY <2>1, <2>2
<1>11. ASSUME ~crossed PROVE Live' # {} /\ \A u \in Operators : pc'[u] # "delete"
  <2>1. Cardinality(Live) > 1 /\ \A u \in Operators : pc[u] = "delete" => u = o
    BY <1>11 DEF CountOK
  <2>2. Live' # {} BY <1>1, <1>4, <2>1, OneIsLeft
  <2> QED BY <1>8, <1>9, <2>1, <2>2
<1>12. LastUserIsKept' /\ \A u \in Operators : CountOK(u)'
  BY <1>11 DEF LastUserIsKept, CountOK
<1> QED BY <1>2, <1>5, <1>7, <1>10, <1>12

\* A password lands on the account it was chosen for: ids keep their names.
LEMMA SetPasswordKeeps ==
  ASSUME AccountsInv, NEW o \in Operators, SetPassword(o)
  PROVE  AccountsInv'
<1> USE DEF AccountsInv, SetPassword, Answer
<1>1. TargetOK(o) /\ pc[o] = "set" OBVIOUS
<1>2. target[o] \in Targets /\ users[target[o].id] \in {target[o].name, None}
  BY <1>1 DEF TargetOK
<1>3. AccountsTypeOK' BY <1>2 DEF AccountsTypeOK
<1>4. Live' = Live /\ NamesAreUnique' BY DEF NamesAreUnique
<1>5. HolderCanLogin' BY <1>2, <1>4 DEF HolderCanLogin, AccountsTypeOK
<1>6. IdsInv' BY <1>4 DEF IdsInv
<1>7. pc'[o] = "idle" BY DEF AccountsTypeOK
<1>8. ASSUME NEW u \in Operators PROVE TargetOK(u)' /\ SelfOK(u)' /\ CountOK(u)'
  <2>1. CASE u = o BY <1>7, <2>1 DEF TargetOK, SelfOK, CountOK
  <2>2. CASE u # o
    <3>1. pc'[u] = pc[u] /\ target'[u] = target[u] BY <2>2 DEF AccountsTypeOK
    <3>2. \A v \in Operators : pc'[v] = "delete" => pc[v] = "delete" BY DEF AccountsTypeOK
    <3> QED BY <1>4, <3>1, <3>2 DEF TargetOK, SelfOK, CountOK
  <2> QED BY <2>1, <2>2
<1>9. LastUserIsKept' BY <1>4 DEF LastUserIsKept
<1> QED BY <1>3, <1>4, <1>5, <1>6, <1>8, <1>9

\* A restart ends every request, and bootstraps only an empty table.
LEMMA RestartKeeps ==
  ASSUME AccountsInv, Restart
  PROVE  AccountsInv'
<1> USE DEF AccountsInv, Restart
<1>1. \A o \in Operators : pc'[o] = "idle" OBVIOUS
<1>2. CASE Live = {}
  <2>1. InsertUser(Admin) /\ UNCHANGED view BY <1>2
  <2>2. /\ users' \in [Ids -> Names \cup {None}]
        /\ password' \in [Ids -> Names \cup {None}]
        /\ nextId' \in 1..(MaxId + 1)
    BY <2>1 DEF AccountsTypeOK, InsertUser
  <2>3. /\ pc' \in [Operators -> {"idle", "self", "count", "delete", "set"}]
        /\ target' \in [Operators -> Targets \cup {None}]
        /\ UNCHANGED <<session, view>>
    OBVIOUS
  <2>4. AccountsTypeOK' BY <2>2, <2>3 DEF AccountsTypeOK
  <2> QED BY <1>1, <2>1, <2>4, InsertKeeps
<1>3. CASE Live # {}
  <2>1. UNCHANGED <<users, password, nextId, view>> BY <1>3
  <2>2. AccountsTypeOK' BY <2>1 DEF AccountsTypeOK
  <2>3. \A o \in Operators : TargetOK(o)' /\ SelfOK(o)' /\ CountOK(o)'
    BY <1>1 DEF TargetOK, SelfOK, CountOK
  <2> QED BY <1>3, <2>1, <2>2, <2>3, TableStays
<1> QED BY <1>2, <1>3

\* A create is InsertUser and nothing else.
LEMMA CreateKeeps ==
  ASSUME AccountsInv, NEW o \in Operators, NEW n \in Names, Create(o, n)
  PROVE  AccountsInv'
<1> USE DEF AccountsInv, Create
<1>1. AccountsTypeOK' BY DEF AccountsTypeOK, InsertUser
<1> QED BY <1>1, InsertKeeps

\* Every step preserves the invariant.
LEMMA NextKeeps == AccountsInv /\ [Next]_vars => AccountsInv'
<1> SUFFICES ASSUME AccountsInv, [Next]_vars PROVE AccountsInv' OBVIOUS
<1>1. CASE Restart BY <1>1, RestartKeeps
<1>2. ASSUME NEW o \in Operators, Serve(o) PROVE AccountsInv'
  BY <1>2, SessionKeeps, AskKeeps, CreateKeeps, CheckSelfKeeps, CountUsersKeeps,
     DeleteKeeps, SetPasswordKeeps DEF Serve
<1>3. CASE UNCHANGED vars
  BY <1>3, TableStays DEF vars, AccountsInv, AccountsTypeOK, TargetOK, SelfOK, CountOK
<1> QED BY <1>1, <1>2, <1>3 DEF Next

-----------------------------------------------------------------------------
\* The inductive invariant holds for any usernames, operators and bound on ids.
THEOREM AccountsInvariance == Spec => []AccountsInv
<1> QED BY InitHolds, NextKeeps, PTL DEF Spec

\* Type correctness of the table, the sessions and the requests.
THEOREM AccountsTypeCorrect == Spec => []AccountsTypeOK
<1>1. AccountsInv => AccountsTypeOK BY DEF AccountsInv
<1> QED BY <1>1, AccountsInvariance, PTL

\* Until two deletes cross between count and DELETE there is an account, whoever
\* deletes and creates, even when self lookups fail and however often the panel
\* restarts: the two statements are the only way to lose the last one.
THEOREM LastUser == Spec => []LastUserIsKept
<1>1. AccountsInv => LastUserIsKept BY DEF AccountsInv
<1> QED BY <1>1, AccountsInvariance, PTL

\* An id from a list loaded long ago names its account or none: any number of
\* operators may delete and create accounts in between.
THEOREM StaleIds == Spec => []StaleIdIsHarmless
<1>1. AccountsInv => StaleIdIsHarmless BY DEF AccountsInv, TargetOK, StaleIdIsHarmless
<1> QED BY <1>1, AccountsInvariance, PTL

\* No password change ever locks the holder of another account out.
THEOREM HoldersLogin == Spec => []HolderCanLogin
<1>1. AccountsInv => HolderCanLogin BY DEF AccountsInv
<1> QED BY <1>1, AccountsInvariance, PTL

\* A delete whose self lookup was answered does not remove the account of its own
\* session.
THEOREM NoSelf == Spec => CheckedIsNotSelf
<1>1. ASSUME AccountsInv, NEW o \in Operators, pc[o] = "delete", target[o].checked
      PROVE  users[target[o].id] # target[o].by
  BY <1>1 DEF AccountsInv, SelfOK
<1>2. AccountsInv => \A o \in Operators : pc[o] = "delete" /\ target[o].checked => users[target[o].id] # target[o].by
  BY <1>1
<1>3. AccountsInv /\ [Next]_vars =>
        [\A o \in Operators : pc[o] = "delete" /\ Delete(o) /\ target[o].checked
          => \/ users'[target[o].id] = users[target[o].id]
             \/ users[target[o].id] # target[o].by]_vars
  BY <1>2
<1> QED BY <1>3, AccountsInvariance, PTL DEF Spec, CheckedIsNotSelf

-----------------------------------------------------------------------------
(* The table implements AccountRegister.                                   *)

\* The bootstrapped table is a register with one account.
LEMMA InitRegisters == Init => Register!RegisterInit
<1> SUFFICES ASSUME Init PROVE Register!RegisterInit OBVIOUS
<1> USE DEF Init
<1>1. 1 \in Ids /\ Admin \in Names /\ users[1] = Admin /\ password[1] = Admin OBVIOUS
<1>2. Live = {1} OBVIOUS
<1>3. Registered = {Register!Account(1, Admin)}
  <2> HIDE DEF Live
  <2> QED BY <1>1, <1>2 DEF Register!Account
<1>4. 1..(nextId - 1) = {1} OBVIOUS
<1> QED BY <1>1, <1>3, <1>4 DEF Register!RegisterInit

\* An INSERT opens an account.
LEMMA InsertOpens ==
  ASSUME AccountsInv, NEW n \in Names, InsertUser(n)
  PROVE  Register!Open(nextId, n) /\ nextId \in Ids
<1> USE DEF InsertUser
<1>1. /\ nextId \in Ids /\ users \in [Ids -> Names \cup {None}]
      /\ password \in [Ids -> Names \cup {None}] /\ n # None
  BY DEF AccountsInv, AccountsTypeOK
<1>2. \A i \in Live : i < nextId BY DEF AccountsInv, IdsInv
<1>3. users'[nextId] = n /\ password'[nextId] = n BY <1>1
<1>4. \A i \in Ids : i # nextId => users'[i] = users[i] /\ password'[i] = password[i]
  BY <1>1
<1>5. Live' = Live \cup {nextId} BY <1>1, <1>3, <1>4
<1>6. Registered' = Registered \cup {Register!Account(nextId, n)}
  <2>1. Live \subseteq Ids /\ nextId \notin Live BY <1>1, <1>2
  <2> HIDE DEF Live
  <2> QED BY <1>3, <1>4, <1>5, <2>1 DEF Register!Account
<1>7. \A a \in Registered : a.name # n BY DEF Taken
<1>8. 1..(nextId' - 1) = (1..(nextId - 1)) \cup {nextId} /\ nextId \notin 1..(nextId - 1) BY <1>1
<1> QED BY <1>1, <1>6, <1>7, <1>8 DEF Register!Open

\* A DELETE closes the account of its id, if there is one.
LEMMA RemoveCloses ==
  ASSUME AccountsInv, NEW i \in Ids, RemoveUser(i), ~crossed => Cardinality(Live) > 1,
         crossed' = crossed
  PROVE  \/ \E a \in Registered : Register!Close(a)
         \/ UNCHANGED <<Registered, 1..(nextId - 1), ~crossed>>
<1> USE DEF RemoveUser
<1>1. /\ users \in [Ids -> Names \cup {None}] /\ password \in [Ids -> Names \cup {None}]
      /\ UNCHANGED nextId
  BY DEF AccountsInv, AccountsTypeOK
<1>2. \A j \in Ids : j # i => users'[j] = users[j] /\ password'[j] = password[j] BY <1>1
<1>3. Live' = Live \ {i} BY <1>1
<1>4. ~crossed => Live \ {i} # {} BY OneIsLeft
<1>5. Live \subseteq Ids OBVIOUS
<1> HIDE DEF Live
<1> DEFINE A == [id |-> i, name |-> users[i], password |-> password[i]]
<1>6. Registered' = Registered \ {A} BY <1>2, <1>3, <1>5
<1>7. CASE i \in Live
  <2>1. A \in Registered BY <1>7
  <2>2. ~crossed => Registered # {A}
    <3> SUFFICES ASSUME ~crossed, Registered = {A} PROVE FALSE OBVIOUS
    <3>1. PICK j \in Live : j # i BY <1>4
    <3>2. [id |-> j, name |-> users[j], password |-> password[j]] \in Registered BY <3>1
    <3> QED BY <3>1, <3>2
  <2> HIDE DEF A, Registered
  <2> QED BY <1>1, <1>6, <2>1, <2>2 DEF Register!Close
<1>8. CASE i \notin Live
  <2>1. Registered' = Registered BY <1>2, <1>3, <1>5, <1>8
  <2> QED BY <1>1, <2>1
<1> QED BY <1>7, <1>8

\* A new password is the one its account has: its holder knows it.
LEMMA SetRegisters ==
  ASSUME AccountsInv, NEW o \in Operators, SetPassword(o)
  PROVE  UNCHANGED <<Registered, 1..(nextId - 1), ~crossed>>
<1> USE DEF SetPassword
<1>1. /\ target[o].id \in Ids /\ users[target[o].id] \in {target[o].name, None}
      /\ password \in [Ids -> Names \cup {None}]
  BY DEF AccountsInv, AccountsTypeOK, TargetOK
<1>2. \A i \in Live : password[i] = users[i] BY DEF AccountsInv, HolderCanLogin
<1>3. \A i \in Live : password'[i] = password[i] BY <1>1, <1>2
<1>4. Live' = Live /\ users' = users /\ nextId' = nextId /\ crossed' = crossed
  BY DEF Answer
<1> HIDE DEF Live
<1> QED BY <1>3, <1>4

\* Every step opens an account, closes one or leaves the register alone.
LEMMA StepRegisters ==
  ASSUME AccountsInv, [Next]_vars
  PROVE  [Register!RegisterNext]_Register!regVars
<1> DEFINE Stays == UNCHANGED <<Registered, 1..(nextId - 1), ~crossed>>
<1>1. UNCHANGED <<users, password, nextId>> => UNCHANGED <<Registered, 1..(nextId - 1)>>
  OBVIOUS
<1>2. ASSUME UNCHANGED <<users, password, nextId>>, crossed' \in {crossed, TRUE}, crossed \in BOOLEAN
      PROVE  Stays \/ Register!RegisterNext
  <2>1. crossed' = crossed \/ (~crossed)' = FALSE BY <1>2
  <2> QED BY <1>1, <1>2, <2>1 DEF Register!RegisterNext, Register!Cross
<1>3. ASSUME NEW o \in Operators, Serve(o) PROVE Stays \/ Register!RegisterNext
  <2>1. CASE Delete(o)
    <3>1. /\ target[o].id \in Ids /\ (~crossed => Cardinality(Live) > 1)
          /\ crossed' = crossed
      BY <2>1 DEF Delete, Answer, AccountsInv, TargetOK, CountOK
    <3>2. CASE RemoveUser(target[o].id)
      BY <3>1, <3>2, RemoveCloses DEF Register!RegisterNext
    <3> QED BY <1>1, <2>1, <3>1, <3>2 DEF Delete
  <2>2. CASE SetPassword(o) BY <2>2, SetRegisters
  <2>3. CASE \E n \in Names : Create(o, n)
    <3>1. PICK n \in Names : InsertUser(n) /\ crossed' = crossed BY <2>3 DEF Create
    <3> QED BY <3>1, InsertOpens DEF Register!RegisterNext
  <2>4. CASE \/ \E n \in Names : Login(o, n)
             \/ \E e \in Entries : Ask(o, e, "self") \/ Ask(o, e, "set")
             \/ Expire(o) \/ List(o) \/ CheckSelf(o) \/ CountUsers(o)
    <3>1. UNCHANGED <<users, password, nextId>>
      BY <2>4 DEF Login, Ask, Expire, List, CheckSelf, CountUsers
    <3>2. crossed \in BOOLEAN /\ crossed' \in {crossed, TRUE}
      BY <2>4 DEF Login, Ask, Expire, List, CheckSelf, CountUsers, Answer, Pass, GoOn,
                  AccountsInv, AccountsTypeOK
    <3> QED BY <1>2, <3>1, <3>2
  <2> QED BY <1>3, <2>1, <2>2, <2>3, <2>4 DEF Serve
<1>4. ASSUME Restart PROVE Register!Reboot
  <2>1. crossed' = FALSE BY <1>4 DEF Restart
  <2>2. CASE Live = {}
    <3>1. InsertUser(Admin) BY <1>4, <2>2 DEF Restart
    <3>2. Registered = {} BY <2>2
    <3> QED BY <2>1, <3>1, <3>2, InsertOpens DEF Register!Reboot
  <2>3. CASE Live # {}
    <3>1. UNCHANGED <<Registered, 1..(nextId - 1)>> BY <1>1, <1>4, <2>3 DEF Restart
    <3>2. Registered # {}
      <4>1. PICK i \in Live : TRUE BY <2>3
      <4>2. [id |-> i, name |-> users[i], password |-> password[i]] \in Registered BY <4>1
      <4> QED BY <4>2
    <3> QED BY <2>1, <3>1, <3>2 DEF Register!Reboot
  <2> QED BY <2>2, <2>3
<1>5. ASSUME UNCHANGED vars PROVE Stays BY <1>1, <1>5 DEF vars
<1> HIDE DEF Stays
<1>6. Stays \/ Register!RegisterNext BY <1>3, <1>4, <1>5 DEF Next, Register!RegisterNext
<1> QED BY <1>6 DEF Stays, Register!regVars

\* The users table implements AccountRegister: whatever overlaps and fails, ids
\* are not reused, names and passwords stay with their account and, until deletes
\* cross, the last account is not closed.
THEOREM AccountsImplementation == Spec => ImplementsRegister
<1>1. AccountsInv /\ [Next]_vars => [Register!RegisterNext]_Register!regVars
  BY StepRegisters
<1> QED BY <1>1, InitRegisters, AccountsInvariance, PTL
    DEF Spec, ImplementsRegister, Register!RegisterSpec

=============================================================================
