--------------------------- MODULE SessionProofs ----------------------------
(***************************************************************************)
(* Proofs about Session for any users, tabs and bounds.  SessionInv says   *)
(* that the stored name is the one of the stored token, and that no answer *)
(* under way is older than what its tab was told.                          *)
(***************************************************************************)
EXTENDS Session, TLAPS

USE SessionAssumption

\* None is no version and no token.
LEMMA NoneApart == None \notin Versions /\ None \notin Tokens
BY DEF Versions, Tokens

\* Requests are typed, and a new one has no answer.
LEMMA CallFits ==
  ASSUME SessionTypeOK
  PROVE  Call \in Calls /\ Call.version = None
BY DEF SessionTypeOK, Call, Calls

\* A request is no None.
LEMMA CallIsSome == \A c \in Calls : c # None /\ c.version \in Versions \cup {None}
BY DEF Calls

\* Nobody is signed in at first.
LEMMA SessionInitHolds == Init => SessionInv
<1> SUFFICES ASSUME Init PROVE SessionInv OBVIOUS
<1>1. SessionTypeOK BY DEF Init, SessionTypeOK, Versions
<1>2. ListOK BY DEF Init, ListOK
<1> QED BY <1>1, <1>2 DEF SessionInv

\* A page that is loaded knows nothing but what is stored.
LEMMA LoadedKeeps ==
  ASSUME SessionInv, NEW t \in Tabs, NEW p \in {"login", "app"}, Loaded(t, p)
  PROVE  SessionInv'
<1> USE DEF SessionInv, Loaded, storage
<1>1. storedName \in Users \cup {None} BY DEF SessionTypeOK
<1>2. SessionTypeOK' BY <1>1 DEF SessionTypeOK, Versions
<1>3. ListOK' BY DEF SessionTypeOK, ListOK, Versions
<1> QED BY <1>2, <1>3

\* Login stores a token with its name.
LEMMA SignedInKeeps ==
  ASSUME SessionInv, NEW t \in Tabs, SignedIn(t)
  PROVE  SessionInv'
<1> USE DEF SessionInv, SignedIn
<1>1. PICK n \in Tokens, u \in Users :
        Signed(n, u) /\ stored' = n /\ storedName' = u /\ Greets(t, u)
  OBVIOUS
<1>2. SessionTypeOK'
  <2>1. owner' \in [Tokens -> Users \cup {None}] /\ owner'[n] = u
    BY <1>1 DEF Signed, SessionTypeOK
  <2>2. name' \in [Tabs -> Users \cup {None}] BY <1>1 DEF Greets, SessionTypeOK
  <2>3. page' \in [Tabs -> {"login", "app", "users", "leaving"}] BY DEF SessionTypeOK
  <2> QED BY <1>1, <2>1, <2>2, <2>3, NoneApart DEF SessionTypeOK, requests, cache
<1>3. ListOK' BY DEF SessionTypeOK, ListOK, requests, cache
<1> QED BY <1>2, <1>3

\* Logout, polling and refused changes touch no list.
LEMMA StorageKeeps ==
  ASSUME SessionInv, NEW t \in Tabs,
         \/ SignOut(t) \/ Polls(t) \/ Polled(t) \/ PollFails(t)
         \/ \E c \in changes[t] : ChangeFails(t, c) \/ ChangeDenied(t, c)
  PROVE  SessionInv'
<1> USE DEF SessionInv
<1> DEFINE Ends == \E c \in changes[t] : ChangeFails(t, c) \/ ChangeDenied(t, c)
<1>1. /\ UNCHANGED <<owner, accounts, fetch, list, failed, told>>
      /\ changes' = changes \/ \E c \in changes[t] : changes' = [changes EXCEPT ![t] = @ \ {c}]
  <2>1. CASE Ends BY <2>1 DEF ChangeFails, ChangeDenied, cache
  <2>2. CASE ~Ends BY <2>2 DEF SignOut, Polls, Polled, PollFails, requests, cache
  <2> QED BY <2>1, <2>2
<1>2. \/ UNCHANGED storage
      \/ stored' = None /\ storedName' = None
  BY DEF SignOut, Polls, Polled, PollFails, ChangeFails, ChangeDenied, Denied, ClearSession, storage
<1>3. \/ page' = page
      \/ page' = [page EXCEPT ![t] = "leaving"]
      \/ page' = [page EXCEPT ![t] = "login"] /\ InApp(t)
  <2>1. CASE Ends BY <2>1 DEF ChangeFails, ChangeDenied, Denied
  <2>2. CASE SignOut(t) BY <2>2 DEF SignOut
  <2>3. CASE Polls(t) \/ PollFails(t) BY <2>3 DEF Polls, PollFails
  <2>4. CASE Polled(t) BY <2>4 DEF Polled, Denied
  <2> QED BY <2>1, <2>2, <2>3, <2>4
<1>4. poll' \in [Tabs -> Calls \cup {None}]
  BY CallFits DEF SignOut, Polls, Polled, PollFails, ChangeFails, ChangeDenied, requests,
                  SessionTypeOK
<1>5. name' \in [Tabs -> Users \cup {None}] /\ expired' \subseteq Tokens
  BY DEF SignOut, Polls, Polled, PollFails, ChangeFails, ChangeDenied, SessionTypeOK
<1>6. changes' \in [Tabs -> SUBSET Calls] /\ \A u \in Tabs : changes'[u] \subseteq changes[u]
  BY <1>1 DEF SessionTypeOK
<1>7. SessionTypeOK'
  <2>1. page' \in [Tabs -> {"login", "app", "users", "leaving"}] BY <1>3 DEF SessionTypeOK
  <2>2. storedName' = IF stored' = None THEN None ELSE owner[stored'] BY <1>2 DEF SessionTypeOK, storage
  <2>3. stored' \in Tokens \cup {None} BY <1>2 DEF SessionTypeOK, storage
  <2> QED BY <1>1, <1>4, <1>5, <1>6, <2>1, <2>2, <2>3 DEF SessionTypeOK
<1>8. ListOK' BY <1>1, <1>3, <1>6 DEF ListOK, SessionTypeOK, InApp
<1> QED BY <1>7, <1>8

\* A tab that shows the list asks for it, and hears no older one.
LEMMA ListsKeep ==
  ASSUME SessionInv, NEW t \in Tabs, Turn(t) \/ Refocus(t) \/ ReadsUsers(t) \/ Fetched(t) \/ FetchFails(t)
  PROVE  SessionInv'
<1> USE DEF SessionInv
<1>0. Call \in Calls /\ Call.version = None /\ Call # None
  BY CallFits, SessionAssumption
<1>1. CASE Turn(t)
  <2> USE <1>1 DEF Turn, storage, cache
  <2>1. fetch' \in [Tabs -> Calls \cup {None}] BY <1>0 DEF SessionTypeOK
  <2>2. page' \in [Tabs -> {"login", "app", "users", "leaving"}] BY DEF SessionTypeOK
  <2>3. SessionTypeOK' BY <2>1, <2>2 DEF SessionTypeOK
  <2>4. ListOK' BY <1>0 DEF ListOK, SessionTypeOK, InApp
  <2> QED BY <2>3, <2>4
<1>2. CASE ReadsUsers(t)
  <2> USE <1>2 DEF ReadsUsers, storage, cache
  <2> DEFINE read == [token |-> None, version |-> accounts]
  <2>1. read \in Calls /\ accounts \in Versions BY DEF Calls, SessionTypeOK
  <2>2. fetch' = [fetch EXCEPT ![t] = read] /\ read.version = accounts OBVIOUS
  <2> HIDE DEF read
  <2>3. fetch' \in [Tabs -> Calls \cup {None}] BY <2>1, <2>2 DEF SessionTypeOK
  <2>4. SessionTypeOK' BY <2>3 DEF SessionTypeOK
  <2>5. ASSUME NEW u \in Tabs, u # t PROVE fetch'[u] = fetch[u] BY <2>2, <2>5 DEF SessionTypeOK
  <2>6. fetch'[t] = read /\ told[t] <= accounts BY <2>2 DEF SessionTypeOK, ListOK
  <2>7. accounts >= told[t] BY <2>1, <2>6 DEF SessionTypeOK, Versions
  <2>8. ListOK' BY <2>1, <2>2, <2>5, <2>6, <2>7, CallIsSome DEF ListOK
  <2> QED BY <2>4, <2>8
<1>3. CASE Fetched(t)
  <2> USE <1>3 DEF Fetched
  <2>1. fetch[t] \in Calls /\ fetch[t].version \in Versions \cup {None}
    BY CallIsSome DEF SessionTypeOK
  <2>2. fetch' \in [Tabs -> Calls \cup {None}] BY DEF SessionTypeOK
  <2>3. list' \in [Tabs -> Versions \cup {None}] BY <2>1 DEF SessionTypeOK
  <2>4. /\ page' \in [Tabs -> {"login", "app", "users", "leaving"}]
        /\ stored' \in Tokens \cup {None}
        /\ storedName' = IF stored' = None THEN None ELSE owner[stored']
    BY DEF SessionTypeOK, Denied, ClearSession, storage
  <2>5. SessionTypeOK' BY <2>2, <2>3, <2>4 DEF SessionTypeOK
  <2>6. ListOK' BY DEF ListOK, SessionTypeOK, Denied
  <2> QED BY <2>5, <2>6
<1>4. CASE Refocus(t) \/ FetchFails(t)
  <2> USE DEF Refocus, FetchFails, storage, cache
  <2>1. \/ fetch' = [fetch EXCEPT ![t] = Call] /\ failed' = failed
        \/ fetch' = [fetch EXCEPT ![t] = None] /\ failed' = [failed EXCEPT ![t] = TRUE]
    BY <1>4
  <2>2. UNCHANGED <<owner, expired, accounts, storage, name, page, poll, changes, list, told>>
    BY <1>4
  <2>3. fetch' \in [Tabs -> Calls \cup {None}] /\ failed' \in [Tabs -> BOOLEAN]
    <3>1. fetch' \in [Tabs -> Calls \cup {None}] BY <1>0, <2>1 DEF SessionTypeOK
    <3>2. failed' \in [Tabs -> BOOLEAN]
      <4>1. CASE failed' = failed BY <4>1 DEF SessionTypeOK
      <4>2. CASE failed' = [failed EXCEPT ![t] = TRUE] BY <4>2 DEF SessionTypeOK
      <4> QED BY <2>1, <4>1, <4>2
    <3> QED BY <3>1, <3>2
  <2>4. SessionTypeOK' BY <2>2, <2>3 DEF SessionTypeOK
  <2>5. ListOK' BY <1>0, <2>1, <2>2 DEF ListOK, SessionTypeOK
  <2> QED BY <2>4, <2>5
<1> QED BY <1>1, <1>2, <1>3, <1>4

\* A change is sent without an answer, and is given the newest version.
LEMMA ChangeKeeps ==
  ASSUME SessionInv, NEW t \in Tabs, Sends(t) \/ \E c \in changes[t] : Applies(t, c)
  PROVE  SessionInv'
<1> USE DEF SessionInv
<1>0. Call \in Calls /\ Call.version = None BY CallFits
<1>1. CASE Sends(t)
  <2> USE <1>1 DEF Sends, storage, cache
  <2>1. changes' = [changes EXCEPT ![t] = @ \cup {Call}] OBVIOUS
  <2>2. SessionTypeOK' BY <1>0 DEF SessionTypeOK
  <2>3. ListOK' BY <1>0 DEF ListOK, SessionTypeOK
  <2> QED BY <2>2, <2>3
<1>2. ASSUME NEW c \in changes[t], Applies(t, c) PROVE SessionInv'
  <2> USE <1>2 DEF Applies, storage, cache
  <2> DEFINE made == [token |-> None, version |-> accounts']
  <2>1. accounts' \in Versions /\ accounts' = accounts + 1 BY DEF SessionTypeOK, Versions
  <2>2. made \in Calls /\ made.version = accounts' BY <2>1 DEF Calls
  <2>3. changes' = [changes EXCEPT ![t] = (@ \ {c}) \cup {made}] OBVIOUS
  <2> HIDE DEF made
  <2>4. SessionTypeOK' BY <2>1, <2>2, <2>3 DEF SessionTypeOK
  <2>5. ASSUME NEW u \in Tabs, NEW d \in changes'[u], d.version # None
        PROVE  d.version <= accounts'
    <3>1. d \in changes[u] \/ d = made BY <2>3 DEF SessionTypeOK
    <3>2. d \in changes[u] => d.version \in Versions BY <2>5, CallIsSome DEF SessionTypeOK
    <3> QED BY <2>1, <2>2, <2>5, <3>1, <3>2 DEF ListOK, SessionTypeOK, Versions
  <2>6. \A u \in Tabs : told[u] <= accounts' BY <2>1 DEF ListOK, SessionTypeOK, Versions
  <2>7. ListOK' BY <2>5, <2>6 DEF ListOK
  <2> QED BY <2>4, <2>7
<1> QED BY <1>1, <1>2

\* A change that was answered on the Users page drops the answer under way.
LEMMA ChangedKeeps ==
  ASSUME SessionInv, NEW t \in Tabs, NEW c \in changes[t], Changed(t, c)
  PROVE  SessionInv'
<1> USE DEF SessionInv, Changed, storage
<1>1. Call \in Calls /\ Call.version = None /\ Call # None BY CallFits
<1>2. c \in Calls /\ c.version \in Versions /\ c.version <= accounts
  BY CallIsSome DEF SessionTypeOK, ListOK
<1>3. fetch' = [fetch EXCEPT ![t] = Call] \/ fetch' = fetch BY DEF Invalidated, SessionTypeOK
<1>4. told' \in [Tabs -> Versions] BY <1>2 DEF SessionTypeOK
<1>5. /\ fetch' \in [Tabs -> Calls \cup {None}]
      /\ changes' \in [Tabs -> SUBSET Calls]
      /\ \A u \in Tabs : changes'[u] \subseteq changes[u]
  BY <1>1, <1>3 DEF SessionTypeOK
<1>6. SessionTypeOK' BY <1>4, <1>5 DEF SessionTypeOK
<1>7. told' # told => fetch'[t] = Call BY DEF Invalidated, SessionTypeOK
<1>8. \A u \in Tabs : told'[u] <= accounts BY <1>2 DEF ListOK, SessionTypeOK
<1>9. \A u \in Tabs : u # t => told'[u] = told[u] /\ fetch'[u] = fetch[u]
  BY <1>3 DEF SessionTypeOK
<1>10. ASSUME NEW u \in Tabs, told'[u] = told[u], fetch'[u] = fetch[u] \/ fetch'[u] = Call
       PROVE  /\ fetch'[u] # None /\ fetch'[u].version # None => fetch'[u].version >= told'[u]
              /\ fetch'[u] = None /\ list[u] # None /\ ~failed[u] /\ page[u] # "leaving"
                     => list[u] >= told'[u]
  BY <1>1, <1>10 DEF ListOK
<1>11. fetch'[t] = fetch[t] \/ fetch'[t] = Call BY <1>3 DEF SessionTypeOK
<1>12. told'[t] = told[t] \/ fetch'[t] = Call BY <1>7
<1>13. \A u \in Tabs :
          /\ fetch'[u] # None /\ fetch'[u].version # None => fetch'[u].version >= told'[u]
          /\ fetch'[u] = None /\ list[u] # None /\ ~failed[u] /\ page[u] # "leaving"
                 => list[u] >= told'[u]
  BY <1>1, <1>9, <1>10, <1>11, <1>12
<1>14. ListOK' BY <1>5, <1>8, <1>13 DEF ListOK
<1> QED BY <1>6, <1>14

\* Every step preserves the invariant.
LEMMA SessionInductive == SessionInv /\ [Next]_vars => SessionInv'
<1> SUFFICES ASSUME SessionInv, [Next]_vars PROVE SessionInv' OBVIOUS
<1>1. ASSUME NEW t \in Tabs, Load(t) \/ Unload(t) PROVE SessionInv'
  BY <1>1, LoadedKeeps DEF Load, Unload
<1>2. ASSUME NEW t \in Tabs, Tab(t), ~(Load(t) \/ Unload(t)) PROVE SessionInv'
  <2>1. CASE SignedIn(t) BY <2>1, SignedInKeeps
  <2>2. CASE SignOut(t) \/ Polls(t) \/ Polled(t) \/ PollFails(t)
    BY <2>2, StorageKeeps
  <2>3. CASE Turn(t) \/ Refocus(t) \/ ReadsUsers(t) \/ Fetched(t) \/ FetchFails(t)
    BY <2>3, ListsKeep
  <2>4. CASE Changes(t) BY <2>4, ChangeKeeps, ChangedKeeps, StorageKeeps DEF Changes
  <2> QED BY <1>2, <2>1, <2>2, <2>3, <2>4 DEF Tab, Lists
<1>3. ASSUME NEW n \in Tokens, Expire(n) PROVE SessionInv'
  BY <1>3 DEF Expire, SessionInv, SessionTypeOK, ListOK, storage, requests, cache
<1>4. CASE UNCHANGED vars
  BY <1>4 DEF SessionInv, SessionTypeOK, ListOK, vars, storage, requests, cache
<1> QED BY <1>1, <1>2, <1>3, <1>4 DEF Next

\* SessionInv holds in every reachable state.
LEMMA SessionInvariant == Spec => []SessionInv
BY SessionInitHolds, SessionInductive, PTL DEF Spec

\* The model is well typed, and the two keys of a session always agree.
THEOREM SessionTypeCorrect == Spec => []SessionTypeOK
BY SessionInvariant, PTL DEF SessionInv

\* A list on screen never misses a change of the tab's own that was answered on the
\* page, for any number of tabs, logins and overlapping changes, and whatever is
\* lost (useUsers.ts:18-21).
THEOREM OwnChangesAreListed == Spec => []ToldIsListed
<1>1. SessionInv => ToldIsListed BY DEF SessionInv, ListOK, ToldIsListed
<1> QED BY <1>1, SessionInvariant, PTL

\* Only another tab's login makes a tab show one account and act as another.
THEOREM NamesAgree == Spec => OwnStepsAgree
<1>1. SessionInv /\ [Next]_vars =>
        [\A t \in Tabs : Agrees(t) /\ ~Agrees(t)' =>
           \E other \in Tabs \ {t} : SignedIn(other)]_vars
  <2> SUFFICES ASSUME SessionInv, Next, NEW t \in Tabs, Agrees(t), ~Agrees(t)'
               PROVE  \E other \in Tabs \ {t} : SignedIn(other)
    OBVIOUS
  <2>1. name'[t] # None /\ stored' # None /\ owner'[stored'] # name'[t] BY DEF Agrees
  <2>2. ASSUME NEW u \in Tabs, Load(u) \/ Unload(u) PROVE FALSE
    <3>1. stored' = stored /\ owner' = owner /\ name' = [name EXCEPT ![u] = storedName]
      BY <2>2 DEF Load, Unload, Loaded, storage
    <3>2. CASE u = t BY <2>1, <3>1, <3>2 DEF SessionInv, SessionTypeOK
    <3>3. CASE u # t BY <2>1, <3>1, <3>3 DEF Agrees, SessionInv, SessionTypeOK
    <3> QED BY <3>2, <3>3
  <2>3. ASSUME SignedIn(t) PROVE FALSE
    BY <2>1, <2>3 DEF SignedIn, Signed, Greets, SessionInv, SessionTypeOK
  <2>4. ASSUME NEW u \in Tabs, Tab(u), ~(Load(u) \/ Unload(u) \/ SignedIn(u)) PROVE FALSE
    <3>1. owner' = owner
          /\ (stored' = stored \/ stored' = None)
          /\ (name' = name \/ name' = [name EXCEPT ![u] = None])
      BY <2>4 DEF Tab, SignOut, Polls, Polled, PollFails, Lists, Turn, Refocus, ReadsUsers,
                  Fetched, FetchFails, Changes, Sends, Applies, Changed, ChangeFails,
                  ChangeDenied, Denied, ClearSession, storage, requests, cache
    <3> QED BY <2>1, <3>1 DEF Agrees, SessionInv, SessionTypeOK
  <2>5. ASSUME NEW n \in Tokens, Expire(n) PROVE FALSE
    BY <2>1, <2>5 DEF Expire, Agrees, storage
  <2> QED BY <2>2, <2>3, <2>4, <2>5 DEF Next
<1> QED BY <1>1, SessionInvariant, PTL DEF Spec, OwnStepsAgree

=============================================================================
