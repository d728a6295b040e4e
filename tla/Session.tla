------------------------------ MODULE Session ------------------------------
(***************************************************************************)
(* Who is signed in, in every tab of one browser: the session the tabs     *)
(* share in localStorage (authStore.ts), the name each keeps in React      *)
(* state (AuthContext.tsx), the requests that carry the stored token and   *)
(* what a 401 does (client.ts), the login page and the guarded routes      *)
(* (LoginPage.tsx, App.tsx), and the one page that lists accounts and      *)
(* changes them (UsersPage.tsx, useUsers.ts).  The accounts themselves are *)
(* those of Accounts; here their list only has a version.                  *)
(***************************************************************************)
EXTENDS Naturals

CONSTANTS
    Users,
    Tabs,
    Admins,      \* the tabs in which the Users page is opened
    None,
    MaxLogins,   \* bound on the tokens the panel hands out
    MaxChanges   \* bound on the changes of the list of accounts

Tokens   == 1..MaxLogins
Versions == 0..MaxChanges
\* A request with the token it was sent with, and the list the panel read or made.
Calls == [token : Tokens \cup {None}, version : Versions \cup {None}]

ASSUME SessionAssumption ==
    /\ None \notin Users /\ None \notin Nat /\ None \notin Calls
    /\ Admins \subseteq Tabs
    /\ MaxLogins \in Nat /\ MaxChanges \in Nat

VARIABLES
    owner,       \* owner[n]: the user of token n, None before it is signed
    expired,     \* the tokens the panel refuses by now
    accounts,    \* version of the list of accounts
    stored,      \* TOKEN_KEY in localStorage: a token or None
    storedName,  \* USERNAME_KEY
    name,        \* name[t]: the username tab t keeps, and shows
    page,        \* page[t]: "login", "app" (any page but Users), "users", or
                 \* "leaving" (a 401 was seen, the browser goes to /login)
    poll,        \* poll[t]: None or the Shell's request for stations
    fetch,       \* fetch[t]: None or the request for ['users']
    changes,     \* changes[t]: the creates, deletes and new passwords under way
    list,        \* list[t]: the version of ['users'] in the cache, or None
    failed,      \* failed[t]: the last fetch failed, the page shows that instead
    told         \* told[t]: newest version made by a change of the tab's own that
                 \* was answered on the Users page

storage == <<stored, storedName>>
requests == <<poll, fetch, changes>>
cache == <<list, failed, told>>
vars == <<owner, expired, accounts, stored, storedName, name, page,
          poll, fetch, changes, list, failed, told>>

SessionTypeOK ==
    /\ owner \in [Tokens -> Users \cup {None}]
    /\ expired \subseteq Tokens
    /\ accounts \in Versions
    /\ stored \in Tokens \cup {None}
    /\ storedName = IF stored = None THEN None ELSE owner[stored]
    /\ name \in [Tabs -> Users \cup {None}]
    /\ page \in [Tabs -> {"login", "app", "users", "leaving"}]
    /\ poll \in [Tabs -> Calls \cup {None}]
    /\ fetch \in [Tabs -> Calls \cup {None}]
    /\ changes \in [Tabs -> SUBSET Calls]
    /\ list \in [Tabs -> Versions \cup {None}]
    /\ failed \in [Tabs -> BOOLEAN]
    /\ told \in [Tabs -> Versions]

Init ==
    /\ owner = [n \in Tokens |-> None] /\ expired = {} /\ accounts = 0
    /\ stored = None /\ storedName = None
    /\ name = [t \in Tabs |-> None]
    /\ page = [t \in Tabs |-> "login"]
    /\ poll = [t \in Tabs |-> None]
    /\ fetch = [t \in Tabs |-> None]
    /\ changes = [t \in Tabs |-> {}]
    /\ list = [t \in Tabs |-> None]
    /\ failed = [t \in Tabs |-> FALSE]
    /\ told = [t \in Tabs |-> 0]

InApp(t) == page[t] \in {"app", "users"}

-----------------------------------------------------------------------------
(* Signing in and out.                                                     *)

ClearSession == stored' = None /\ storedName' = None

\* The page is loaded at the given place: everything a tab keeps is gone, and
\* AuthProvider and RequireAuth start from what is stored.
Loaded(t, p) ==
    /\ name' = [name EXCEPT ![t] = storedName]
    /\ page' = [page EXCEPT ![t] = p]
    /\ poll' = [poll EXCEPT ![t] = None]
    /\ fetch' = [fetch EXCEPT ![t] = None]
    /\ changes' = [changes EXCEPT ![t] = {}]
    /\ list' = [list EXCEPT ![t] = None]
    /\ failed' = [failed EXCEPT ![t] = FALSE]
    /\ told' = [told EXCEPT ![t] = 0]
    /\ UNCHANGED <<owner, expired, accounts, storage>>

\* The user opens or reloads a tab: /login is never guarded, the rest is.
Load(t) == Loaded(t, "login") \/ (stored # None /\ Loaded(t, "app"))

\* window.location.href = '/login'
Unload(t) == page[t] = "leaving" /\ Loaded(t, "login")

\* loginHandler signs a token.
Signed(n, u) ==
    /\ owner[n] = None /\ \A k \in 1..(n - 1) : owner[k] # None
    /\ owner' = [owner EXCEPT ![n] = u]

Greets_Once(t, u) ==    \* Mutant: setUsername is left out for a known user.
    name' = [name EXCEPT ![t] = IF @ = None THEN u ELSE @]

Greets(t, u) == name' = [name EXCEPT ![t] = u]

\* onSubmit, login() and navigate('/'), answered at once; a password that is
\* refused changes nothing but the error shown.
SignedIn(t) ==
    /\ page[t] = "login"
    /\ \E n \in Tokens, u \in Users :
           /\ Signed(n, u)
           /\ stored' = n /\ storedName' = u
           /\ Greets(t, u)
    /\ page' = [page EXCEPT ![t] = "app"]
    /\ UNCHANGED <<expired, accounts, requests, cache>>

\* logout(): requests under way and the query cache stay.
SignOut(t) ==
    /\ InApp(t)
    /\ ClearSession
    /\ name' = [name EXCEPT ![t] = None]
    /\ page' = [page EXCEPT ![t] = "login"]
    /\ UNCHANGED <<owner, expired, accounts, requests, cache>>

\* session_ttl is over.
Expire(n) ==
    /\ owner[n] # None /\ n \notin expired
    /\ expired' = expired \cup {n}
    /\ UNCHANGED <<owner, accounts, storage, name, page, requests, cache>>

-----------------------------------------------------------------------------
(* Requests.                                                               *)

\* apiFetch: the token is read when the request is sent.
Call == [token |-> stored, version |-> None]

\* requireSession: an answer that refuses is received as it is given.
Accepted(call) == call.token # None /\ call.token \notin expired

Polls(t) ==
    /\ InApp(t) /\ poll[t] = None
    /\ poll' = [poll EXCEPT ![t] = Call]
    /\ UNCHANGED <<owner, expired, accounts, storage, name, page, fetch, changes, cache>>

\* A network error or a 5xx; the Shell asks again at its interval.
PollFails(t) ==
    /\ poll[t] # None
    /\ poll' = [poll EXCEPT ![t] = None]
    /\ UNCHANGED <<owner, expired, accounts, storage, name, page, fetch, changes, cache>>

\* The Users page mounts its query, which joins a fetch under way, or is left,
\* which ends none.
Turn(t) ==
    /\ InApp(t) /\ t \in Admins
    /\ page' = [page EXCEPT ![t] = IF @ = "app" THEN "users" ELSE "app"]
    /\ fetch' = [fetch EXCEPT ![t] = IF page[t] = "app" /\ @ = None THEN Call ELSE @]
    /\ UNCHANGED <<owner, expired, accounts, storage, name, poll, changes, cache>>

Denied_ClearsOnly(t) ==    \* Mutant: the session is cleared, the page stays.
    /\ ClearSession
    /\ UNCHANGED page

\* apiFetch: any 401 clears whatever session is stored, and leaves the page.
Denied(t) ==
    /\ ClearSession
    /\ page' = [page EXCEPT ![t] = "leaving"]

Polled(t) ==
    /\ poll[t] # None
    /\ IF Accepted(poll[t]) THEN UNCHANGED <<storage, page>> ELSE Denied(t)
    /\ poll' = [poll EXCEPT ![t] = None]
    /\ UNCHANGED <<owner, expired, accounts, name, fetch, changes, cache>>

\* listUsersHandler
ReadsUsers(t) ==
    /\ fetch[t] # None /\ fetch[t].version = None /\ Accepted(fetch[t])
    /\ fetch' = [fetch EXCEPT ![t] = [token |-> None, version |-> accounts]]
    /\ UNCHANGED <<owner, expired, accounts, storage, name, page, poll, changes, cache>>

Fetched(t) ==
    /\ fetch[t] # None
    /\ \/ /\ fetch[t].version # None
          /\ list' = [list EXCEPT ![t] = fetch[t].version]
          /\ failed' = [failed EXCEPT ![t] = FALSE]
          /\ UNCHANGED <<storage, page>>
       \/ /\ fetch[t].version = None /\ ~Accepted(fetch[t])
          /\ Denied(t)
          /\ UNCHANGED <<list, failed>>
    /\ fetch' = [fetch EXCEPT ![t] = None]
    /\ UNCHANGED <<owner, expired, accounts, name, poll, changes, told>>

\* The request or its answer is lost, or is a 5xx: the query tries again, or
\* gives up and keeps its old list behind "Failed to load users.".
FetchFails(t) ==
    /\ fetch[t] # None
    /\ \/ page[t] = "users" /\ fetch' = [fetch EXCEPT ![t] = Call] /\ failed' = failed
       \/ fetch' = [fetch EXCEPT ![t] = None] /\ failed' = [failed EXCEPT ![t] = TRUE]
    /\ UNCHANGED <<owner, expired, accounts, storage, name, page, poll, changes, list, told>>

\* The window has the focus again, or the network is back: a list on the page is
\* asked for again.
Refocus(t) ==
    /\ page[t] = "users" /\ fetch[t] = None
    /\ fetch' = [fetch EXCEPT ![t] = Call]
    /\ UNCHANGED <<owner, expired, accounts, storage, name, page, poll, changes, cache>>

\* A create, a delete or a new password is asked for: each form and each row of
\* the list has a mutation of its own.
Sends(t) ==
    /\ page[t] = "users" /\ list[t] # None /\ ~failed[t]
    /\ changes' = [changes EXCEPT ![t] = @ \cup {Call}]
    /\ UNCHANGED <<owner, expired, accounts, storage, name, page, poll, fetch, cache>>

\* The handler's statement.
Applies(t, c) ==
    /\ c.version = None /\ Accepted(c)
    /\ accounts < MaxChanges /\ accounts' = accounts + 1
    /\ changes' = [changes EXCEPT ![t] =
                      (@ \ {c}) \cup {[token |-> None, version |-> accounts']}]
    /\ UNCHANGED <<owner, expired, storage, name, page, poll, fetch, cache>>

Invalidated_KeepsFetch(t) ==    \* Mutant: a fetch under way is kept.
    fetch' = [fetch EXCEPT ![t] = IF page[t] = "users" /\ @ = None THEN Call ELSE @]

\* useInvalidateUsers: a list on the page is asked for again, and an answer
\* under way is dropped.  Off the page nothing is asked for or dropped.
Invalidated(t) ==
    fetch' = [fetch EXCEPT ![t] = IF page[t] = "users" /\ (list[t] # None \/ @ = None)
                                  THEN Call ELSE @]

\* onSuccess, wherever the tab is by then.
Changed(t, c) ==
    /\ c.version # None
    /\ Invalidated(t)
    /\ told' = IF page[t] = "users" /\ list[t] # None /\ c.version > told[t]
                 THEN [told EXCEPT ![t] = c.version] ELSE told
    /\ changes' = [changes EXCEPT ![t] = @ \ {c}]
    /\ UNCHANGED <<owner, expired, accounts, storage, name, page, poll, list, failed>>

\* A name that is taken, a network error, an answer that is lost: onSuccess never
\* runs, whether the panel has applied the change or not.
ChangeFails(t, c) ==
    /\ changes' = [changes EXCEPT ![t] = @ \ {c}]
    /\ UNCHANGED <<owner, expired, accounts, storage, name, page, poll, fetch, cache>>

ChangeDenied(t, c) ==
    /\ c.version = None /\ ~Accepted(c)
    /\ Denied(t)
    /\ changes' = [changes EXCEPT ![t] = @ \ {c}]
    /\ UNCHANGED <<owner, expired, accounts, name, poll, fetch, cache>>

-----------------------------------------------------------------------------

Changes(t) ==
    \/ Sends(t)
    \/ \E c \in changes[t] :
          Applies(t, c) \/ Changed(t, c) \/ ChangeFails(t, c) \/ ChangeDenied(t, c)

Lists(t) == Turn(t) \/ Refocus(t) \/ ReadsUsers(t) \/ Fetched(t) \/ FetchFails(t) \/ Changes(t)

Tab(t) ==
    \/ Load(t) \/ Unload(t)
    \/ SignedIn(t) \/ SignOut(t)
    \/ Polls(t) \/ Polled(t) \/ PollFails(t) \/ Lists(t)

Next == (\E t \in Tabs : Tab(t)) \/ \E n \in Tokens : Expire(n)

Spec == Init /\ [][Next]_vars

\* A visible tab polls, the browser goes where it is sent, and requests are
\* answered: nobody reloads a page each time before an answer can come.
FairSpec ==
    Spec /\ \A t \in Tabs : WF_vars(Polls(t)) /\ SF_vars(Polled(t)) /\ WF_vars(Unload(t))

-----------------------------------------------------------------------------
(* Properties.                                                             *)

Usable == stored # None /\ stored \notin expired

\* A tab without a session that works ends up at the login page, whether its
\* token expired or another tab signed out (client.ts:11-14), unless somebody
\* signs in again before.
EndsAtLogin == \A t \in Tabs : InApp(t) /\ ~Usable ~> ~InApp(t) \/ Usable

Agrees(t) == name[t] # None /\ stored # None => owner[stored] = name[t]

\* A tab only ever comes to show one account and act as another because some
\* other tab signed in: never by its own login, logout, reload or late answer.
OwnStepsAgree ==
    [][\A t \in Tabs : Agrees(t) /\ ~Agrees(t)' =>
           \E other \in Tabs \ {t} : SignedIn(other)]_vars

\* Once a change of a tab's own was answered while it was on the Users page, the
\* list it shows has that change or is being fetched, whatever of changes, older
\* fetches, failures and navigation overlapped: an answer under way that is older
\* never replaces it, though nothing polls this list (useUsers.ts:18-21).
ToldIsListed ==
    \A t \in Tabs :
        page[t] = "users" /\ list[t] # None /\ ~failed[t] /\ fetch[t] = None
            => list[t] >= told[t]

-----------------------------------------------------------------------------
(* The inductive invariant.                                                *)

\* A list that was read is no older than the changes the tab was told of; a
\* list in the cache may only be when another is coming, or failed to, or the
\* page is going.
ListOK ==
    \A t \in Tabs :
        /\ told[t] <= accounts
        /\ \A c \in changes[t] : c.version # None => c.version <= accounts
        /\ fetch[t] # None /\ fetch[t].version # None => fetch[t].version >= told[t]
        /\ fetch[t] = None /\ list[t] # None /\ ~failed[t] /\ page[t] # "leaving"
               => list[t] >= told[t]

SessionInv == SessionTypeOK /\ ListOK

=============================================================================
