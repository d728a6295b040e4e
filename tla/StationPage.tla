---------------------------- MODULE StationPage ----------------------------
(***************************************************************************)
(* The browser's copy of a station: the query cache entry ['station', ..]  *)
(* that StationPage.tsx renders, and the four things that refresh it: the  *)
(* mount, the slow poll (useStationStatus.ts), the events of one           *)
(* EventSource per visit (useStationEvents.ts), and the mutations of       *)
(* useStationMutations.ts.  A station is a server and a slug.  The audio   *)
(* server, the panel's HTTP side and react-query are the environment; the  *)
(* entry ['stationStats', ..] is refreshed the same way and left out.      *)
(***************************************************************************)
EXTENDS Naturals, Sequences

CONSTANTS
    Stations,
    Visits,       \* the runs of useStationEvents' effect: a bound on navigation
    Mutations,    \* the requests a user sends: skip, seek, queue, clear, ...
    None,
    Pending,      \* a request nobody answered yet
    Done,         \* a mutation that is over
    MaxVersion,   \* bound on the changes of each station
    MaxTroubles   \* bound on failed requests and broken streams

ASSUME StationPageAssumption ==
    /\ None \notin Stations \cup Visits
    /\ {None, Pending, Done} \cap Nat = {}
    /\ None # Pending /\ None # Done /\ Pending # Done
    /\ MaxVersion \in Nat
    /\ MaxTroubles \in Nat

VARIABLES
    version,   \* version[s]: how often the station's status changed
    trouble,   \* failures so far
    shown,     \* the station of the mounted StationPage, None on another page
    data,      \* data[s]: the version in the cache, None without data
    fetch,     \* fetch[s]: None when idle, Pending, or the version answered
    failed,    \* failed[s]: the entry's isError
    effect,    \* the effect that is mounted, None between pages
    target,    \* target[v]: the slug effect v closes over
    cancelled, \* cancelled[v]
    phase,     \* phase[v]: where connect() is: "unused", "minting", "opening" (an
               \* EventSource nobody answered yet), "open", "waiting" (retryTimer), "done"
    wire,      \* wire[v]: events sent on v's stream and not yet dispatched
    sent,      \* sent[m]: None before, Pending, the version it made, Done
    station,   \* station[m]: the station mutation m was sent for
    option,    \* option[m]: the slug its onSuccess closes over
    mine,      \* mine[m]: the component that sent m is still mounted
    heard      \* heard[s]: newest change the page was told of while it had data

pageVars   == <<shown, effect, target, cancelled>>
cacheVars  == <<data, fetch, failed, heard>>
streamVars == <<phase, wire>>
mutVars    == <<sent, station, option, mine>>
vars == <<version, trouble, shown, data, fetch, failed, effect, target, cancelled,
          phase, wire, sent, station, option, mine, heard>>

Versions == 0..MaxVersion

PageTypeOK ==
    /\ version \in [Stations -> Versions]
    /\ trouble \in 0..MaxTroubles
    /\ shown \in Stations \cup {None}
    /\ data \in [Stations -> Versions \cup {None}]
    /\ fetch \in [Stations -> Versions \cup {None, Pending}]
    /\ failed \in [Stations -> BOOLEAN]
    /\ effect \in Visits \cup {None}
    /\ target \in [Visits -> Stations \cup {None}]
    /\ cancelled \in [Visits -> BOOLEAN]
    /\ phase \in [Visits -> {"unused", "minting", "opening", "open", "waiting", "done"}]
    /\ wire \in [Visits -> Seq(Versions)]
    /\ sent \in [Mutations -> Versions \cup {None, Pending, Done}]
    /\ station \in [Mutations -> Stations \cup {None}]
    /\ option \in [Mutations -> Stations \cup {None}]
    /\ mine \in [Mutations -> BOOLEAN]
    /\ heard \in [Stations -> Versions]
    /\ shown = None <=> effect = None
    /\ \A v \in Visits : wire[v] # <<>> => phase[v] = "open"

Init ==
    /\ version = [s \in Stations |-> 0]
    /\ trouble = 0
    /\ shown = None
    /\ data = [s \in Stations |-> None]
    /\ fetch = [s \in Stations |-> None]
    /\ failed = [s \in Stations |-> FALSE]
    /\ effect = None
    /\ target = [v \in Visits |-> None]
    /\ cancelled = [v \in Visits |-> FALSE]
    /\ phase = [v \in Visits |-> "unused"]
    /\ wire = [v \in Visits |-> <<>>]
    /\ sent = [m \in Mutations |-> None]
    /\ station = [m \in Mutations |-> None]
    /\ option = [m \in Mutations |-> None]
    /\ mine = [m \in Mutations |-> FALSE]
    /\ heard = [s \in Stations |-> 0]

Trouble == trouble < MaxTroubles /\ trouble' = trouble + 1

\* The page renders the station: data, and no error in its place.
Rendered(s) == shown = s /\ data[s] # None /\ ~failed[s]

-----------------------------------------------------------------------------
(* The station and its events.  The SSE handler forwards what happens      *)
(* while it is subscribed, and nothing of what happened before.            *)

Changed(s) ==
    /\ version[s] < MaxVersion
    /\ version' = [version EXCEPT ![s] = @ + 1]
    /\ wire' = [v \in Visits |-> IF phase[v] = "open" /\ target[v] = s
                                 THEN Append(wire[v], version[s] + 1) ELSE wire[v]]

Change(s) ==
    /\ Changed(s)
    /\ UNCHANGED <<trouble, pageVars, cacheVars, phase, mutVars>>

-----------------------------------------------------------------------------
(* react-query.  A fetch runs on when its page is left.  Invalidating an   *)
(* entry that is on screen drops the answer under way and asks again,      *)
(* except while there is no data: then the fetch under way is kept.        *)

Fetched(s) == fetch' = [fetch EXCEPT ![s] = IF @ = None THEN Pending ELSE @]

Invalidate_KeepsFetch(s, n) ==    \* Mutant: invalidated with cancelRefetch: false.
    /\ fetch' = [fetch EXCEPT ![s] = IF shown = s /\ @ = None THEN Pending ELSE @]
    /\ heard' = [heard EXCEPT ![s] = IF shown = s /\ data[s] # None /\ n > @ THEN n ELSE @]

\* An event or an answer says that version n of station s exists.
Invalidate(s, n) ==
    /\ fetch' = [fetch EXCEPT ![s] =
                    IF shown = s /\ (@ = None \/ data[s] # None) THEN Pending ELSE @]
    /\ heard' = [heard EXCEPT ![s] = IF shown = s /\ data[s] # None /\ n > @ THEN n ELSE @]

\* The panel answers the request: the status is read now.
Respond(s) ==
    /\ fetch[s] = Pending
    /\ fetch' = [fetch EXCEPT ![s] = version[s]]
    /\ UNCHANGED <<version, trouble, pageVars, data, failed, heard, streamVars, mutVars>>

Receive(s) ==
    /\ fetch[s] \in Versions
    /\ data' = [data EXCEPT ![s] = fetch[s]]
    /\ fetch' = [fetch EXCEPT ![s] = None]
    /\ failed' = [failed EXCEPT ![s] = FALSE]
    /\ UNCHANGED <<version, trouble, pageVars, heard, streamVars, mutVars>>

\* The request failed, its retries included; what was cached stays.
FetchFails(s) ==
    /\ fetch[s] # None
    /\ Trouble
    /\ fetch' = [fetch EXCEPT ![s] = None]
    /\ failed' = [failed EXCEPT ![s] = TRUE]
    /\ UNCHANGED <<version, pageVars, data, heard, streamVars, mutVars>>

Poll_IfRendered(s) ==    \* Mutant: the poll stops once a fetch failed.
    /\ Rendered(s) /\ fetch[s] = None
    /\ Fetched(s)
    /\ UNCHANGED <<version, trouble, pageVars, data, failed, heard, streamVars, mutVars>>

Poll(s) ==
    /\ shown = s /\ fetch[s] = None
    /\ Fetched(s)
    /\ UNCHANGED <<version, trouble, pageVars, data, failed, heard, streamVars, mutVars>>

\* An entry nobody shows is dropped after five minutes.
Forget(s) ==
    /\ shown # s /\ fetch[s] = None /\ data[s] # None
    /\ data' = [data EXCEPT ![s] = None]
    /\ UNCHANGED <<version, trouble, pageVars, fetch, failed, heard, streamVars, mutVars>>

-----------------------------------------------------------------------------
(* The page: the effect's cleanup and its next run are one commit.         *)

\* What its cleanup makes of an effect: a token request under way runs on.
AfterCleanup(p) == IF p = "minting" THEN p ELSE "done"

\* The stream of effect v is closed and what it had not dispatched is lost.
Silenced(v) == wire' = [w \in Visits |-> IF w = v THEN <<>> ELSE wire[w]]

Leave ==
    /\ shown # None
    /\ shown' = None
    /\ effect' = None
    /\ cancelled' = [v \in Visits |-> cancelled[v] \/ v = effect]
    /\ phase' = [v \in Visits |-> IF v = effect THEN AfterCleanup(phase[v]) ELSE phase[v]]
    /\ Silenced(effect)
    /\ mine' = [m \in Mutations |-> FALSE]
    /\ UNCHANGED <<version, trouble, target, cacheVars, sent, station, option>>

\* Opens the page from another one, or shows another station in the mounted
\* page: the mutations of that page then follow its latest render.
Visit(s, v) ==
    /\ shown # s
    /\ phase[v] = "unused"
    /\ shown' = s
    /\ effect' = v
    /\ target' = [target EXCEPT ![v] = s]
    /\ cancelled' = [w \in Visits |-> cancelled[w] \/ w = effect]
    /\ phase' = [w \in Visits |-> IF w = v THEN "minting"
                                  ELSE IF w = effect THEN AfterCleanup(phase[w]) ELSE phase[w]]
    /\ Silenced(effect)
    /\ option' = [m \in Mutations |-> IF mine[m] THEN s ELSE option[m]]
    /\ Fetched(s)
    /\ UNCHANGED <<version, trouble, data, failed, heard, sent, station, mine>>

-----------------------------------------------------------------------------
(* useStationEvents: connect() waits for a token, opens an EventSource with *)
(* it, and starts over three seconds after either fails.                   *)

\* Goes on at v's phase, in the browser only.
Turn(v, from, to) ==
    /\ phase[v] \in from
    /\ phase' = [phase EXCEPT ![v] = to]
    /\ Silenced(v)
    /\ UNCHANGED <<version, pageVars, cacheVars, mutVars>>

Minted_Unchecked(v) ==    \* Mutant: cancelled is not looked at after the await.
    Turn(v, {"minting"}, "opening") /\ UNCHANGED trouble

Minted(v) ==
    Turn(v, {"minting"}, IF cancelled[v] THEN "done" ELSE "opening") /\ UNCHANGED trouble

MintFails_GivesUp(v) ==    \* Mutant: the catch block schedules nothing.
    Turn(v, {"minting"}, "done") /\ Trouble

MintFails(v) ==
    Turn(v, {"minting"}, IF cancelled[v] THEN "done" ELSE "waiting") /\ Trouble

\* The panel subscribed: from here on events are forwarded.
Connected(v) == Turn(v, {"opening"}, "open") /\ UNCHANGED trouble

\* onerror
StreamFails(v) == Turn(v, {"opening", "open"}, "waiting") /\ Trouble

Retry(v) ==
    Turn(v, {"waiting"}, IF cancelled[v] THEN "done" ELSE "minting") /\ UNCHANGED trouble

\* onmessage, applyEvent
Deliver(v) ==
    /\ phase[v] = "open" /\ wire[v] # <<>>
    /\ wire' = [wire EXCEPT ![v] = Tail(@)]
    /\ Invalidate(target[v], Head(wire[v]))
    /\ UNCHANGED <<version, trouble, pageVars, data, failed, phase, mutVars>>

-----------------------------------------------------------------------------
(* Mutations.  One that is under way disables its own button only; it runs *)
(* on when the page is left, and its onSuccess runs then too.              *)

Mutate(m) ==
    /\ sent[m] = None
    /\ \E s \in Stations :
         /\ Rendered(s)
         /\ station' = [station EXCEPT ![m] = s]
         /\ option' = [option EXCEPT ![m] = s]
    /\ sent' = [sent EXCEPT ![m] = Pending]
    /\ mine' = [mine EXCEPT ![m] = TRUE]
    /\ UNCHANGED <<version, trouble, pageVars, cacheVars, streamVars>>

Apply(m) ==
    /\ sent[m] = Pending
    /\ Changed(station[m])
    /\ sent' = [sent EXCEPT ![m] = version[station[m]] + 1]
    /\ UNCHANGED <<trouble, pageVars, cacheVars, phase, station, option, mine>>

\* Refused, or its answer is lost: no onSuccess.
MutationFails(m) ==
    /\ sent[m] \notin {None, Done}
    /\ Trouble
    /\ sent' = [sent EXCEPT ![m] = Done]
    /\ UNCHANGED <<version, pageVars, cacheVars, streamVars, station, option, mine>>

Answered(m) ==
    /\ sent[m] \in Versions
    /\ sent' = [sent EXCEPT ![m] = Done]
    /\ Invalidate(option[m], IF option[m] = station[m] THEN sent[m] ELSE 0)
    /\ UNCHANGED <<version, trouble, pageVars, data, failed, streamVars, station, option, mine>>

-----------------------------------------------------------------------------

Cached(s) == Respond(s) \/ Receive(s) \/ FetchFails(s) \/ Poll(s) \/ Forget(s)
Streamed(v) == \/ Minted(v) \/ MintFails(v) \/ Connected(v)
               \/ StreamFails(v) \/ Retry(v) \/ Deliver(v)
Mutation(m) == Mutate(m) \/ Apply(m) \/ MutationFails(m) \/ Answered(m)

Next ==
    \/ \E s \in Stations : Change(s) \/ Cached(s)
    \/ \E s \in Stations, v \in Visits : Visit(s, v)
    \/ Leave
    \/ \E v \in Visits : Streamed(v)
    \/ \E m \in Mutations : Mutation(m)

Spec == Init /\ [][Next]_vars

\* Requests end, timers fire and events arrive; nobody has to click.
FairSpec ==
    /\ Spec
    /\ \A s \in Stations : WF_vars(Respond(s)) /\ WF_vars(Receive(s)) /\ WF_vars(Poll(s))
    /\ \A v \in Visits : /\ WF_vars(Minted(v)) /\ WF_vars(Connected(v))
                         /\ WF_vars(Retry(v)) /\ WF_vars(Deliver(v))

-----------------------------------------------------------------------------
(* Properties.                                                             *)

\* No EventSource outlives its effect: the only stream that is connecting or
\* open is the one of the mounted effect, and it is for the station shown,
\* though a token may arrive after the page was left (useStationEvents.ts).
OneStream == \A v \in Visits : phase[v] \in {"opening", "open"} => v = effect /\ target[v] = shown

\* What the page was told of, by an event or by the answer of a mutation, it
\* shows as soon as no fetch is under way, however that news raced the
\* answers of earlier fetches (applyEvent, useInvalidateStation).
HeardIsShown ==
    \A s \in Stations :
        fetch[s] = None /\ ~failed[s] /\ data[s] # None => data[s] >= heard[s]

\* A page that stays open ends up showing the station as it is: events lost
\* between two streams, or before the first, and failed fetches are made up
\* for by the poll of useStationStatus.ts.
ShowsCurrent ==
    \A s \in Stations :
        <>[](shown = s) => <>[](Rendered(s) /\ data[s] = version[s])

\* A page that stays open gets its stream back after every failure of the
\* token request or of the stream (the two retryTimers of connect()).
StreamReturns ==
    \A s \in Stations :
        <>[](shown = s) => <>[](effect # None /\ phase[effect] = "open")

-----------------------------------------------------------------------------
(* The inductive invariant.                                                *)

\* The mounted effect serves the station shown; every other one is over, or
\* waits for a token it will not use.
EffectOK ==
    /\ effect # None =>
         target[effect] = shown /\ ~cancelled[effect] /\ phase[effect] # "unused"
    /\ \A v \in Visits : phase[v] = "unused" => ~cancelled[v]
    /\ \A v \in Visits : v # effect =>
         \/ phase[v] \in {"unused", "done"}
         \/ phase[v] = "minting" /\ cancelled[v]

\* News speaks of changes that happened.
NewsOK ==
    /\ \A v \in Visits : wire[v] # <<>> => wire[v] \in Seq(0..version[target[v]])
    /\ \A m \in Mutations : sent[m] # None => station[m] \in Stations /\ option[m] \in Stations
    /\ \A m \in Mutations : sent[m] \in Versions => sent[m] <= version[station[m]]

\* No answer under way is older than what the page was told.
FetchOK ==
    \A s \in Stations :
        /\ heard[s] <= version[s]
        /\ fetch[s] \in Versions => heard[s] <= fetch[s] /\ fetch[s] <= version[s]

PageInv == PageTypeOK /\ EffectOK /\ NewsOK /\ FetchOK /\ HeardIsShown

=============================================================================
