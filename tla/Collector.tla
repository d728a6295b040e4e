----------------------------- MODULE Collector -----------------------------
(***************************************************************************)
(* The live state of one audio server's stations: the discovery loop of    *)
(* internal/stats/collector.go, the watcher goroutine of each station, and *)
(* the goroutine of internal/audioclient/events.go that forwards a gRPC    *)
(* stream onto the channel the watcher reads.  The audio server is the     *)
(* environment: stations come and go, streams drop, the server restarts.   *)
(***************************************************************************)
EXTENDS Naturals, Sequences

CONSTANTS
    Slugs,        \* stations
    Watches,      \* the watch structs there can be: a bound on discoveries
    None,
    MaxTroubles,  \* bound on what goes wrong: drops, outages, departures
    MaxChanges    \* bound on the changes of what the stations play

ASSUME CollectorAssumption ==
    /\ None \notin Watches
    /\ None \notin Slugs
    /\ MaxTroubles \in Nat
    /\ MaxChanges \in Nat

VARIABLES
    up,          \* the audio server answers
    registered,  \* the stations ListStations returns
    air,         \* air[s]: is_silence of station s, for all that events report
    troubles, changes,
    watched,     \* Collector.watched
    listed,      \* discover's answer from ListStations, None between two of them
    fresh,       \* newSlugs that discover has yet to start
    starting,    \* the slug startWatch is at, None outside it
    status,      \* the answer of its GetStatus, None if that failed
    slugOf,      \* the station a watch was made for
    cancel,      \* watch.cancel: "nil", "set" or "called"
    connected,   \* watch.connected
    silence,     \* watch.silence (lastCount and nowPlaying move with it)
    wpc,         \* watchEvents: "new" before the go statement; the length of its
                 \* sleeps (1s doubling up to 30s) is left out
    stream,      \* the server side of the gRPC stream: "none", "open", "ended"
    wire,        \* events sent on it and not yet received
    forwarder,   \* SubscribeEvents' goroutine, "closed" once it closed the channel
    held,        \* the event it is offering
    heard        \* an event was sent on this stream since it opened

serverVars  == <<up, registered, air, troubles, changes>>
loopVars    == <<watched, listed, fresh, starting, status, slugOf>>
watchVars   == <<connected, silence, wpc>>
streamVars  == <<stream, wire, forwarder, held, heard>>
vars == <<up, registered, air, troubles, changes, watched, listed, fresh, starting, status,
          slugOf, cancel, connected, silence, wpc,
          stream, wire, forwarder, held, heard>>

CollectorTypeOK ==
    /\ up \in BOOLEAN
    /\ registered \subseteq Slugs
    /\ air \in [Slugs -> BOOLEAN]
    /\ troubles \in 0..MaxTroubles
    /\ changes \in 0..MaxChanges
    /\ watched \in [Slugs -> Watches \cup {None}]
    /\ listed \in (SUBSET Slugs) \cup {None}
    /\ fresh \subseteq Slugs
    /\ starting \in Slugs \cup {None}
    /\ status \in BOOLEAN \cup {None}
    /\ slugOf \in [Watches -> Slugs \cup {None}]
    /\ cancel \in [Watches -> {"nil", "set", "called"}]
    /\ connected \in [Watches -> BOOLEAN]
    /\ silence \in [Watches -> BOOLEAN]
    /\ wpc \in [Watches -> {"new", "loop", "drain", "sleep", "gone"}]
    /\ stream \in [Watches -> {"none", "open", "ended"}]
    /\ wire \in [Watches -> Seq(BOOLEAN)]
    /\ forwarder \in [Watches -> {"none", "recv", "send", "closed"}]
    /\ held \in [Watches -> BOOLEAN \cup {None}]
    /\ heard \in [Watches -> BOOLEAN]

Init ==
    /\ up = TRUE
    /\ registered \in SUBSET Slugs
    /\ air = [s \in Slugs |-> FALSE]
    /\ troubles = 0
    /\ changes = 0
    /\ watched = [s \in Slugs |-> None]
    /\ listed = None
    /\ fresh = {}
    /\ starting = None
    /\ status = None
    /\ slugOf = [w \in Watches |-> None]
    /\ cancel = [w \in Watches |-> "nil"]
    /\ connected = [w \in Watches |-> FALSE]
    /\ silence = [w \in Watches |-> FALSE]
    /\ wpc = [w \in Watches |-> "new"]
    /\ stream = [w \in Watches |-> "none"]
    /\ wire = [w \in Watches |-> <<>>]
    /\ forwarder = [w \in Watches |-> "none"]
    /\ held = [w \in Watches |-> None]
    /\ heard = [w \in Watches |-> FALSE]

Canceled(w) == cancel[w] = "called"

-----------------------------------------------------------------------------
(* The audio server.                                                       *)

Trouble == troubles < MaxTroubles /\ troubles' = troubles + 1

\* The streams in W end: their handlers return.
Ended(W) == stream' = [w \in Watches |->
                         IF w \in W /\ stream[w] = "open" THEN "ended" ELSE stream[w]]

\* The connections of W break, and with them go the events still under way,
\* on each from some event on.
Kept(q, n) == SubSeq(q, 1, IF n < Len(q) THEN n ELSE Len(q))
Broken(W) ==
    /\ Ended(W)
    /\ \E n \in [W -> 0..MaxChanges] :
          wire' = [w \in Watches |-> IF w \in W THEN Kept(wire[w], n[w]) ELSE wire[w]]

ServerDown ==
    /\ up /\ Trouble
    /\ up' = FALSE
    /\ Broken(Watches)
    /\ UNCHANGED <<registered, air, changes, loopVars, cancel, watchVars,
                   forwarder, held, heard>>

ServerUp ==
    /\ ~up
    /\ up' = TRUE
    /\ UNCHANGED <<registered, air, troubles, changes, loopVars, cancel, watchVars, streamVars>>

Register(s) ==
    /\ up
    /\ s \notin registered
    /\ registered' = registered \cup {s}
    /\ UNCHANGED <<up, air, troubles, changes, loopVars, cancel, watchVars, streamVars>>

Unregister(s) ==
    /\ s \in registered
    /\ Trouble
    /\ registered' = registered \ {s}
    /\ Ended({w \in Watches : slugOf[w] = s})
    /\ UNCHANGED <<up, air, changes, loopVars, cancel, watchVars, wire, forwarder, held, heard>>

StreamDrops(w) ==
    /\ stream[w] = "open"
    /\ Trouble
    /\ Broken({w})
    /\ UNCHANGED <<up, registered, air, changes, loopVars, cancel, watchVars,
                   forwarder, held, heard>>

\* A station falls silent or plays again; every open stream of it is told.
Change(s) ==
    /\ up /\ s \in registered
    /\ changes < MaxChanges
    /\ changes' = changes + 1
    /\ air' = [air EXCEPT ![s] = ~@]
    /\ wire' = [w \in Watches |->
                  IF slugOf[w] = s /\ stream[w] = "open" THEN Append(wire[w], air'[s]) ELSE wire[w]]
    /\ heard' = [w \in Watches |-> heard[w] \/ (slugOf[w] = s /\ stream[w] = "open")]
    /\ UNCHANGED <<up, registered, troubles, loopVars, cancel, watchVars,
                   stream, forwarder, held>>

-----------------------------------------------------------------------------
(* Run's loop.                                                             *)

\* Mutant: the next discovery does not wait for the stations of the last one to
\* be started.
ListStations_InParallel ==
    /\ up
    /\ listed = None
    /\ listed' = registered
    /\ UNCHANGED <<serverVars, watched, fresh, starting, status, slugOf, cancel,
                   watchVars, streamVars>>

\* The ticker's discover asks for the stations; on an error nothing changes.
ListStations ==
    /\ up
    /\ listed = None /\ fresh = {} /\ starting = None
    /\ listed' = registered
    /\ UNCHANGED <<serverVars, watched, fresh, starting, status, slugOf, cancel,
                   watchVars, streamVars>>

Found   == {s \in listed : watched[s] = None}
Missing == {s \in Slugs : watched[s] # None /\ s \notin listed}

\* The locked region of discover: the watches of canceling are canceled, those
\* of missing stations removed, and each new station gets one.
Rescan(canceling) ==
    \E new \in [Found -> {w \in Watches : slugOf[w] = None}] :
        /\ \A s, r \in Found : new[s] = new[r] => s = r
        /\ watched' = [s \in Slugs |-> CASE s \in Found -> new[s]
                                         [] s \in Missing -> None
                                         [] OTHER -> watched[s]]
        /\ slugOf' = [w \in Watches |->
                        IF \E s \in Found : new[s] = w
                          THEN CHOOSE s \in Found : new[s] = w
                          ELSE slugOf[w]]
        /\ cancel' = [w \in Watches |->
                        IF \E s \in canceling : watched[s] = w THEN "called" ELSE cancel[w]]
        /\ fresh' = (fresh \ Missing) \cup Found

\* Mutant: a watch is removed without being canceled.
Discover_NoCancel ==
    /\ listed # None
    /\ Rescan({})
    /\ listed' = None
    /\ UNCHANGED <<serverVars, starting, status, watchVars, streamVars>>

\* By now the stations may have changed again.
Discover ==
    /\ listed # None
    /\ Rescan(Missing)
    /\ listed' = None
    /\ UNCHANGED <<serverVars, starting, status, watchVars, streamVars>>

\* Mutant: the watcher is started before GetStatus has answered.
StartWatch_GoFirst(s) ==
    /\ starting = None
    /\ s \in fresh
    /\ fresh' = fresh \ {s}
    /\ starting' = s
    /\ cancel' = [cancel EXCEPT ![watched[s]] = "set"]
    /\ status' \in {None} \cup (IF up /\ s \in registered THEN {air[s]} ELSE {})
    /\ wpc' = [wpc EXCEPT ![watched[s]] = "loop"]
    /\ UNCHANGED <<serverVars, watched, listed, slugOf, connected, silence, streamVars>>

\* startWatch: the context of the watcher, and a best-effort GetStatus.
StartWatch(s) ==
    /\ starting = None
    /\ s \in fresh
    /\ fresh' = fresh \ {s}
    /\ starting' = s
    /\ cancel' = [cancel EXCEPT ![watched[s]] = "set"]
    /\ status' \in {None} \cup (IF up /\ s \in registered THEN {air[s]} ELSE {})
    /\ UNCHANGED <<serverVars, watched, listed, slugOf, watchVars, streamVars>>

\* Its answer is stored, and the watcher started.
GoWatch ==
    /\ starting # None
    /\ silence' = IF status = None THEN silence ELSE [silence EXCEPT ![watched[starting]] = status]
    /\ wpc' = [wpc EXCEPT ![watched[starting]] = "loop"]
    /\ starting' = None
    /\ status' = None
    /\ UNCHANGED <<serverVars, watched, listed, fresh, slugOf, cancel, connected, streamVars>>

-----------------------------------------------------------------------------
(* watchEvents.                                                            *)

\* The loop condition: ctx.Err() is no longer nil.
Quit(w) ==
    /\ wpc[w] = "loop"
    /\ Canceled(w)
    /\ wpc' = [wpc EXCEPT ![w] = "gone"]
    /\ UNCHANGED <<serverVars, loopVars, cancel, connected, silence, streamVars>>

\* The RPC cannot be started: the server is down, or the connection breaks.
SubscribeFails(w) ==
    /\ wpc[w] = "loop"
    /\ ~Canceled(w)
    /\ \/ ~up /\ troubles' = troubles
       \/ Trouble
    /\ connected' = [connected EXCEPT ![w] = FALSE]
    /\ wpc' = [wpc EXCEPT ![w] = "sleep"]
    /\ UNCHANGED <<up, registered, air, changes, loopVars, cancel, silence, streamVars>>

\* A stream of a station the server does not know opens all the same, and ends
\* on the first Recv.
Subscribe(w) ==
    /\ wpc[w] = "loop"
    /\ ~Canceled(w)
    /\ up
    /\ stream' = [stream EXCEPT ![w] = IF slugOf[w] \in registered THEN "open" ELSE "ended"]
    /\ wire' = [wire EXCEPT ![w] = <<>>]
    /\ heard' = [heard EXCEPT ![w] = FALSE]
    /\ forwarder' = [forwarder EXCEPT ![w] = "recv"]
    /\ connected' = [connected EXCEPT ![w] = TRUE]
    /\ wpc' = [wpc EXCEPT ![w] = "drain"]
    /\ UNCHANGED <<serverVars, loopVars, cancel, silence, held>>

\* sleepOrDone.
Wake(w) ==
    /\ wpc[w] = "sleep"
    /\ \/ wpc' = [wpc EXCEPT ![w] = "loop"]
       \/ Canceled(w) /\ wpc' = [wpc EXCEPT ![w] = "gone"]
    /\ UNCHANGED <<serverVars, loopVars, cancel, connected, silence, streamVars>>

\* The channel hands an event over.
Handle(w) ==
    /\ wpc[w] = "drain"
    /\ forwarder[w] = "send"
    /\ silence' = [silence EXCEPT ![w] = held[w]]
    /\ forwarder' = [forwarder EXCEPT ![w] = "recv"]
    /\ held' = [held EXCEPT ![w] = None]
    /\ UNCHANGED <<serverVars, loopVars, cancel, connected, wpc, stream, wire, heard>>

\* Mutant: the watcher stops when the stream ends.
SawClosed_Stops(w) ==
    /\ wpc[w] = "drain"
    /\ forwarder[w] = "closed"
    /\ connected' = [connected EXCEPT ![w] = FALSE]
    /\ forwarder' = [forwarder EXCEPT ![w] = "none"]
    /\ stream' = [stream EXCEPT ![w] = "none"]
    /\ wpc' = [wpc EXCEPT ![w] = "gone"]
    /\ UNCHANGED <<serverVars, loopVars, cancel, silence, wire, held, heard>>

\* The channel is closed: the range ends.
SawClosed(w) ==
    /\ wpc[w] = "drain"
    /\ forwarder[w] = "closed"
    /\ connected' = [connected EXCEPT ![w] = FALSE]
    /\ forwarder' = [forwarder EXCEPT ![w] = "none"]
    /\ stream' = [stream EXCEPT ![w] = "none"]
    /\ wpc' = [wpc EXCEPT ![w] = "loop"]
    /\ UNCHANGED <<serverVars, loopVars, cancel, silence, wire, held, heard>>

-----------------------------------------------------------------------------
(* The goroutine of SubscribeEvents.                                       *)

Receive(w) ==
    /\ forwarder[w] = "recv"
    /\ wire[w] # <<>>
    /\ held' = [held EXCEPT ![w] = Head(wire[w])]
    /\ wire' = [wire EXCEPT ![w] = Tail(@)]
    /\ forwarder' = [forwarder EXCEPT ![w] = "send"]
    /\ UNCHANGED <<serverVars, loopVars, cancel, watchVars, stream, heard>>

\* Mutant: the goroutine only looks at its stream.
Close_OnlyEOF(w) ==
    /\ forwarder[w] = "recv" /\ stream[w] = "ended" /\ wire[w] = <<>>
    /\ forwarder' = [forwarder EXCEPT ![w] = "closed"]
    /\ held' = [held EXCEPT ![w] = None]
    /\ UNCHANGED <<serverVars, loopVars, cancel, watchVars, stream, wire, heard>>

\* Recv fails, at the end of the stream or because the context is canceled; or
\* the context is canceled while it offers an event.
Close(w) ==
    /\ \/ forwarder[w] = "recv" /\ stream[w] = "ended" /\ wire[w] = <<>>
       \/ forwarder[w] \in {"recv", "send"} /\ Canceled(w)
    /\ forwarder' = [forwarder EXCEPT ![w] = "closed"]
    /\ held' = [held EXCEPT ![w] = None]
    /\ UNCHANGED <<serverVars, loopVars, cancel, watchVars, stream, wire, heard>>

-----------------------------------------------------------------------------
Watcher(w)  == Quit(w) \/ Subscribe(w) \/ SubscribeFails(w) \/ Wake(w) \/ Handle(w) \/ SawClosed(w)
Forwards(w) == Receive(w) \/ Close(w)
Loop        == ListStations \/ Discover \/ (\E s \in Slugs : StartWatch(s)) \/ GoWatch

Next ==
    \/ ServerDown \/ ServerUp
    \/ \E s \in Slugs : Register(s) \/ Unregister(s) \/ Change(s)
    \/ \E w \in Watches : StreamDrops(w) \/ Watcher(w) \/ Forwards(w)
    \/ Loop

Spec == Init /\ [][Next]_vars

\* The loop, the watchers and the forwarders run; a server that is down comes
\* back.  That a subscription succeeds, a stream lasts or a station stays is not
\* assumed: MaxTroubles bounds how often it does not.
Fairness ==
    /\ WF_vars(ListStations) /\ WF_vars(Discover)
    /\ WF_vars(\E s \in Slugs : StartWatch(s)) /\ WF_vars(GoWatch)
    /\ \A w \in Watches : WF_vars(Watcher(w)) /\ WF_vars(Forwards(w))
    /\ WF_vars(ServerUp)

FairSpec == Spec /\ Fairness

-----------------------------------------------------------------------------
(* Properties.                                                             *)

\* A watcher that has not been canceled is the one its station is tracked by:
\* no station has two streams feeding its listener history, however often it
\* comes and goes between two discoveries.
LiveWatchIsTracked ==
    \A w \in Watches : cancel[w] = "set" => watched[slugOf[w]] = w

\* A watch leaves Collector.watched with a context to cancel: discover calls
\* w.cancel() of a watch that startWatch, which sets it after c.mu is released,
\* has reached (a nil call would take the panel down).
DroppedHasCancel ==
    [][\A s \in Slugs : watched[s] # None /\ watched'[s] # watched[s]
          => cancel[watched[s]] = "set"]_vars

\* Once an event has come over the current stream and nothing is in flight, the
\* live state is the station's: events are applied in order, and the initial
\* GetStatus, whose answer may be older, does not overwrite one.
EventsWin ==
    \A w \in Watches :
        heard[w] /\ stream[w] = "open" /\ wire[w] = <<>> /\ forwarder[w] = "recv"
            => silence[w] = air[slugOf[w]]

\* watchEvents retries "until ctx is canceled": a station that stays registered
\* on a server that stays up ends connected, through every drop and restart.
Recovers ==
    \A s \in Slugs :
        <>[](up /\ s \in registered)
            => <>[](watched[s] # None /\ connected[watched[s]] /\ stream[watched[s]] = "open")

\* The watcher and the forwarder of a dropped station both end: neither is left
\* behind on a channel or a stream.
GoroutinesEnd ==
    \A w \in Watches : Canceled(w) ~> wpc[w] = "gone" /\ forwarder[w] = "none"

\* The goroutines, stream and channel of a watch as one feed.
Queue(w) == CASE forwarder[w] = "recv" -> wire[w]
              [] forwarder[w] = "send" -> <<held[w]>> \o wire[w]
              [] OTHER -> <<>>
Phase(w) == CASE wpc[w] = "new" -> "new"
              [] forwarder[w] \in {"recv", "send"} -> stream[w]
              [] OTHER -> "off"

StationFeeds == INSTANCE StationFeeds
  WITH Feeds <- Watches, of <- slugOf, canceled <- {w \in Watches : Canceled(w)},
       phase <- [w \in Watches |-> Phase(w)], queue <- [w \in Watches |-> Queue(w)],
       cache <- silence

\* The collector implements StationFeeds: no station has two live feeds, however
\* often it comes and goes between two discoveries, no event is lost while the
\* stream of a feed lasts, and none overtakes another or the snapshot.
ImplementsFeeds == StationFeeds!FeedSpec

-----------------------------------------------------------------------------
(* The inductive invariant of the discovery loop.                          *)

LoopTypes ==
    /\ registered \subseteq Slugs
    /\ watched \in [Slugs -> Watches \cup {None}]
    /\ listed \in (SUBSET Slugs) \cup {None}
    /\ fresh \subseteq Slugs
    /\ starting \in Slugs \cup {None}
    /\ slugOf \in [Watches -> Slugs \cup {None}]
    /\ cancel \in [Watches -> {"nil", "set", "called"}]

\* A tracked watch belongs to its station and has a context or is about to get
\* one; only a tracked watch has one that is not canceled.
TrackOK(s) ==
    watched[s] # None =>
        /\ slugOf[watched[s]] = s
        /\ cancel[watched[s]] = "set" \/ (s \in fresh /\ cancel[watched[s]] = "nil")
WatchOK(w) ==
    /\ slugOf[w] # None /\ ~Canceled(w) => watched[slugOf[w]] = w
    /\ slugOf[w] = None => cancel[w] = "nil"

LoopInv ==
    /\ LoopTypes
    /\ \A s \in Slugs : TrackOK(s)
    /\ \A w \in Watches : WatchOK(w)
    /\ \A s \in fresh : watched[s] # None
    /\ listed # None => fresh = {}

\* Between two rounds of discovery no watch is half started; a watch that waits
\* to be started, or for its GetStatus, has no goroutine yet.
StartOK ==
    /\ listed # None => starting = None
    /\ \A s \in fresh : watched[s] # None /\ wpc[watched[s]] = "new"
    /\ starting # None => /\ starting \notin fresh
                          /\ watched[starting] # None /\ wpc[watched[starting]] = "new"
    /\ \A w \in Watches : slugOf[w] = None => wpc[w] = "new"

\* The newest event that came over an open stream is on the wire, in the hands
\* of the forwarder, or stored; and it tells the station's state.
NewestIs(w, now) ==
    /\ wire[w] # <<>> => wire[w][Len(wire[w])] = now
    /\ wire[w] = <<>> /\ forwarder[w] = "send" => held[w] = now
    /\ wire[w] = <<>> /\ forwarder[w] = "recv" => silence[w] = now

StreamOK(w) ==
    /\ wpc[w] = "drain" <=> forwarder[w] # "none"
    /\ wpc[w] = "drain" <=> stream[w] # "none"
    /\ forwarder[w] = "send" => held[w] \in BOOLEAN
    /\ heard[w] /\ stream[w] = "open" => NewestIs(w, air[slugOf[w]])

CollectorInv == CollectorTypeOK /\ LoopInv /\ StartOK /\ \A w \in Watches : StreamOK(w)

=============================================================================
