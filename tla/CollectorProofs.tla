-------------------------- MODULE CollectorProofs --------------------------
(***************************************************************************)
(* Proofs about the discovery loop of Collector, for any stations, watches *)
(* and bounds.  LoopInv is inductive: only ListStations, Discover,         *)
(* StartWatch and GoWatch touch what it speaks of.  CollectorInv adds the  *)
(* types and where the newest event of each stream is.  From it every step *)
(* is one of StationFeeds or hidden from it.                               *)
(***************************************************************************)
EXTENDS Collector, SequenceTheorems, TLAPS

USE CollectorAssumption

\* Nothing is watched at first.
LEMMA InitHolds == Init => LoopInv
<1> SUFFICES ASSUME Init PROVE LoopInv OBVIOUS
<1> USE DEF Init
<1>1. LoopTypes
  <2>1. watched \in [Slugs -> Watches \cup {None}] OBVIOUS
  <2>2. listed \in (SUBSET Slugs) \cup {None} OBVIOUS
  <2>3. fresh \subseteq Slugs /\ starting \in Slugs \cup {None} OBVIOUS
  <2>4. slugOf \in [Watches -> Slugs \cup {None}] OBVIOUS
  <2>5. cancel \in [Watches -> {"nil", "set", "called"}] OBVIOUS
  <2> QED BY <2>1, <2>2, <2>3, <2>4, <2>5 DEF LoopTypes
<1>2. (\A s \in Slugs : TrackOK(s)) /\ (\A w \in Watches : WatchOK(w)) BY DEF TrackOK, WatchOK
<1>3. (\A s \in fresh : watched[s] # None) /\ (listed # None => fresh = {}) OBVIOUS
<1> QED BY <1>1, <1>2, <1>3 DEF LoopInv

\* A step that leaves the loop's variables alone preserves the invariant.
LEMMA OutsideKeeps ==
  ASSUME LoopInv, UNCHANGED <<watched, listed, fresh, starting, slugOf, cancel>>,
         registered' \subseteq Slugs
  PROVE  LoopInv'
BY DEF LoopInv, LoopTypes, TrackOK, WatchOK, Canceled

\* The servers, the watchers and the forwarders take such steps.
LEMMA OthersOutside ==
  ASSUME \/ ServerDown \/ ServerUp \/ (\E s \in Slugs : Register(s) \/ Unregister(s) \/ Change(s))
         \/ (\E w \in Watches : StreamDrops(w) \/ Watcher(w) \/ Forwards(w))
         \/ UNCHANGED vars
  PROVE  UNCHANGED <<watched, listed, fresh, starting, slugOf, cancel>>
BY DEF ServerDown, ServerUp, Register, Unregister, Change, StreamDrops, Watcher, Quit,
       Subscribe, SubscribeFails, Wake, Handle, SawClosed, Forwards, Receive, Close,
       loopVars, vars

\* ListStations answers while nothing is left to start.
LEMMA ListStationsKeeps ==
  ASSUME LoopInv, ListStations
  PROVE  LoopInv'
BY DEF LoopInv, LoopTypes, TrackOK, WatchOK, Canceled, ListStations, serverVars

\* Every station just found has a watch of its own, and that watch knows it.
LEMMA FoundGetOne ==
  ASSUME NEW S, NEW new \in [S -> Watches], NEW s \in S,
         \A r, q \in S : new[r] = new[q] => r = q
  PROVE  (CHOOSE r \in S : new[r] = new[s]) = s
OBVIOUS

\* Discover cancels the watches it removes and hands out unused ones.
LEMMA DiscoverKeeps ==
  ASSUME LoopInv, Discover
  PROVE  LoopInv'
<1> USE DEF LoopInv, LoopTypes
<1>1. fresh = {} /\ listed \subseteq Slugs /\ listed' = None /\ starting' = starting
  <2>1. listed # None /\ listed' = None /\ starting' = starting BY DEF Discover
  <2>2. listed \in SUBSET Slugs BY <2>1
  <2> QED BY <2>1, <2>2
<1>2. PICK new \in [Found -> {w \in Watches : slugOf[w] = None}] :
        /\ \A s, r \in Found : new[s] = new[r] => s = r
        /\ watched' = [s \in Slugs |-> CASE s \in Found -> new[s]
                                         [] s \in Missing -> None
                                         [] OTHER -> watched[s]]
        /\ slugOf' = [w \in Watches |->
                        IF \E s \in Found : new[s] = w
                          THEN CHOOSE s \in Found : new[s] = w
                          ELSE slugOf[w]]
        /\ cancel' = [w \in Watches |->
                        IF \E s \in Missing : watched[s] = w THEN "called" ELSE cancel[w]]
        /\ fresh' = (fresh \ Missing) \cup Found
  BY DEF Discover, Rescan
<1>3. Found \subseteq Slugs /\ Missing \subseteq Slugs /\ Found \cap Missing = {}
  BY <1>1 DEF Found, Missing
<1>4. fresh' = Found BY <1>1, <1>2
<1>5. ASSUME NEW s \in Found
      PROVE  /\ watched'[s] = new[s] /\ new[s] \in Watches
             /\ slugOf[new[s]] = None
             /\ slugOf'[new[s]] = s
             /\ cancel[new[s]] = "nil"
             /\ cancel'[new[s]] = "nil"
  <2>1. watched'[s] = new[s] /\ new[s] \in Watches /\ slugOf[new[s]] = None
    BY <1>2, <1>3
  <2>2. slugOf'[new[s]] = CHOOSE r \in Found : new[r] = new[s] BY <1>2, <2>1
  <2>3. slugOf'[new[s]] = s BY <1>2, <2>2, FoundGetOne
  <2>4. cancel[new[s]] = "nil" BY <2>1 DEF WatchOK
  <2>5. \A r \in Missing : watched[r] # new[s] BY <1>3, <2>1 DEF Missing, TrackOK
  <2>6. cancel'[new[s]] = "nil" BY <1>2, <2>1, <2>4, <2>5
  <2> QED BY <2>1, <2>3, <2>4, <2>6
<1>6. ASSUME NEW w \in Watches, \A s \in Found : new[s] # w
      PROVE  slugOf'[w] = slugOf[w]
  BY <1>2, <1>6
<1>7. LoopTypes'
  <2>4. registered' = registered BY DEF Discover, serverVars
  <2>1. watched' \in [Slugs -> Watches \cup {None}] BY <1>2, <1>3, <1>5
  <2>2. slugOf' \in [Watches -> Slugs \cup {None}]
    <3>1. ASSUME NEW w \in Watches PROVE slugOf'[w] \in Slugs \cup {None}
      <4>1. CASE \E s \in Found : new[s] = w BY <1>3, <1>5, <4>1
      <4>2. CASE \A s \in Found : new[s] # w BY <1>6, <4>2
      <4> QED BY <4>1, <4>2
    <3> QED BY <1>2, <3>1
  <2>3. cancel' \in [Watches -> {"nil", "set", "called"}] BY <1>2
  <2> QED BY <1>1, <1>3, <1>4, <2>1, <2>2, <2>3, <2>4
<1>8. ASSUME NEW s \in Slugs PROVE TrackOK(s)'
  <2>1. CASE s \in Found BY <1>4, <1>5, <2>1 DEF TrackOK
  <2>2. CASE s \in Missing BY <1>2, <1>3, <2>2 DEF TrackOK
  <2>3. CASE s \notin Found /\ s \notin Missing
    <3> SUFFICES ASSUME watched[s] # None PROVE TrackOK(s)' BY <1>2, <2>3 DEF TrackOK
    <3>1. watched'[s] = watched[s] /\ watched[s] \in Watches BY <1>2, <2>3
    <3>2. slugOf[watched[s]] = s /\ cancel[watched[s]] = "set" BY <1>1 DEF TrackOK
    <3>3. slugOf'[watched[s]] = s BY <1>5, <1>6, <3>1, <3>2
    <3>4. \A r \in Missing : watched[r] # watched[s]
      BY <2>3, <3>2 DEF Missing, TrackOK
    <3>5. cancel'[watched[s]] = "set" BY <1>2, <3>1, <3>2, <3>4
    <3> QED BY <3>1, <3>3, <3>5 DEF TrackOK
  <2> QED BY <2>1, <2>2, <2>3
<1>9. ASSUME NEW w \in Watches PROVE WatchOK(w)'
  <2>1. CASE \E s \in Found : new[s] = w BY <1>3, <1>5, <2>1 DEF WatchOK
  <2>2. CASE \A s \in Found : new[s] # w
    <3>1. slugOf'[w] = slugOf[w] BY <1>6, <2>2
    <3>2. CASE slugOf[w] # None /\ cancel'[w] # "called"
      <4>1. cancel[w] # "called" /\ \A s \in Missing : watched[s] # w BY <1>2, <3>2
      <4>2. slugOf[w] # None /\ watched[slugOf[w]] = w /\ slugOf[w] \in Slugs
        BY <3>2, <4>1 DEF WatchOK, Canceled
      <4>3. slugOf[w] \notin Missing /\ slugOf[w] \notin Found BY <4>1, <4>2 DEF Found
      <4>4. watched'[slugOf[w]] = w BY <1>2, <4>2, <4>3
      <4> QED BY <3>1, <3>2, <4>2, <4>4 DEF WatchOK, Canceled
    <3>3. CASE slugOf[w] = None
      <4>1. cancel[w] = "nil" BY <3>3 DEF WatchOK
      <4>2. ASSUME NEW s \in Missing, watched[s] = w PROVE FALSE
        <5>1. TrackOK(s) /\ watched[s] # None /\ s # None BY <4>2 DEF Missing, CollectorAssumption
        <5> QED BY <3>3, <4>2, <5>1 DEF TrackOK
      <4>3. cancel'[w] = "nil" BY <1>2, <4>1, <4>2
      <4> QED BY <3>1, <3>3, <4>3 DEF WatchOK, Canceled
    <3>4. CASE cancel'[w] = "called" /\ slugOf[w] # None BY <3>1, <3>4 DEF WatchOK, Canceled
    <3> QED BY <3>2, <3>3, <3>4
  <2> QED BY <2>1, <2>2
<1>10. \A s \in fresh' : watched'[s] # None BY <1>4, <1>5
<1> QED BY <1>1, <1>7, <1>8, <1>9, <1>10

\* StartWatch gives a tracked watch its context.
LEMMA StartWatchKeeps ==
  ASSUME LoopInv, NEW s \in Slugs, StartWatch(s)
  PROVE  LoopInv'
<1> USE DEF LoopInv, LoopTypes, StartWatch
<1> DEFINE w == watched[s]
<1>1. w \in Watches /\ slugOf[w] = s BY DEF TrackOK
<1>2. UNCHANGED <<watched, listed, slugOf>> OBVIOUS
<1>3. cancel' = [cancel EXCEPT ![w] = "set"] /\ fresh' = fresh \ {s} OBVIOUS
<1>4. LoopTypes' BY <1>1 DEF serverVars
<1>5. ASSUME NEW r \in Slugs PROVE TrackOK(r)'
  <2>1. CASE r = s BY <1>1, <1>2, <1>3, <2>1 DEF TrackOK
  <2>2. CASE r # s
    <3> SUFFICES ASSUME watched[r] # None PROVE TrackOK(r)' BY <1>2 DEF TrackOK
    <3>1. watched[r] # w /\ watched[r] \in Watches BY <1>1, <2>2 DEF TrackOK
    <3>2. cancel'[watched[r]] = cancel[watched[r]] BY <1>3, <3>1
    <3> QED BY <1>2, <1>3, <2>2, <3>2 DEF TrackOK
  <2> QED BY <2>1, <2>2
<1>6. ASSUME NEW v \in Watches PROVE WatchOK(v)'
  BY <1>1, <1>2, <1>3 DEF WatchOK, TrackOK, Canceled
<1> QED BY <1>2, <1>3, <1>4, <1>5, <1>6

\* The loop does not decide which stations are registered.
LEMMA RegisteredStays ==
  ASSUME registered \subseteq Slugs, [Next]_vars
  PROVE  registered' \subseteq Slugs
BY DEF Next, ServerDown, ServerUp, Register, Unregister, Change, StreamDrops, Watcher, Quit,
       Subscribe, SubscribeFails, Wake, Handle, SawClosed, Forwards, Receive, Close, Loop,
       ListStations, Discover, StartWatch, GoWatch, serverVars, vars

\* Every step preserves the invariant.
LEMMA NextKeeps == LoopInv /\ [Next]_vars => LoopInv'
<1> SUFFICES ASSUME LoopInv, [Next]_vars PROVE LoopInv' OBVIOUS
<1>1. registered' \subseteq Slugs BY RegisteredStays DEF LoopInv, LoopTypes
<1>2. CASE Loop
  <2>1. CASE GoWatch
    <3>1. UNCHANGED <<watched, listed, fresh, slugOf, cancel>> /\ starting' = None
      BY <2>1 DEF GoWatch
    <3>2. LoopTypes' BY <1>1, <3>1 DEF LoopInv, LoopTypes
    <3> QED BY <3>1, <3>2 DEF LoopInv, TrackOK, WatchOK, Canceled
  <2> QED BY <1>2, <2>1, ListStationsKeeps, DiscoverKeeps, StartWatchKeeps DEF Loop
<1>3. CASE ~Loop
  <2>1. UNCHANGED <<watched, listed, fresh, starting, slugOf, cancel>>
    BY <1>3, OthersOutside DEF Next
  <2> QED BY <1>1, <2>1, OutsideKeeps
<1> QED BY <1>2, <1>3

-----------------------------------------------------------------------------
(* The newest event.                                                       *)

\* Everything is as yet unused.
LEMMA InitAll == Init => CollectorInv
<1> SUFFICES ASSUME Init PROVE CollectorInv OBVIOUS
<1>1. LoopInv BY InitHolds
<1>2. CollectorTypeOK
  <2>1. wire \in [Watches -> Seq(BOOLEAN)] BY EmptySeq DEF Init
  <2>2. /\ connected \in [Watches -> BOOLEAN] /\ silence \in [Watches -> BOOLEAN]
        /\ heard \in [Watches -> BOOLEAN] /\ air \in [Slugs -> BOOLEAN] /\ up \in BOOLEAN
    BY DEF Init
  <2>3. /\ wpc \in [Watches -> {"new", "loop", "drain", "sleep", "gone"}]
        /\ stream \in [Watches -> {"none", "open", "ended"}]
        /\ forwarder \in [Watches -> {"none", "recv", "send", "closed"}]
        /\ held \in [Watches -> BOOLEAN \cup {None}]
    BY DEF Init
  <2>4. troubles \in 0..MaxTroubles /\ changes \in 0..MaxChanges /\ status \in BOOLEAN \cup {None}
    BY DEF Init
  <2> QED BY <1>1, <2>1, <2>2, <2>3, <2>4 DEF CollectorTypeOK, LoopInv, LoopTypes
<1>3. StartOK /\ \A w \in Watches : StreamOK(w) BY DEF Init, StartOK, StreamOK
<1> QED BY <1>1, <1>2, <1>3 DEF CollectorInv

\* What a queue gives and takes.
LEMMA Queues ==
  ASSUME NEW S, NEW q \in Seq(S), NEW a \in S
  PROVE  /\ Append(q, a) \in Seq(S) /\ Append(q, a) # <<>>
         /\ Append(q, a)[Len(Append(q, a))] = a
         /\ q # <<>> => /\ Head(q) \in S /\ Tail(q) \in Seq(S)
                        /\ Tail(q) = <<>> => Head(q) = q[Len(q)]
                        /\ Tail(q) # <<>> => Tail(q)[Len(Tail(q))] = q[Len(q)]
<1>1. /\ Append(q, a) \in Seq(S) /\ Append(q, a) # <<>>
      /\ Append(q, a)[Len(Append(q, a))] = a
  BY AppendProperties
<1>2. Len(<<>>) = 0 BY EmptySeq
<1>3. ASSUME q # <<>>
      PROVE  /\ Head(q) \in S /\ Tail(q) \in Seq(S)
             /\ Tail(q) = <<>> => Head(q) = q[Len(q)]
             /\ Tail(q) # <<>> => Tail(q)[Len(Tail(q))] = q[Len(q)]
  <2>1. /\ Head(q) \in S /\ Tail(q) \in Seq(S) /\ Len(q) \in Nat \ {0}
        /\ Len(Tail(q)) = Len(q) - 1 /\ Head(q) = q[1]
        /\ \A i \in 1..Len(Tail(q)) : Tail(q)[i] = q[i + 1]
    BY <1>3, HeadTailProperties, EmptySeq, LenProperties
  <2>2. ASSUME Len(q) # 1 PROVE Tail(q) # <<>>
    <3>1. Len(Tail(q)) # 0 BY <2>1, <2>2
    <3> QED BY <1>2, <3>1, Zenon
  <2>3. Tail(q) # <<>> => Len(Tail(q)) \in 1..Len(Tail(q)) BY <2>1, EmptySeq
  <2> QED BY <2>1, <2>2, <2>3
<1> QED BY <1>1, <1>3

\* A broken connection keeps the first of what was on it.
LEMMA KeptIsPrefix ==
  ASSUME NEW q \in Seq(BOOLEAN), NEW n \in Nat
  PROVE  /\ Kept(q, n) \in Seq(BOOLEAN) /\ Len(Kept(q, n)) <= Len(q)
         /\ \A i \in 1..Len(Kept(q, n)) : Kept(q, n)[i] = q[i]
<1> DEFINE m == IF n < Len(q) THEN n ELSE Len(q)
<1>1. m \in Nat /\ m <= Len(q) BY LenProperties
<1>2. Kept(q, n) = SubSeq(q, 1, m) BY DEF Kept
<1> HIDE DEF m
<1>3. \A i \in 1..m : q[i] \in BOOLEAN BY <1>1, ElementOfSeq
<1> QED BY <1>1, <1>2, <1>3, SubSeqProperties

\* A watch whose goroutines did nothing, though its stream may have ended.
LEMMA StreamFrame ==
  ASSUME NEW w \in Watches, StreamOK(w),
         wpc'[w] = wpc[w], forwarder'[w] = forwarder[w],
         \/ stream'[w] = stream[w] /\ (stream[w] = "open" => wire'[w] = wire[w])
         \/ stream[w] = "open" /\ stream'[w] = "ended",
         held'[w] = held[w], heard'[w] = heard[w],
         silence'[w] = silence[w], air'[slugOf'[w]] = air[slugOf[w]]
  PROVE  StreamOK(w)'
BY DEF StreamOK, NewestIs

\* What broken connections leave on the wires.
LEMMA BrokenWire ==
  ASSUME CollectorTypeOK, NEW W \in SUBSET Watches, Broken(W)
  PROVE  /\ wire' \in [Watches -> Seq(BOOLEAN)]
         /\ \A w \in Watches \ W : wire'[w] = wire[w]
         /\ \A w \in Watches : /\ Len(wire'[w]) <= Len(wire[w])
                               /\ \A i \in 1..Len(wire'[w]) : wire'[w][i] = wire[w][i]
<1>1. PICK n \in [W -> 0..MaxChanges] :
        wire' = [w \in Watches |-> IF w \in W THEN Kept(wire[w], n[w]) ELSE wire[w]]
  BY DEF Broken
<1>2. wire \in [Watches -> Seq(BOOLEAN)] BY DEF CollectorTypeOK
<1>3. ASSUME NEW w \in Watches
      PROVE  /\ wire'[w] \in Seq(BOOLEAN)
             /\ Len(wire'[w]) <= Len(wire[w])
             /\ \A i \in 1..Len(wire'[w]) : wire'[w][i] = wire[w][i]
  <2>0. wire[w] \in Seq(BOOLEAN) BY <1>2
  <2>1. CASE w \in W
    <3>1. n[w] \in Nat BY <2>1
    <3>2. wire'[w] = Kept(wire[w], n[w]) BY <1>1, <2>1
    <3> QED BY <2>0, <3>1, <3>2, KeptIsPrefix
  <2>2. CASE w \notin W
    <3>1. wire'[w] = wire[w] /\ Len(wire[w]) \in Nat BY <1>1, <2>0, <2>2, LenProperties
    <3> QED BY <2>0, <3>1
  <2> QED BY <2>1, <2>2
<1> QED BY <1>1, <1>3

\* The server's steps but Change, and those of the loop that start no watcher.
LEMMA QuietKeeps ==
  ASSUME CollectorInv,
         \/ ServerDown \/ ServerUp \/ (\E s \in Slugs : Register(s) \/ Unregister(s))
         \/ (\E w \in Watches : StreamDrops(w)) \/ UNCHANGED vars
  PROVE  CollectorTypeOK' /\ StartOK' /\ \A w \in Watches : StreamOK(w)'
<1>1. UNCHANGED <<air, changes, watched, listed, fresh, starting, status, slugOf, cancel,
                  connected, silence, wpc, forwarder, held, heard>>
  BY DEF ServerDown, ServerUp, Register, Unregister, StreamDrops, loopVars, watchVars,
         streamVars, vars
<1>2. \E W \in SUBSET Watches : \/ UNCHANGED <<stream, wire>>
                                \/ Ended(W) /\ UNCHANGED wire
                                \/ Broken(W)
  BY DEF ServerDown, ServerUp, Register, Unregister, StreamDrops, streamVars, vars
<1>3. /\ stream' \in [Watches -> {"none", "open", "ended"}]
      /\ wire' \in [Watches -> Seq(BOOLEAN)]
      /\ \A w \in Watches :
           \/ stream'[w] = stream[w] /\ (stream[w] = "open" => wire'[w] = wire[w])
           \/ stream[w] = "open" /\ stream'[w] = "ended"
  <2>0. /\ stream \in [Watches -> {"none", "open", "ended"}]
        /\ wire \in [Watches -> Seq(BOOLEAN)]
    BY DEF CollectorInv, CollectorTypeOK
  <2>1. PICK W \in SUBSET Watches :
             \/ UNCHANGED <<stream, wire>>
             \/ Ended(W) /\ UNCHANGED wire
             \/ Broken(W)
    BY <1>2
  <2>2. CASE UNCHANGED <<stream, wire>> BY <2>0, <2>2
  <2>3. CASE Ended(W) /\ UNCHANGED wire BY <2>0, <2>3 DEF Ended
  <2>4. CASE Broken(W)
    <3>1. wire' \in [Watches -> Seq(BOOLEAN)] /\ \A w \in Watches \ W : wire'[w] = wire[w]
      BY <2>0, <2>4, BrokenWire DEF CollectorInv
    <3> QED BY <2>0, <2>4, <3>1 DEF Broken, Ended
  <2> QED BY <2>1, <2>2, <2>3, <2>4
<1>4. up' \in BOOLEAN /\ registered' \subseteq Slugs /\ troubles' \in 0..MaxTroubles
  <2>1. troubles \in 0..MaxTroubles /\ (UNCHANGED troubles \/ Trouble)
    BY DEF ServerDown, ServerUp, Register, Unregister, StreamDrops, vars, CollectorInv,
           CollectorTypeOK
  <2>2. troubles' \in 0..MaxTroubles BY <2>1 DEF Trouble, CollectorAssumption
  <2>3. up' \in BOOLEAN /\ registered' \subseteq Slugs
    BY DEF ServerDown, ServerUp, Register, Unregister, StreamDrops, vars, CollectorInv,
           CollectorTypeOK
  <2> QED BY <2>2, <2>3
<1>5. CollectorTypeOK' BY <1>1, <1>3, <1>4 DEF CollectorInv, CollectorTypeOK
<1>6. StartOK' BY <1>1 DEF CollectorInv, StartOK
<1>7. \A w \in Watches : StreamOK(w)' BY <1>1, <1>3, StreamFrame DEF CollectorInv
<1> QED BY <1>5, <1>6, <1>7

\* An open stream belongs to a station that has one.
LEMMA OpenHasSlug ==
  ASSUME CollectorInv, NEW w \in Watches, wpc[w] # "new"
  PROVE  slugOf[w] \in Slugs
BY DEF CollectorInv, StartOK, CollectorTypeOK

\* A change is put on every open stream of its station.
LEMMA ChangeKeeps ==
  ASSUME CollectorInv, NEW s \in Slugs, Change(s)
  PROVE  CollectorTypeOK' /\ StartOK' /\ \A w \in Watches : StreamOK(w)'
<1> USE DEF CollectorInv, CollectorTypeOK
<1>1. /\ UNCHANGED <<up, registered, troubles, watched, listed, fresh, starting, status, slugOf,
                     cancel, connected, silence, wpc, stream, forwarder, held>>
      /\ changes' \in 0..MaxChanges
  BY DEF Change, loopVars, watchVars, CollectorAssumption
<1>2. air' \in [Slugs -> BOOLEAN] /\ air'[s] \in BOOLEAN /\ \A r \in Slugs \ {s} : air'[r] = air[r]
  BY DEF Change
<1>3. ASSUME NEW w \in Watches
      PROVE  /\ wire'[w] = IF slugOf[w] = s /\ stream[w] = "open" THEN Append(wire[w], air'[s])
                           ELSE wire[w]
             /\ heard'[w] = (heard[w] \/ (slugOf[w] = s /\ stream[w] = "open"))
  BY DEF Change
<1>4. ASSUME NEW w \in Watches
      PROVE  /\ Append(wire[w], air'[s]) \in Seq(BOOLEAN) /\ Append(wire[w], air'[s]) # <<>>
             /\ Append(wire[w], air'[s])[Len(Append(wire[w], air'[s]))] = air'[s]
             /\ wire'[w] \in Seq(BOOLEAN)
  <2>1. wire[w] \in Seq(BOOLEAN) OBVIOUS
  <2>2. /\ Append(wire[w], air'[s]) \in Seq(BOOLEAN) /\ Append(wire[w], air'[s]) # <<>>
        /\ Append(wire[w], air'[s])[Len(Append(wire[w], air'[s]))] = air'[s]
    BY <1>2, <2>1, Queues
  <2> QED BY <1>3, <2>1, <2>2
<1>5. wire' \in [Watches -> Seq(BOOLEAN)] BY <1>4 DEF Change
<1>6. heard' \in [Watches -> BOOLEAN] BY DEF Change
<1>7. CollectorTypeOK' BY <1>1, <1>2, <1>5, <1>6
<1>8. StartOK' BY <1>1 DEF StartOK
<1>9. ASSUME NEW w \in Watches PROVE StreamOK(w)'
  <2>1. StreamOK(w) /\ wire[w] \in Seq(BOOLEAN) OBVIOUS
  <2>2. CASE slugOf[w] = s /\ stream[w] = "open"
    <3>1. wire'[w] # <<>> /\ wire'[w][Len(wire'[w])] = air'[s] BY <1>3, <1>4, <2>2
    <3> QED BY <1>1, <2>1, <2>2, <3>1 DEF StreamOK, NewestIs
  <2>3. CASE stream[w] # "open" BY <1>1, <2>1, <2>3 DEF StreamOK
  <2>4. CASE slugOf[w] # s /\ stream[w] = "open"
    <3>1. slugOf[w] \in Slugs BY <2>1, <2>4, OpenHasSlug DEF StreamOK
    <3>2. air'[slugOf[w]] = air[slugOf[w]] BY <1>2, <2>4, <3>1
    <3>3. wire'[w] = wire[w] BY <1>3, <2>4
    <3>4. heard'[w] => heard[w] BY <1>3, <2>4
    <3> QED BY <1>1, <2>1, <3>2, <3>3, <3>4 DEF StreamOK, NewestIs
  <2> QED BY <2>2, <2>3, <2>4
<1> QED BY <1>7, <1>8, <1>9

\* ListStations and StartWatch start no goroutine of a watcher.
LEMMA AsksKeep ==
  ASSUME CollectorInv, ListStations \/ \E s \in Slugs : StartWatch(s)
  PROVE  CollectorTypeOK' /\ StartOK' /\ \A w \in Watches : StreamOK(w)'
<1>1. LoopInv' BY ListStationsKeeps, StartWatchKeeps DEF CollectorInv
<1>2. UNCHANGED <<up, registered, air, troubles, changes, watched, slugOf,
                  connected, silence, wpc, stream, wire, forwarder, held, heard>>
  BY DEF ListStations, StartWatch, serverVars, watchVars, streamVars
<1>3. status' \in BOOLEAN \cup {None}
  <2>1. CASE ListStations BY <2>1 DEF ListStations, CollectorInv, CollectorTypeOK
  <2>2. ASSUME NEW s \in Slugs, StartWatch(s) PROVE status' \in BOOLEAN \cup {None}
    <3>1. air[s] \in BOOLEAN BY DEF CollectorInv, CollectorTypeOK
    <3> QED BY <2>2, <3>1 DEF StartWatch
  <2> QED BY <2>1, <2>2
<1>4. CollectorTypeOK' BY <1>1, <1>2, <1>3 DEF CollectorInv, CollectorTypeOK, LoopInv, LoopTypes
<1>5. StartOK'
  <2>1. CASE ListStations BY <1>2, <2>1 DEF ListStations, CollectorInv, StartOK
  <2>2. ASSUME NEW s \in Slugs, StartWatch(s) PROVE StartOK'
    <3>1. s \in fresh /\ fresh' = fresh \ {s} /\ starting' = s /\ listed' = listed
      BY <2>2 DEF StartWatch
    <3>2. listed = None BY <3>1 DEF CollectorInv, LoopInv
    <3> QED BY <1>2, <3>1, <3>2 DEF CollectorInv, StartOK
  <2> QED BY <2>1, <2>2
<1>6. \A w \in Watches : StreamOK(w)' BY <1>2, StreamFrame DEF CollectorInv
<1> QED BY <1>4, <1>5, <1>6

\* Discover hands out watches nothing has used.
LEMMA DiscoverStreams ==
  ASSUME CollectorInv, Discover
  PROVE  CollectorTypeOK' /\ StartOK' /\ \A w \in Watches : StreamOK(w)'
<1>1. LoopInv /\ LoopInv' /\ LoopTypes' BY DiscoverKeeps DEF CollectorInv, LoopInv
<1>2. /\ UNCHANGED <<up, registered, air, troubles, changes, starting, status,
                     connected, silence, wpc, stream, wire, forwarder, held, heard>>
      /\ listed # None /\ listed' = None
  BY DEF Discover, serverVars, watchVars, streamVars
<1>3. CollectorTypeOK' BY <1>1, <1>2 DEF CollectorInv, CollectorTypeOK, LoopTypes
<1>4. PICK new \in [Found -> {w \in Watches : slugOf[w] = None}] :
        /\ watched' = [s \in Slugs |-> CASE s \in Found -> new[s]
                                         [] s \in Missing -> None
                                         [] OTHER -> watched[s]]
        /\ slugOf' = [w \in Watches |->
                        IF \E s \in Found : new[s] = w
                          THEN CHOOSE s \in Found : new[s] = w
                          ELSE slugOf[w]]
        /\ fresh' = (fresh \ Missing) \cup Found
  BY DEF Discover, Rescan
<1>5. fresh = {} /\ starting = None BY <1>1, <1>2 DEF LoopInv, CollectorInv, StartOK
<1>6. \A w \in Watches : slugOf[w] = None => wpc[w] = "new" BY DEF CollectorInv, StartOK
<1>7. ASSUME NEW w \in Watches, wpc[w] # "new" PROVE slugOf'[w] = slugOf[w]
  <2>1. \A s \in Found : new[s] # w BY <1>4, <1>6, <1>7
  <2> QED BY <1>4, <2>1
<1>8. StartOK'
  <2>1. ASSUME NEW s \in fresh' PROVE watched'[s] # None /\ wpc'[watched'[s]] = "new"
    <3>1. s \in Found /\ s \in Slugs BY <1>1, <1>2, <1>4, <1>5, <2>1 DEF LoopInv, LoopTypes, Found
    <3>2. watched'[s] = new[s] /\ new[s] \in Watches /\ slugOf[new[s]] = None
      BY <1>4, <3>1 DEF Found, Missing
    <3> QED BY <1>2, <1>6, <3>2
  <2>2. ASSUME NEW w \in Watches, slugOf'[w] = None PROVE wpc'[w] = "new"
    <3>1. CASE wpc[w] = "new" BY <1>2, <3>1
    <3>2. CASE wpc[w] # "new" BY <1>6, <1>7, <2>2, <3>2
    <3> QED BY <3>1, <3>2
  <2> QED BY <1>2, <1>5, <2>1, <2>2 DEF StartOK
<1>9. ASSUME NEW w \in Watches PROVE StreamOK(w)'
  <2>1. StreamOK(w) BY DEF CollectorInv
  <2>2. CASE wpc[w] = "new" BY <1>2, <2>1, <2>2 DEF StreamOK
  <2>3. CASE wpc[w] # "new" BY <1>2, <1>7, <2>1, <2>3, StreamFrame
  <2> QED BY <2>2, <2>3
<1> QED BY <1>3, <1>8, <1>9

\* The answer of GetStatus is stored in a watch that has had no stream.
LEMMA GoWatchKeeps ==
  ASSUME CollectorInv, GoWatch
  PROVE  CollectorTypeOK' /\ StartOK' /\ \A w \in Watches : StreamOK(w)'
<1> DEFINE v == watched[starting]
<1>1. /\ UNCHANGED <<up, registered, air, troubles, changes, watched, listed, fresh, slugOf, cancel,
                     connected, stream, wire, forwarder, held, heard>>
      /\ starting \in Slugs /\ starting' = None /\ status' = None
      /\ wpc' = [wpc EXCEPT ![v] = "loop"]
  BY DEF GoWatch, serverVars, streamVars, CollectorInv, CollectorTypeOK
<1>2. v \in Watches /\ wpc[v] = "new" /\ slugOf[v] = starting /\ starting \notin fresh
  BY <1>1 DEF CollectorInv, StartOK, CollectorTypeOK, LoopInv, TrackOK, CollectorAssumption
<1>3. /\ silence' \in [Watches -> BOOLEAN]
      /\ \A w \in Watches \ {v} : silence'[w] = silence[w]
  <2>1. CASE status = None BY <2>1 DEF GoWatch, CollectorInv, CollectorTypeOK
  <2>2. CASE status # None
    <3>1. silence' = [silence EXCEPT ![v] = status] BY <2>2 DEF GoWatch
    <3>2. status \in BOOLEAN /\ silence \in [Watches -> BOOLEAN]
      BY <2>2 DEF CollectorInv, CollectorTypeOK
    <3> QED BY <3>1, <3>2
  <2> QED BY <2>1, <2>2
<1>4. wpc' \in [Watches -> {"new", "loop", "drain", "sleep", "gone"}]
  BY <1>1 DEF CollectorInv, CollectorTypeOK
<1>5. CollectorTypeOK' BY <1>1, <1>3, <1>4 DEF CollectorInv, CollectorTypeOK
<1>6. wpc'[v] = "loop" /\ \A w \in Watches \ {v} : wpc'[w] = wpc[w]
  BY <1>1, <1>2 DEF CollectorInv, CollectorTypeOK
<1>7. StartOK'
  <2>1. ASSUME NEW s \in fresh PROVE watched[s] # None /\ wpc'[watched[s]] = "new"
    <3>1. s \in Slugs /\ watched[s] \in Watches /\ wpc[watched[s]] = "new" /\ watched[s] # None
      BY DEF CollectorInv, StartOK, CollectorTypeOK
    <3>2. slugOf[watched[s]] = s BY <3>1 DEF CollectorInv, LoopInv, TrackOK
    <3> QED BY <1>2, <1>6, <3>1, <3>2
  <2>2. ASSUME NEW w \in Watches, slugOf[w] = None PROVE wpc'[w] = "new"
    <3>1. w # v /\ wpc[w] = "new"
      BY <1>1, <1>2, <2>2 DEF CollectorInv, StartOK, CollectorAssumption
    <3> QED BY <1>6, <3>1
  <2> QED BY <1>1, <2>1, <2>2 DEF StartOK
<1>8. ASSUME NEW w \in Watches PROVE StreamOK(w)'
  <2>1. StreamOK(w) BY DEF CollectorInv
  <2>2. CASE w = v BY <1>1, <1>2, <1>6, <2>1, <2>2 DEF StreamOK
  <2>3. CASE w # v BY <1>1, <1>3, <1>6, <2>1, <2>3, StreamFrame
  <2> QED BY <2>2, <2>3
<1> QED BY <1>5, <1>7, <1>8

\* Where a watcher that has been started goes is no concern of the discovery loop.
LEMMA StartFrame ==
  ASSUME CollectorInv, NEW w \in Watches, wpc[w] # "new", UNCHANGED loopVars,
         \A v \in Watches \ {w} : wpc'[v] = wpc[v]
  PROVE  StartOK'
<1>1. \A s \in fresh : watched[s] \in Watches /\ watched[s] # w
  BY DEF CollectorInv, StartOK, CollectorTypeOK
<1>2. starting # None => watched[starting] \in Watches /\ watched[starting] # w
  BY DEF CollectorInv, StartOK, CollectorTypeOK
<1>3. slugOf[w] # None BY DEF CollectorInv, StartOK
<1> QED BY <1>1, <1>2, <1>3 DEF CollectorInv, StartOK, loopVars

\* A watcher that quits, sleeps or wakes has no stream.
LEMMA PausesKeep ==
  ASSUME CollectorInv, NEW w \in Watches, Quit(w) \/ SubscribeFails(w) \/ Wake(w)
  PROVE  CollectorTypeOK' /\ StartOK' /\ \A v \in Watches : StreamOK(v)'
<1>1. /\ UNCHANGED <<up, registered, air, changes, loopVars, cancel, silence, streamVars>>
      /\ wpc[w] \in {"loop", "sleep"}
  BY DEF Quit, SubscribeFails, Wake, serverVars, Trouble
<1>2. PICK to \in {"loop", "sleep", "gone"} : wpc' = [wpc EXCEPT ![w] = to]
  BY DEF Quit, SubscribeFails, Wake
<1>3. /\ wpc' \in [Watches -> {"new", "loop", "drain", "sleep", "gone"}]
      /\ wpc'[w] = to /\ \A v \in Watches \ {w} : wpc'[v] = wpc[v]
  BY <1>2 DEF CollectorInv, CollectorTypeOK
<1>4. connected' \in [Watches -> BOOLEAN]
  BY DEF Quit, SubscribeFails, Wake, CollectorInv, CollectorTypeOK
<1>5. troubles' \in 0..MaxTroubles
  <2>1. troubles \in 0..MaxTroubles /\ (UNCHANGED troubles \/ Trouble)
    BY DEF Quit, SubscribeFails, Wake, serverVars, CollectorInv, CollectorTypeOK
  <2> QED BY <2>1 DEF Trouble, CollectorAssumption
<1>6. CollectorTypeOK'
  BY <1>1, <1>3, <1>4, <1>5 DEF CollectorInv, CollectorTypeOK, loopVars, streamVars
<1>7. StartOK' BY <1>1, <1>3, StartFrame
<1>8. ASSUME NEW v \in Watches PROVE StreamOK(v)'
  <2>1. StreamOK(v) BY DEF CollectorInv
  <2>2. CASE v = w BY <1>1, <1>3, <2>1, <2>2 DEF StreamOK, streamVars
  <2>3. CASE v # w BY <1>1, <1>3, <2>1, <2>3, StreamFrame DEF streamVars, loopVars
  <2> QED BY <2>2, <2>3
<1> QED BY <1>6, <1>7, <1>8

\* A new stream has brought nothing yet.
LEMMA SubscribeKeeps ==
  ASSUME CollectorInv, NEW w \in Watches, Subscribe(w)
  PROVE  CollectorTypeOK' /\ StartOK' /\ \A v \in Watches : StreamOK(v)'
<1> USE DEF Subscribe
<1>1. /\ UNCHANGED <<up, registered, air, troubles, changes, loopVars, cancel, silence, held>>
      /\ wpc[w] = "loop"
  BY DEF serverVars
<1>2. /\ wpc' = [wpc EXCEPT ![w] = "drain"] /\ forwarder' = [forwarder EXCEPT ![w] = "recv"]
      /\ heard' = [heard EXCEPT ![w] = FALSE] /\ wire' = [wire EXCEPT ![w] = <<>>]
      /\ connected' = [connected EXCEPT ![w] = TRUE]
  OBVIOUS
<1>3. PICK how \in {"open", "ended"} : stream' = [stream EXCEPT ![w] = how] OBVIOUS
<1>4. CollectorTypeOK'
  <2>1. wire' \in [Watches -> Seq(BOOLEAN)] BY <1>2, EmptySeq DEF CollectorInv, CollectorTypeOK
  <2>2. /\ wpc' \in [Watches -> {"new", "loop", "drain", "sleep", "gone"}]
        /\ forwarder' \in [Watches -> {"none", "recv", "send", "closed"}]
        /\ stream' \in [Watches -> {"none", "open", "ended"}]
    BY <1>2, <1>3 DEF CollectorInv, CollectorTypeOK
  <2>3. connected' \in [Watches -> BOOLEAN] /\ heard' \in [Watches -> BOOLEAN]
    BY <1>2 DEF CollectorInv, CollectorTypeOK
  <2> QED BY <1>1, <2>1, <2>2, <2>3 DEF CollectorInv, CollectorTypeOK, loopVars
<1>5. \A v \in Watches \ {w} : /\ wpc'[v] = wpc[v] /\ forwarder'[v] = forwarder[v]
                              /\ heard'[v] = heard[v] /\ wire'[v] = wire[v]
                              /\ stream'[v] = stream[v]
  BY <1>2, <1>3 DEF CollectorInv, CollectorTypeOK
<1>6. wpc'[w] = "drain" /\ forwarder'[w] = "recv" /\ ~heard'[w]
  BY <1>2 DEF CollectorInv, CollectorTypeOK
<1>7. stream'[w] # "none" BY <1>3 DEF CollectorInv, CollectorTypeOK
<1>8. StartOK' BY <1>1, <1>5, StartFrame
<1>9. ASSUME NEW v \in Watches PROVE StreamOK(v)'
  <2>1. StreamOK(v) BY DEF CollectorInv
  <2>2. CASE v = w BY <1>6, <1>7, <2>2 DEF StreamOK
  <2>3. CASE v # w BY <1>1, <1>5, <2>1, <2>3, StreamFrame DEF loopVars
  <2> QED BY <2>2, <2>3
<1> QED BY <1>4, <1>8, <1>9

\* The watcher stores what the forwarder offers.
LEMMA HandleKeeps ==
  ASSUME CollectorInv, NEW w \in Watches, Handle(w)
  PROVE  CollectorTypeOK' /\ StartOK' /\ \A v \in Watches : StreamOK(v)'
<1> USE DEF Handle
<1>1. /\ UNCHANGED <<up, registered, air, troubles, changes, loopVars, cancel, connected, wpc,
                     stream, wire, heard>>
      /\ wpc[w] = "drain" /\ forwarder[w] = "send"
  BY DEF serverVars
<1>2. /\ silence' = [silence EXCEPT ![w] = held[w]]
      /\ forwarder' = [forwarder EXCEPT ![w] = "recv"] /\ held' = [held EXCEPT ![w] = None]
  OBVIOUS
<1>3. StreamOK(w) /\ held[w] \in BOOLEAN BY <1>1 DEF CollectorInv, StreamOK
<1>4. /\ silence' \in [Watches -> BOOLEAN] /\ held' \in [Watches -> BOOLEAN \cup {None}]
      /\ forwarder' \in [Watches -> {"none", "recv", "send", "closed"}]
  BY <1>2, <1>3 DEF CollectorInv, CollectorTypeOK
<1>5. CollectorTypeOK' BY <1>1, <1>4 DEF CollectorInv, CollectorTypeOK, loopVars
<1>6. \A v \in Watches \ {w} : /\ silence'[v] = silence[v] /\ forwarder'[v] = forwarder[v]
                              /\ held'[v] = held[v]
  BY <1>2 DEF CollectorInv, CollectorTypeOK
<1>7. silence'[w] = held[w] /\ forwarder'[w] = "recv"
  BY <1>2 DEF CollectorInv, CollectorTypeOK
<1>8. StartOK' BY <1>1 DEF CollectorInv, StartOK, loopVars
<1>9. ASSUME NEW v \in Watches PROVE StreamOK(v)'
  <2>1. StreamOK(v) BY DEF CollectorInv
  <2>2. CASE v = w BY <1>1, <1>3, <1>7, <2>2 DEF StreamOK, NewestIs, loopVars
  <2>3. CASE v # w BY <1>1, <1>6, <2>1, <2>3, StreamFrame DEF loopVars
  <2> QED BY <2>2, <2>3
<1> QED BY <1>5, <1>8, <1>9

\* A watcher that sees its channel closed has no stream any more.
LEMMA SawClosedKeeps ==
  ASSUME CollectorInv, NEW w \in Watches, SawClosed(w)
  PROVE  CollectorTypeOK' /\ StartOK' /\ \A v \in Watches : StreamOK(v)'
<1> USE DEF SawClosed
<1>1. /\ UNCHANGED <<up, registered, air, troubles, changes, loopVars, cancel, silence,
                     wire, held, heard>>
      /\ wpc[w] = "drain"
  BY DEF serverVars
<1>2. /\ wpc' = [wpc EXCEPT ![w] = "loop"] /\ forwarder' = [forwarder EXCEPT ![w] = "none"]
      /\ stream' = [stream EXCEPT ![w] = "none"] /\ connected' = [connected EXCEPT ![w] = FALSE]
  OBVIOUS
<1>3. /\ wpc' \in [Watches -> {"new", "loop", "drain", "sleep", "gone"}]
      /\ forwarder' \in [Watches -> {"none", "recv", "send", "closed"}]
      /\ stream' \in [Watches -> {"none", "open", "ended"}]
      /\ connected' \in [Watches -> BOOLEAN]
  BY <1>2 DEF CollectorInv, CollectorTypeOK
<1>4. CollectorTypeOK' BY <1>1, <1>3 DEF CollectorInv, CollectorTypeOK, loopVars
<1>5. \A v \in Watches \ {w} : /\ wpc'[v] = wpc[v] /\ forwarder'[v] = forwarder[v]
                              /\ stream'[v] = stream[v]
  BY <1>2 DEF CollectorInv, CollectorTypeOK
<1>6. wpc'[w] = "loop" /\ forwarder'[w] = "none" /\ stream'[w] = "none"
  BY <1>2 DEF CollectorInv, CollectorTypeOK
<1>7. StartOK' BY <1>1, <1>5, StartFrame
<1>8. ASSUME NEW v \in Watches PROVE StreamOK(v)'
  <2>1. StreamOK(v) BY DEF CollectorInv
  <2>2. CASE v = w BY <1>6, <2>2 DEF StreamOK
  <2>3. CASE v # w BY <1>1, <1>5, <2>1, <2>3, StreamFrame DEF loopVars
  <2> QED BY <2>2, <2>3
<1> QED BY <1>4, <1>7, <1>8

\* The forwarder takes the oldest event, which is the newest if it is the last.
LEMMA ReceiveKeeps ==
  ASSUME CollectorInv, NEW w \in Watches, Receive(w)
  PROVE  CollectorTypeOK' /\ StartOK' /\ \A v \in Watches : StreamOK(v)'
<1> USE DEF Receive
<1>1. /\ UNCHANGED <<up, registered, air, troubles, changes, loopVars, cancel, connected, silence,
                     wpc, stream, heard>>
      /\ forwarder[w] = "recv" /\ wire[w] # <<>>
  BY DEF serverVars, watchVars
<1>2. /\ wire' = [wire EXCEPT ![w] = Tail(wire[w])] /\ held' = [held EXCEPT ![w] = Head(wire[w])]
      /\ forwarder' = [forwarder EXCEPT ![w] = "send"]
  OBVIOUS
<1>3. wire[w] \in Seq(BOOLEAN) BY DEF CollectorInv, CollectorTypeOK
<1>4. /\ Head(wire[w]) \in BOOLEAN /\ Tail(wire[w]) \in Seq(BOOLEAN)
      /\ Tail(wire[w]) = <<>> => Head(wire[w]) = wire[w][Len(wire[w])]
      /\ Tail(wire[w]) # <<>> => Tail(wire[w])[Len(Tail(wire[w]))] = wire[w][Len(wire[w])]
  BY <1>1, <1>3, Queues
<1>5. /\ wire' \in [Watches -> Seq(BOOLEAN)] /\ held' \in [Watches -> BOOLEAN \cup {None}]
      /\ forwarder' \in [Watches -> {"none", "recv", "send", "closed"}]
  BY <1>2, <1>4 DEF CollectorInv, CollectorTypeOK
<1>6. CollectorTypeOK' BY <1>1, <1>5 DEF CollectorInv, CollectorTypeOK, loopVars
<1>7. \A v \in Watches \ {w} : /\ wire'[v] = wire[v] /\ forwarder'[v] = forwarder[v]
                              /\ held'[v] = held[v]
  BY <1>2 DEF CollectorInv, CollectorTypeOK
<1>8. wire'[w] = Tail(wire[w]) /\ forwarder'[w] = "send" /\ held'[w] = Head(wire[w])
  BY <1>2 DEF CollectorInv, CollectorTypeOK
<1>9. StartOK' BY <1>1 DEF CollectorInv, StartOK, loopVars
<1>10. ASSUME NEW v \in Watches PROVE StreamOK(v)'
  <2>1. StreamOK(v) BY DEF CollectorInv
  <2>2. CASE v = w
    <3>1. slugOf' = slugOf /\ air' = air /\ heard' = heard /\ stream' = stream /\ wpc' = wpc
      BY <1>1 DEF loopVars
    <3>2. StreamOK(w) BY <2>1, <2>2
    <3>3. heard[w] /\ stream[w] = "open" => wire[w][Len(wire[w])] = air[slugOf[w]]
      BY <1>1, <3>2 DEF StreamOK, NewestIs
    <3>4. wpc[w] = "drain" /\ stream[w] # "none" BY <1>1, <3>2 DEF StreamOK
    <3>5. heard[w] /\ stream[w] = "open" => NewestIs(w, air[slugOf[w]])'
      BY <1>4, <1>8, <3>1, <3>3 DEF NewestIs
    <3> QED BY <1>4, <1>8, <2>2, <3>1, <3>4, <3>5 DEF StreamOK
  <2>3. CASE v # w BY <1>1, <1>7, <2>1, <2>3, StreamFrame DEF loopVars
  <2> QED BY <2>2, <2>3
<1> QED BY <1>6, <1>9, <1>10

\* A forwarder that closes the channel offers nothing.
LEMMA CloseKeeps ==
  ASSUME CollectorInv, NEW w \in Watches, Close(w)
  PROVE  CollectorTypeOK' /\ StartOK' /\ \A v \in Watches : StreamOK(v)'
<1> USE DEF Close
<1>1. /\ UNCHANGED <<up, registered, air, troubles, changes, loopVars, cancel, connected, silence,
                     wpc, stream, wire, heard>>
      /\ forwarder[w] \in {"recv", "send"}
  BY DEF serverVars, watchVars
<1>2. forwarder' = [forwarder EXCEPT ![w] = "closed"] /\ held' = [held EXCEPT ![w] = None]
  OBVIOUS
<1>3. /\ held' \in [Watches -> BOOLEAN \cup {None}]
      /\ forwarder' \in [Watches -> {"none", "recv", "send", "closed"}]
  BY <1>2 DEF CollectorInv, CollectorTypeOK
<1>4. CollectorTypeOK' BY <1>1, <1>3 DEF CollectorInv, CollectorTypeOK, loopVars
<1>5. \A v \in Watches \ {w} : forwarder'[v] = forwarder[v] /\ held'[v] = held[v]
  BY <1>2 DEF CollectorInv, CollectorTypeOK
<1>6. forwarder'[w] = "closed" BY <1>2 DEF CollectorInv, CollectorTypeOK
<1>7. StartOK' BY <1>1 DEF CollectorInv, StartOK, loopVars
<1>8. ASSUME NEW v \in Watches PROVE StreamOK(v)'
  <2>1. StreamOK(v) BY DEF CollectorInv
  <2>2. CASE v = w BY <1>1, <1>6, <2>1, <2>2 DEF StreamOK, NewestIs, loopVars
  <2>3. CASE v # w BY <1>1, <1>5, <2>1, <2>3, StreamFrame DEF loopVars
  <2> QED BY <2>2, <2>3
<1> QED BY <1>4, <1>7, <1>8

\* Every step preserves the whole invariant.
LEMMA AllKept == CollectorInv /\ [Next]_vars => CollectorInv'
<1> SUFFICES ASSUME CollectorInv, [Next]_vars PROVE CollectorInv' OBVIOUS
<1>1. LoopInv' BY NextKeeps DEF CollectorInv
<1>2. CollectorTypeOK' /\ StartOK' /\ \A w \in Watches : StreamOK(w)'
  <2>1. CASE Loop BY <2>1, AsksKeep, DiscoverStreams, GoWatchKeeps DEF Loop
  <2>2. ASSUME NEW w \in Watches, Watcher(w) \/ Forwards(w)
        PROVE  CollectorTypeOK' /\ StartOK' /\ \A v \in Watches : StreamOK(v)'
    BY <2>2, PausesKeep, SubscribeKeeps, HandleKeeps, SawClosedKeeps, ReceiveKeeps, CloseKeeps
       DEF Watcher, Forwards
  <2>3. CASE \E s \in Slugs : Change(s) BY <2>3, ChangeKeeps
  <2>4. CASE \/ ServerDown \/ ServerUp \/ (\E s \in Slugs : Register(s) \/ Unregister(s))
             \/ (\E w \in Watches : StreamDrops(w)) \/ UNCHANGED vars
    BY <2>4, QuietKeeps
  <2> QED BY <2>1, <2>2, <2>3, <2>4 DEF Next
<1> QED BY <1>1, <1>2 DEF CollectorInv

-----------------------------------------------------------------------------
\* The invariant of the discovery loop holds for any stations and watches.
THEOREM LoopInvariance == Spec => []LoopInv
<1> QED BY InitHolds, NextKeeps, PTL DEF Spec

\* Each station has one watcher at most that is not canceled, the tracked one.
THEOREM OneLiveWatch == Spec => []LiveWatchIsTracked
<1>1. LoopInv => LiveWatchIsTracked BY DEF LoopInv, WatchOK, Canceled, LiveWatchIsTracked
<1> QED BY <1>1, LoopInvariance, PTL

\* Discover never calls a nil cancel: every watch it removes has been started.
THEOREM CancelsAreSet == Spec => DroppedHasCancel
<1>1. ASSUME LoopInv, [Next]_vars, NEW s \in Slugs, watched[s] # None, watched'[s] # watched[s]
      PROVE  cancel[watched[s]] = "set"
  <2>1. Discover
    BY <1>1, OthersOutside DEF Next, Loop, ListStations, StartWatch, GoWatch
  <2>2. fresh = {} BY <1>1, <2>1 DEF Discover, LoopInv
  <2> QED BY <1>1, <2>2 DEF LoopInv, TrackOK
<1>2. LoopInv /\ [Next]_vars =>
        [\A s \in Slugs : watched[s] # None /\ watched'[s] # watched[s]
          => cancel[watched[s]] = "set"]_vars
  BY <1>1
<1> QED BY <1>2, LoopInvariance, PTL DEF Spec, DroppedHasCancel

\* The whole invariant holds for any stations, watches and bounds.
THEOREM CollectorInvariance == Spec => []CollectorInv
<1> QED BY InitAll, AllKept, PTL DEF Spec

\* The collector and its streams are well typed.
THEOREM CollectorTypeCorrect == Spec => []CollectorTypeOK
<1>1. CollectorInv => CollectorTypeOK BY DEF CollectorInv
<1> QED BY <1>1, CollectorInvariance, PTL

\* The live state is that of the last event, once nothing is in flight: the
\* initial GetStatus never overwrites one.
THEOREM EventsPrevail == Spec => []EventsWin
<1>1. CollectorInv => EventsWin BY DEF CollectorInv, StreamOK, NewestIs, EventsWin
<1> QED BY <1>1, CollectorInvariance, PTL

-----------------------------------------------------------------------------
(* The collector implements StationFeeds.                                  *)

\* At first there is none.
LEMMA InitFeeds == Init => StationFeeds!FeedInit
<1> SUFFICES ASSUME Init PROVE StationFeeds!FeedInit OBVIOUS
<1>1. /\ air = [s \in Slugs |-> FALSE] /\ slugOf = [w \in Watches |-> None]
      /\ silence = [w \in Watches |-> FALSE]
  BY DEF Init
<1>2. {w \in Watches : Canceled(w)} = {} BY DEF Init, Canceled
<1>3. [w \in Watches |-> Phase(w)] = [w \in Watches |-> "new"] BY DEF Init, Phase
<1>4. [w \in Watches |-> Queue(w)] = [w \in Watches |-> <<>>] BY DEF Init, Queue
<1> QED BY <1>1, <1>2, <1>3, <1>4 DEF StationFeeds!FeedInit

\* A watch whose goroutines and stream did nothing is the same feed.
LEMMA SameFeed ==
  ASSUME NEW w \in Watches,
         wpc'[w] = wpc[w], forwarder'[w] = forwarder[w], stream'[w] = stream[w],
         wire'[w] = wire[w], held'[w] = held[w]
  PROVE  Phase(w)' = Phase(w) /\ Queue(w)' = Queue(w)
BY DEF Phase, Queue

\* What StreamOK says of a feed.
LEMMA FeedOfStream ==
  ASSUME CollectorInv, NEW w \in Watches
  PROVE  /\ forwarder[w] \in {"recv", "send"} =>
              wpc[w] = "drain" /\ Phase(w) = stream[w] /\ stream[w] \in {"open", "ended"}
         /\ wpc[w] = "new" => Phase(w) = "new"
         /\ wpc[w] # "new" /\ forwarder[w] \notin {"recv", "send"} => Phase(w) = "off"
         /\ forwarder[w] \notin {"recv", "send"} => Queue(w) = <<>>
         /\ forwarder[w] = "recv" => Queue(w) = wire[w]
         /\ forwarder[w] = "send" => Queue(w) = <<held[w]>> \o wire[w]
<1>1. StreamOK(w) /\ stream[w] \in {"none", "open", "ended"}
  BY DEF CollectorInv, CollectorTypeOK
<1> QED BY <1>1 DEF StreamOK, Phase, Queue

\* When no feed changes, all stays.
LEMMA FeedsStay ==
  ASSUME UNCHANGED <<air, slugOf, silence>>,
         \A w \in Watches : Canceled(w)' = Canceled(w)
                            /\ Phase(w)' = Phase(w) /\ Queue(w)' = Queue(w)
  PROVE  UNCHANGED StationFeeds!feedVars
<1>1. {w \in Watches : Canceled(w)}' = {w \in Watches : Canceled(w)} OBVIOUS
<1>2. [w \in Watches |-> Phase(w)]' = [w \in Watches |-> Phase(w)] OBVIOUS
<1>3. [w \in Watches |-> Queue(w)]' = [w \in Watches |-> Queue(w)] OBVIOUS
<1> QED BY <1>1, <1>2, <1>3 DEF StationFeeds!feedVars
\* A queue whose head has been taken out into a hand.
LEMMA HeldQueues ==
  ASSUME NEW S, NEW q \in Seq(S), NEW a \in S
  PROVE  /\ q # <<>> => <<Head(q)>> \o Tail(q) = q
         /\ <<a>> \o q # <<>> /\ Head(<<a>> \o q) = a /\ Tail(<<a>> \o q) = q
         /\ \A b \in S : Append(<<a>> \o q, b) = <<a>> \o Append(q, b)
<1>0. <<a>> \in Seq(S) /\ Len(<<a>>) = 1 /\ <<a>>[1] = a OBVIOUS
<1>1. ASSUME q # <<>> PROVE <<Head(q)>> \o Tail(q) = q BY <1>1
<1>2. <<a>> \o q # <<>> /\ Head(<<a>> \o q) = a /\ Tail(<<a>> \o q) = q OBVIOUS
<1>3. ASSUME NEW b \in S PROVE Append(<<a>> \o q, b) = <<a>> \o Append(q, b)
  <2>1. <<b>> \in Seq(S) /\ <<a>> \o q \in Seq(S) BY <1>0, ConcatProperties
  <2>2. Append(<<a>> \o q, b) = (<<a>> \o q) \o <<b>> BY <2>1, AppendIsConcat
  <2>3. Append(q, b) = q \o <<b>> BY AppendIsConcat
  <2>4. (<<a>> \o q) \o <<b>> = <<a>> \o (q \o <<b>>) BY <1>0, <2>1, ConcatAssociative
  <2> QED BY <2>2, <2>3, <2>4
<1> QED BY <1>1, <1>2, <1>3

\* Steps of the loop, the server and the goroutines that no feed shows.  An event
\* that the forwarder has taken is still in the queue.
LEMMA HiddenSteps ==
  ASSUME CollectorInv,
         \/ ServerUp \/ ListStations \/ (\E s \in Slugs : Register(s) \/ StartWatch(s))
         \/ (\E w \in Watches : Quit(w) \/ SubscribeFails(w) \/ Wake(w) \/ SawClosed(w) \/ Receive(w))
         \/ UNCHANGED vars
  PROVE  UNCHANGED StationFeeds!feedVars
<1>1. UNCHANGED <<air, slugOf, silence>>
  BY DEF ServerUp, ListStations, Register, StartWatch, Quit, SubscribeFails, Wake, SawClosed,
         Receive, serverVars, loopVars, watchVars, vars
<1>2. ASSUME NEW w \in Watches PROVE Canceled(w)' = Canceled(w)
  <2>1. ASSUME NEW s \in Slugs, StartWatch(s) PROVE Canceled(w)' = Canceled(w)
    <3>1. cancel' = [cancel EXCEPT ![watched[s]] = "set"] /\ s \in fresh BY <2>1 DEF StartWatch
    <3>2. watched[s] # None /\ listed = None
      BY <2>1, <3>1 DEF StartWatch, CollectorInv, LoopInv
    <3>3. cancel[watched[s]] # "called" /\ cancel \in [Watches -> {"nil", "set", "called"}]
      BY <3>2 DEF CollectorInv, LoopInv, LoopTypes, TrackOK
    <3> QED BY <3>1, <3>3 DEF Canceled
  <2>2. UNCHANGED cancel \/ \E s \in Slugs : StartWatch(s)
    BY DEF ServerUp, ListStations, Register, Quit, SubscribeFails, Wake, SawClosed, Receive, vars
  <2> QED BY <2>1, <2>2 DEF Canceled
<1>3. ASSUME NEW w \in Watches PROVE Phase(w)' = Phase(w) /\ Queue(w)' = Queue(w)
  <2>1. CASE ServerUp \/ ListStations \/ (\E s \in Slugs : Register(s) \/ StartWatch(s)) \/ UNCHANGED vars
    <3>1. UNCHANGED <<wpc, forwarder, stream, wire, held>>
      BY <2>1 DEF ServerUp, ListStations, Register, StartWatch, watchVars, streamVars, vars
    <3> QED BY <3>1, SameFeed
  <2>2. ASSUME NEW v \in Watches, Quit(v) \/ SubscribeFails(v) \/ Wake(v)
        PROVE  Phase(w)' = Phase(w) /\ Queue(w)' = Queue(w)
    <3>1. UNCHANGED <<forwarder, stream, wire, held>> /\ wpc[v] \in {"loop", "sleep"}
          /\ \E to \in {"loop", "sleep", "gone"} : wpc' = [wpc EXCEPT ![v] = to]
      BY <2>2 DEF Quit, SubscribeFails, Wake, streamVars
    <3>2. wpc \in [Watches -> {"new", "loop", "drain", "sleep", "gone"}]
      BY DEF CollectorInv, CollectorTypeOK
    <3> QED BY <3>1, <3>2 DEF Phase, Queue
  <2>3. ASSUME NEW v \in Watches, SawClosed(v)
        PROVE  Phase(w)' = Phase(w) /\ Queue(w)' = Queue(w)
    <3>1. /\ UNCHANGED <<wire, held>> /\ wpc[v] = "drain" /\ forwarder[v] = "closed"
          /\ wpc' = [wpc EXCEPT ![v] = "loop"] /\ forwarder' = [forwarder EXCEPT ![v] = "none"]
          /\ stream' = [stream EXCEPT ![v] = "none"]
      BY <2>3 DEF SawClosed
    <3>2. /\ wpc \in [Watches -> {"new", "loop", "drain", "sleep", "gone"}]
          /\ forwarder \in [Watches -> {"none", "recv", "send", "closed"}]
          /\ stream \in [Watches -> {"none", "open", "ended"}]
      BY DEF CollectorInv, CollectorTypeOK
    <3> QED BY <3>1, <3>2 DEF Phase, Queue
  <2>4. ASSUME NEW v \in Watches, Receive(v)
        PROVE  Phase(w)' = Phase(w) /\ Queue(w)' = Queue(w)
    <3>1. /\ UNCHANGED <<wpc, stream>> /\ forwarder[v] = "recv" /\ wire[v] # <<>>
          /\ held' = [held EXCEPT ![v] = Head(wire[v])] /\ wire' = [wire EXCEPT ![v] = Tail(wire[v])]
          /\ forwarder' = [forwarder EXCEPT ![v] = "send"]
      BY <2>4 DEF Receive, watchVars
    <3>2. /\ held \in [Watches -> BOOLEAN \cup {None}] /\ wire \in [Watches -> Seq(BOOLEAN)]
          /\ forwarder \in [Watches -> {"none", "recv", "send", "closed"}]
      BY DEF CollectorInv, CollectorTypeOK
    <3>3. CASE w = v
      <4>1. <<Head(wire[v])>> \o Tail(wire[v]) = wire[v] BY <3>1, <3>2, HeldQueues
      <4>2. held'[v] = Head(wire[v]) /\ wire'[v] = Tail(wire[v]) /\ forwarder'[v] = "send"
        BY <3>1, <3>2
      <4>3. Queue(v) = wire[v] /\ Queue(v)' = <<held'[v]>> \o wire'[v] BY <3>1, <4>2 DEF Queue
      <4>4. Phase(v)' = Phase(v) BY <3>1, <4>2 DEF Phase
      <4> QED BY <3>3, <4>1, <4>2, <4>3, <4>4
    <3>4. CASE w # v BY <3>1, <3>2, <3>4, SameFeed
    <3> QED BY <3>3, <3>4
  <2> QED BY <2>1, <2>2, <2>3, <2>4
<1> QED BY <1>1, <1>2, <1>3, FeedsStay

\* What the forwarder holds comes first, with or without the rest.
LEMMA HeldPrefix ==
  ASSUME NEW p \in Seq(BOOLEAN), NEW q \in Seq(BOOLEAN), NEW a \in BOOLEAN,
         Len(p) <= Len(q), \A i \in 1..Len(p) : p[i] = q[i]
  PROVE  /\ <<a>> \o p \in Seq(BOOLEAN) /\ Len(<<a>> \o p) <= Len(<<a>> \o q)
         /\ \A i \in 1..Len(<<a>> \o p) : (<<a>> \o p)[i] = (<<a>> \o q)[i]
<1>1. <<a>> \in Seq(BOOLEAN) /\ Len(<<a>>) = 1 /\ Len(p) \in Nat /\ Len(q) \in Nat
  BY LenProperties
<1>2. /\ <<a>> \o p \in Seq(BOOLEAN) /\ Len(<<a>> \o p) = 1 + Len(p)
      /\ <<a>> \o q \in Seq(BOOLEAN) /\ Len(<<a>> \o q) = 1 + Len(q)
      /\ \A i \in 1..(1 + Len(p)) : (<<a>> \o p)[i] = IF i <= 1 THEN <<a>>[i] ELSE p[i - 1]
      /\ \A i \in 1..(1 + Len(q)) : (<<a>> \o q)[i] = IF i <= 1 THEN <<a>>[i] ELSE q[i - 1]
  BY <1>1, ConcatProperties
<1>3. ASSUME NEW i \in 1..(1 + Len(p)) PROVE (<<a>> \o p)[i] = (<<a>> \o q)[i]
  <2>1. i \in 1..(1 + Len(q)) BY <1>1
  <2>2. i > 1 => i - 1 \in 1..Len(p) BY <1>1
  <2> QED BY <1>2, <2>1, <2>2
<1> QED BY <1>1, <1>2, <1>3

\* The streams of some watches end, and so do their feeds.
LEMMA EndFeeds ==
  ASSUME CollectorInv, NEW W \in SUBSET Watches, Ended(W),
         UNCHANGED wire \/ Broken(W),
         UNCHANGED <<air, slugOf, silence, cancel, wpc, forwarder, held>>
  PROVE  StationFeeds!End(W)
<1>0. CollectorTypeOK BY DEF CollectorInv
<1>1. \A w \in Watches : stream'[w] = IF w \in W /\ stream[w] = "open" THEN "ended" ELSE stream[w]
  BY DEF Ended
<1>2. ASSUME NEW w \in Watches
      PROVE  /\ Queue(w)' \in Seq(BOOLEAN)
             /\ Len(Queue(w)') <= Len(Queue(w))
             /\ \A i \in 1..Len(Queue(w)') : Queue(w)'[i] = Queue(w)[i]
             /\ w \notin W => Queue(w)' = Queue(w)
  <2>1. /\ wire[w] \in Seq(BOOLEAN) /\ wire'[w] \in Seq(BOOLEAN)
        /\ Len(wire'[w]) <= Len(wire[w])
        /\ \A i \in 1..Len(wire'[w]) : wire'[w][i] = wire[w][i]
        /\ w \notin W => wire'[w] = wire[w]
    <3>1. wire[w] \in Seq(BOOLEAN) /\ Len(wire[w]) \in Nat
      BY <1>0, LenProperties DEF CollectorTypeOK
    <3> QED BY <1>0, <3>1, BrokenWire
  <2>2. CASE forwarder[w] = "recv" BY <2>1, <2>2 DEF Queue
  <2>3. CASE forwarder[w] = "send"
    <3>1. held[w] \in BOOLEAN BY <2>3 DEF CollectorInv, StreamOK
    <3>2. Queue(w) = <<held[w]>> \o wire[w] /\ Queue(w)' = <<held[w]>> \o wire'[w]
      BY <2>3 DEF Queue
    <3> QED BY <2>1, <3>1, <3>2, HeldPrefix
  <2>4. CASE forwarder[w] \notin {"recv", "send"}
    <3>1. Queue(w) = <<>> /\ Queue(w)' = <<>> BY <2>4 DEF Queue
    <3> QED BY <3>1, EmptySeq
  <2> QED BY <2>2, <2>3, <2>4
<1>3. \A w \in Watches : Phase(w)' = IF w \in W /\ Phase(w) = "open" THEN "ended" ELSE Phase(w)
  BY <1>1 DEF Phase
<1>4. /\ [w \in Watches |-> Queue(w)]' \in [Watches -> Seq(BOOLEAN)]
      /\ \A w \in Watches : /\ [v \in Watches |-> Queue(v)]'[w] = Queue(w)'
                            /\ [v \in Watches |-> Queue(v)][w] = Queue(w)
  BY <1>2
<1>5. [w \in Watches |-> Phase(w)]' =
        [w \in Watches |-> IF w \in W /\ [v \in Watches |-> Phase(v)][w] = "open"
                             THEN "ended" ELSE [v \in Watches |-> Phase(v)][w]]
  BY <1>3
<1>6. {w \in Watches : Canceled(w)}' = {w \in Watches : Canceled(w)} BY DEF Canceled
<1> QED BY <1>2, <1>4, <1>5, <1>6 DEF StationFeeds!End

\* So the server goes down, forgets a station or loses a connection.
LEMMA EndSteps ==
  ASSUME CollectorInv,
         ServerDown \/ (\E s \in Slugs : Unregister(s)) \/ (\E w \in Watches : StreamDrops(w))
  PROVE  StationFeeds!FeedNext
<1>1. UNCHANGED <<air, slugOf, silence, cancel, wpc, forwarder, held>>
  BY DEF ServerDown, Unregister, StreamDrops, loopVars, watchVars
<1>2. \E W \in SUBSET Watches : Ended(W) /\ (UNCHANGED wire \/ Broken(W))
  BY DEF ServerDown, Unregister, StreamDrops, Broken
<1> QED BY <1>1, <1>2, EndFeeds DEF StationFeeds!FeedNext

\* A started watcher takes its snapshot first.
LEMMA SnapshotStep ==
  ASSUME CollectorInv, GoWatch
  PROVE  StationFeeds!FeedNext
<1>0. PICK f \in Watches : f = watched[starting]
  BY DEF GoWatch, CollectorInv, CollectorTypeOK, StartOK
<1>1. /\ f \in Watches /\ wpc[f] = "new" /\ wpc' = [wpc EXCEPT ![f] = "loop"]
      /\ wpc \in [Watches -> {"new", "loop", "drain", "sleep", "gone"}]
      /\ silence \in [Watches -> BOOLEAN] /\ status \in BOOLEAN \cup {None}
      /\ UNCHANGED <<air, slugOf, cancel, stream, wire, forwarder, held>>
  BY <1>0 DEF GoWatch, serverVars, streamVars, CollectorInv, CollectorTypeOK, StartOK
<1>2. \E v \in BOOLEAN : silence' = [silence EXCEPT ![f] = v]
  <2>1. CASE status = None
    <3>1. silence' = [silence EXCEPT ![f] = silence[f]] BY <1>0, <1>1, <2>1 DEF GoWatch
    <3> QED BY <1>1, <3>1
  <2>2. CASE status # None
    <3>1. silence' = [silence EXCEPT ![f] = status] BY <1>0, <2>2 DEF GoWatch
    <3> QED BY <1>1, <2>2, <3>1
  <2> QED BY <2>1, <2>2
<1>3. PICK v \in BOOLEAN : silence' = [silence EXCEPT ![f] = v] BY <1>2
<1>4. forwarder[f] \notin {"recv", "send"} BY <1>1, FeedOfStream
<1>5. Phase(f) = "new" /\ Phase(f)' = "off" BY <1>1, <1>4 DEF Phase
<1>6. \A w \in Watches : Queue(w)' = Queue(w) /\ (w # f => Phase(w)' = Phase(w))
  BY <1>1 DEF Phase, Queue
<1> DEFINE P == [w \in Watches |-> Phase(w)]
<1>7. P' = [P EXCEPT ![f] = "off"] /\ P[f] = "new" BY <1>1, <1>5, <1>6
<1>8. [w \in Watches |-> Queue(w)]' = [w \in Watches |-> Queue(w)] BY <1>6
<1>9. {w \in Watches : Canceled(w)}' = {w \in Watches : Canceled(w)} BY <1>1 DEF Canceled
<1>10. UNCHANGED <<air, slugOf>> BY <1>1
<1>11. StationFeeds!Snapshot(f, v)
  BY <1>3, <1>7, <1>8, <1>9, <1>10 DEF StationFeeds!Snapshot
<1> QED BY <1>1, <1>3, <1>11 DEF StationFeeds!FeedNext

\* A subscription opens the feed.
LEMMA OpenStep ==
  ASSUME CollectorInv, NEW f \in Watches, Subscribe(f)
  PROVE  StationFeeds!Open(f)
<1>1. /\ wpc[f] = "loop" /\ ~Canceled(f) /\ wpc' = [wpc EXCEPT ![f] = "drain"]
      /\ forwarder' = [forwarder EXCEPT ![f] = "recv"] /\ wire' = [wire EXCEPT ![f] = <<>>]
      /\ UNCHANGED <<air, slugOf, cancel, silence, held>>
  BY DEF Subscribe, serverVars, loopVars
<1>2. PICK p \in {"open", "ended"} : stream' = [stream EXCEPT ![f] = p] BY DEF Subscribe
<1>3. /\ wpc \in [Watches -> {"new", "loop", "drain", "sleep", "gone"}]
      /\ forwarder \in [Watches -> {"none", "recv", "send", "closed"}]
      /\ stream \in [Watches -> {"none", "open", "ended"}] /\ wire \in [Watches -> Seq(BOOLEAN)]
  BY DEF CollectorInv, CollectorTypeOK
<1>4. forwarder[f] \notin {"recv", "send"} BY <1>1, FeedOfStream
<1>5. Phase(f) = "off" /\ Queue(f) = <<>> BY <1>1, <1>4, FeedOfStream
<1>6. Phase(f)' = p /\ Queue(f)' = <<>> BY <1>1, <1>2, <1>3 DEF Phase, Queue
<1>7. ASSUME NEW w \in Watches, w # f PROVE Phase(w)' = Phase(w) /\ Queue(w)' = Queue(w)
  BY <1>1, <1>2, <1>3, <1>7, SameFeed
<1> DEFINE P == [w \in Watches |-> Phase(w)]
<1>8. P' = [P EXCEPT ![f] = p] /\ P[f] = "off" BY <1>5, <1>6, <1>7
<1>9. [w \in Watches |-> Queue(w)]' = [w \in Watches |-> Queue(w)] BY <1>5, <1>6, <1>7
<1>10. /\ {w \in Watches : Canceled(w)}' = {w \in Watches : Canceled(w)}
       /\ f \notin {w \in Watches : Canceled(w)}
  BY <1>1 DEF Canceled
<1>11. UNCHANGED <<air, slugOf, silence>> BY <1>1
<1> QED BY <1>8, <1>9, <1>10, <1>11 DEF StationFeeds!Open

\* A change goes to the end of the queue of every open feed of its station.
LEMMA ChangeStep ==
  ASSUME CollectorInv, NEW s \in Slugs, Change(s)
  PROVE  StationFeeds!Change(s)
<1>1. /\ air' = [air EXCEPT ![s] = ~air[s]] /\ air'[s] \in BOOLEAN
      /\ UNCHANGED <<slugOf, cancel, silence, wpc, stream, forwarder, held>>
  BY DEF Change, loopVars, watchVars, CollectorInv, CollectorTypeOK
<1>2. \A w \in Watches :
        wire'[w] = IF slugOf[w] = s /\ stream[w] = "open" THEN Append(wire[w], air'[s]) ELSE wire[w]
  BY DEF Change
<1>3. \A w \in Watches : Phase(w)' = Phase(w) BY <1>1 DEF Phase
<1>4. ASSUME NEW w \in Watches
      PROVE  Queue(w)' = IF slugOf[w] = s /\ Phase(w) = "open" THEN Append(Queue(w), air'[s])
                         ELSE Queue(w)
  <2>1. wire[w] \in Seq(BOOLEAN) /\ forwarder'[w] = forwarder[w] /\ held'[w] = held[w]
    BY <1>1 DEF CollectorInv, CollectorTypeOK
  <2>2. CASE forwarder[w] = "recv"
    <3>1. Queue(w) = wire[w] /\ Phase(w) = stream[w] BY <2>2, FeedOfStream
    <3>2. Queue(w)' = wire'[w] BY <2>1, <2>2 DEF Queue
    <3> QED BY <1>2, <3>1, <3>2
  <2>3. CASE forwarder[w] = "send"
    <3>1. Queue(w) = <<held[w]>> \o wire[w] /\ Phase(w) = stream[w] BY <2>3, FeedOfStream
    <3>2. Queue(w)' = <<held[w]>> \o wire'[w] BY <2>1, <2>3 DEF Queue
    <3>3. held[w] \in BOOLEAN BY <2>3 DEF CollectorInv, StreamOK
    <3>4. Append(<<held[w]>> \o wire[w], air'[s]) = <<held[w]>> \o Append(wire[w], air'[s])
      BY <1>1, <2>1, <3>3, HeldQueues
    <3> QED BY <1>2, <3>1, <3>2, <3>4
  <2>4. CASE forwarder[w] \notin {"recv", "send"}
    <3>1. Queue(w) = <<>> /\ Phase(w) # "open" BY <2>4, FeedOfStream
    <3>2. Queue(w)' = <<>> BY <2>1, <2>4 DEF Queue
    <3> QED BY <3>1, <3>2
  <2> QED BY <2>2, <2>3, <2>4
<1>5. [w \in Watches |-> Queue(w)]' =
        [w \in Watches |-> IF slugOf[w] = s /\ [v \in Watches |-> Phase(v)][w] = "open"
                             THEN Append([v \in Watches |-> Queue(v)][w], air'[s])
                             ELSE [v \in Watches |-> Queue(v)][w]]
  BY <1>4
<1>6. [w \in Watches |-> Phase(w)]' = [w \in Watches |-> Phase(w)] BY <1>3
<1>7. {w \in Watches : Canceled(w)}' = {w \in Watches : Canceled(w)} BY <1>1 DEF Canceled
<1> QED BY <1>1, <1>5, <1>6, <1>7 DEF StationFeeds!Change

\* What the watcher handles is the oldest event of the queue.
LEMMA TakeStep ==
  ASSUME CollectorInv, NEW f \in Watches, Handle(f)
  PROVE  StationFeeds!Take(f)
<1>1. /\ forwarder[f] = "send" /\ silence' = [silence EXCEPT ![f] = held[f]]
      /\ forwarder' = [forwarder EXCEPT ![f] = "recv"] /\ held' = [held EXCEPT ![f] = None]
      /\ UNCHANGED <<air, slugOf, cancel, wpc, stream, wire>>
  BY DEF Handle, serverVars, loopVars
<1>2. /\ forwarder \in [Watches -> {"none", "recv", "send", "closed"}]
      /\ held \in [Watches -> BOOLEAN \cup {None}] /\ wire[f] \in Seq(BOOLEAN)
      /\ held[f] \in BOOLEAN
  BY <1>1 DEF CollectorInv, CollectorTypeOK, StreamOK
<1>3. Queue(f) = <<held[f]>> \o wire[f] BY <1>1, FeedOfStream
<1>4. Queue(f) # <<>> /\ Head(Queue(f)) = held[f] /\ Tail(Queue(f)) = wire[f]
  BY <1>2, <1>3, HeldQueues
<1>5. Queue(f)' = wire[f] BY <1>1, <1>2 DEF Queue
<1>6. \A w \in Watches : Phase(w)' = Phase(w) BY <1>1, <1>2 DEF Phase
<1>7. \A w \in Watches : w # f => Queue(w)' = Queue(w) BY <1>1, <1>2, SameFeed
<1> DEFINE Q == [w \in Watches |-> Queue(w)]
<1>8. Q[f] # <<>> /\ Head(Q[f]) = held[f] /\ Q' = [Q EXCEPT ![f] = Tail(Q[f])]
  BY <1>4, <1>5, <1>7
<1>9. [w \in Watches |-> Phase(w)]' = [w \in Watches |-> Phase(w)] BY <1>6
<1>10. {w \in Watches : Canceled(w)}' = {w \in Watches : Canceled(w)} BY <1>1 DEF Canceled
<1>11. silence' = [silence EXCEPT ![f] = Head(Q[f])] /\ UNCHANGED <<air, slugOf>> BY <1>1, <1>8
<1> QED BY <1>8, <1>9, <1>10, <1>11 DEF StationFeeds!Take

\* The channel is closed when the queue has run dry or the feed is canceled.
LEMMA ShutStep ==
  ASSUME CollectorInv, NEW f \in Watches, Close(f)
  PROVE  StationFeeds!Shut(f)
<1>1. /\ \/ forwarder[f] = "recv" /\ stream[f] = "ended" /\ wire[f] = <<>>
         \/ forwarder[f] \in {"recv", "send"} /\ Canceled(f)
      /\ forwarder' = [forwarder EXCEPT ![f] = "closed"] /\ held' = [held EXCEPT ![f] = None]
      /\ UNCHANGED <<air, slugOf, cancel, silence, wpc, stream, wire>>
  BY DEF Close, serverVars, loopVars, watchVars
<1>2. /\ forwarder \in [Watches -> {"none", "recv", "send", "closed"}]
      /\ held \in [Watches -> BOOLEAN \cup {None}]
  BY DEF CollectorInv, CollectorTypeOK
<1>3. wpc[f] = "drain" /\ Phase(f) = stream[f] /\ Phase(f) \in {"open", "ended"}
  BY <1>1, FeedOfStream
<1>4. Canceled(f) \/ (Phase(f) = "ended" /\ Queue(f) = <<>>) BY <1>1, <1>3, FeedOfStream
<1>5. Phase(f)' = "off" /\ Queue(f)' = <<>> BY <1>1, <1>2, <1>3 DEF Phase, Queue
<1>6. \A w \in Watches : w # f => Phase(w)' = Phase(w) /\ Queue(w)' = Queue(w)
  BY <1>1, <1>2, SameFeed
<1> DEFINE P == [w \in Watches |-> Phase(w)]
           Q == [w \in Watches |-> Queue(w)]
           C == {w \in Watches : Canceled(w)}
<1>7. /\ P[f] \in {"open", "ended"} /\ (f \in C \/ (P[f] = "ended" /\ Q[f] = <<>>))
      /\ P' = [P EXCEPT ![f] = "off"] /\ Q' = [Q EXCEPT ![f] = <<>>]
  BY <1>3, <1>4, <1>5, <1>6
<1>8. C' = C /\ UNCHANGED <<air, slugOf, silence>> BY <1>1 DEF Canceled
<1> QED BY <1>7, <1>8 DEF StationFeeds!Shut

\* Discovery cancels feeds and gives a station a new one when its others are canceled.
LEMMA RescanStep ==
  ASSUME CollectorInv, Discover
  PROVE  StationFeeds!Rescan
<1>1. /\ LoopInv /\ LoopTypes /\ LoopTypes' /\ slugOf \in [Watches -> Slugs \cup {None}]
      /\ UNCHANGED <<air, silence, wpc, stream, wire, forwarder, held>>
  BY DiscoverKeeps DEF Discover, serverVars, watchVars, streamVars, CollectorInv, LoopInv, LoopTypes
<1>2. PICK new \in [Found -> {w \in Watches : slugOf[w] = None}] :
        /\ \A s, r \in Found : new[s] = new[r] => s = r
        /\ slugOf' = [w \in Watches |->
                        IF \E s \in Found : new[s] = w
                          THEN CHOOSE s \in Found : new[s] = w
                          ELSE slugOf[w]]
        /\ cancel' = [w \in Watches |->
                        IF \E s \in Missing : watched[s] = w THEN "called" ELSE cancel[w]]
  BY DEF Discover, Rescan
<1>3. Found \subseteq Slugs /\ \A s \in Found : watched[s] = None
  BY <1>1 DEF Found, Discover, LoopTypes
<1>4. ASSUME NEW s \in Found PROVE slugOf'[new[s]] = s /\ slugOf[new[s]] = None
  BY <1>2, FoundGetOne
<1>5. ASSUME NEW w \in Watches, \A s \in Found : new[s] # w PROVE slugOf'[w] = slugOf[w]
  BY <1>2, <1>5
<1>6. ASSUME NEW f \in Watches
      PROVE  \/ slugOf'[f] = slugOf[f]
             \/ /\ slugOf[f] = None
                /\ \A g \in Watches \ {f} : slugOf'[g] = slugOf'[f] => Canceled(g)
  <2>1. CASE \A s \in Found : new[s] # f BY <1>5, <2>1
  <2>2. ASSUME NEW s \in Found, new[s] = f, NEW g \in Watches \ {f}, slugOf'[g] = slugOf'[f]
        PROVE  Canceled(g)
    <3>1. slugOf'[g] = s BY <1>4, <2>2
    <3>2. \A r \in Found : new[r] # g BY <1>4, <2>2, <3>1
    <3>3. slugOf[g] = s /\ s # None BY <1>3, <1>5, <3>1, <3>2 DEF CollectorAssumption
    <3>4. watched[s] # g BY <1>3 DEF CollectorAssumption
    <3> QED BY <1>1, <3>3, <3>4 DEF LoopInv, WatchOK
  <2> QED BY <1>4, <2>1, <2>2
<1> DEFINE C == {w \in Watches : Canceled(w)}
<1>7. C \subseteq C' BY <1>2 DEF Canceled
<1>8. C' \in SUBSET Watches /\ slugOf' \in [Watches -> Slugs \cup {None}] BY <1>1 DEF LoopTypes
<1>9. \A w \in Watches : Phase(w)' = Phase(w) /\ Queue(w)' = Queue(w) BY <1>1, SameFeed
<1>10. /\ [w \in Watches |-> Phase(w)]' = [w \in Watches |-> Phase(w)]
       /\ [w \in Watches |-> Queue(w)]' = [w \in Watches |-> Queue(w)]
  BY <1>9
<1>11. \A g \in Watches : Canceled(g) => g \in C OBVIOUS
<1>12. \A f \in Watches :
          \/ slugOf'[f] = slugOf[f]
          \/ slugOf[f] = None /\ \A g \in Watches \ {f} : slugOf'[g] = slugOf'[f] => g \in C
  BY <1>6, <1>11
<1> QED BY <1>1, <1>7, <1>8, <1>10, <1>12 DEF StationFeeds!Rescan

\* Every step is one of StationFeeds or hidden from it.
LEMMA FeedStep ==
  ASSUME CollectorInv, [Next]_vars
  PROVE  [StationFeeds!FeedNext]_(StationFeeds!feedVars)
<1>1. CASE \/ ServerUp \/ ListStations \/ (\E s \in Slugs : Register(s) \/ StartWatch(s))
           \/ (\E w \in Watches : Quit(w) \/ SubscribeFails(w) \/ Wake(w) \/ SawClosed(w) \/ Receive(w))
           \/ UNCHANGED vars
  BY <1>1, HiddenSteps
<1>2. CASE ServerDown \/ (\E s \in Slugs : Unregister(s)) \/ (\E w \in Watches : StreamDrops(w))
  BY <1>2, EndSteps
<1>3. CASE GoWatch BY <1>3, SnapshotStep
<1>4. CASE Discover BY <1>4, RescanStep DEF StationFeeds!FeedNext
<1>5. ASSUME NEW s \in Slugs, Change(s) PROVE StationFeeds!FeedNext
  BY <1>5, ChangeStep DEF StationFeeds!FeedNext
<1>6. ASSUME NEW w \in Watches, Subscribe(w) \/ Handle(w) \/ Close(w)
      PROVE  StationFeeds!FeedNext
  BY <1>6, OpenStep, TakeStep, ShutStep DEF StationFeeds!FeedNext
<1> QED BY <1>1, <1>2, <1>3, <1>4, <1>5, <1>6 DEF Next, Loop, Watcher, Forwards

\* For any stations, watches and bounds, discovery loop, watchers and forwarders
\* together implement one first-in-first-out feed per station at a time.
THEOREM CollectorImplementation == Spec => ImplementsFeeds
<1>1. CollectorInv /\ [Next]_vars => [StationFeeds!FeedNext]_(StationFeeds!feedVars)
  BY FeedStep
<1> QED BY <1>1, InitFeeds, CollectorInvariance, PTL
    DEF Spec, ImplementsFeeds, StationFeeds!FeedSpec

=============================================================================
