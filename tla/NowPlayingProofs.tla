-------------------------- MODULE NowPlayingProofs --------------------------
(***************************************************************************)
(* Proofs about StreamPlayer and the card around it, NowPlaying, for any   *)
(* stream URLs, tracks, elapsed times and number of troubles.  PlayerInv   *)
(* is preserved by every step of the player (its three kinds: the element, *)
(* the page, a click or an event), NowInv by every step of the card.       *)
(***************************************************************************)
EXTENDS NowPlaying, SequenceTheorems, TLAPS

USE StreamPlayerAssumption, NowPlayingAssumption

Quiet == Events \ {"playing"}

\* The element adds one or two events at the end of its queue.
LEMMA Joined ==
  ASSUME NEW S, NEW q \in Seq(S), NEW a \in S, NEW b \in S
  PROVE  /\ q \o <<a>> \in Seq(S) /\ q \o <<a, b>> \in Seq(S)
         /\ Append(q, a) \in Seq(S)
<1>1. <<a>> \in Seq(S) /\ <<a, b>> \in Seq(S) OBVIOUS
<1> QED BY <1>1, ConcatProperties, AppendProperties

\* What follows a failure or a pause says nothing of playing.
LEMMA FailuresJoin ==
  \A S \in {Events, Quiet} : \A q \in Seq(S) :
    /\ q \o <<"error">> \in Seq(S) /\ q \o <<"error", "reject">> \in Seq(S)
    /\ q \o <<"pause">> \in Seq(S) /\ q \o <<"pause", "reject">> \in Seq(S)
<1>1. \A S \in {Events, Quiet} : "error" \in S /\ "reject" \in S /\ "pause" \in S
  BY DEF Events, Quiet
<1> QED BY <1>1, Joined

\* Dispatching takes the oldest event.
LEMMA Taken ==
  ASSUME PlayerInv, NEW e \in Events, Dispatched(e)
  PROVE  /\ queue' \in Seq(Events)
         /\ ~played => e # "playing" /\ queue' \in Seq(Quiet)
<1> USE DEF PlayerInv, PlayerTypeOK, Dispatched
<1>1. Tail(queue) \in Seq(Events) BY HeadTailProperties
<1>2. ~played => Head(queue) \in Quiet /\ Tail(queue) \in Seq(Quiet)
  BY HeadTailProperties DEF SoundOK, Quiet
<1> QED BY <1>1, <1>2 DEF Quiet

\* A muted element without a source, as the player starts.
LEMMA PlayerInitHolds == Init => PlayerInv
<1> SUFFICES ASSUME Init PROVE PlayerInv OBVIOUS
<1>1. <<>> \in Seq(Events) /\ <<>> \in Seq(Quiet) BY EmptySeq
<1>2. PlayerTypeOK
  <2>1. queue \in Seq(Events) BY <1>1 DEF Init
  <2>2. troubles \in 0..MaxTroubles BY DEF Init
  <2>3. net = "none" /\ paused /\ ~promised /\ queue = <<>> /\ ~listening BY DEF Init
  <2> QED BY <2>1, <2>2, <2>3 DEF Init, PlayerTypeOK
<1>3. UnmutedIsListening /\ SoundOK BY <1>1 DEF Init, UnmutedIsListening, SoundOK, Quiet, Button
<1> QED BY <1>2, <1>3 DEF PlayerInv

\* What the element does by itself.
LEMMA ElementKeeps ==
  ASSUME PlayerInv, Element
  PROVE  PlayerInv' /\ UNCHANGED <<src, muted, view>>
<1> USE DEF PlayerInv
<1>1. /\ UNCHANGED <<src, muted, view>> /\ src \in Urls
      /\ troubles' \in 0..MaxTroubles
      /\ net' \in {"none", "loading", "ready", "ended", "failed"} /\ paused' \in BOOLEAN
      /\ promised' \in BOOLEAN /\ played' \in BOOLEAN
      /\ played => played'
  <2> USE DEF PlayerTypeOK, Trouble
  <2>0. (net = "none" /\ paused) \/ src \in Urls OBVIOUS
  <2>1. CASE Ready BY <2>1 DEF Ready
  <2>2. CASE \E early \in BOOLEAN : Fail(early)
    <3>1. PICK early \in BOOLEAN : Fail(early) BY <2>2
    <3>2. UNCHANGED <<src, muted, view>> /\ src \in Urls BY <3>1 DEF Fail
    <3>3. troubles' \in 0..MaxTroubles BY <3>1 DEF Fail
    <3>4. /\ net' = "failed" /\ paused' = paused /\ played' = played
          /\ promised' = (promised /\ ~early)
      BY <3>1 DEF Fail
    <3> QED BY <3>2, <3>3, <3>4
  <2>3. CASE End
    <3>1. UNCHANGED <<src, muted, view>> /\ src \in Urls BY <2>3 DEF End, Halted
    <3>2. troubles' \in 0..MaxTroubles BY <2>3 DEF End
    <3>3. /\ net' \in {"none", "loading", "ready", "ended", "failed"}
          /\ paused' \in BOOLEAN /\ promised' \in BOOLEAN
      BY <2>3 DEF End, Halted
    <3>4. played' \in BOOLEAN /\ (played => played') BY <2>3 DEF End, Halted
    <3> QED BY <3>1, <3>2, <3>3, <3>4
  <2>4. CASE PausedOutside
    <3>1. UNCHANGED <<src, muted, view>> /\ src \in Urls BY <2>4 DEF PausedOutside, Halted
    <3>2. troubles' \in 0..MaxTroubles BY <2>4 DEF PausedOutside
    <3>3. /\ net' \in {"none", "loading", "ready", "ended", "failed"}
          /\ paused' \in BOOLEAN /\ promised' \in BOOLEAN
      BY <2>4 DEF PausedOutside, Halted
    <3>4. played' \in BOOLEAN /\ (played => played') BY <2>4 DEF PausedOutside, Halted
    <3> QED BY <3>1, <3>2, <3>3, <3>4
  <2>5. CASE Stall BY <2>5 DEF Stall
  <2> QED BY <2>1, <2>2, <2>3, <2>4, <2>5 DEF Element
<1>2. queue' \in Seq(Events) /\ (~played' => queue' \in Seq(Quiet))
  <2>0. queue \in Seq(Events) /\ (~played => queue \in Seq(Quiet))
    BY DEF PlayerTypeOK, SoundOK, Quiet
  <2>1. CASE Ready
    <3>1. CASE paused
      <4>1. queue' = queue \o <<"canplay">> /\ played' = played
        BY <2>1, <3>1 DEF Ready, PlayerTypeOK
      <4> QED BY <2>0, <4>1, Joined DEF Events, Quiet
    <3>2. CASE ~paused
      <4>1. queue' = queue \o <<"canplay", "playing">> /\ played' = TRUE
        BY <2>1, <3>2 DEF Ready, PlayerTypeOK
      <4> QED BY <2>0, <4>1, Joined DEF Events
    <3> QED BY <3>1, <3>2 DEF PlayerTypeOK
  <2>2. ASSUME NEW early \in BOOLEAN, Fail(early)
        PROVE  queue' \in Seq(Events) /\ (~played' => queue' \in Seq(Quiet))
    <3>1. played' = played
          /\ (queue' = queue \o <<"error", "reject">> \/ queue' = queue \o <<"error">>)
      BY <2>2 DEF Fail
    <3> QED BY <2>0, <3>1, FailuresJoin
  <2>3. CASE Halted
    <3>1. played' = played
          /\ (queue' = queue \/ queue' = queue \o <<"pause", "reject">> \/ queue' = queue \o <<"pause">>)
      BY <2>3 DEF Halted
    <3> QED BY <2>0, <3>1, FailuresJoin
  <2>4. CASE Stall BY <2>0, <2>4 DEF Stall
  <2> QED BY <2>1, <2>2, <2>3, <2>4 DEF Element, End, PausedOutside
<1>3. PlayerTypeOK' BY <1>1, <1>2 DEF PlayerTypeOK, view
<1>4. UnmutedIsListening' BY <1>1 DEF UnmutedIsListening, view, Button
<1>5. SoundOK' BY <1>1, <1>2 DEF SoundOK, view, Quiet, Button
<1> QED BY <1>1, <1>3, <1>4, <1>5

\* Another source, or none: nothing of the old one counts any more.
LEMMA SourceKeeps ==
  ASSUME PlayerInv, Leave \/ \E u \in Urls, allowed \in BOOLEAN : Visit(u, allowed)
  PROVE  PlayerInv' /\ listening' = FALSE /\ audibleNow' = FALSE
<1> USE DEF PlayerInv
<1>1. /\ listening' = FALSE /\ muted' = TRUE /\ queue' = <<>>
      /\ everPlayed' = FALSE /\ audibleNow' = FALSE
  BY DEF Leave, Visit, Mutes, Forgets
<1>2. <<>> \in Seq(Events) /\ <<>> \in Seq(Quiet) BY EmptySeq
<1>3. PlayerTypeOK'
  <2>1. CASE Leave BY <1>2, <2>1 DEF Leave, PlayerTypeOK
  <2>2. ASSUME NEW u \in Urls, NEW allowed \in BOOLEAN, Visit(u, allowed) PROVE PlayerTypeOK'
    BY <1>1, <1>2, <2>2 DEF Visit, PlayerTypeOK
  <2> QED BY <2>1, <2>2
<1>4. UnmutedIsListening' BY <1>1 DEF UnmutedIsListening, Button
<1>5. SoundOK' BY <1>1, <1>2 DEF SoundOK, Quiet
<1> QED BY <1>1, <1>3, <1>4, <1>5

\* No source: what the player says stays, and no element is left to contradict it.
LEMMA NoStreamKeeps ==
  ASSUME PlayerInv, NoStream
  PROVE  PlayerInv' /\ UNCHANGED <<listening, audibleNow, latency>>
<1> USE DEF PlayerInv, NoStream
<1>1. <<>> \in Seq(Events) /\ <<>> \in Seq(Quiet) BY EmptySeq
<1>2. PlayerTypeOK' BY <1>1 DEF PlayerTypeOK
<1>3. UnmutedIsListening' BY DEF UnmutedIsListening, Button
<1>4. SoundOK' BY <1>1 DEF SoundOK, Quiet, Button
<1> QED BY <1>2, <1>3, <1>4

\* play() in a click adds an event of playing only where it plays.
LEMMA PlayFits ==
  ASSUME PlayerInv, Play
  PROVE  /\ paused' = FALSE /\ promised' \in BOOLEAN /\ played' \in BOOLEAN
         /\ queue' \in Seq(Events)
         /\ played => played'
         /\ ~played' => queue' \in Seq(Quiet)
<1> USE DEF PlayerInv, Play, PlayerTypeOK
<1>1. CASE queue' = queue BY <1>1 DEF SoundOK, Quiet
<1>2. CASE queue' # queue
  <2>1. net = "ready" /\ queue' = Append(queue, "playing") /\ played' = TRUE BY <1>2
  <2> QED BY <2>1, AppendProperties DEF Events
<1> QED BY <1>1, <1>2

\* Every click mutes and unmutes together with what the player says.
LEMMA ClickKeeps ==
  ASSUME PlayerInv, Click
  PROVE  /\ PlayerInv'
         /\ \/ UNCHANGED <<listening, audibleNow, latency>>
            \/ ~listening'
            \/ listening' # listening /\ (audibleNow' => latency' # None)
<1> USE DEF PlayerInv
<1>1. CASE ClickRetry
  <2>1. <<>> \in Seq(Events) /\ <<>> \in Seq(Quiet) BY EmptySeq
  <2>2. PlayerTypeOK' BY <1>1, <2>1 DEF ClickRetry, PlayerTypeOK, Button
  <2>3. UnmutedIsListening' BY <1>1 DEF ClickRetry, UnmutedIsListening, Button
  <2>4. SoundOK' BY <1>1, <2>1 DEF ClickRetry, SoundOK, Quiet, Button
  <2> QED BY <1>1, <2>2, <2>3, <2>4 DEF ClickRetry
<1>2. CASE ClickStop
  <2>1. PlayerTypeOK' BY <1>2 DEF ClickStop, PlayerTypeOK, Button
  <2>2. UnmutedIsListening' BY <1>2 DEF ClickStop, UnmutedIsListening, Button
  <2>3. SoundOK' BY <1>2 DEF ClickStop, SoundOK, Button
  <2> QED BY <1>2, <2>1, <2>2, <2>3 DEF ClickStop
<1>3. CASE ClickListen
  <2>1. CASE everPlayed
    <3>1. PlayerTypeOK' BY <1>3, <2>1 DEF ClickListen, PlayerTypeOK, Button
    <3>2. UnmutedIsListening' BY <1>3 DEF ClickListen, UnmutedIsListening, Button
    <3>3. SoundOK' BY <1>3, <2>1 DEF ClickListen, SoundOK, Button
    <3>4. listening' # listening /\ latency' # None BY <1>3, <2>1 DEF ClickListen
    <3> QED BY <3>1, <3>2, <3>3, <3>4
  <2>2. CASE ~everPlayed
    <3>0. Play /\ ~audibleNow /\ clicked' = TRUE /\ UNCHANGED <<audibleNow, latency>>
      BY <1>3, <2>2 DEF ClickListen, SoundOK, Button
    <3>1. PlayerTypeOK' BY <1>3, <2>2, <3>0, PlayFits DEF ClickListen, PlayerTypeOK, Button
    <3>2. UnmutedIsListening' BY <1>3 DEF ClickListen, UnmutedIsListening, Button
    <3>3. SoundOK' BY <1>3, <2>2, <3>0, PlayFits DEF ClickListen, SoundOK, Quiet, Button
    <3>4. listening' # listening /\ ~audibleNow' BY <1>3, <3>0 DEF ClickListen
    <3> QED BY <3>1, <3>2, <3>3, <3>4
  <2> QED BY <2>1, <2>2
<1> QED BY <1>1, <1>2, <1>3 DEF Click

\* An event of playing proves that this source has played.
LEMMA DispatchKeeps ==
  ASSUME PlayerInv, Dispatch
  PROVE  /\ PlayerInv'
         /\ listening' = listening
         /\ \/ UNCHANGED <<audibleNow, latency>>
            \/ ~audibleNow'
            \/ ~audibleNow /\ (listening => latency' # None)
<1> USE DEF PlayerInv
<1>1. PICK e \in Events : Dispatched(e) /\ (Playing <=> e = "playing")
  BY DEF Dispatch, CanPlay, Playing, Pause, Failed, Dispatched, Events
<1>2. queue' \in Seq(Events) /\ (~played => e # "playing" /\ queue' \in Seq(Quiet))
  BY <1>1, Taken
<1>3. /\ UNCHANGED <<src, net, paused, muted, promised, played, listening, troubles>>
      /\ src \in Urls
  BY <1>1 DEF Dispatched, PlayerTypeOK
<1>4. /\ phase' \in {"connecting", "buffered", "error"}
      /\ audibleNow' \in BOOLEAN /\ everPlayed' \in BOOLEAN /\ clicked' \in BOOLEAN
      /\ latency' \in {None, "instant", "measured"}
      /\ listening => latency' # None \/ clicked'
  BY <1>3 DEF Dispatch, CanPlay, Playing, Pause, Failed, PlayerTypeOK
<1>5. PlayerTypeOK' BY <1>2, <1>3, <1>4 DEF PlayerTypeOK
<1>6. UnmutedIsListening' BY <1>3 DEF UnmutedIsListening, Button
<1>7. CASE Playing
  <2>1. /\ played /\ everPlayed' = TRUE /\ audibleNow' = TRUE /\ clicked' = FALSE
        /\ latency' = IF clicked THEN "measured" ELSE latency
    BY <1>1, <1>2, <1>7 DEF Playing
  <2>2. SoundOK' BY <1>3, <2>1 DEF SoundOK, Button
  <2>3. audibleNow => ~clicked BY DEF SoundOK, Button
  <2>4. audibleNow \in BOOLEAN BY DEF PlayerTypeOK
  <2>5. CASE audibleNow
    <3>1. UNCHANGED <<audibleNow, latency>> BY <2>1, <2>3, <2>4, <2>5
    <3> QED BY <1>3, <1>5, <1>6, <2>2, <3>1
  <2>6. CASE ~audibleNow
    <3>1. listening => latency' # None BY <2>1, <1>4
    <3> QED BY <1>3, <1>5, <1>6, <2>2, <2>6, <3>1
  <2> QED BY <2>5, <2>6
<1>8. CASE ~Playing
  <2>1. /\ UNCHANGED <<everPlayed, clicked, latency>>
        /\ audibleNow' = audibleNow \/ audibleNow' = FALSE
    BY <1>8 DEF Dispatch, CanPlay, Pause, Failed
  <2>2. SoundOK' BY <1>2, <1>3, <2>1 DEF SoundOK, Quiet, Button
  <2> QED BY <1>3, <1>5, <1>6, <2>1, <2>2
<1> QED BY <1>7, <1>8

-----------------------------------------------------------------------------
(* The card.                                                               *)

\* The report reaches the card with every change of what is heard.
LEMMA ToldFits ==
  ASSUME NowInv, PlayerInv', Told,
         \/ UNCHANGED <<listening, audibleNow, latency>>
         \/ ~listening' \/ ~audibleNow'
         \/ <<listening', audibleNow'>> # <<listening, audibleNow>> /\ latency' # None
  PROVE  offset' \in {None, "instant", "measured"} /\ OffsetIsCurrent'
<1>1. latency' \in {None, "instant", "measured"} BY DEF PlayerInv, PlayerTypeOK
<1> QED BY <1>1 DEF NowInv, NowTypeOK, Told, OffsetIsCurrent

\* Nothing is told or dragged at first.
LEMMA NowInitHolds == NowInit => NowInv
<1> SUFFICES ASSUME NowInit PROVE NowInv OBVIOUS
<1>1. PlayerInv BY PlayerInitHolds DEF NowInit
<1>2. NowTypeOK BY <1>1 DEF NowInit, NowTypeOK, PlayerInv
<1>3. OffsetIsCurrent BY DEF NowInit, Init, OffsetIsCurrent
<1>4. TargetIsHeld /\ ClockIsOfTrack BY DEF NowInit, TargetIsHeld, ClockIsOfTrack
<1> QED BY <1>1, <1>2, <1>3, <1>4 DEF NowInv

\* A step of the player concerns the report only.
LEMMA SoundsKeep ==
  ASSUME NowInv, Sounds
  PROVE  NowInv'
<1> USE DEF NowInv, Sounds
<1>1. PlayerInv' BY ElementKeeps, ClickKeeps, DispatchKeeps
<1>2. \/ UNCHANGED <<listening, audibleNow, latency>>
      \/ ~listening' \/ ~audibleNow'
      \/ <<listening', audibleNow'>> # <<listening, audibleNow>> /\ latency' # None
  <2>1. CASE Element BY <2>1, ElementKeeps DEF view
  <2>2. CASE Click BY <2>2, ClickKeeps
  <2>3. CASE Dispatch
    <3>1. /\ listening' = listening
          /\ \/ UNCHANGED <<audibleNow, latency>>
             \/ ~audibleNow'
             \/ ~audibleNow /\ (listening => latency' # None)
      BY <2>3, DispatchKeeps
    <3> QED BY <3>1
  <2> QED BY <2>1, <2>2, <2>3
<1>3. offset' \in {None, "instant", "measured"} /\ OffsetIsCurrent'
  BY <1>1, <1>2, ToldFits
<1>4. NowTypeOK' BY <1>1, <1>3 DEF NowTypeOK, PlayerInv, clock, bar
<1>5. TargetIsHeld' /\ ClockIsOfTrack' BY DEF TargetIsHeld, ClockIsOfTrack, clock, bar
<1> QED BY <1>1, <1>3, <1>4, <1>5

\* A snapshot sets the clock whenever it differs from the one before.
LEMMA SnapshotFits ==
  ASSUME NowInv, Snapshot
  PROVE  /\ track' \in Tracks \cup {None} /\ elapsed' \in Elapsed
         /\ base' \in [key : Tracks \cup {None}, value : Elapsed]
         /\ ClockIsOfTrack'
         /\ held' \in BOOLEAN /\ (held' => held /\ track' # None)
BY DEF NowInv, NowTypeOK, Snapshot, Synced, ClockIsOfTrack

\* The card is shown another station, or another snapshot.
LEMMA ShowsKeep ==
  ASSUME NowInv, Refetch \/ ShowSilent \/ \E u \in Urls, allowed \in BOOLEAN : Show(u, allowed)
  PROVE  NowInv'
<1> USE DEF NowInv
<1>1. Snapshot /\ UNCHANGED <<target, dragging, timing>> BY DEF Refetch, ShowSilent, Show
<1>2. /\ track' \in Tracks \cup {None} /\ elapsed' \in Elapsed
      /\ base' \in [key : Tracks \cup {None}, value : Elapsed]
      /\ ClockIsOfTrack'
      /\ held' \in BOOLEAN /\ (held' => held /\ track' # None)
  BY <1>1, SnapshotFits
<1>3. PlayerInv' /\ offset' \in {None, "instant", "measured"} /\ OffsetIsCurrent'
  <2>1. CASE Refetch
    BY <2>1 DEF Refetch, vars, PlayerInv, PlayerTypeOK, UnmutedIsListening, SoundOK,
                NowTypeOK, Button, OffsetIsCurrent
  <2>2. CASE \E u \in Urls, allowed \in BOOLEAN : Show(u, allowed)
    <3>1. Told /\ \E u \in Urls, allowed \in BOOLEAN : Visit(u, allowed) BY <2>2 DEF Show
    <3>2. PlayerInv' /\ listening' = FALSE BY <3>1, SourceKeeps
    <3> QED BY <3>1, <3>2, ToldFits
  <2>3. CASE ShowSilent
    <3>1. PlayerInv' /\ UNCHANGED <<listening, audibleNow, latency>>
      BY <2>3, NoStreamKeeps DEF ShowSilent
    <3> QED BY <2>3, <3>1, ToldFits DEF ShowSilent
  <2> QED BY <2>1, <2>2, <2>3
<1>4. NowTypeOK' BY <1>1, <1>2, <1>3 DEF NowTypeOK, PlayerInv
<1>5. TargetIsHeld' BY <1>1 DEF TargetIsHeld
<1> QED BY <1>2, <1>3, <1>4, <1>5

\* A card that is gone leaves nothing behind.
LEMMA HideKeeps ==
  ASSUME NowInv, Hide
  PROVE  NowInv'
<1> USE DEF NowInv
<1>1. PlayerInv' /\ listening' = FALSE BY SourceKeeps DEF Hide
<1>2. NowTypeOK' BY <1>1 DEF Hide, NowTypeOK, PlayerInv
<1>3. OffsetIsCurrent' BY <1>1 DEF OffsetIsCurrent
<1>4. TargetIsHeld' /\ ClockIsOfTrack' BY DEF Hide, TargetIsHeld, ClockIsOfTrack
<1> QED BY <1>1, <1>2, <1>3, <1>4

\* A new drag stops the timer of the seek before it.
LEMMA BarKeeps ==
  ASSUME NowInv, PointerDown \/ PointerMove \/ PointerUp \/ Clears \/ UNCHANGED nowVars
  PROVE  NowInv'
<1> USE DEF NowInv
<1>1. UNCHANGED <<vars, offset, clock>>
  BY DEF PointerDown, PointerMove, PointerUp, Clears, BarStep, nowVars
<1>2. PlayerInv' /\ OffsetIsCurrent' /\ ClockIsOfTrack'
  BY <1>1 DEF vars, clock, PlayerInv, PlayerTypeOK, UnmutedIsListening, SoundOK, Button,
              OffsetIsCurrent, ClockIsOfTrack
<1>3. TargetIsHeld' /\ held' \in BOOLEAN /\ dragging' \in BOOLEAN /\ timing' \in BOOLEAN
      /\ target' \in BOOLEAN /\ (held' => dragging' /\ track' # None)
  <2> USE <1>1 DEF NowTypeOK, TargetIsHeld, clock, bar
  <2>1. CASE PointerDown BY <2>1 DEF PointerDown, BarStep
  <2>2. CASE PointerMove BY <2>2 DEF PointerMove, BarStep
  <2>3. CASE PointerUp BY <2>3 DEF PointerUp, BarStep
  <2>4. CASE Clears BY <2>4 DEF Clears
  <2>5. CASE UNCHANGED nowVars BY <2>5 DEF nowVars
  <2> QED BY <2>1, <2>2, <2>3, <2>4, <2>5
<1>4. NowTypeOK' BY <1>1, <1>2, <1>3 DEF NowTypeOK, PlayerInv, clock
<1> QED BY <1>2, <1>3, <1>4

\* NowInv holds in every reachable state.
LEMMA NowInvariant == NowSpec => []NowInv
<1>1. NowInv /\ [NowNext]_nowVars => NowInv'
  BY SoundsKeep, ShowsKeep, HideKeeps, BarKeeps DEF NowNext
<1> QED BY <1>1, NowInitHolds, PTL DEF NowSpec

\* The card is well typed for any URLs, tracks and times.
THEOREM NowTypeCorrect == NowSpec => []NowTypeOK
BY NowInvariant, PTL DEF NowInv

\* No station is heard that the player does not say it plays (StreamPlayer.tsx).
THEOREM HeardIsListening == NowSpec => []UnmutedIsListening
<1>1. NowInv => UnmutedIsListening BY DEF NowInv, PlayerInv
<1> QED BY <1>1, NowInvariant, PTL

\* Sound of one source never counts as proof for another, with or without a time
\* in between that had none (everPlayedRef).
THEOREM ProofIsOwn == NowSpec => []ProofIsOfThisSource
<1>1. NowInv => ProofIsOfThisSource BY DEF NowInv, PlayerInv, SoundOK, ProofIsOfThisSource
<1> QED BY <1>1, NowInvariant, PTL

\* The delay the bar is offset by is always the one of this connection.
THEOREM OffsetCurrent == NowSpec => []OffsetIsCurrent
BY NowInvariant, PTL DEF NowInv

\* A drag and the timer of a seek never hold the bar together.
THEOREM TargetHeld == NowSpec => []TargetIsHeld
BY NowInvariant, PTL DEF NowInv

\* The clock never counts on from another track or an older snapshot.
THEOREM ClockCurrent == NowSpec => []ClockIsOfTrack
BY NowInvariant, PTL DEF NowInv

=============================================================================
