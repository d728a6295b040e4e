---------------------------- MODULE NowPlaying -----------------------------
(***************************************************************************)
(* The now-playing card of a station page, NowPlaying.tsx: the live player *)
(* it contains (StreamPlayer) and reports to it, its progress bar, which   *)
(* can be dragged to seek, and the clock between two snapshots of the      *)
(* station's status (useTickingElapsed.ts).  The card outlives a change of *)
(* station whose status is cached.  A position on the bar is only set or   *)
(* not; the seek request itself is one of StationPage's mutations.         *)
(***************************************************************************)
EXTENDS StreamPlayer

CONSTANTS
    Tracks,      \* queue_ids of tracks: no two stations share one
    Seekable,    \* those with a duration
    Elapsed      \* elapsed times a snapshot reports

ASSUME NowPlayingAssumption ==
    /\ Seekable \subseteq Tracks
    /\ None \notin Tracks /\ None \notin Elapsed

VARIABLES
    offset,      \* the latency onAudibleChange reported last
    track,       \* current_track of the status on screen, or None
    elapsed,     \* its current_track_elapsed_seconds
    base,        \* syncRef: the track and the value the clock counts from
    target,      \* dragPercent is set
    dragging,
    timing,      \* clearDragTimer is running
    held         \* the bar has captured a pointer

clock   == <<track, elapsed, base>>
bar     == <<target, dragging, timing, held>>
nowVars == <<vars, offset, clock, bar>>

NowTypeOK ==
    /\ PlayerTypeOK
    /\ offset \in {None, "instant", "measured"}
    /\ track \in Tracks \cup {None}
    /\ elapsed \in Elapsed
    /\ base \in [key : Tracks \cup {None}, value : Elapsed]
    /\ target \in BOOLEAN /\ dragging \in BOOLEAN
    /\ timing \in BOOLEAN /\ held \in BOOLEAN
    /\ held => dragging /\ track # None

NowInit ==
    /\ Init
    /\ offset = None
    /\ track = None /\ elapsed \in Elapsed
    /\ base = [key |-> None, value |-> elapsed]
    /\ target = FALSE /\ dragging = FALSE /\ timing = FALSE /\ held = FALSE

-----------------------------------------------------------------------------
(* The player's report and the clock.                                      *)

Told_OnListen ==    \* Mutant: audibleNow is no dependency of the effect.
    offset' = IF listening' # listening THEN latency' ELSE offset

\* The effect on listening and audibleNow: it reports latencyRef as it is then.
Told ==
    offset' = IF <<listening', audibleNow'>> # <<listening, audibleNow>> THEN latency' ELSE offset

\* The effect on serverElapsed and resyncKey.
Synced ==
    base' = IF elapsed' # elapsed \/ track' # track
            THEN [key |-> track', value |-> elapsed'] ELSE base

\* Another snapshot of the status.  Without a track the bar is not rendered,
\* and an element that is gone has no pointer.
Snapshot ==
    /\ track' \in Tracks \cup {None} /\ elapsed' \in Elapsed
    /\ Synced
    /\ held' = (held /\ track' # None)

Refetch ==
    /\ src # None
    /\ Snapshot
    /\ UNCHANGED <<vars, offset, target, dragging, timing>>

\* The page shows a station: the card is mounted, or stays if it was there.
Show(u, allowed) ==
    /\ Visit(u, allowed) /\ Told
    /\ Snapshot
    /\ UNCHANGED <<target, dragging, timing>>

\* The page shows a station that has no stream to listen to, or not yet.
ShowSilent ==
    /\ NoStream /\ Told
    /\ Snapshot
    /\ UNCHANGED <<target, dragging, timing>>

\* The card is unmounted, which stops the timer.
Hide ==
    /\ Leave
    /\ offset' = None
    /\ track' = None /\ base' = [key |-> None, value |-> elapsed]
    /\ target' = FALSE /\ dragging' = FALSE /\ timing' = FALSE /\ held' = FALSE
    /\ UNCHANGED elapsed

-----------------------------------------------------------------------------
(* The bar.                                                                *)

BarStep == src # None /\ track # None /\ UNCHANGED <<vars, offset, clock>>

PointerDown_KeepsTimer ==    \* Mutant: the timer of the last seek runs on.
    /\ BarStep /\ track \in Seekable
    /\ held' = TRUE /\ dragging' = TRUE /\ target' = TRUE
    /\ UNCHANGED timing

\* handlePointerDown
PointerDown ==
    /\ BarStep /\ track \in Seekable
    /\ timing' = FALSE /\ held' = TRUE /\ dragging' = TRUE /\ target' = TRUE

\* handlePointerMove, of the captured pointer or of any that passes over it
PointerMove ==
    /\ BarStep /\ dragging
    /\ target' = TRUE
    /\ UNCHANGED <<dragging, timing, held>>

\* handlePointerUp, of pointerup and pointercancel: it sends the seek
PointerUp ==
    /\ BarStep /\ dragging
    /\ held' = FALSE /\ dragging' = FALSE /\ timing' = TRUE
    /\ UNCHANGED target

\* clearDragTimer fires.
Clears ==
    /\ timing
    /\ timing' = FALSE /\ target' = FALSE
    /\ UNCHANGED <<vars, offset, clock, dragging, held>>

-----------------------------------------------------------------------------

Sounds == (Element \/ Click \/ Dispatch) /\ Told /\ UNCHANGED <<clock, bar>>

NowNext ==
    \/ Sounds
    \/ \E u \in Urls, allowed \in BOOLEAN : Show(u, allowed)
    \/ ShowSilent \/ Hide \/ Refetch
    \/ PointerDown \/ PointerMove \/ PointerUp \/ Clears

NowSpec == NowInit /\ [][NowNext]_nowVars

Starts   == Ready /\ Told /\ UNCHANGED <<clock, bar>>
Delivers == Dispatch /\ Told /\ UNCHANGED <<clock, bar>>

\* A stream that neither fails nor ends gets going, and events are fired.
NowFair == NowSpec /\ WF_nowVars(Starts) /\ WF_nowVars(Delivers)

-----------------------------------------------------------------------------
(* Properties.                                                             *)

\* While the player says the station is heard, the progress bar is offset by the
\* delay that its connection has, and by no earlier one (NowPlaying.tsx:20-34):
\* although latencyRef is no state and is only read when the effect happens to run.
\* (Without a streamUrl the player goes on saying so, with the delay of the last.)
OffsetIsCurrent == listening /\ audibleNow => offset = latency /\ offset # None

\* What the bar shows instead of the elapsed time is held by a drag or about to
\* be cleared, never both and never forgotten: no earlier seek's timer pulls
\* the bar from under a new drag, none is left at its target.
TargetIsHeld == (target <=> dragging \/ timing) /\ ~(dragging /\ timing)

\* The clock counts from what the server said of the track on screen, also when
\* a track or a station starts at the very second the last one was at
\* (useTickingElapsed.ts:11-14).
ClockIsOfTrack == base = [key |-> track, value |-> elapsed]

\* The inductive invariant.
NowInv ==
    /\ NowTypeOK /\ PlayerInv
    /\ OffsetIsCurrent /\ TargetIsHeld /\ ClockIsOfTrack

=============================================================================
