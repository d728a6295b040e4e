---------------------------- MODULE StationFeeds -----------------------------
(***************************************************************************)
(* What the collector promises of its live states, without the goroutines, *)
(* the gRPC stream and the channel that carry an event: a feed is one      *)
(* queue from a station to a cached state, first in, first out.  A station *)
(* gets a feed when all it had before are canceled; a snapshot is stored   *)
(* only before the feed first opens; and what a stream sent arrives in     *)
(* order, until the feed is canceled or the rest goes down with the        *)
(* connection.                                                             *)
(***************************************************************************)
EXTENDS Naturals, Sequences

CONSTANTS Slugs, Feeds, None

VARIABLES
    air,        \* what each station plays
    of,         \* the station of a feed, None before it has one
    canceled,   \* the feeds that were canceled
    phase,      \* of a feed: "new", "off", "open", or "ended" with a rest to hand over
    queue,      \* what was sent on it and not yet cached
    cache

feedVars == <<air, of, canceled, phase, queue, cache>>

FeedInit ==
    /\ air = [s \in Slugs |-> FALSE]
    /\ of = [f \in Feeds |-> None]
    /\ canceled = {}
    /\ phase = [f \in Feeds |-> "new"]
    /\ queue = [f \in Feeds |-> <<>>]
    /\ cache = [f \in Feeds |-> FALSE]

Rescan ==
    /\ of' \in [Feeds -> Slugs \cup {None}]
    /\ canceled' \in SUBSET Feeds
    /\ canceled \subseteq canceled'
    /\ \A f \in Feeds :
          \/ of'[f] = of[f]
          \/ of[f] = None /\ \A g \in Feeds \ {f} : of'[g] = of'[f] => g \in canceled
    /\ UNCHANGED <<air, phase, queue, cache>>

Snapshot(f, v) ==
    /\ phase[f] = "new"
    /\ phase' = [phase EXCEPT ![f] = "off"]
    /\ cache' = [cache EXCEPT ![f] = v]
    /\ UNCHANGED <<air, of, canceled, queue>>

Open(f) ==
    /\ phase[f] = "off" /\ f \notin canceled
    /\ \E p \in {"open", "ended"} : phase' = [phase EXCEPT ![f] = p]
    /\ UNCHANGED <<air, of, canceled, queue, cache>>

Change(s) ==
    /\ air' = [air EXCEPT ![s] = ~@]
    /\ queue' = [f \in Feeds |->
                   IF of[f] = s /\ phase[f] = "open" THEN Append(queue[f], air'[s]) ELSE queue[f]]
    /\ UNCHANGED <<of, canceled, phase, cache>>

Take(f) ==
    /\ queue[f] # <<>>
    /\ cache' = [cache EXCEPT ![f] = Head(queue[f])]
    /\ queue' = [queue EXCEPT ![f] = Tail(@)]
    /\ UNCHANGED <<air, of, canceled, phase>>

\* The streams of F end; the last of what is under way on them may be lost.
End(F) ==
    /\ phase' = [f \in Feeds |-> IF f \in F /\ phase[f] = "open" THEN "ended" ELSE phase[f]]
    /\ queue' \in [Feeds -> Seq(BOOLEAN)]
    /\ \A f \in Feeds :
          IF f \in F
            THEN /\ Len(queue'[f]) <= Len(queue[f])
                 /\ \A i \in 1..Len(queue'[f]) : queue'[f][i] = queue[f][i]
            ELSE queue'[f] = queue[f]
    /\ UNCHANGED <<air, of, canceled, cache>>

Shut(f) ==
    /\ phase[f] \in {"open", "ended"}
    /\ f \in canceled \/ (phase[f] = "ended" /\ queue[f] = <<>>)
    /\ phase' = [phase EXCEPT ![f] = "off"]
    /\ queue' = [queue EXCEPT ![f] = <<>>]
    /\ UNCHANGED <<air, of, canceled, cache>>

FeedNext ==
    \/ Rescan
    \/ \E f \in Feeds : (\E v \in BOOLEAN : Snapshot(f, v)) \/ Open(f) \/ Take(f) \/ Shut(f)
    \/ \E s \in Slugs : Change(s)
    \/ \E F \in SUBSET Feeds : End(F)

FeedSpec == FeedInit /\ [][FeedNext]_feedVars

=============================================================================
