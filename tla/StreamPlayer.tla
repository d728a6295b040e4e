--------------------------- MODULE StreamPlayer ----------------------------
(***************************************************************************)
(* The live player of a station page, StreamPlayer.tsx: what its state     *)
(* says of an <audio> element that starts muted in the background, is      *)
(* unmuted by a click, fails, ends, and is given another source when the   *)
(* page moves on, or goes while there is none: streamUrl is empty until    *)
(* the config is loaded and on a server without http_base_url.  The        *)
(* element follows the HTML standard: load() throws away the events it had *)
(* queued and rejects the promises of play().  The volume is left out.     *)
(***************************************************************************)
EXTENDS Naturals, Sequences

CONSTANTS
    Urls,        \* stream URLs that are not empty: a server and a slug
    None,
    MaxTroubles  \* bound on failures, ends, stalls and pauses from outside

ASSUME StreamPlayerAssumption ==
    /\ None \notin Urls \cup {"none", "instant", "measured"} /\ "none" \notin Urls
    /\ MaxTroubles \in Nat

VARIABLES
    src,         \* the element's source, "none" while streamUrl is '', None without a player
    net,         \* "none", "loading", "ready" (it can play on), "ended" or "failed"
    paused, muted,
    promised,    \* a play() whose rejection sets phase to error is undecided
    queue,       \* the element's queued events, "reject" for such a rejection
    played,      \* this source has been playing since it was set
    phase,       \* 'connecting', 'buffered' or 'error'
    listening,
    audibleNow,
    everPlayed,  \* everPlayedRef
    clicked,     \* listenClickRef is set
    latency,     \* latencyRef: None, "instant" or "measured"
    troubles

element == <<src, net, paused, muted, promised, queue, played>>
view    == <<phase, listening, audibleNow, everPlayed, clicked, latency>>
vars == <<src, net, paused, muted, promised, queue, played,
          phase, listening, audibleNow, everPlayed, clicked, latency, troubles>>

Events == {"canplay", "playing", "pause", "error", "reject"}

\* Well-typed; without an element nothing is under way, and while listening a
\* delay is known or being measured.
PlayerTypeOK ==
    /\ src \in Urls \cup {"none", None}
    /\ net \in {"none", "loading", "ready", "ended", "failed"}
    /\ paused \in BOOLEAN /\ muted \in BOOLEAN /\ promised \in BOOLEAN
    /\ queue \in Seq(Events)
    /\ played \in BOOLEAN
    /\ phase \in {"connecting", "buffered", "error"}
    /\ listening \in BOOLEAN /\ audibleNow \in BOOLEAN /\ everPlayed \in BOOLEAN
    /\ clicked \in BOOLEAN
    /\ latency \in {None, "instant", "measured"}
    /\ troubles \in 0..MaxTroubles
    /\ src \notin Urls => net = "none" /\ paused /\ ~promised /\ queue = <<>>
    /\ src = None => ~listening
    /\ listening => latency # None \/ clicked

Init ==
    /\ src = None /\ net = "none" /\ paused = TRUE /\ muted = TRUE
    /\ promised = FALSE /\ queue = <<>> /\ played = FALSE
    /\ phase = "connecting" /\ listening = FALSE /\ audibleNow = FALSE
    /\ everPlayed = FALSE /\ clicked = FALSE /\ latency = None
    /\ troubles = 0

Trouble == troubles < MaxTroubles /\ troubles' = troubles + 1

-----------------------------------------------------------------------------
(* The element.                                                            *)

\* A rejection that load() delivers at once, whose catch runs after the caller.
Rejected == promised \/ \E i \in DOMAIN queue : queue[i] = "reject"

\* It has enough to play on.
Ready ==
    /\ net = "loading"
    /\ net' = "ready"
    /\ queue' = queue \o (IF paused THEN <<"canplay">> ELSE <<"canplay", "playing">>)
    /\ promised' = (promised /\ paused)
    /\ played' = (played \/ ~paused)
    /\ UNCHANGED <<src, paused, muted, view, troubles>>

\* A failure before the first data also rejects the promises.
Fail(early) ==
    /\ net = "loading" \/ (net = "ready" /\ ~early)
    /\ Trouble
    /\ net' = "failed"
    /\ queue' = queue \o (IF early /\ promised THEN <<"error", "reject">> ELSE <<"error">>)
    /\ promised' = (promised /\ ~early)
    /\ UNCHANGED <<src, paused, muted, played, view>>

\* Stops playing by itself: pause is fired and promises are rejected.
Halted ==
    /\ paused' = TRUE
    /\ queue' = IF paused THEN queue
                ELSE queue \o (IF promised THEN <<"pause", "reject">> ELSE <<"pause">>)
    /\ promised' = FALSE
    /\ UNCHANGED <<src, muted, played, view>>

\* The audio server closes the stream in good order.
End == net = "ready" /\ Trouble /\ net' = "ended" /\ Halted

\* Media keys and the like.
PausedOutside == ~paused /\ Trouble /\ Halted /\ UNCHANGED net

Stall ==
    /\ net = "ready" /\ Trouble
    /\ net' = "loading"
    /\ UNCHANGED <<src, paused, muted, promised, queue, played, view>>

-----------------------------------------------------------------------------
(* The component.                                                          *)

Forgets_Proof == everPlayed' = everPlayed /\ audibleNow' = FALSE    \* Mutant: everPlayedRef is kept.

\* What the effect resets of the sound heard so far.
Forgets == everPlayed' = FALSE /\ audibleNow' = FALSE

Mutes == muted' = TRUE /\ listening' = FALSE

\* The effect of a new streamUrl, its predecessor's cleanup included.  The
\* browser may refuse to play without a gesture, muted or not.  A promise of
\* the old source is rejected when the new state is already set.
Visit(u, allowed) ==
    /\ src # u
    /\ src' = u /\ net' = "loading"
    /\ Mutes /\ Forgets
    /\ paused' = ~allowed
    /\ promised' = FALSE /\ queue' = <<>> /\ played' = FALSE
    /\ phase' = IF Rejected THEN "error" ELSE "connecting"
    /\ latency' = None
    /\ UNCHANGED <<clicked, troubles>>

\* The page has no streamUrl: the old one's cleanup stops its element, which is not
\* rendered any more, and the effect returns before it resets anything.
NoStream ==
    /\ src # "none"
    /\ src' = "none" /\ net' = "none" /\ paused' = TRUE /\ muted' = TRUE
    /\ promised' = FALSE /\ queue' = <<>> /\ played' = FALSE
    /\ phase' = IF Rejected THEN "error" ELSE phase
    /\ UNCHANGED <<listening, audibleNow, everPlayed, clicked, latency, troubles>>

\* The player is unmounted, and its element with it.
Leave ==
    /\ src # None
    /\ src' = None /\ net' = "none" /\ paused' = TRUE /\ muted' = TRUE
    /\ promised' = FALSE /\ queue' = <<>> /\ played' = FALSE
    /\ phase' = "connecting" /\ listening' = FALSE /\ audibleNow' = FALSE
    /\ everPlayed' = FALSE /\ clicked' = FALSE /\ latency' = None
    /\ UNCHANGED troubles

\* play() in a click.  What it promises is decided when the element plays.
Play ==
    /\ paused' = FALSE
    /\ promised' = (net # "ready")
    /\ queue' = IF paused /\ net = "ready" THEN Append(queue, "playing") ELSE queue
    /\ played' = (played \/ net = "ready")

\* The button, where there is one.
Button   == src \in Urls
Disabled == Button /\ listening /\ ~audibleNow /\ phase # "error"

\* toggle() after an error: load() and play().
ClickRetry ==
    /\ Button /\ phase = "error"
    /\ phase' = IF Rejected THEN "error" ELSE "connecting"
    /\ net' = "loading" /\ paused' = FALSE /\ promised' = TRUE /\ queue' = <<>>
    /\ UNCHANGED <<src, muted, played, listening, audibleNow, everPlayed, clicked, latency, troubles>>

ClickStop ==
    /\ Button /\ listening /\ ~Disabled /\ phase # "error"
    /\ listening' = FALSE /\ muted' = TRUE
    /\ UNCHANGED <<src, net, paused, promised, queue, played,
                   phase, audibleNow, everPlayed, clicked, latency, troubles>>

ClickListen ==
    /\ Button /\ ~listening /\ phase # "error"
    /\ listening' = TRUE /\ muted' = FALSE
    /\ IF everPlayed
       THEN /\ latency' = "instant" /\ audibleNow' = TRUE
            /\ UNCHANGED <<clicked, paused, promised, queue, played>>
       ELSE /\ clicked' = TRUE
            /\ Play
            /\ UNCHANGED <<audibleNow, latency>>
    /\ UNCHANGED <<src, net, phase, everPlayed, troubles>>

Dispatched(e) ==
    /\ queue # <<>> /\ Head(queue) = e
    /\ queue' = Tail(queue)
    /\ UNCHANGED <<src, net, paused, muted, promised, played, listening, troubles>>

\* handleCanPlay
CanPlay ==
    /\ Dispatched("canplay")
    /\ phase' = IF phase = "error" THEN phase ELSE "buffered"
    /\ UNCHANGED <<audibleNow, everPlayed, clicked, latency>>

\* handlePlaying
Playing ==
    /\ Dispatched("playing")
    /\ everPlayed' = TRUE /\ phase' = "buffered" /\ audibleNow' = TRUE
    /\ latency' = IF clicked THEN "measured" ELSE latency
    /\ clicked' = FALSE

\* handlePause
Pause ==
    /\ Dispatched("pause")
    /\ audibleNow' = FALSE
    /\ UNCHANGED <<phase, everPlayed, clicked, latency>>

Failed_Unseen ==    \* Mutant: nothing listens to errors.
    /\ Dispatched("error") \/ Dispatched("reject")
    /\ UNCHANGED <<phase, audibleNow, everPlayed, clicked, latency>>

\* onError, and the catch of play()
Failed ==
    /\ Dispatched("error") \/ Dispatched("reject")
    /\ phase' = "error"
    /\ UNCHANGED <<audibleNow, everPlayed, clicked, latency>>

-----------------------------------------------------------------------------

Element == Ready \/ (\E early \in BOOLEAN : Fail(early)) \/ End \/ PausedOutside \/ Stall
Click == ClickRetry \/ ClickStop \/ ClickListen
Dispatch == CanPlay \/ Playing \/ Pause \/ Failed

Next ==
    \/ Element
    \/ \E u \in Urls, allowed \in BOOLEAN : Visit(u, allowed)
    \/ NoStream \/ Leave \/ Click \/ Dispatch

Spec == Init /\ [][Next]_vars

-----------------------------------------------------------------------------
(* Properties.                                                             *)

\* An element is unmuted exactly while the player says it listens: no other
\* station is heard because the page moved on in the middle of something.
UnmutedIsListening == ~muted <=> Button /\ listening

\* Where there is a stream to listen to, what counts as proof that it is audible
\* comes from this source: never from an event of the one before it, nor from what
\* the player kept while it had none (everPlayedRef, audibleNow).
ProofIsOfThisSource == Button /\ (everPlayed \/ audibleNow) => played

\* A click to listen does not wait forever behind its disabled button: sound
\* or an error follows, unless the stream ended or was paused from outside.
ListenIsAnswered ==
    Disabled ~> ~Disabled \/ paused \/ net = "ended"

-----------------------------------------------------------------------------
(* The inductive invariant.                                                *)

\* Sound proves that the source has played, a click is measured only until
\* then, and no event of playing is under way before.
SoundOK ==
    /\ audibleNow => everPlayed
    /\ everPlayed => (Button => played) /\ ~clicked
    /\ ~played => queue \in Seq(Events \ {"playing"})

PlayerInv == PlayerTypeOK /\ UnmutedIsListening /\ SoundOK

=============================================================================
