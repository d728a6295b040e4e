------------------------------ MODULE Drawer -------------------------------
(***************************************************************************)
(* The mobile navigation drawer: the open flag, backdrop and breakpoint of *)
(* Shell.tsx, the drag gesture of useDrawerSwipe.ts and useMediaQuery.ts.  *)
(* An action is an event with the render it causes, the adjustments made   *)
(* during that render included.  Effects of a render that no click or end  *)
(* of a touch caused may run later, with other events in between.          *)
(* Positions are whole steps of the finger; vertical movement and speed    *)
(* are choices.                                                            *)
(***************************************************************************)
EXTENDS Integers

CONSTANTS
    PageWidth,   \* clientX goes from 0 to PageWidth
    Width,       \* of the drawer
    Edge,        \* EDGE_ZONE_PX
    Lock,        \* DIRECTION_LOCK_PX
    Flick,       \* FLICK_DISTANCE_PX
    Targets,     \* what a touch may start on: "frame" outlives every render,
                 \* "page" and "backdrop" may be removed under the finger
    None

ASSUME DrawerAssumption ==
    /\ PageWidth \in Nat /\ Edge \in Nat /\ Lock \in Nat /\ Flick \in Nat
    /\ Width \in Nat \ {0}
    /\ Targets \subseteq {"frame", "page", "backdrop"}
    /\ None \notin Int
    /\ None \notin [x : 0..PageWidth, on : {"frame", "page", "backdrop", "gone"}]

VARIABLES
    narrow,     \* whether DRAWER_QUERY matches
    isDrawer,   \* what Shell knows of it
    navOpen,
    seen,       \* openRef: navOpen as of the last effect
    drag,       \* how far the drawer is pulled out by the finger, None when idle
    gesture,    \* g.current, without what a choice stands for
    finger,     \* where the first finger is and what its touch started on, or None;
                \* events of a touch whose target is "gone" do not reach document
    second,     \* a second finger is down
    lost        \* the last touch ended unheard

vars == <<narrow, isDrawer, navOpen, seen, drag, gesture, finger, second, lost>>
touchVars == <<finger, second, lost>>

Xs == 0..PageWidth
Gestures == [active : BOOLEAN, axis : {"none", "horizontal", "vertical"},
             startX : Xs, openAtStart : BOOLEAN]

\* Well-typed; a second finger comes after a first.
DrawerTypeOK ==
    /\ narrow \in BOOLEAN /\ isDrawer \in BOOLEAN
    /\ navOpen \in BOOLEAN /\ seen \in BOOLEAN
    /\ drag \in 0..Width \cup {None}
    /\ gesture \in Gestures
    /\ finger \in [x : Xs, on : Targets \cup {"gone"}] \cup {None}
    /\ second \in BOOLEAN /\ lost \in BOOLEAN
    /\ second => finger # None

Init ==
    /\ narrow \in BOOLEAN
    /\ isDrawer = narrow
    /\ navOpen = FALSE
    /\ seen = FALSE
    /\ drag = None
    /\ gesture = [active |-> FALSE, axis |-> "none", startX |-> 0, openAtStart |-> FALSE]
    /\ finger = None
    /\ second = FALSE
    /\ lost = FALSE

-----------------------------------------------------------------------------
(* Rendering.                                                              *)

\* How far out the drawer follows a finger that went dx.
Pulled(open, dx) ==
    LET p == (IF open THEN Width ELSE 0) + dx
    IN IF p < 0 THEN 0 ELSE IF p > Width THEN Width ELSE p

\* What is committed when the state is set to open and d: above the
\* breakpoint navOpen is reset, and a change of it drops the drag.
Render(open, d) ==
    /\ navOpen' = (open /\ isDrawer')
    /\ drag' = IF open # navOpen \/ navOpen' # navOpen THEN None ELSE d

\* Where the user sees the drawer: the one source of its position.
Shown == IF drag = None THEN (IF navOpen THEN Width ELSE 0) ELSE drag

\* The backdrop is part of the page while the drawer is out, however little.
BackdropShows == isDrawer /\ Shown > 0

\* The finger after a render: its target may be gone.
Settle(f) ==
    finger' = IF f # None /\ f.on = "backdrop" /\ ~BackdropShows'
              THEN [f EXCEPT !.on = "gone"] ELSE f

\* Effects run with a render that an event caused, if it caused one.
EffectsRun == seen' = IF navOpen' # navOpen \/ drag' # drag THEN navOpen' ELSE seen

-----------------------------------------------------------------------------
(* Whatever opens and closes the drawer but the finger.                    *)

Click(open) ==
    /\ isDrawer' = isDrawer
    /\ Render(open, drag)
    /\ EffectsRun
    /\ Settle(finger)
    /\ UNCHANGED <<narrow, gesture, second, lost>>

\* The menu button, which the stylesheet hides above the breakpoint.
Menu == narrow /\ isDrawer /\ Click(~navOpen)

\* The backdrop, Escape, a link in the sidebar.
Dismiss == (navOpen \/ BackdropShows) /\ Click(FALSE)

\* A route change, rendered with its effects to come; the page is another one.
RouteChanges ==
    /\ isDrawer' = isDrawer
    /\ Render(FALSE, drag)
    /\ seen' = navOpen
    /\ Settle(IF finger # None /\ finger.on = "page" THEN [finger EXCEPT !.on = "gone"] ELSE finger)
    /\ UNCHANGED <<narrow, gesture, second, lost>>

\* The page refreshes and what the finger is on disappears.
PageRefreshes ==
    /\ finger # None /\ finger.on = "page"
    /\ finger' = [finger EXCEPT !.on = "gone"]
    /\ UNCHANGED <<narrow, isDrawer, navOpen, seen, drag, gesture, second, lost>>

Resize ==
    /\ narrow' = ~narrow
    /\ UNCHANGED <<isDrawer, navOpen, seen, drag, gesture, touchVars>>

\* The media query's change event.
Rematch ==
    /\ isDrawer # narrow
    /\ isDrawer' = narrow
    /\ Render(navOpen, drag)
    /\ seen' = navOpen
    /\ Settle(finger)
    /\ UNCHANGED <<narrow, gesture, second, lost>>

Effects ==
    /\ seen # navOpen
    /\ seen' = navOpen
    /\ UNCHANGED <<narrow, isDrawer, navOpen, drag, gesture, touchVars>>

-----------------------------------------------------------------------------
(* The touch handlers.                                                     *)

Idle == [gesture EXCEPT !.active = FALSE]

TouchStart(x, on) ==
    /\ finger = None
    /\ on = "backdrop" => BackdropShows /\ x >= Shown
    /\ finger' = [x |-> x, on |-> on]
    /\ lost' = FALSE
    /\ gesture' = IF narrow /\ (seen \/ x <= Edge)
                  THEN [active |-> TRUE, axis |-> "none", startX |-> x, openAtStart |-> seen]
                  ELSE [Idle EXCEPT !.axis = "none"]
    /\ UNCHANGED <<narrow, isDrawer, navOpen, seen, drag, second>>

SecondTouch ==
    /\ finger # None /\ ~second
    /\ second' = TRUE
    /\ gesture' = [Idle EXCEPT !.axis = "none"]
    /\ UNCHANGED <<narrow, isDrawer, navOpen, seen, drag, finger, lost>>

\* The axis a move locks to, given how far it went sideways.
LocksTo(axis, dx) ==
    LET far == dx >= Lock \/ -dx >= Lock
    IN CASE gesture.axis # "none" -> axis = gesture.axis
         [] axis = "none" -> ~far
         [] axis = "horizontal" -> far
         [] OTHER -> TRUE

\* onTouchMove with a gesture to follow.  It gives up on a premise that no
\* longer holds and on a vertical movement.
Follow(x, axis) ==
    LET dx == x - gesture.startX
        abandoned == seen # gesture.openAtStart
    IN /\ IF abandoned THEN axis = gesture.axis ELSE LocksTo(axis, dx)
       /\ gesture' = [gesture EXCEPT !.axis = axis, !.active = ~abandoned /\ axis # "vertical"]
       /\ Render(navOpen, IF abandoned THEN None
                          ELSE IF axis = "horizontal" THEN Pulled(gesture.openAtStart, dx)
                          ELSE drag)
       /\ EffectsRun

TouchMove(x, axis) ==
    /\ finger # None
    /\ isDrawer' = isDrawer
    /\ IF finger.on # "gone" /\ gesture.active /\ ~second
       THEN Follow(x, axis)
       ELSE axis = gesture.axis /\ UNCHANGED <<navOpen, seen, drag, gesture>>
    /\ Settle([finger EXCEPT !.x = x])
    /\ UNCHANGED <<narrow, second, lost>>

Released(open) == gesture' = Idle /\ Render(open, None) /\ EffectsRun

\* Where the gesture leaves the drawer: with the flick, or at the nearer side.
Outcome(x, flicked) ==
    LET dx == x - gesture.startX
    IN IF flicked THEN dx > 0 ELSE 2 * Pulled(gesture.openAtStart, dx) > Width

Ended_OnlyActive(flicked) ==    \* Mutant: the offset is cleared for gestures it took over only.
    IF gesture.active /\ gesture.axis = "horizontal" /\ seen = gesture.openAtStart
    THEN Released(Outcome(finger.x, flicked))
    ELSE gesture' = Idle /\ UNCHANGED <<navOpen, seen, drag>>

Ended_Unchecked(flicked) ==    \* Mutant: a gesture settles whatever happened meanwhile.
    IF gesture.active /\ gesture.axis = "horizontal"
    THEN Released(Outcome(finger.x, flicked))
    ELSE Released(navOpen)

\* onTouchEnd
Ended(flicked) ==
    IF gesture.active /\ gesture.axis = "horizontal" /\ seen = gesture.openAtStart
    THEN Released(Outcome(finger.x, flicked))
    ELSE Released(navOpen)

MayFlick(flicked) ==
    LET dx == finger.x - gesture.startX IN flicked => dx > Flick \/ -dx > Flick

\* One of two fingers lifts, or the last one does.
TouchEnd(flicked) ==
    /\ finger # None
    /\ MayFlick(flicked)
    /\ isDrawer' = isDrawer
    /\ IF finger.on = "gone" THEN UNCHANGED <<navOpen, seen, drag, gesture>> ELSE Ended(flicked)
    /\ IF second THEN Settle(finger) /\ UNCHANGED lost
       ELSE finger' = None /\ lost' = (finger.on = "gone")
    /\ second' = FALSE
    /\ UNCHANGED narrow

TouchCancel ==
    /\ finger # None
    /\ isDrawer' = isDrawer
    /\ IF finger.on = "gone" THEN UNCHANGED <<navOpen, seen, drag, gesture>> ELSE Released(navOpen)
    /\ finger' = None
    /\ lost' = (finger.on = "gone")
    /\ second' = FALSE
    /\ UNCHANGED narrow

-----------------------------------------------------------------------------

Touch ==
    \/ \E x \in Xs, on \in Targets : TouchStart(x, on)
    \/ SecondTouch
    \/ \E x \in Xs, axis \in {"none", "horizontal", "vertical"} : TouchMove(x, axis)
    \/ \E flicked \in BOOLEAN : TouchEnd(flicked)
    \/ TouchCancel

Next ==
    \/ Menu \/ Dismiss \/ RouteChanges \/ PageRefreshes
    \/ Resize \/ Rematch \/ Effects
    \/ Touch

Spec == Init /\ [][Next]_vars

-----------------------------------------------------------------------------
(* Properties.                                                             *)

\* The offset of a drag lasts no longer than the touch that makes it, however
\* many fingers come down, unless the end of that touch never reached the
\* document because its target had been removed (onTouchEnd, onTouchCancel).
DragIsHeld == drag # None => finger # None \/ lost

\* Above the breakpoint the drawer is never open, even when the screen turned
\* in the middle of a gesture that ends by opening it (Shell.tsx:326-329).
NeverOpenWide == ~isDrawer => ~navOpen

\* Whatever opens or closes the drawer also ends its transform: no control
\* leaves it pinned against its own state (useDrawerSwipe.ts:71-85).
TogglesWin == [][navOpen' # navOpen => drag' = None]_vars

\* A gesture opens the drawer only for a finger that went right and closes it
\* only for one that went left, whatever opened or closed the drawer meanwhile
\* (useDrawerSwipe.ts:152-164): except that one that ends between a render that
\* closed the drawer and its effect may open it again.
GestureGoesItsWay ==
    [][(\E flicked \in BOOLEAN : TouchEnd(flicked)) /\ navOpen' # navOpen =>
           IF navOpen' THEN finger.x > gesture.startX \/ seen # navOpen
           ELSE finger.x < gesture.startX]_vars

=============================================================================
