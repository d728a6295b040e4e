---------------------------- MODULE DrawerProofs ----------------------------
(***************************************************************************)
(* Proofs about Drawer for any sizes, thresholds and touch targets.        *)
(* DrawerInv is the type invariant with DragIsHeld and NeverOpenWide: what *)
(* a render commits never opens a wide screen (RenderFits), and only a     *)
(* touch that is still down, or was lost, leaves an offset behind; and     *)
(* OpenIsSeen, for the handlers that read the open flag through a ref.     *)
(***************************************************************************)
EXTENDS Drawer, TLAPS

USE DrawerAssumption

\* Only an effect of the render that closes the drawer may be late.
OpenIsSeen == navOpen => seen

DrawerInv == DrawerTypeOK /\ DragIsHeld /\ NeverOpenWide /\ OpenIsSeen

Fingers == [x : Xs, on : Targets \cup {"gone"}]

\* A finger is no None.
LEMMA FingerIsSome == \A f \in Fingers : f # None
<1>1. Fingers \subseteq [x : 0..PageWidth, on : {"frame", "page", "backdrop", "gone"}]
  BY DEF Fingers, Xs
<1> QED BY <1>1

\* The offset stays within the drawer's width.
LEMMA PulledFits ==
  ASSUME NEW open \in BOOLEAN, NEW dx \in Int
  PROVE  Pulled(open, dx) \in 0..Width
BY DEF Pulled

\* A render opens nothing above the breakpoint, and drops the drag whenever
\* the drawer opens or closes.
LEMMA RenderFits ==
  ASSUME DrawerInv, NEW open \in BOOLEAN, NEW d \in 0..Width \cup {None}, Render(open, d),
         isDrawer' \in BOOLEAN
  PROVE  /\ navOpen' \in BOOLEAN /\ drag' \in 0..Width \cup {None}
         /\ NeverOpenWide'
         /\ navOpen' # navOpen => drag' = None
         /\ drag' = None \/ drag' = d
BY DEF Render, NeverOpenWide

\* Settling keeps a finger a finger, where it is.
LEMMA SettleFits ==
  ASSUME NEW f \in Fingers \cup {None}, Settle(f)
  PROVE  finger' \in Fingers \cup {None} /\ (finger' = None <=> f = None)
<1>1. CASE finger' = f BY <1>1
<1>2. CASE finger' # f
  <2>1. f # None /\ finger' = [f EXCEPT !.on = "gone"] BY <1>2 DEF Settle
  <2>2. finger' \in Fingers BY <2>1 DEF Fingers
  <2> QED BY <2>1, <2>2, FingerIsSome
<1> QED BY <1>1, <1>2

\* Nothing is open or pulled out at first.
LEMMA DrawerInitHolds == Init => DrawerInv
<1> SUFFICES ASSUME Init PROVE DrawerInv OBVIOUS
<1>1. gesture \in Gestures BY DEF Init, Gestures, Xs
<1>2. DrawerTypeOK BY <1>1 DEF Init, DrawerTypeOK
<1> QED BY <1>2 DEF Init, DrawerInv, DragIsHeld, NeverOpenWide, OpenIsSeen

\* A click moves the drawer, not the finger.
LEMMA ClickKeeps ==
  ASSUME DrawerInv, NEW open \in BOOLEAN, Click(open)
  PROVE  DrawerInv' /\ (navOpen' # navOpen => drag' = None)
<1> USE DEF DrawerInv
<1>1. /\ navOpen' \in BOOLEAN /\ drag' \in 0..Width \cup {None}
      /\ NeverOpenWide'
      /\ navOpen' # navOpen => drag' = None
      /\ drag' = None \/ drag' = drag
  BY RenderFits DEF Click, DrawerTypeOK
<1>2. finger' \in Fingers \cup {None} /\ (finger' = None <=> finger = None)
  BY SettleFits DEF Click, DrawerTypeOK, Fingers
<1>3. seen' \in BOOLEAN BY <1>1 DEF Click, EffectsRun, DrawerTypeOK
<1>4. DrawerTypeOK' BY <1>1, <1>2, <1>3 DEF DrawerTypeOK, Click, Fingers
<1>5. DragIsHeld' BY <1>1, <1>2 DEF DragIsHeld, Click
<1>6. OpenIsSeen' BY <1>1 DEF OpenIsSeen, Click, EffectsRun, DrawerTypeOK
<1> QED BY <1>1, <1>4, <1>5, <1>6

\* A route change and a change of the media query render as well.
LEMMA RoutesKeep ==
  ASSUME DrawerInv, RouteChanges \/ Rematch
  PROVE  DrawerInv' /\ (navOpen' # navOpen => drag' = None)
<1> USE DEF DrawerInv
<1>1. /\ isDrawer' \in BOOLEAN
      /\ \E open \in BOOLEAN : Render(open, drag)
      /\ UNCHANGED <<narrow, gesture, second, lost>>
      /\ seen' \in BOOLEAN
  BY DEF RouteChanges, Rematch, DrawerTypeOK
<1>2. /\ navOpen' \in BOOLEAN /\ drag' \in 0..Width \cup {None}
      /\ NeverOpenWide'
      /\ navOpen' # navOpen => drag' = None
      /\ drag' = None \/ drag' = drag
  BY <1>1, RenderFits DEF DrawerTypeOK
<1>3. PICK f \in Fingers \cup {None} : Settle(f) /\ (f = None <=> finger = None)
  <2>1. CASE RouteChanges /\ finger # None /\ finger.on = "page"
    <3>1. [finger EXCEPT !.on = "gone"] \in Fingers BY <2>1 DEF DrawerTypeOK, Fingers
    <3> QED BY <2>1, <3>1, FingerIsSome DEF RouteChanges
  <2>2. CASE ~(RouteChanges /\ finger # None /\ finger.on = "page")
    BY <2>2 DEF RouteChanges, Rematch, DrawerTypeOK, Fingers
  <2> QED BY <2>1, <2>2
<1>4. finger' \in Fingers \cup {None} /\ (finger' = None <=> finger = None)
  BY <1>3, SettleFits
<1>5. DrawerTypeOK' BY <1>1, <1>2, <1>4 DEF DrawerTypeOK, Fingers
<1>6. DragIsHeld' BY <1>1, <1>2, <1>4 DEF DragIsHeld
<1>7. OpenIsSeen' BY DEF OpenIsSeen, RouteChanges, Rematch, Render, DrawerTypeOK
<1> QED BY <1>2, <1>5, <1>6, <1>7

\* What leaves the drawer where it is.
LEMMA QuietKeeps ==
  ASSUME DrawerInv, PageRefreshes \/ Resize \/ Effects \/ UNCHANGED vars
  PROVE  DrawerInv' /\ UNCHANGED <<navOpen, drag>>
<1> USE DEF DrawerInv
<1>1. UNCHANGED <<navOpen, drag, isDrawer, gesture, second, lost>>
      /\ narrow' \in BOOLEAN /\ seen' \in BOOLEAN
  BY DEF PageRefreshes, Resize, Effects, touchVars, vars, DrawerTypeOK
<1>2. finger' \in Fingers \cup {None} /\ (finger' = None <=> finger = None)
  <2>1. CASE PageRefreshes
    <3>1. finger' = [finger EXCEPT !.on = "gone"] /\ finger \in Fingers
      BY <2>1 DEF PageRefreshes, DrawerTypeOK, Fingers
    <3>2. finger' \in Fingers BY <3>1 DEF Fingers
    <3> QED BY <3>1, <3>2, FingerIsSome
  <2>2. CASE ~PageRefreshes
    BY <2>2 DEF Resize, Effects, touchVars, vars, DrawerTypeOK, Fingers
  <2> QED BY <2>1, <2>2
<1>3. DrawerTypeOK' BY <1>1, <1>2 DEF DrawerTypeOK, Fingers
<1>4. DragIsHeld' /\ NeverOpenWide' BY <1>1, <1>2 DEF DragIsHeld, NeverOpenWide
<1>5. OpenIsSeen' BY DEF OpenIsSeen, PageRefreshes, Resize, Effects, touchVars, vars, DrawerTypeOK
<1> QED BY <1>1, <1>3, <1>4, <1>5

\* A finger that comes down drags nothing yet.
LEMMA StartsKeep ==
  ASSUME DrawerInv, SecondTouch \/ \E x \in Xs, on \in Targets : TouchStart(x, on)
  PROVE  DrawerInv' /\ UNCHANGED <<navOpen, drag>>
<1> USE DEF DrawerInv
<1>1. UNCHANGED <<narrow, isDrawer, navOpen, seen, drag>>
  BY DEF SecondTouch, TouchStart
<1>2. finger' \in Fingers /\ second' \in BOOLEAN /\ lost' \in BOOLEAN /\ gesture' \in Gestures
  <2>1. CASE SecondTouch
    BY <2>1 DEF SecondTouch, DrawerTypeOK, Fingers, Gestures, Idle
  <2>2. ASSUME NEW x \in Xs, NEW on \in Targets, TouchStart(x, on)
        PROVE  finger' \in Fingers /\ second' \in BOOLEAN /\ lost' \in BOOLEAN /\ gesture' \in Gestures
    <3>1. finger' = [x |-> x, on |-> on] /\ lost' = FALSE /\ second' = second
      BY <2>2 DEF TouchStart
    <3>2. [x |-> x, on |-> on] \in Fingers BY DEF Fingers
    <3>3. gesture' \in Gestures
      BY <2>2 DEF TouchStart, DrawerTypeOK, Gestures, Idle
    <3> QED BY <3>1, <3>2, <3>3 DEF DrawerTypeOK
  <2> QED BY <2>1, <2>2
<1>4. finger' # None BY <1>2, FingerIsSome
<1>5. DrawerTypeOK' BY <1>1, <1>2, <1>4 DEF DrawerTypeOK, Fingers
<1>6. DragIsHeld' /\ NeverOpenWide' BY <1>1, <1>4 DEF DragIsHeld, NeverOpenWide
<1>7. OpenIsSeen' BY <1>1 DEF OpenIsSeen
<1> QED BY <1>1, <1>5, <1>6, <1>7

\* A move drags the drawer only while the finger is down.
LEMMA MoveKeeps ==
  ASSUME DrawerInv, NEW x \in Xs, NEW axis \in {"none", "horizontal", "vertical"},
         TouchMove(x, axis)
  PROVE  DrawerInv' /\ (navOpen' # navOpen => drag' = None)
<1> USE DEF DrawerInv, TouchMove
<1>1. /\ navOpen' \in BOOLEAN /\ drag' \in 0..Width \cup {None}
      /\ NeverOpenWide'
      /\ navOpen' # navOpen => drag' = None
      /\ seen' \in BOOLEAN /\ gesture' \in Gestures
      /\ OpenIsSeen'
  <2>1. CASE Follow(x, axis)
    <3> DEFINE dx == x - gesture.startX
               pulled == Pulled(gesture.openAtStart, dx)
               d == IF seen # gesture.openAtStart THEN None
                    ELSE IF axis = "horizontal" THEN pulled ELSE drag
    <3>1. dx \in Int /\ gesture.openAtStart \in BOOLEAN
      BY DEF DrawerTypeOK, Gestures, Xs
    <3>2. pulled \in 0..Width BY <3>1, PulledFits
    <3>3. d \in 0..Width \cup {None} BY <3>2 DEF DrawerTypeOK
    <3>4. Render(navOpen, d) /\ EffectsRun BY <2>1 DEF Follow
    <3>5. gesture' = [gesture EXCEPT !.axis = axis,
                        !.active = ~(seen # gesture.openAtStart) /\ axis # "vertical"]
      BY <2>1 DEF Follow
    <3>6. gesture' \in Gestures BY <3>5 DEF DrawerTypeOK, Gestures
    <3> HIDE DEF d
    <3>7. /\ navOpen' \in BOOLEAN /\ drag' \in 0..Width \cup {None}
          /\ NeverOpenWide'
          /\ navOpen' # navOpen => drag' = None
      BY <3>3, <3>4, RenderFits DEF DrawerTypeOK
    <3>8. seen' \in BOOLEAN BY <3>4, <3>7 DEF EffectsRun, DrawerTypeOK
    <3>9. OpenIsSeen' BY <3>4, <3>7 DEF EffectsRun, OpenIsSeen, DrawerTypeOK
    <3> QED BY <3>6, <3>7, <3>8, <3>9
  <2>2. CASE UNCHANGED <<navOpen, seen, drag, gesture>>
    BY <2>2 DEF DrawerTypeOK, NeverOpenWide, OpenIsSeen
  <2> QED BY <2>1, <2>2
<1>2. [finger EXCEPT !.x = x] \in Fingers BY DEF DrawerTypeOK, Fingers
<1>3. finger' \in Fingers \cup {None} /\ finger' # None
  BY <1>2, SettleFits, FingerIsSome
<1>4. DrawerTypeOK' BY <1>1, <1>3 DEF DrawerTypeOK, Fingers
<1>5. DragIsHeld' BY <1>3 DEF DragIsHeld
<1> QED BY <1>1, <1>4, <1>5

\* The end of a touch that is heard ends its drag.
LEMMA EndKeeps ==
  ASSUME DrawerInv, TouchCancel \/ \E flicked \in BOOLEAN : TouchEnd(flicked)
  PROVE  DrawerInv' /\ (navOpen' # navOpen => drag' = None)
<1> USE DEF DrawerInv
<1>1. finger # None /\ isDrawer' = isDrawer /\ narrow' = narrow /\ second' = FALSE
  BY DEF TouchCancel, TouchEnd
<1>2. \/ finger.on = "gone" /\ UNCHANGED <<navOpen, seen, drag, gesture>>
      \/ finger.on # "gone" /\ \E open \in BOOLEAN : Released(open)
  <2>1. CASE finger.on = "gone" BY <2>1 DEF TouchCancel, TouchEnd
  <2>2. CASE finger.on # "gone"
    <3>1. ASSUME NEW flicked \in BOOLEAN PROVE Outcome(finger.x, flicked) \in BOOLEAN
      <4> DEFINE dx == finger.x - gesture.startX
      <4>0. dx \in Int /\ gesture.openAtStart \in BOOLEAN
        BY <1>1 DEF DrawerTypeOK, Gestures, Xs
      <4>1. (dx > 0) \in BOOLEAN BY <4>0
      <4>2. (2 * Pulled(gesture.openAtStart, dx) > Width) \in BOOLEAN
        <5>1. 2 * Pulled(gesture.openAtStart, dx) \in Int BY <4>0, PulledFits
        <5> QED BY <5>1
      <4>3. Outcome(finger.x, flicked) =
              IF flicked THEN dx > 0 ELSE 2 * Pulled(gesture.openAtStart, dx) > Width
        BY Zenon DEF Outcome
      <4> QED BY <4>1, <4>2, <4>3
    <3> QED BY <2>2, <3>1 DEF TouchCancel, TouchEnd, Ended, DrawerTypeOK
  <2> QED BY <2>1, <2>2
<1>3. /\ navOpen' \in BOOLEAN /\ drag' \in 0..Width \cup {None}
      /\ NeverOpenWide'
      /\ navOpen' # navOpen => drag' = None
      /\ seen' \in BOOLEAN /\ gesture' \in Gestures
      /\ finger.on # "gone" => drag' = None
      /\ OpenIsSeen'
  <2>1. CASE finger.on = "gone" /\ UNCHANGED <<navOpen, seen, drag, gesture>>
    BY <1>1, <2>1 DEF DrawerTypeOK, NeverOpenWide, OpenIsSeen
  <2>2. CASE \E open \in BOOLEAN : Released(open)
    <3>1. PICK open \in BOOLEAN : Released(open) BY <2>2
    <3>2. Render(open, None) /\ EffectsRun /\ gesture' = Idle BY <3>1 DEF Released
    <3>3. /\ navOpen' \in BOOLEAN /\ drag' = None
          /\ NeverOpenWide'
      BY <1>1, <3>2, RenderFits DEF DrawerTypeOK
    <3>4. seen' \in BOOLEAN BY <3>2, <3>3 DEF EffectsRun, DrawerTypeOK
    <3>5. gesture' \in Gestures BY <3>2 DEF Idle, DrawerTypeOK, Gestures
    <3>6. OpenIsSeen' BY <3>2, <3>3 DEF EffectsRun, OpenIsSeen, DrawerTypeOK
    <3> QED BY <3>3, <3>4, <3>5, <3>6
  <2> QED BY <1>2, <2>1, <2>2
<1>4. /\ finger' \in Fingers \cup {None}
      /\ lost' \in BOOLEAN
      /\ finger' # None \/ lost' = (finger.on = "gone")
  <2>1. finger \in Fingers BY <1>1 DEF DrawerTypeOK, Fingers
  <2>2. CASE Settle(finger) /\ UNCHANGED lost
    BY <1>1, <2>1, <2>2, SettleFits DEF DrawerTypeOK
  <2>3. CASE finger' = None /\ lost' = (finger.on = "gone")
    BY <2>3
  <2> QED BY <2>2, <2>3 DEF TouchCancel, TouchEnd
<1>5. DrawerTypeOK' BY <1>1, <1>3, <1>4 DEF DrawerTypeOK, Fingers
<1>6. DragIsHeld' BY <1>3, <1>4 DEF DragIsHeld
<1> QED BY <1>3, <1>5, <1>6

\* Every step preserves the invariant, and no step moves the drawer with an
\* offset left on it.
LEMMA DrawerInductive ==
  DrawerInv /\ [Next]_vars => DrawerInv' /\ (navOpen' # navOpen => drag' = None)
<1> SUFFICES ASSUME DrawerInv, [Next]_vars
             PROVE  DrawerInv' /\ (navOpen' # navOpen => drag' = None)
  OBVIOUS
<1>1. CASE Menu \/ Dismiss
  <2>1. navOpen \in BOOLEAN BY DEF DrawerInv, DrawerTypeOK
  <2> QED BY <1>1, <2>1, ClickKeeps DEF Menu, Dismiss
<1>2. CASE RouteChanges \/ Rematch BY <1>2, RoutesKeep
<1>3. CASE PageRefreshes \/ Resize \/ Effects \/ UNCHANGED vars BY <1>3, QuietKeeps
<1>4. CASE Touch BY <1>4, StartsKeep, MoveKeeps, EndKeeps DEF Touch
<1> QED BY <1>1, <1>2, <1>3, <1>4 DEF Next

\* DrawerInv holds in every reachable state.
LEMMA DrawerInvariant == Spec => []DrawerInv
BY DrawerInitHolds, DrawerInductive, PTL DEF Spec

\* The model is well typed for any sizes and targets.
THEOREM DrawerTypeCorrect == Spec => []DrawerTypeOK
BY DrawerInvariant, PTL DEF DrawerInv

\* An offset outlives no touch whose end was heard (onTouchEnd, onTouchCancel).
THEOREM DragHeld == Spec => []DragIsHeld
BY DrawerInvariant, PTL DEF DrawerInv

\* No gesture, click or turn of the screen leaves the drawer open above the
\* breakpoint (Shell.tsx:326-329).
THEOREM WideIsClosed == Spec => []NeverOpenWide
BY DrawerInvariant, PTL DEF DrawerInv

\* A drawer that opens or closes has no offset left (useDrawerSwipe.ts:71-85).
THEOREM TogglesEndDrags == Spec => TogglesWin
<1>1. DrawerInv /\ [Next]_vars => [navOpen' # navOpen => drag' = None]_vars
  BY DrawerInductive
<1> QED BY <1>1, DrawerInvariant, PTL DEF Spec, TogglesWin

\* A gesture moves the drawer the way the finger went, unless the effect of a
\* change that closed it is still to run (useDrawerSwipe.ts:152-164).
THEOREM GesturesGoTheirWay == Spec => GestureGoesItsWay
<1>1. ASSUME DrawerInv, NEW flicked \in BOOLEAN, TouchEnd(flicked), navOpen' # navOpen
      PROVE  IF navOpen' THEN finger.x > gesture.startX \/ seen # navOpen
             ELSE finger.x < gesture.startX
  <2> DEFINE dx == finger.x - gesture.startX
             open == Outcome(finger.x, flicked)
  <2>1. finger.on # "gone" /\ Ended(flicked) /\ isDrawer' = isDrawer /\ MayFlick(flicked)
    BY <1>1 DEF TouchEnd
  <2>2. /\ navOpen \in BOOLEAN /\ seen \in BOOLEAN /\ gesture.openAtStart \in BOOLEAN
        /\ finger.x \in Int /\ gesture.startX \in Int
        /\ isDrawer \in BOOLEAN /\ (~isDrawer => ~navOpen) /\ (navOpen => seen)
    BY <1>1 DEF DrawerInv, DrawerTypeOK, NeverOpenWide, OpenIsSeen, Gestures, Xs, TouchEnd
  <2>3. seen = gesture.openAtStart /\ Released(open)
    <3>1. ~Released(navOpen) BY <1>1, <2>1, <2>2 DEF Released, Render
    <3> QED BY <2>1, <3>1 DEF Ended
  <2>4. (open => navOpen') \/ ~isDrawer
    BY <2>1, <2>2, <2>3 DEF Released, Render
  <2>5. navOpen' => open /\ isDrawer BY <2>1, <2>3 DEF Released, Render
  <2>6. dx \in Int /\ Pulled(seen, dx) \in 0..Width BY <2>2, PulledFits
  <2>7. CASE navOpen'
    <3>1. open /\ ~navOpen BY <1>1, <2>2, <2>3, <2>5, <2>7 DEF Released, Render
    <3>2. flicked => dx > 0 BY <3>1, Zenon DEF Outcome
    <3>3. ~flicked => 2 * Pulled(seen, dx) > Width BY <2>3, <3>1, Zenon DEF Outcome
    <3>4. ~seen /\ ~flicked => dx > 0 BY <2>2, <2>6, <3>3 DEF Pulled
    <3>5. ~seen => dx > 0 BY <3>2, <3>4
    <3> QED BY <2>2, <2>7, <3>1, <3>5
  <2>8. CASE ~navOpen'
    <3>1. ~open /\ navOpen /\ seen BY <1>1, <2>2, <2>3, <2>4, <2>8 DEF Released, Render
    <3>2. flicked => ~(dx > 0) BY <3>1, Zenon DEF Outcome
    <3>3. ~flicked => ~(2 * Pulled(seen, dx) > Width) BY <2>3, <3>1, Zenon DEF Outcome
    <3>4. flicked => dx < 0 BY <2>1, <2>6, <3>2 DEF MayFlick
    <3>5. ~flicked => dx < 0 BY <2>6, <3>1, <3>3 DEF Pulled
    <3>6. dx < 0 BY <3>4, <3>5
    <3> QED BY <2>2, <2>8, <3>6
  <2> QED BY <2>7, <2>8
<1>2. DrawerInv => [(\E flicked \in BOOLEAN : TouchEnd(flicked)) /\ navOpen' # navOpen =>
                      IF navOpen' THEN finger.x > gesture.startX \/ seen # navOpen
                      ELSE finger.x < gesture.startX]_vars
  BY <1>1
<1> QED BY <1>2, DrawerInvariant, PTL DEF GestureGoesItsWay

=============================================================================
