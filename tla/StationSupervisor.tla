------------------------- MODULE StationSupervisor -------------------------
(***************************************************************************)
(* What internal/stationrunner promises of each key, until two calls that  *)
(* start it overlap: at most one live process; a status that follows it    *)
(* with a delay but says stopped or crashed only of a dead one; and        *)
(* stopped, not crashed, for a process the panel asked to stop.  Calls     *)
(* that overlap on one key take nothing from the others.                   *)
(***************************************************************************)
CONSTANTS Keys, Procs

VARIABLES
    apart,     \* the keys no two calls to start have overlapped on
    live,      \* live[k]: the processes of k that are alive
    status,    \* what Status answers for k
    asked      \* a Stop has marked the process status is about

vars == <<apart, live, status, asked>>

Init ==
    /\ apart = Keys
    /\ live = [k \in Keys |-> {}]
    /\ status = [k \in Keys |-> "absent"]
    /\ asked = [k \in Keys |-> FALSE]

\* Only a key that is not recorded as running and has no process gets one.
Spawn(k, p) ==
    /\ status[k] # "running"
    /\ live[k] = {}
    /\ live' = [live EXCEPT ![k] = {p}]
    /\ UNCHANGED <<apart, status, asked>>

\* The process, which may be dead already, becomes the key's.
Publish(k) ==
    /\ status[k] # "running"
    /\ status' = [status EXCEPT ![k] = "running"]
    /\ asked' = [asked EXCEPT ![k] = FALSE]
    /\ UNCHANGED <<apart, live>>

Ask(k) ==
    /\ status[k] = "running"
    /\ asked' = [asked EXCEPT ![k] = TRUE]
    /\ UNCHANGED <<apart, live, status>>

Die(k) ==
    /\ live' = [live EXCEPT ![k] = {}]
    /\ UNCHANGED <<apart, status, asked>>

Record(k, s) ==
    /\ status[k] = "running"
    /\ live[k] = {}
    /\ s = "crashed" => ~asked[k]
    /\ status' = [status EXCEPT ![k] = s]
    /\ UNCHANGED <<apart, live, asked>>

\* Two calls to start k overlap: nothing more is promised of it.
Cross(k) ==
    /\ apart' = apart \ {k}
    /\ live' = [live EXCEPT ![k] = {}]
    /\ status' = [status EXCEPT ![k] = "unknown"]
    /\ asked' = [asked EXCEPT ![k] = FALSE]

\* What becomes of a process of k once there is one.
Follow(k) ==
    \/ Publish(k) \/ Ask(k) \/ Die(k) \/ Cross(k)
    \/ \E s \in {"stopped", "crashed"} : Record(k, s)

Next == \E k \in apart : (\E p \in Procs : Spawn(k, p)) \/ Follow(k)

Spec == Init /\ [][Next]_vars

=============================================================================
