------------------------- MODULE StationDirectory --------------------------
(***************************************************************************)
(* What the panel promises of a managed station until requests about it    *)
(* overlap, and again after its next boot: of each process what            *)
(* StationSupervisor promises and, of the rows of managed_stations, that a *)
(* station gets a process only while its row wants it to run, that a row   *)
(* is created, revived or deleted only when nothing of its station is      *)
(* alive, and that the death of the panel takes the processes and leaves   *)
(* the rows.                                                               *)
(***************************************************************************)
EXTENDS StationSupervisor

VARIABLE wanted    \* the row of a key: "none", "run" or "halt"

dirVars == <<vars, wanted>>

DirInit == Init /\ wanted = [k \in Keys |-> "none"]

SpawnWanted(k, p) == wanted[k] = "run" /\ Spawn(k, p) /\ wanted' = wanted

Create(k) ==
    /\ wanted[k] = "none" /\ live[k] = {}
    /\ wanted' = [wanted EXCEPT ![k] = "run"]
    /\ UNCHANGED vars

Want(k) ==
    /\ wanted[k] = "run" \/ (wanted[k] = "halt" /\ live[k] = {})
    /\ wanted' = [wanted EXCEPT ![k] = "run"]
    /\ UNCHANGED vars

Unwant(k) ==
    /\ wanted[k] # "none"
    /\ wanted' = [wanted EXCEPT ![k] = "halt"]
    /\ UNCHANGED vars

\* The status may still be that of a process that is dead but not recorded: a
\* delete goes on when Stop could not signal it.
Delete(k) ==
    /\ live[k] = {}
    /\ wanted' = [wanted EXCEPT ![k] = "none"]
    /\ UNCHANGED vars

\* Of a station whose requests have overlapped, the row may become anything.
Crossed(k) ==
    /\ \E w \in {"none", "run", "halt"} : wanted' = [wanted EXCEPT ![k] = w]
    /\ UNCHANGED vars

Reboot == Init' /\ wanted' = wanted

DirNext ==
    \/ \E k \in Keys \ apart : Crossed(k)
    \/ \E k \in apart :
          \/ \E p \in Procs : SpawnWanted(k, p)
          \/ Follow(k) /\ wanted' = wanted
          \/ Create(k) \/ Want(k) \/ Unwant(k) \/ Delete(k)
    \/ Reboot

DirSpec == DirInit /\ [][DirNext]_dirVars

=============================================================================
