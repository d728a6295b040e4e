--------------------------- MODULE StationRunner ---------------------------
(***************************************************************************)
(* The process supervisor of internal/stationrunner: Start, Stop, Restart  *)
(* and Status of Runner, the goroutine that waits for each child, and the  *)
(* children themselves.  Every region between a Lock and its Unlock is one *)
(* step of the goroutine that runs it; the code between two regions is     *)
(* where the other goroutines, the children and the kernel interleave.     *)
(***************************************************************************)
EXTENDS Naturals, FiniteSets

CONSTANTS
    Keys,       \* "<server_id>/<slug>" keys of panel-managed stations
    Threads,    \* goroutines that call the Runner: request handlers, boot
    Procs,      \* the OS processes there can be: a bound on successful spawns
    None        \* no process, key or result yet

ASSUME ConstantsAssumption == None \notin Procs \cup Keys

VARIABLES
    procs,      \* Runner.procs: key -> the managedProc tracked for it
    state,      \* managedProc.state, "none" before the struct is published
    stopping,   \* managedProc.stopping
    done,       \* managedProc.done is closed
    os,         \* the child as the kernel has it
    owner,      \* the key whose --config the child was spawned with
    signal,     \* the strongest signal sent to the child while it was alive
    death,      \* how the child died
    pc,         \* where each calling goroutine is
    op,         \* the call it is in
    arg,        \* the key of that call
    cur,        \* its local p
    ret,        \* what its last call returned, None in a call
    crossed     \* history: the keys two calls to start have ever overlapped on

procVars == <<procs, state, stopping, done>>
osVars   == <<os, owner, signal, death>>
thrVars  == <<pc, op, arg, cur, ret, crossed>>
vars     == <<procs, state, stopping, done, os, owner, signal, death,
              pc, op, arg, cur, ret, crossed>>

Recorded == {"stopped", "crashed"}
States   == {"none", "running"} \cup Recorded
Ops      == {"start", "stop", "restart", "status"}
Results  == {"ok", "error"}
StopPCs  == {"lookup", "mark", "signal", "await", "drain"}
StartPCs == {"check", "spawn", "publish"}
PCs      == {"idle", "read"} \cup StopPCs \cup StartPCs

TypeOK ==
    /\ procs \in [Keys -> Procs \cup {None}]
    /\ state \in [Procs -> States]
    /\ stopping \in [Procs -> BOOLEAN]
    /\ done \in [Procs -> BOOLEAN]
    /\ os \in [Procs -> {"unborn", "alive", "exited", "reaped"}]
    /\ owner \in [Procs -> Keys \cup {None}]
    /\ signal \in [Procs -> {"none", "TERM", "KILL"}]
    /\ death \in [Procs -> {"none", "clean", "failed", "signalled"}]
    /\ pc \in [Threads -> PCs]
    /\ op \in [Threads -> Ops \cup {None}]
    /\ arg \in [Threads -> Keys \cup {None}]
    /\ cur \in [Threads -> Procs \cup {None}]
    /\ ret \in [Threads -> Results \cup {None}]
    /\ crossed \subseteq Keys

Init ==
    /\ procs = [k \in Keys |-> None]
    /\ state = [p \in Procs |-> "none"]
    /\ stopping = [p \in Procs |-> FALSE]
    /\ done = [p \in Procs |-> FALSE]
    /\ os = [p \in Procs |-> "unborn"]
    /\ owner = [p \in Procs |-> None]
    /\ signal = [p \in Procs |-> "none"]
    /\ death = [p \in Procs |-> "none"]
    /\ pc = [t \in Threads |-> "idle"]
    /\ op = [t \in Threads |-> None]
    /\ arg = [t \in Threads |-> None]
    /\ cur = [t \in Threads |-> None]
    /\ ret = [t \in Threads |-> None]
    /\ crossed = {}

-----------------------------------------------------------------------------
(* Calls and returns.                                                      *)

\* Goroutine t goes on at l, with p in its local variable.
Goto(t, l, p) ==
    /\ pc' = [pc EXCEPT ![t] = l]
    /\ cur' = [cur EXCEPT ![t] = p]
    /\ UNCHANGED <<op, arg, ret, crossed>>

Return(t, r) ==
    /\ pc' = [pc EXCEPT ![t] = "idle"]
    /\ op' = [op EXCEPT ![t] = None]
    /\ arg' = [arg EXCEPT ![t] = None]
    /\ cur' = [cur EXCEPT ![t] = None]
    /\ ret' = [ret EXCEPT ![t] = r]
    /\ crossed' = crossed

\* Stop returned nil to its caller: a handler, or Restart, which now starts.
StopReturns(t) == IF op[t] = "restart" THEN Goto(t, "check", None) ELSE Return(t, "ok")

\* Goroutine t is in a call that starts k: Start, or the whole of Restart.
Starts(t, k) == pc[t] # "idle" /\ op[t] \in {"start", "restart"} /\ arg[t] = k

\* Any goroutine calls anything of any key; that a call to start k meets another
\* one is remembered.
Call(t, o, k) ==
    /\ pc[t] = "idle"
    /\ op' = [op EXCEPT ![t] = o]
    /\ arg' = [arg EXCEPT ![t] = k]
    /\ cur' = cur
    /\ ret' = [ret EXCEPT ![t] = None]
    /\ pc' = [pc EXCEPT ![t] = IF o = "start" THEN "check" ELSE "lookup"]
    /\ crossed' = crossed \cup
          {j \in {k} : o \in {"start", "restart"} /\ \E u \in Threads : Starts(u, k)}
    /\ UNCHANGED <<procVars, osVars>>

-----------------------------------------------------------------------------
(* Start.                                                                  *)

\* Mutant: a process that is being stopped no longer counts as running.
Running_NotStopping(p) == p # None /\ state[p] = "running" /\ ~stopping[p]

Running(p) == p # None /\ state[p] = "running"

\* Mutant: Start does not look at the tracked process.
StartCheck_Unguarded(t) ==
    /\ pc[t] = "check"
    /\ Goto(t, "spawn", None)
    /\ UNCHANGED <<procVars, osVars>>

\* Under r.mu (and p.mu): is the tracked process still recorded as running?
StartCheck(t) ==
    /\ pc[t] = "check"
    /\ IF Running(procs[arg[t]])
         THEN Return(t, "error")
         ELSE Goto(t, "spawn", None)
    /\ UNCHANGED <<procVars, osVars>>

\* cmd.Start, with no lock held: the fork or the exec may fail.
SpawnFails(t) ==
    /\ pc[t] = "spawn"
    /\ Return(t, "error")
    /\ UNCHANGED <<procVars, osVars>>

Spawn(t, p) ==
    /\ pc[t] = "spawn"
    /\ os[p] = "unborn"
    /\ os' = [os EXCEPT ![p] = "alive"]
    /\ owner' = [owner EXCEPT ![p] = arg[t]]
    /\ Goto(t, "publish", p)
    /\ UNCHANGED <<procVars, signal, death>>

\* The new managedProc replaces whatever the key tracked; its Wait goroutine
\* starts and Start returns nil.
StartPublish(t) ==
    /\ pc[t] = "publish"
    /\ procs' = [procs EXCEPT ![arg[t]] = cur[t]]
    /\ state' = [state EXCEPT ![cur[t]] = "running"]
    /\ Return(t, "ok")
    /\ UNCHANGED <<stopping, done, osVars>>

-----------------------------------------------------------------------------
(* The Wait goroutine of a published process.                              *)

\* cmd.Wait returns: the kernel's zombie is gone.
WaitReaps(p) ==
    /\ state[p] = "running"
    /\ os[p] = "exited"
    /\ os' = [os EXCEPT ![p] = "reaped"]
    /\ UNCHANGED <<procVars, owner, signal, death, thrVars>>

\* Mutant: the switch has no case for stopping.
Classify_IgnoresStopping(p) == IF death[p] = "clean" THEN "stopped" ELSE "crashed"

\* What the Wait goroutine makes of an exit: an asked-for one is never a crash.
Classify(p) ==
    IF stopping[p] \/ death[p] = "clean" THEN "stopped" ELSE "crashed"

WaitRecords(p) ==
    /\ state[p] = "running"
    /\ os[p] = "reaped"
    /\ state' = [state EXCEPT ![p] = Classify(p)]
    /\ UNCHANGED <<procs, stopping, done, osVars, thrVars>>

\* Mutants: done is closed before the state is recorded; only for a crash.
WaitCloses_BeforeRecord(p) ==
    /\ os[p] = "reaped"
    /\ ~done[p]
    /\ done' = [done EXCEPT ![p] = TRUE]
    /\ UNCHANGED <<procs, state, stopping, osVars, thrVars>>

WaitCloses_OnlyCrash(p) ==
    /\ state[p] = "crashed"
    /\ ~done[p]
    /\ done' = [done EXCEPT ![p] = TRUE]
    /\ UNCHANGED <<procs, state, stopping, osVars, thrVars>>

\* close(p.done), after p.mu is released.
WaitCloses(p) ==
    /\ state[p] \in Recorded
    /\ ~done[p]
    /\ done' = [done EXCEPT ![p] = TRUE]
    /\ UNCHANGED <<procs, state, stopping, osVars, thrVars>>

-----------------------------------------------------------------------------
(* Stop and Status.                                                        *)

\* Under r.mu: the process tracked for the key, if there ever was one.
Lookup(t) ==
    /\ pc[t] = "lookup"
    /\ CASE procs[arg[t]] = None /\ op[t] = "status" -> Return(t, "ok")
         [] procs[arg[t]] = None /\ op[t] # "status" -> StopReturns(t)
         [] procs[arg[t]] # None /\ op[t] = "status" -> Goto(t, "read", procs[arg[t]])
         [] OTHER -> Goto(t, "mark", procs[arg[t]])
    /\ UNCHANGED <<procVars, osVars>>

\* Status reads the struct it looked up, under p.mu; what it read is not kept.
StatusRead(t) ==
    /\ pc[t] = "read"
    /\ Return(t, "ok")
    /\ UNCHANGED <<procVars, osVars>>

\* Under p.mu: stopping is set before any signal is sent.
StopMark(t) ==
    /\ pc[t] = "mark"
    /\ IF state[cur[t]] = "running"
         THEN /\ stopping' = [stopping EXCEPT ![cur[t]] = TRUE]
              /\ Goto(t, "signal", cur[t])
         ELSE /\ stopping' = stopping
              /\ StopReturns(t)
    /\ UNCHANGED <<procs, state, done, osVars>>

\* A signal reaches a live child; a zombie, or a child that SIGKILL has reached,
\* takes it to no effect.
Deliver(p, s) ==
    signal' = IF os[p] = "alive" /\ signal[p] # "KILL"
                THEN [signal EXCEPT ![p] = s] ELSE signal

\* Signal(SIGTERM) fails once Wait has reaped the child.
StopSignal(t) ==
    /\ pc[t] = "signal"
    /\ IF os[cur[t]] = "reaped"
         THEN Return(t, "error") /\ signal' = signal
         ELSE Goto(t, "await", cur[t]) /\ Deliver(cur[t], "TERM")
    /\ UNCHANGED <<procVars, os, owner, death>>

StopSawDone(t) ==
    /\ pc[t] \in {"await", "drain"}
    /\ done[cur[t]]
    /\ StopReturns(t)
    /\ UNCHANGED <<procVars, osVars>>

\* Mutants: the timer repeats SIGTERM; Stop does not wait for done after Kill.
StopTimesOut_Term(t) ==
    /\ pc[t] = "await"
    /\ Deliver(cur[t], "TERM")
    /\ Goto(t, "drain", cur[t])
    /\ UNCHANGED <<procVars, os, owner, death>>

StopTimesOut_NoDrain(t) ==
    /\ pc[t] = "await"
    /\ Deliver(cur[t], "KILL")
    /\ StopReturns(t)
    /\ UNCHANGED <<procVars, os, owner, death>>

\* The 10s timer of the select; an error from Kill is dropped.
StopTimesOut(t) ==
    /\ pc[t] = "await"
    /\ Deliver(cur[t], "KILL")
    /\ Goto(t, "drain", cur[t])
    /\ UNCHANGED <<procVars, os, owner, death>>

-----------------------------------------------------------------------------
(* The child: it may exit at any time, cleanly or not, may answer SIGTERM  *)
(* in either way or ignore it, and does not survive SIGKILL.               *)

Exit(p, how) ==
    /\ os[p] = "alive"
    /\ \/ how = "clean" /\ signal[p] # "KILL"
       \/ how = "failed" /\ signal[p] = "none"
       \/ how = "signalled" /\ signal[p] # "none"
    /\ os' = [os EXCEPT ![p] = "exited"]
    /\ death' = [death EXCEPT ![p] = how]
    /\ UNCHANGED <<procVars, owner, signal, thrVars>>

-----------------------------------------------------------------------------
\* The steps of a call once it is made.
StartStep(t) ==
    StartCheck(t) \/ SpawnFails(t) \/ (\E p \in Procs : Spawn(t, p)) \/ StartPublish(t)
StopStep(t)  ==
    Lookup(t) \/ StopMark(t) \/ StopSignal(t) \/ StopSawDone(t) \/ StopTimesOut(t)
Step(t)      == StartStep(t) \/ StopStep(t) \/ StatusRead(t)

WaitStep(p) == WaitReaps(p) \/ WaitRecords(p) \/ WaitCloses(p)

Next ==
    \/ \E t \in Threads, o \in Ops, k \in Keys : Call(t, o, k)
    \/ \E t \in Threads : Step(t)
    \/ \E p \in Procs : WaitStep(p)
    \/ \E p \in Procs, how \in {"clean", "failed", "signalled"} : Exit(p, how)

Spec == Init /\ [][Next]_vars

\* A goroutine in a call and a Wait goroutine run; the timer fires; the kernel
\* ends a process that was sent SIGKILL.  Nothing else is promised: children
\* may live for ever, SIGTERM may be ignored, nobody need call anything.
Fairness ==
    /\ \A t \in Threads : WF_vars(Step(t))
    /\ \A p \in Procs : WF_vars(WaitStep(p))
    /\ \A p \in Procs : WF_vars(signal[p] = "KILL" /\ Exit(p, "signalled"))

FairSpec == Spec /\ Fairness

-----------------------------------------------------------------------------
(* Properties.  Start checks under r.mu, spawns with no lock held and         *)
(* publishes, so two calls that start one key at once may leave it two       *)
(* processes.  Those marked (uncrossed) are about every key on which no two  *)
(* such calls have overlapped so far, whatever else overlapped with them.    *)

Uncrossed == Keys \ crossed

\* "One OS process per panel-managed station" (runner.go:1-4), whatever the calls.
OneProcessEver ==
    \A p, q \in Procs :
        os[p] = "alive" /\ os[q] = "alive" /\ owner[p] = owner[q] => p = q

\* (uncrossed) Two processes spawned for one key are never alive together.
OneProcessPerKey ==
    \A p, q \in Procs :
        /\ os[p] = "alive" /\ os[q] = "alive"
        /\ owner[p] = owner[q] /\ owner[p] \in Uncrossed
        => p = q

\* (uncrossed) A process whose Wait goroutine is still running is the one its key
\* tracks, so Stop, Status and the next Start all reach it (Start's
\* r.procs[key] = p drops whatever was there).
RunningIsTracked ==
    \A p \in Procs :
        state[p] = "running" /\ owner[p] \in Uncrossed => procs[owner[p]] = p

\* A Stop that returns nil after it found a process leaves that process dead
\* and reaped, whether it went on SIGTERM, on SIGKILL or by itself, whoever
\* else was stopping or restarting it.
StopLeavesDead ==
    [][\A t \in Threads :
          cur[t] # None /\ pc[t] \in StopPCs /\ StopReturns(t) => os[cur[t]] = "reaped"]_vars

\* The comment on managedProc.stopping (runner.go:49-55): a process that the
\* panel signalled, SIGKILL included, is never recorded as crashed; a recorded
\* crash is a failure the process had on its own.
CrashIsUnasked ==
    \A p \in Procs : state[p] = "crashed" => signal[p] = "none" /\ death[p] = "failed"

\* (uncrossed) Restart's Start never finds the process Restart has just stopped
\* (or a dead one) still recorded as running, so it is never refused with
\* "already running": done closes only after the state is recorded.
RestartNotRefused ==
    \A t \in Threads :
        op[t] = "restart" /\ pc[t] \in StartPCs /\ arg[t] \in Uncrossed
            => ~Running(procs[arg[t]])

\* (uncrossed) A Status call that is about to answer "running" answers for the
\* process its key tracks now, although r.mu was released since the look-up.
StatusIsCurrent ==
    \A t \in Threads :
        pc[t] = "read" /\ state[cur[t]] = "running" /\ arg[t] \in Uncrossed
            => procs[arg[t]] = cur[t]

\* Stop returns whatever the child does with SIGTERM: the timer escalates to
\* SIGKILL and the Wait goroutine closes done (runner.go:188-198).
StopTerminates ==
    \A t \in Threads : pc[t] \in StopPCs ~> pc[t] \notin StopPCs

\* A Stop past its timer is never stuck: the child it waits for is being killed,
\* or its Wait goroutine has something left to do, or done is closed; a second
\* Stop's SIGTERM takes nothing of that back.
DrainMovesOn ==
    \A t \in Threads : pc[t] = "drain" =>
        LET p == cur[t] IN
            \/ os[p] = "alive" /\ signal[p] = "KILL"
            \/ state[p] = "running" /\ os[p] \in {"exited", "reaped"}
            \/ state[p] \in Recorded

\* Every death is recorded and announced, one that precedes the publication of
\* the managedProc included.
DeathIsRecorded ==
    \A p \in Procs : os[p] = "exited" ~> state[p] \in Recorded /\ done[p]

-----------------------------------------------------------------------------
(* The inductive invariant behind the safety properties, in parts: what    *)
(* holds of a process, of a goroutine and of a key whatever the calls, and *)
(* what holds of the uncrossed keys.                                       *)

\* The struct follows the child: published before it is reaped, recorded after;
\* signalled only once it is marked; failed by itself only if never signalled.
ProcOK(p) ==
    /\ os[p] = "unborn" => state[p] = "none" /\ death[p] = "none"
    /\ os[p] # "unborn" => owner[p] \in Keys
    /\ os[p] = "alive" => death[p] = "none"
    /\ os[p] \in {"exited", "reaped"} => death[p] # "none"
    /\ os[p] = "reaped" => state[p] # "none"
    /\ state[p] = "none" => ~stopping[p]
    /\ state[p] \in Recorded => os[p] = "reaped"
    /\ done[p] => state[p] \in Recorded
    /\ signal[p] # "none" => stopping[p]
    /\ death[p] = "failed" => signal[p] = "none"
    /\ death[p] = "signalled" => signal[p] # "none"
    /\ state[p] = "crashed" => ~stopping[p] /\ death[p] = "failed"

ThreadOK(t) ==
    /\ pc[t] # "idle" => op[t] \in Ops /\ arg[t] \in Keys
    /\ pc[t] \in {"idle", "lookup", "check", "spawn"} => cur[t] = None
    /\ pc[t] \in {"read", "mark", "signal", "await", "drain"}
           => cur[t] \in Procs /\ state[cur[t]] # "none" /\ owner[cur[t]] = arg[t]
    /\ pc[t] \in {"signal", "await", "drain"} => stopping[cur[t]]
    /\ pc[t] = "publish"
           => /\ cur[t] \in Procs
              /\ state[cur[t]] = "none"
              /\ os[cur[t]] # "unborn"
              /\ owner[cur[t]] = arg[t]
    /\ pc[t] \in StartPCs => op[t] \in {"start", "restart"}

\* A child that is not published yet is held by exactly one goroutine.
OnePublisher ==
    \A t, u \in Threads :
        pc[t] = "publish" /\ pc[u] = "publish" /\ cur[t] = cur[u] => t = u
HasPublisher(p) ==
    os[p] # "unborn" /\ state[p] = "none"
        => \E t \in Threads : pc[t] = "publish" /\ cur[t] = p

KeyOK(k) == procs[k] # None => state[procs[k]] # "none" /\ owner[procs[k]] = k

\* Calls that start an uncrossed key come one at a time.
StartsApart ==
    \A t, u \in Threads, k \in Uncrossed : Starts(t, k) /\ Starts(u, k) => t = u

\* While one spawns, nothing of its key runs; while it restarts, the process it
\* stops stays the tracked one.
StarterOK(t) ==
    arg[t] \in Uncrossed =>
        /\ pc[t] \in {"spawn", "publish"} => ~Running(procs[arg[t]])
        /\ op[t] = "restart" /\ pc[t] = "check" => ~Running(procs[arg[t]])
        /\ op[t] = "restart" /\ pc[t] \in {"mark", "signal", "await", "drain"}
               => procs[arg[t]] = cur[t]

ProcInv      == \A p \in Procs : ProcOK(p)
ThreadInv    == \A t \in Threads : ThreadOK(t)
PublisherInv == OnePublisher /\ \A p \in Procs : HasPublisher(p)
KeyInv       == \A k \in Keys : KeyOK(k)
StarterInv   == StartsApart /\ \A t \in Threads : StarterOK(t)

SharedInv == TypeOK /\ ProcInv /\ ThreadInv /\ PublisherInv /\ KeyInv
IInv      == SharedInv /\ RunningIsTracked /\ StarterInv

-----------------------------------------------------------------------------
(* The promise of the package, and how this state implements it.           *)

\* What StationSupervisor makes of key k: nothing, once it is crossed.
Seen(k, s, none) == IF k \in crossed THEN none ELSE s

liveOf   == [k \in Keys |-> Seen(k, {p \in Procs : os[p] = "alive" /\ owner[p] = k}, {})]
statusOf == [k \in Keys |-> Seen(k, IF procs[k] = None THEN "absent" ELSE state[procs[k]],
                                  "unknown")]
askedOf  == [k \in Keys |-> Seen(k, procs[k] # None /\ stopping[procs[k]], FALSE)]

Supervisor == INSTANCE StationSupervisor
                WITH apart <- Uncrossed, live <- liveOf, status <- statusOf, asked <- askedOf

\* The Runner implements StationSupervisor, on whatever keys calls overlap.
ImplementsSupervisor == Supervisor!Spec

=============================================================================
