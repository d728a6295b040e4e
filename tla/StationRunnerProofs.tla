----------------------- MODULE StationRunnerProofs -----------------------
(***************************************************************************)
(* Proofs about StationRunner, and about ManagedStations on top of it, for *)
(* any keys, goroutines, processes, requests and deaths of the panel.      *)
(* IInv is inductive: LocalStep carries it over the steps that move one    *)
(* goroutine, ChildStep over those of children and Wait goroutines, and    *)
(* Spawn and StartPublish, which do both, are proved on their own.         *)
(* PanelInv adds the requests, the table and the boot: NextStep says what  *)
(* each handler does next, HandlerKeeps carries the shared part over a     *)
(* handler's own step, and OneMoves what holds of each station whose       *)
(* requests do not overlap over a step that moves one station; StepFollows *)
(* and PanelRefines map the steps to those of the abstract specifications. *)
(***************************************************************************)
EXTENDS ManagedStations, SequenceTheorems, TLAPS

USE ConstantsAssumption DEF procVars, osVars, thrVars, Recorded, States, Ops,
    Results, StopPCs, StartPCs, PCs, Uncrossed

\* The part of TypeOK that a call changes.
ThreadTypes ==
    /\ pc \in [Threads -> PCs]
    /\ op \in [Threads -> Ops \cup {None}]
    /\ arg \in [Threads -> Keys \cup {None}]
    /\ cur \in [Threads -> Procs \cup {None}]
    /\ ret \in [Threads -> Results \cup {None}]
    /\ crossed \subseteq Keys

\* Goroutine u does not move.
SameThread(u) == pc'[u] = pc[u] /\ op'[u] = op[u] /\ arg'[u] = arg[u] /\ cur'[u] = cur[u]

\* Where Goto leaves the goroutines.
LEMMA GotoStep ==
  ASSUME TypeOK, NEW t \in Threads, NEW l \in PCs, NEW p \in Procs \cup {None}, Goto(t, l, p)
  PROVE  /\ ThreadTypes'
         /\ pc'[t] = l /\ cur'[t] = p /\ op'[t] = op[t] /\ arg'[t] = arg[t] /\ crossed' = crossed
         /\ \A u \in Threads : u # t => SameThread(u)
BY DEF TypeOK, ThreadTypes, Goto, SameThread

\* Where Return leaves the goroutines.
LEMMA ReturnStep ==
  ASSUME TypeOK, NEW t \in Threads, NEW r \in Results, Return(t, r)
  PROVE  /\ ThreadTypes'
         /\ pc'[t] = "idle" /\ cur'[t] = None /\ op'[t] = None /\ arg'[t] = None
         /\ crossed' = crossed
         /\ \A u \in Threads : u # t => SameThread(u)
BY DEF TypeOK, ThreadTypes, Return, SameThread

\* Calls stay apart over a step in which none is made.
LEMMA ApartStays ==
  ASSUME StartsApart, crossed' = crossed, NEW t \in Threads,
         pc[t] # "idle", pc'[t] # "idle" => op'[t] = op[t] /\ arg'[t] = arg[t],
         \A u \in Threads : u # t => SameThread(u)
  PROVE  StartsApart'
BY DEF StartsApart, Starts, SameThread

(***************************************************************************)
(* A step of goroutine t that moves only t, and the marks on a process.    *)
(***************************************************************************)
LEMMA LocalStep ==
  ASSUME IInv, NEW t \in Threads,
         TypeOK', ProcInv',
         UNCHANGED <<procs, state, os, owner>>,
         \A q \in Procs : stopping[q] => stopping'[q],
         pc[t] # "publish", pc'[t] # "publish",
         \A u \in Threads : u # t => SameThread(u),
         crossed \subseteq crossed', StartsApart',
         ThreadOK(t)', StarterOK(t)'
  PROVE  IInv'
<1> USE DEF IInv, SharedInv
<1>1. ASSUME NEW u \in Threads PROVE ThreadOK(u)'
  <2>1. CASE u = t BY <2>1
  <2>2. CASE u # t
    <3>1. ThreadOK(u) /\ SameThread(u) BY <2>2 DEF ThreadInv
    <3>2. QED BY <3>1 DEF ThreadOK, SameThread
  <2> QED BY <2>1, <2>2
<1>2. OnePublisher'
  BY DEF PublisherInv, OnePublisher, SameThread
<1>3. ASSUME NEW q \in Procs, os[q] # "unborn", state[q] = "none"
      PROVE  \E u \in Threads : pc'[u] = "publish" /\ cur'[u] = q
  <2>1. PICK u \in Threads : pc[u] = "publish" /\ cur[u] = q
    BY <1>3 DEF PublisherInv, HasPublisher
  <2>2. u # t /\ SameThread(u) BY <2>1
  <2>3. QED BY <2>1, <2>2 DEF SameThread
<1>4. KeyInv'
  BY DEF KeyInv, KeyOK
<1>5. RunningIsTracked'
  BY DEF RunningIsTracked
<1>6. ASSUME NEW u \in Threads PROVE StarterOK(u)'
  BY DEF StarterInv, StarterOK, SameThread, Running
<1>7. QED
  BY <1>1, <1>2, <1>3, <1>4, <1>5, <1>6
     DEF ThreadInv, PublisherInv, HasPublisher, StarterInv

(***************************************************************************)
(* The ways a step of goroutine t can end: it returns, it goes on.         *)
(***************************************************************************)
OthersTyped ==
  /\ procs \in [Keys -> Procs \cup {None}]
  /\ state \in [Procs -> States]
  /\ stopping \in [Procs -> BOOLEAN]
  /\ done \in [Procs -> BOOLEAN]
  /\ os \in [Procs -> {"unborn", "alive", "exited", "reaped"}]
  /\ owner \in [Procs -> Keys \cup {None}]
  /\ signal \in [Procs -> {"none", "TERM", "KILL"}]
  /\ death \in [Procs -> {"none", "clean", "failed", "signalled"}]

\* TypeOK speaks of the processes and of the goroutines separately.
LEMMA TypeSplit == TypeOK <=> OthersTyped /\ ThreadTypes
BY DEF TypeOK, OthersTyped, ThreadTypes

\* The same of the next state.
LEMMA TypeSplitPrime == TypeOK' <=> OthersTyped' /\ ThreadTypes'
BY DEF TypeOK, OthersTyped, ThreadTypes

\* What is about the processes is kept by a step that changes none of them.
LEMMA ProcsStay ==
  ASSUME IInv, UNCHANGED <<procVars, osVars>>
  PROVE  OthersTyped' /\ ProcInv'
<1> USE DEF IInv, SharedInv, procVars, osVars
<1>1. OthersTyped'
  BY DEF TypeOK, OthersTyped
<1>2. \A p \in Procs : ProcOK(p)'
  BY DEF ProcInv, ProcOK
<1>3. QED
  BY <1>1, <1>2 DEF ProcInv

\* A goroutine that returns needs nothing of its own to be shown.
LEMMA ReturnKeeps ==
  ASSUME IInv, NEW t \in Threads, NEW r \in Results, Return(t, r),
         OthersTyped', ProcInv',
         UNCHANGED <<procs, state, os, owner>>,
         \A q \in Procs : stopping[q] => stopping'[q],
         pc[t] \notin {"publish", "idle"}
  PROVE  IInv'
<1>1. /\ ThreadTypes' /\ crossed' = crossed
      /\ pc'[t] = "idle" /\ cur'[t] = None /\ op'[t] = None /\ arg'[t] = None
      /\ \A u \in Threads : u # t => SameThread(u)
  BY ReturnStep DEF IInv, SharedInv
<1>2. ThreadOK(t)' /\ StarterOK(t)'
  BY <1>1 DEF ThreadOK, StarterOK
<1>3. StartsApart'
  BY <1>1, ApartStays DEF IInv, StarterInv
<1>4. QED
  BY <1>1, <1>2, <1>3, LocalStep, TypeSplitPrime

\* A goroutine that goes on at l brings what ThreadOK and StarterOK say at l.
LEMMA GotoKeeps ==
  ASSUME IInv, NEW t \in Threads, NEW l \in PCs, NEW p \in Procs \cup {None}, Goto(t, l, p),
         OthersTyped', ProcInv',
         UNCHANGED <<procs, state, os, owner>>,
         \A q \in Procs : stopping[q] => stopping'[q],
         pc[t] \notin {"publish", "idle"}, l \notin {"publish", "idle"},
         l \in {"lookup", "check", "spawn"} => p = None,
         l \in {"read", "mark", "signal", "await", "drain"}
            => p \in Procs /\ state[p] # "none" /\ owner[p] = arg[t],
         l \in {"signal", "await", "drain"} => stopping'[p],
         l \in StartPCs => op[t] \in {"start", "restart"},
         l = "spawn" => ~Running(procs[arg[t]]),
         arg[t] \in Uncrossed /\ op[t] = "restart" =>
            /\ l = "check" => ~Running(procs[arg[t]])
            /\ l \in {"mark", "signal", "await", "drain"} => procs[arg[t]] = p
  PROVE  IInv'
<1>1. /\ ThreadTypes' /\ crossed' = crossed
      /\ pc'[t] = l /\ cur'[t] = p /\ op'[t] = op[t] /\ arg'[t] = arg[t]
      /\ \A u \in Threads : u # t => SameThread(u)
  BY GotoStep DEF IInv, SharedInv
<1>2. ThreadOK(t)
  BY DEF IInv, SharedInv, ThreadInv
<1>3. ThreadOK(t)'
  BY <1>1, <1>2 DEF ThreadOK
<1>4. StarterOK(t)'
  BY <1>1 DEF StarterOK, Running
<1>5. StartsApart'
  BY <1>1, ApartStays DEF IInv, StarterInv
<1>6. QED
  BY <1>1, <1>3, <1>4, <1>5, LocalStep, TypeSplitPrime

\* Stop returning nil: to a handler, or to Restart, for which the key's process
\* must no longer be recorded as running.
LEMMA StopReturnsKeeps ==
  ASSUME IInv, NEW t \in Threads, StopReturns(t),
         OthersTyped', ProcInv',
         UNCHANGED <<procs, state, os, owner>>,
         \A q \in Procs : stopping[q] => stopping'[q],
         pc[t] \in StopPCs,
         arg[t] \in Uncrossed /\ op[t] = "restart" => ~Running(procs[arg[t]])
  PROVE  IInv'
<1>1. CASE op[t] = "restart"
  BY <1>1, GotoKeeps DEF StopReturns
<1>2. CASE op[t] # "restart"
  BY <1>2, ReturnKeeps DEF StopReturns
<1>3. QED
  BY <1>1, <1>2

-----------------------------------------------------------------------------
(* One lemma per action.                                                   *)

\* A new call holds no process yet.
LEMMA CallKeeps ==
  ASSUME IInv, NEW t \in Threads, NEW o \in Ops, NEW k \in Keys, Call(t, o, k)
  PROVE  IInv'
<1> USE DEF IInv, SharedInv
<1>1. TypeOK'
  BY DEF TypeOK, Call
<1>2. ProcInv'
  BY DEF ProcInv, ProcOK, Call
<1>3. pc[t] = "idle" /\ cur[t] = None
  BY DEF Call, ThreadInv, ThreadOK
<1>4. /\ pc'[t] = (IF o = "start" THEN "check" ELSE "lookup")
      /\ op'[t] = o /\ arg'[t] = k /\ cur' = cur
      /\ \A u \in Threads : u # t => SameThread(u)
  BY DEF TypeOK, Call, SameThread
<1>5. ThreadOK(t)' /\ StarterOK(t)'
  BY <1>3, <1>4 DEF ThreadOK, StarterOK
<1>6. crossed \subseteq crossed'
  BY DEF Call
<1>7. StartsApart'
  <2>1. ASSUME NEW u \in Threads, NEW v \in Threads, NEW j \in Keys, j \notin crossed',
               Starts(u, j)', Starts(v, j)', u # v
        PROVE  FALSE
    <3>1. ASSUME NEW w \in Threads, w # t, Starts(w, j)' PROVE Starts(w, j)
      BY <1>4, <3>1 DEF Starts, SameThread
    <3>2. Starts(t, j)' => j = k /\ o \in {"start", "restart"}
      BY <1>4 DEF Starts
    <3>3. u = t \/ v = t
      BY <1>6, <2>1, <3>1 DEF StarterInv, StartsApart
    <3>4. PICK w \in Threads : Starts(w, j)
      BY <2>1, <3>1, <3>3
    <3>5. QED
      BY <2>1, <3>2, <3>3, <3>4 DEF Call
  <2>2. QED
    BY <2>1 DEF StartsApart
<1>8. QED
  BY <1>1, <1>2, <1>3, <1>4, <1>5, <1>6, <1>7, LocalStep DEF Call

\* Start goes on to spawn only if nothing of the key is running.
LEMMA StartCheckKeeps ==
  ASSUME IInv, NEW t \in Threads, StartCheck(t)
  PROVE  IInv'
<1> USE DEF IInv, SharedInv
<1>1. pc[t] = "check" /\ cur[t] = None /\ ThreadOK(t)
  BY DEF StartCheck, ThreadInv, ThreadOK
<1>2. OthersTyped' /\ ProcInv'
  BY ProcsStay DEF StartCheck
<1>3. CASE Running(procs[arg[t]])
  BY <1>1, <1>2, <1>3, ReturnKeeps DEF StartCheck
<1>4. CASE ~Running(procs[arg[t]])
  BY <1>1, <1>2, <1>4, GotoKeeps DEF StartCheck, ThreadOK
<1>5. QED
  BY <1>3, <1>4

\* A failed cmd.Start changes no process.
LEMMA SpawnFailsKeeps ==
  ASSUME IInv, NEW t \in Threads, SpawnFails(t)
  PROVE  IInv'
<1>1. OthersTyped' /\ ProcInv'
  BY ProcsStay DEF SpawnFails
<1>2. QED
  BY <1>1, ReturnKeeps DEF SpawnFails

\* What Stop and Status look up is published and of their key (KeyOK).
LEMMA LookupKeeps ==
  ASSUME IInv, NEW t \in Threads, Lookup(t)
  PROVE  IInv'
<1> USE DEF IInv, SharedInv
<1>1. pc[t] = "lookup" /\ ThreadOK(t) /\ op[t] \in Ops /\ arg[t] \in Keys
  BY DEF Lookup, ThreadInv, ThreadOK
<1>2. OthersTyped' /\ ProcInv'
  BY ProcsStay DEF Lookup
<1>3. procs[arg[t]] \in Procs \cup {None} /\ KeyOK(arg[t])
  BY <1>1 DEF TypeOK, KeyInv
<1>4. CASE procs[arg[t]] = None /\ op[t] = "status"
  BY <1>1, <1>2, <1>4, ReturnKeeps DEF Lookup
<1>5. CASE procs[arg[t]] = None /\ op[t] # "status"
  BY <1>1, <1>2, <1>5, StopReturnsKeeps DEF Lookup, Running
<1>6. CASE procs[arg[t]] # None /\ op[t] = "status"
  BY <1>1, <1>2, <1>3, <1>6, GotoKeeps DEF Lookup, KeyOK
<1>7. CASE procs[arg[t]] # None /\ op[t] # "status"
  BY <1>1, <1>2, <1>3, <1>7, GotoKeeps DEF Lookup, KeyOK
<1>8. QED
  BY <1>4, <1>5, <1>6, <1>7

\* Status answers with a state.
LEMMA StatusReadKeeps ==
  ASSUME IInv, NEW t \in Threads, StatusRead(t)
  PROVE  IInv'
<1> USE DEF IInv, SharedInv
<1>1. pc[t] = "read" /\ cur[t] \in Procs
  BY DEF StatusRead, ThreadInv, ThreadOK
<1>2. OthersTyped' /\ ProcInv'
  BY ProcsStay DEF StatusRead
<1>3. QED
  BY <1>1, <1>2, ReturnKeeps DEF StatusRead

\* Marking: a process found not running cannot keep Restart's Start from passing.
LEMMA StopMarkKeeps ==
  ASSUME IInv, NEW t \in Threads, StopMark(t)
  PROVE  IInv'
<1> USE DEF IInv, SharedInv
<1>1. StarterOK(t)
  BY DEF StarterInv
<1>2. pc[t] = "mark" /\ cur[t] \in Procs /\ ThreadOK(t) /\ ProcOK(cur[t])
  BY DEF StopMark, ThreadInv, ThreadOK, ProcInv
<1>3. CASE state[cur[t]] = "running"
  <2>1. stopping' = [stopping EXCEPT ![cur[t]] = TRUE] /\ Goto(t, "signal", cur[t])
    BY <1>3 DEF StopMark
  <2>2. OthersTyped' /\ UNCHANGED <<procs, state, done, os, owner, signal, death>>
    BY <1>2, <2>1 DEF TypeOK, OthersTyped, StopMark
  <2>3. stopping'[cur[t]] /\ \A q \in Procs : q # cur[t] => stopping'[q] = stopping[q]
    BY <1>2, <2>1 DEF TypeOK
  <2>4. ASSUME NEW q \in Procs PROVE ProcOK(q)'
    BY <1>3, <2>2, <2>3 DEF ProcInv, ProcOK
  <2>5. QED
    BY <1>1, <1>2, <2>1, <2>2, <2>3, <2>4, GotoKeeps DEF ProcInv, ThreadOK, StarterOK
<1>4. CASE state[cur[t]] # "running"
  <2>1. StopReturns(t) /\ UNCHANGED <<procVars, osVars>>
    BY <1>4 DEF StopMark
  <2>2. OthersTyped' /\ ProcInv'
    BY <2>1, ProcsStay
  <2>3. arg[t] \in Uncrossed /\ op[t] = "restart" => ~Running(procs[arg[t]])
    BY <1>1, <1>2, <1>4 DEF StarterOK, Running
  <2>4. QED
    BY <1>2, <2>1, <2>2, <2>3, StopReturnsKeeps
<1>5. QED
  BY <1>3, <1>4

\* A signal reaches only a process that has been marked.
LEMMA DeliverKeeps ==
  ASSUME IInv, NEW p \in Procs, NEW s \in {"TERM", "KILL"}, Deliver(p, s), stopping[p],
         UNCHANGED <<procVars, os, owner, death>>
  PROVE  OthersTyped' /\ ProcInv'
<1> USE DEF IInv, SharedInv
<1>1. OthersTyped'
  BY DEF TypeOK, OthersTyped, Deliver
<1>2. ASSUME NEW q \in Procs PROVE ProcOK(q)'
  <2>1. CASE q = p /\ os[p] = "alive"
    BY <2>1 DEF ProcInv, ProcOK, Deliver, TypeOK
  <2>2. CASE ~(q = p /\ os[p] = "alive")
    <3>1. signal'[q] = signal[q]
      BY <2>2 DEF Deliver, TypeOK
    <3>2. QED
      BY <3>1 DEF ProcInv, ProcOK
  <2>3. QED
    BY <2>1, <2>2
<1>3. QED
  BY <1>1, <1>2 DEF ProcInv

\* After SIGTERM, Stop waits for the process it marked.
LEMMA StopSignalKeeps ==
  ASSUME IInv, NEW t \in Threads, StopSignal(t)
  PROVE  IInv'
<1> USE DEF IInv, SharedInv
<1>1. /\ pc[t] = "signal" /\ cur[t] \in Procs /\ stopping[cur[t]]
      /\ state[cur[t]] # "none" /\ owner[cur[t]] = arg[t] /\ ThreadOK(t)
      /\ StarterOK(t)
  BY DEF StopSignal, ThreadInv, ThreadOK, StarterInv
<1>2. CASE os[cur[t]] = "reaped"
  <2>0. UNCHANGED <<procVars, osVars>>
    BY <1>2 DEF StopSignal, osVars
  <2>1. OthersTyped' /\ ProcInv'
    BY <2>0, ProcsStay
  <2>2. QED
    BY <1>1, <1>2, <2>1, ReturnKeeps DEF StopSignal
<1>3. CASE os[cur[t]] # "reaped"
  <2>1. OthersTyped' /\ ProcInv'
    BY <1>1, <1>3, DeliverKeeps DEF StopSignal
  <2>2. QED
    BY <1>1, <1>3, <2>1, GotoKeeps DEF StopSignal, StarterOK
<1>4. QED
  BY <1>2, <1>3

\* After SIGKILL, it still waits for the same process.
LEMMA StopTimesOutKeeps ==
  ASSUME IInv, NEW t \in Threads, StopTimesOut(t)
  PROVE  IInv'
<1> USE DEF IInv, SharedInv
<1>1. /\ pc[t] = "await" /\ cur[t] \in Procs /\ stopping[cur[t]]
      /\ state[cur[t]] # "none" /\ owner[cur[t]] = arg[t]
      /\ StarterOK(t)
  BY DEF StopTimesOut, ThreadInv, ThreadOK, StarterInv
<1>2. OthersTyped' /\ ProcInv'
  BY <1>1, DeliverKeeps DEF StopTimesOut
<1>3. QED
  BY <1>1, <1>2, GotoKeeps DEF StopTimesOut, StarterOK

\* done is closed only after the state was recorded, so what Stop returns to is
\* a key that is not running.
LEMMA StopSawDoneKeeps ==
  ASSUME IInv, NEW t \in Threads, StopSawDone(t)
  PROVE  IInv'
<1> USE DEF IInv, SharedInv
<1>1. /\ pc[t] \in {"await", "drain"} /\ cur[t] \in Procs /\ done[cur[t]]
      /\ StarterOK(t)
  BY DEF StopSawDone, ThreadInv, ThreadOK, StarterInv
<1>2. state[cur[t]] \in Recorded
  BY <1>1 DEF ProcInv, ProcOK
<1>3. OthersTyped' /\ ProcInv'
  BY ProcsStay DEF StopSawDone
<1>4. arg[t] \in Uncrossed /\ op[t] = "restart" => ~Running(procs[arg[t]])
  BY <1>1, <1>2 DEF StarterOK, Running
<1>5. QED
  BY <1>1, <1>3, <1>4, StopReturnsKeeps DEF StopSawDone

\* Steps of children and Wait goroutines: no call moves, no process is published
\* or starts running.
LEMMA ChildStep ==
  ASSUME IInv, OthersTyped', ProcInv',
         UNCHANGED <<procs, stopping, owner, thrVars>>,
         \A q \in Procs : /\ state'[q] = "none" <=> state[q] = "none"
                          /\ state'[q] = "running" => state[q] = "running"
                          /\ os'[q] = "unborn" <=> os[q] = "unborn"
  PROVE  IInv'
<1> USE DEF IInv, SharedInv
<1>1. TypeOK'
  <2>1. ThreadTypes'
    BY DEF TypeOK, ThreadTypes
  <2>2. QED
    BY <2>1, TypeSplitPrime
<1>2. ASSUME NEW t \in Threads PROVE ThreadOK(t)'
  <2>1. ThreadOK(t)
    BY DEF ThreadInv
  <2>2. QED
    BY <2>1 DEF ThreadOK
<1>3. PublisherInv'
  BY DEF PublisherInv, OnePublisher, HasPublisher
<1>4. ASSUME NEW k \in Keys PROVE KeyOK(k)'
  <2>1. KeyOK(k) /\ procs[k] \in Procs \cup {None}
    BY DEF KeyInv, TypeOK
  <2>2. QED
    BY <2>1 DEF KeyOK
<1>5. ASSUME NEW p \in Procs \cup {None}, Running(p)' PROVE Running(p)
  BY <1>5 DEF Running
<1>6. RunningIsTracked' /\ StartsApart'
  BY DEF RunningIsTracked, StarterInv, StartsApart, Starts
<1>7. ASSUME NEW t \in Threads PROVE StarterOK(t)'
  <2>1. StarterOK(t) /\ ThreadOK(t)
    BY DEF StarterInv, ThreadInv
  <2>2. pc[t] # "idle" => procs[arg[t]] \in Procs \cup {None}
    BY <2>1 DEF ThreadOK, TypeOK
  <2>3. QED
    BY <1>5, <2>1, <2>2 DEF StarterOK, Running
<1>8. QED
  BY <1>1, <1>2, <1>3, <1>4, <1>6, <1>7 DEF ThreadInv, KeyInv, StarterInv

\* cmd.Wait returns for a published process only.
LEMMA WaitReapsKeeps ==
  ASSUME IInv, NEW p \in Procs, WaitReaps(p)
  PROVE  IInv'
<1> USE DEF IInv, SharedInv
<1>1. os'[p] = "reaped" /\ \A q \in Procs : q # p => os'[q] = os[q]
  BY DEF WaitReaps, TypeOK
<1>2. OthersTyped'
  BY DEF TypeOK, OthersTyped, WaitReaps
<1>3. ASSUME NEW q \in Procs PROVE ProcOK(q)'
  BY <1>1 DEF ProcInv, ProcOK, WaitReaps
<1>4. QED
  BY <1>1, <1>2, <1>3, ChildStep DEF ProcInv, WaitReaps

\* The recorded state is a crash only if nobody marked the process.
LEMMA WaitRecordsKeeps ==
  ASSUME IInv, NEW p \in Procs, WaitRecords(p)
  PROVE  IInv'
<1> USE DEF IInv, SharedInv
<1>1. state'[p] = Classify(p) /\ \A q \in Procs : q # p => state'[q] = state[q]
  BY DEF WaitRecords, TypeOK
<1>2. Classify(p) \in Recorded
  BY DEF Classify
<1>3. OthersTyped'
  BY <1>2 DEF TypeOK, OthersTyped, WaitRecords
<1>4. ProcOK(p) /\ death[p] \in {"none", "clean", "failed", "signalled"}
  BY DEF ProcInv, TypeOK
<1>5. ProcOK(p)'
  BY <1>1, <1>2, <1>4 DEF ProcOK, WaitRecords, Classify
<1>6. ASSUME NEW q \in Procs, q # p PROVE ProcOK(q)'
  BY <1>1, <1>6 DEF ProcInv, ProcOK, WaitRecords
<1>7. QED
  BY <1>1, <1>2, <1>3, <1>5, <1>6, ChildStep DEF ProcInv, WaitRecords

\* done is closed for a recorded process only.
LEMMA WaitClosesKeeps ==
  ASSUME IInv, NEW p \in Procs, WaitCloses(p)
  PROVE  IInv'
<1> USE DEF IInv, SharedInv
<1>1. \A q \in Procs : q # p => done'[q] = done[q]
  BY DEF WaitCloses, TypeOK
<1>2. OthersTyped'
  BY DEF TypeOK, OthersTyped, WaitCloses
<1>3. ASSUME NEW q \in Procs PROVE ProcOK(q)'
  BY <1>1 DEF ProcInv, ProcOK, WaitCloses
<1>4. QED
  BY <1>2, <1>3, ChildStep DEF ProcInv, WaitCloses

\* A process fails by itself only while no signal has reached it.
LEMMA ExitKeeps ==
  ASSUME IInv, NEW p \in Procs, NEW how \in {"clean", "failed", "signalled"}, Exit(p, how)
  PROVE  IInv'
<1> USE DEF IInv, SharedInv
<1>1. /\ os'[p] = "exited" /\ death'[p] = how
      /\ \A q \in Procs : q # p => os'[q] = os[q] /\ death'[q] = death[q]
  BY DEF Exit, TypeOK
<1>2. OthersTyped'
  BY DEF TypeOK, OthersTyped, Exit
<1>3. ProcOK(p)'
  BY <1>1 DEF ProcInv, ProcOK, Exit
<1>4. ASSUME NEW q \in Procs, q # p PROVE ProcOK(q)'
  BY <1>1, <1>4 DEF ProcInv, ProcOK, Exit
<1>5. QED
  BY <1>1, <1>2, <1>3, <1>4, ChildStep DEF ProcInv, Exit

\* A spawned child is held by the goroutine that spawned it.
LEMMA SpawnKeeps ==
  ASSUME IInv, NEW t \in Threads, NEW p \in Procs, Spawn(t, p)
  PROVE  IInv'
<1> USE DEF IInv, SharedInv
<1>1. /\ os[p] = "unborn" /\ state[p] = "none" /\ death[p] = "none"
      /\ pc[t] = "spawn" /\ ThreadOK(t) /\ arg[t] \in Keys
      /\ StarterOK(t)
  BY DEF Spawn, ProcInv, ProcOK, ThreadInv, ThreadOK, StarterInv
<1>2. /\ ThreadTypes' /\ crossed' = crossed
      /\ pc'[t] = "publish" /\ cur'[t] = p /\ op'[t] = op[t] /\ arg'[t] = arg[t]
      /\ \A u \in Threads : u # t => SameThread(u)
  BY GotoStep DEF Spawn
<1>3. /\ os'[p] = "alive" /\ owner'[p] = arg[t]
      /\ \A q \in Procs : q # p => os'[q] = os[q] /\ owner'[q] = owner[q]
      /\ UNCHANGED <<procVars, signal, death>>
  BY DEF Spawn, TypeOK
<1>4. TypeOK'
  <2>1. OthersTyped'
    BY <1>1 DEF TypeOK, OthersTyped, Spawn
  <2>2. QED
    BY <1>2, <2>1, TypeSplitPrime
<1>5. ASSUME NEW q \in Procs PROVE ProcOK(q)'
  BY <1>1, <1>3 DEF ProcInv, ProcOK
<1>6. ASSUME NEW u \in Threads PROVE ThreadOK(u)'
  <2>1. CASE u = t
    BY <1>1, <1>2, <1>3, <2>1 DEF ThreadOK
  <2>2. CASE u # t
    <3>1. ThreadOK(u) /\ SameThread(u)
      BY <1>2, <2>2 DEF ThreadInv
    <3>2. cur[u] \in Procs /\ state[cur[u]] # "none" => cur[u] # p
      BY <1>1
    <3>3. pc[u] = "publish" => cur[u] # p
      BY <1>1, <3>1 DEF ThreadOK
    <3>4. QED
      BY <1>3, <3>1, <3>2, <3>3 DEF ThreadOK, SameThread
  <2>3. QED
    BY <2>1, <2>2
<1>7. PublisherInv'
  <2>1. \A u \in Threads : u # t /\ pc[u] = "publish" => cur[u] # p
    BY <1>1 DEF ThreadInv, ThreadOK
  <2>2. OnePublisher'
    BY <1>2, <2>1 DEF PublisherInv, OnePublisher, SameThread
  <2>3. ASSUME NEW q \in Procs PROVE HasPublisher(q)'
    <3>1. CASE q = p
      BY <1>2, <3>1 DEF HasPublisher
    <3>2. CASE q # p
      BY <1>1, <1>2, <1>3, <3>2 DEF PublisherInv, HasPublisher, SameThread
    <3>3. QED
      BY <3>1, <3>2
  <2>4. QED
    BY <2>2, <2>3 DEF PublisherInv
<1>8. ASSUME NEW k \in Keys PROVE KeyOK(k)'
  <2>1. KeyOK(k) /\ procs[k] \in Procs \cup {None}
    BY DEF KeyInv, TypeOK
  <2>2. QED
    BY <1>1, <1>3, <2>1 DEF KeyOK
<1>9. RunningIsTracked' /\ StarterInv'
  <2>1. RunningIsTracked'
    BY <1>1, <1>2, <1>3 DEF RunningIsTracked
  <2>2. ASSUME NEW u \in Threads PROVE StarterOK(u)'
    BY <1>1, <1>2, <1>3 DEF StarterInv, StarterOK, SameThread, Running
  <2>3. StartsApart'
    BY <1>1, <1>2, ApartStays DEF StarterInv
  <2>4. QED
    BY <2>1, <2>2, <2>3 DEF StarterInv
<1>10. QED
  BY <1>4, <1>5, <1>6, <1>7, <1>8, <1>9 DEF ProcInv, ThreadInv, KeyInv

\* Publication hands the child from its goroutine to the key; on an uncrossed key
\* it replaces no running process.
LEMMA StartPublishKeeps ==
  ASSUME IInv, NEW t \in Threads, StartPublish(t)
  PROVE  IInv'
<1> USE DEF IInv, SharedInv
<1> DEFINE p == cur[t]
           k == arg[t]
<1>1. /\ pc[t] = "publish" /\ p \in Procs /\ k \in Keys /\ Starts(t, k)
      /\ state[p] = "none" /\ os[p] # "unborn" /\ owner[p] = k
      /\ k \in Uncrossed => ~Running(procs[k])
  BY DEF StartPublish, ThreadInv, ThreadOK, StarterInv, StarterOK, Starts
<1>2. /\ ThreadTypes' /\ crossed' = crossed
      /\ pc'[t] = "idle" /\ cur'[t] = None /\ op'[t] = None /\ arg'[t] = None
      /\ \A u \in Threads : u # t => SameThread(u)
  BY ReturnStep DEF StartPublish
<1>3. /\ procs'[k] = p /\ \A j \in Keys : j # k => procs'[j] = procs[j]
      /\ state'[p] = "running" /\ \A q \in Procs : q # p => state'[q] = state[q]
      /\ UNCHANGED <<stopping, done, osVars>>
  BY <1>1 DEF StartPublish, TypeOK
<1>4. TypeOK'
  <2>1. OthersTyped'
    BY <1>1 DEF TypeOK, OthersTyped, StartPublish
  <2>2. QED
    BY <1>2, <2>1, TypeSplitPrime
<1>5. ASSUME NEW q \in Procs PROVE ProcOK(q)'
  BY <1>1, <1>3 DEF ProcInv, ProcOK
<1>6. \A u \in Threads : u # t /\ pc[u] = "publish" => cur[u] # p
  BY <1>1 DEF PublisherInv, OnePublisher
<1>7. ASSUME NEW u \in Threads PROVE ThreadOK(u)'
  <2>1. CASE u = t
    BY <1>2, <2>1 DEF ThreadOK
  <2>2. CASE u # t
    <3>1. ThreadOK(u) /\ SameThread(u)
      BY <1>2, <2>2 DEF ThreadInv
    <3>2. cur[u] \in Procs => state'[cur[u]] = (IF cur[u] = p THEN "running" ELSE state[cur[u]])
      BY <1>3
    <3>3. QED
      BY <1>3, <1>6, <2>2, <3>1, <3>2 DEF ThreadOK, SameThread
  <2>3. QED
    BY <2>1, <2>2
<1>8. PublisherInv'
  <2>1. OnePublisher'
    BY <1>2 DEF PublisherInv, OnePublisher, SameThread
  <2>2. ASSUME NEW q \in Procs PROVE HasPublisher(q)'
    BY <1>1, <1>2, <1>3 DEF PublisherInv, HasPublisher, SameThread
  <2>3. QED
    BY <2>1, <2>2 DEF PublisherInv
<1>9. ASSUME NEW j \in Keys PROVE KeyOK(j)'
  <2>1. KeyOK(j) /\ procs[j] \in Procs \cup {None}
    BY DEF KeyInv, TypeOK
  <2>2. QED
    BY <1>1, <1>3, <2>1 DEF KeyOK
<1>10. RunningIsTracked' /\ StarterInv'
  <2>1. ASSUME NEW q \in Procs, state'[q] = "running", owner[q] \in Uncrossed
        PROVE  procs'[owner'[q]] = q
    <3>1. CASE q = p
      BY <1>1, <1>3, <3>1
    <3>2. CASE q # p
      <4>1. state[q] = "running" /\ procs[owner[q]] = q
        BY <1>3, <2>1, <3>2 DEF RunningIsTracked
      <4>2. owner[q] # k
        BY <1>1, <2>1, <3>2, <4>1 DEF Running
      <4>3. owner[q] \in Keys
        BY <4>1 DEF ProcInv, ProcOK
      <4>4. QED
        BY <1>3, <4>1, <4>2, <4>3
    <3>3. QED
      BY <3>1, <3>2
  <2>2. ASSUME NEW u \in Threads PROVE StarterOK(u)'
    <3>1. CASE u = t
      BY <1>2, <3>1 DEF StarterOK
    <3>2. CASE u # t
      <4>1. SameThread(u) /\ ThreadOK(u) /\ StarterOK(u)
        BY <1>2, <3>2 DEF ThreadInv, StarterInv
      <4>2. pc[u] # "idle" => arg[u] \in Keys /\ op[u] \in Ops
        BY <4>1 DEF ThreadOK
      <4> SUFFICES ASSUME pc[u] # "idle", op[u] \in {"start", "restart"}, arg[u] \in Uncrossed
                   PROVE  StarterOK(u)'
        BY <1>2, <4>1 DEF StarterOK, SameThread, ThreadOK
      <4>3. arg[u] # k
        BY <1>1, <3>2 DEF Starts, StarterInv, StartsApart
      <4>4. procs'[arg[u]] = procs[arg[u]]
        BY <1>3, <4>2, <4>3
      <4>5. ~Running(procs[arg[u]]) => ~Running(procs[arg[u]])'
        <5>1. ASSUME NEW j \in Keys, j # k, ~Running(procs[j])
              PROVE  procs'[j] = procs[j] /\ (procs'[j] # None => state'[procs'[j]] # "running")
          <6>1. KeyOK(j) /\ procs[j] \in Procs \cup {None}
            BY DEF KeyInv, TypeOK
          <6>2. QED
            BY <1>1, <1>3, <5>1, <6>1 DEF KeyOK, Running
        <5>2. QED
          BY <4>1, <4>2, <4>3, <5>1 DEF Running, SameThread
      <4>6. QED
        BY <1>2, <4>1, <4>4, <4>5 DEF StarterOK, SameThread, ThreadOK
    <3>3. QED
      BY <3>1, <3>2
  <2>3. StartsApart'
    BY <1>1, <1>2, ApartStays DEF StarterInv
  <2>4. QED
    BY <1>2, <1>3, <2>1, <2>2, <2>3 DEF RunningIsTracked, StarterInv
<1>11. QED
  BY <1>4, <1>5, <1>7, <1>8, <1>9, <1>10 DEF ProcInv, ThreadInv, KeyInv

-----------------------------------------------------------------------------
(* The invariant and what follows from it.                                 *)

\* Nothing has been spawned or called.
LEMMA InitHolds == Init => IInv
BY DEF Init, IInv, SharedInv, TypeOK, ProcInv, ProcOK, ThreadInv, ThreadOK, PublisherInv,
       OnePublisher, HasPublisher, KeyInv, KeyOK, RunningIsTracked, StarterInv, StarterOK,
       StartsApart, Starts

\* A stuttering step.
LEMMA StutterKeeps ==
  ASSUME IInv, UNCHANGED vars
  PROVE  IInv'
<1> USE DEF IInv, SharedInv, vars
<1>1. OthersTyped' /\ ProcInv'
  BY ProcsStay DEF procVars, osVars
<1>2. QED
  BY <1>1, ChildStep

\* Every step preserves the invariant.
LEMMA NextKeeps ==
  ASSUME IInv, [Next]_vars
  PROVE  IInv'
<1>1. ASSUME NEW t \in Threads, Step(t) PROVE IInv'
  <2>1. CASE StartStep(t)
    BY <2>1, StartCheckKeeps, SpawnFailsKeeps, SpawnKeeps, StartPublishKeeps DEF StartStep
  <2>2. CASE StopStep(t)
    BY <2>2, LookupKeeps, StopMarkKeeps, StopSignalKeeps, StopSawDoneKeeps, StopTimesOutKeeps
       DEF StopStep
  <2>3. QED
    BY <1>1, <2>1, <2>2, StatusReadKeeps DEF Step
<1>2. ASSUME NEW p \in Procs, WaitStep(p) PROVE IInv'
  BY <1>2, WaitReapsKeeps, WaitRecordsKeeps, WaitClosesKeeps DEF WaitStep
<1>3. QED
  BY <1>1, <1>2, CallKeeps, ExitKeeps, StutterKeeps DEF Next

\* The inductive invariant holds in every reachable state, for any number of
\* keys, goroutines and processes.
THEOREM Invariance == Spec => []IInv
BY InitHolds, NextKeeps, PTL DEF Spec

\* Type correctness of the Runner, its callers and its children.
THEOREM TypeCorrect == Spec => []TypeOK
<1>1. IInv => TypeOK
  BY DEF IInv, SharedInv
<1>2. QED
  BY <1>1, Invariance, PTL

\* A process recorded as crashed failed by itself: the panel never signalled it.
THEOREM CrashesAreUnasked == Spec => []CrashIsUnasked
<1>1. IInv => CrashIsUnasked
  BY DEF IInv, SharedInv, ProcInv, ProcOK, CrashIsUnasked
<1>2. QED
  BY <1>1, Invariance, PTL

\* A goroutine whose step takes it to "drain" has just sent SIGKILL.
LEMMA OnlyTimersDrain ==
  ASSUME IInv, NEW t \in Threads, Step(t), ~StopTimesOut(t)
  PROVE  pc'[t] # "drain" /\ \A u \in Threads : u # t => SameThread(u)
<1> DEFINE Fine == pc'[t] # "drain" /\ \A u \in Threads : u # t => SameThread(u)
<1>1. TypeOK
  BY DEF IInv, SharedInv
<1>2. ASSUME NEW l \in PCs \ {"drain"}, NEW p \in Procs \cup {None}, Goto(t, l, p) PROVE Fine
  BY <1>1, <1>2, GotoStep
<1>3. ASSUME NEW r \in Results, Return(t, r) PROVE Fine
  BY <1>1, <1>3, ReturnStep
<1>4. {"read", "mark", "signal", "await", "check", "spawn", "publish"} \subseteq PCs \ {"drain"}
  BY DEF PCs, StopPCs, StartPCs
<1>5. ASSUME StopReturns(t) PROVE Fine
  BY <1>2, <1>3, <1>4, <1>5 DEF StopReturns, Results
<1>6. cur[t] \in Procs \cup {None}
  BY <1>1 DEF TypeOK
<1>7. CASE StartStep(t)
  BY <1>2, <1>3, <1>4, <1>7
     DEF StartStep, StartCheck, SpawnFails, Spawn, StartPublish, Results
<1>8. CASE Lookup(t)
  <2>1. ThreadOK(t)
    BY DEF IInv, SharedInv, ThreadInv
  <2>2. procs[arg[t]] \in Procs \cup {None}
    BY <1>1, <1>8, <2>1 DEF Lookup, ThreadOK, TypeOK
  <2>3. QED
    BY <1>2, <1>3, <1>4, <1>5, <1>8, <2>2 DEF Lookup, Results
<1>9. CASE StopMark(t) \/ StopSignal(t) \/ StopSawDone(t)
  BY <1>2, <1>3, <1>4, <1>5, <1>6, <1>9 DEF StopMark, StopSignal, StopSawDone, Results
<1>10. CASE StatusRead(t)
  BY <1>3, <1>10 DEF StatusRead, Results
<1>11. QED
  BY <1>7, <1>8, <1>9, <1>10 DEF Step, StopStep

\* SIGKILL is final, and a child that was published is never alive again.
LEMMA KillsLast ==
  ASSUME IInv, [Next]_vars, NEW q \in Procs
  PROVE  /\ signal[q] = "KILL" => signal'[q] = "KILL"
         /\ state[q] # "none" /\ os'[q] = "alive" => os[q] = "alive"
<1>1. ProcOK(q) /\ TypeOK
  BY DEF IInv, SharedInv, ProcInv
<1> DEFINE Fine == /\ signal[q] = "KILL" => signal'[q] = "KILL"
                   /\ state[q] # "none" /\ os'[q] = "alive" => os[q] = "alive"
<1>2. ASSUME UNCHANGED <<os, signal>> PROVE Fine
  BY <1>2
<1>3. ASSUME NEW t \in Threads, Step(t) PROVE Fine
  <2>1. CASE \E p \in Procs : Spawn(t, p)
    BY <1>1, <2>1 DEF Spawn, ProcOK, TypeOK
  <2>2. CASE StopSignal(t) \/ StopTimesOut(t)
    BY <1>1, <2>2 DEF StopSignal, StopTimesOut, Deliver, TypeOK
  <2>3. CASE ~(\E p \in Procs : Spawn(t, p)) /\ ~StopSignal(t) /\ ~StopTimesOut(t)
    BY <1>2, <1>3, <2>3
       DEF Step, StartStep, StopStep, StartCheck, SpawnFails, StartPublish, Lookup, StopMark,
           StopSawDone, StatusRead, osVars
  <2>4. QED
    BY <2>1, <2>2, <2>3
<1>4. ASSUME NEW p \in Procs, WaitStep(p) PROVE Fine
  BY <1>1, <1>4 DEF WaitStep, WaitReaps, WaitRecords, WaitCloses, osVars, TypeOK
<1>5. ASSUME NEW p \in Procs, NEW how \in {"clean", "failed", "signalled"}, Exit(p, how) PROVE Fine
  BY <1>1, <1>5 DEF Exit, TypeOK
<1>6. CASE UNCHANGED vars
  BY <1>2, <1>6 DEF vars
<1>7. ASSUME NEW t \in Threads, NEW o \in Ops, NEW k \in Keys, Call(t, o, k) PROVE Fine
  BY <1>2, <1>7 DEF Call, osVars
<1>8. QED
  BY <1>3, <1>4, <1>5, <1>6, <1>7 DEF Next

\* Of a goroutine past its timer, DrainMovesOn says that its child is dead or killed.
DrainKills ==
  \A t \in Threads : pc[t] = "drain" /\ os[cur[t]] = "alive" => signal[cur[t]] = "KILL"

LEMMA DrainsAreKills == IInv => (DrainMovesOn <=> DrainKills)
<1>1. SUFFICES ASSUME IInv PROVE DrainMovesOn <=> DrainKills
  OBVIOUS
<1>2. ASSUME NEW t \in Threads, pc[t] = "drain"
      PROVE  /\ os[cur[t]] = "alive" => state[cur[t]] \notin Recorded
             /\ os[cur[t]] # "alive"
                  => os[cur[t]] \in {"exited", "reaped"}
                     /\ state[cur[t]] \in {"running"} \cup Recorded
  <2>1. ThreadOK(t)
    BY <1>1 DEF IInv, SharedInv, ThreadInv
  <2>2. cur[t] \in Procs /\ state[cur[t]] # "none"
    BY <1>2, <2>1 DEF ThreadOK
  <2>3. ProcOK(cur[t])
    BY <1>1, <2>2 DEF IInv, SharedInv, ProcInv
  <2>4. /\ state[cur[t]] \in {"none", "running"} \cup Recorded
        /\ os[cur[t]] \in {"unborn", "alive", "exited", "reaped"}
    BY <1>1, <2>2 DEF IInv, SharedInv, TypeOK, States
  <2>5. QED
    BY <2>2, <2>3, <2>4 DEF ProcOK
<1>3. QED
  BY <1>2 DEF DrainMovesOn, DrainKills

\* A step into "drain" sends SIGKILL, or finds the child dead.
LEMMA DrainKeeps ==
  ASSUME IInv, DrainMovesOn, [Next]_vars
  PROVE  DrainMovesOn'
<1>1. IInv'
  BY NextKeeps
<1>2. SUFFICES ASSUME NEW u \in Threads, pc'[u] = "drain", os'[cur'[u]] = "alive"
               PROVE  signal'[cur'[u]] = "KILL"
  <2>1. (IInv => (DrainMovesOn <=> DrainKills))'
    BY DrainsAreKills, PTL
  <2>2. QED
    BY <1>1, <2>1 DEF DrainKills
<1>3. CASE StopTimesOut(u)
  <2>1. cur[u] \in Procs /\ TypeOK
    BY <1>3 DEF StopTimesOut, IInv, SharedInv, ThreadInv, ThreadOK
  <2>2. cur'[u] = cur[u] /\ os' = os
    BY <1>3, <2>1 DEF StopTimesOut, Goto, TypeOK
  <2>3. QED
    BY <1>2, <1>3, <2>1, <2>2 DEF StopTimesOut, Deliver, TypeOK
<1>4. CASE ~StopTimesOut(u)
  <2>1. pc[u] = "drain" /\ cur'[u] = cur[u]
    <3>1. ASSUME NEW t \in Threads, Step(t) PROVE pc[u] = "drain" /\ cur'[u] = cur[u]
      <4>1. StopTimesOut(t) => \A v \in Threads : v # t => SameThread(v)
        BY GotoStep DEF StopTimesOut, IInv, SharedInv, ThreadInv, ThreadOK, PCs, StopPCs
      <4>2. u # t /\ SameThread(u)
        BY <1>2, <1>4, <3>1, <4>1, OnlyTimersDrain
      <4>3. QED
        BY <1>2, <4>2 DEF SameThread
    <3>2. ASSUME NEW t \in Threads, NEW o \in Ops, NEW k \in Keys, Call(t, o, k)
          PROVE  pc[u] = "drain" /\ cur'[u] = cur[u]
      BY <1>2, <3>2 DEF Call, IInv, SharedInv, TypeOK
    <3>3. ASSUME UNCHANGED thrVars PROVE pc[u] = "drain" /\ cur'[u] = cur[u]
      BY <1>2, <3>3 DEF thrVars
    <3>4. QED
      BY <3>1, <3>2, <3>3
         DEF Next, WaitStep, WaitReaps, WaitRecords, WaitCloses, Exit, vars, thrVars
  <2>2. cur[u] \in Procs /\ state[cur[u]] # "none"
    BY <2>1 DEF IInv, SharedInv, ThreadInv, ThreadOK
  <2>3. os[cur[u]] = "alive"
    BY <1>2, <2>1, <2>2, KillsLast
  <2>4. signal[cur[u]] = "KILL"
    BY <2>1, <2>3, DrainsAreKills DEF DrainKills
  <2>5. QED
    BY <2>1, <2>2, <2>4, KillsLast
<1>5. QED
  BY <1>3, <1>4

\* Whoever else stops or restarts the same process, a Stop past its timer waits
\* for something that will happen: the step behind StopTerminates that needs no
\* fairness.
THEOREM DrainsMoveOn == Spec => []DrainMovesOn
<1>1. Init => DrainMovesOn
  BY DEF Init, DrainMovesOn
<1>2. QED
  BY <1>1, InitHolds, NextKeeps, DrainKeeps, PTL DEF Spec

\* A live process of an uncrossed key is the tracked one, or the one call that
\* starts the key is about to publish it and nothing of the key is running.
LEMMA AliveIsHeld ==
  ASSUME IInv, NEW r \in Procs, os[r] = "alive", owner[r] \in Uncrossed
  PROVE  \/ state[r] = "running" /\ procs[owner[r]] = r
         \/ \E t \in Threads :
               pc[t] = "publish" /\ cur[t] = r /\ Starts(t, owner[r]) /\ ~Running(procs[owner[r]])
<1> USE DEF IInv, SharedInv
<1>1. state[r] \in {"none", "running"}
  BY DEF TypeOK, ProcInv, ProcOK
<1>2. CASE state[r] = "running"
  BY <1>2 DEF RunningIsTracked
<1>3. CASE state[r] = "none"
  <2>1. PICK t \in Threads : pc[t] = "publish" /\ cur[t] = r
    BY <1>3 DEF PublisherInv, HasPublisher
  <2>2. ThreadOK(t) /\ StarterOK(t)
    BY DEF ThreadInv, StarterInv
  <2>3. QED
    BY <2>1, <2>2 DEF ThreadOK, StarterOK, Starts
<1>4. QED
  BY <1>1, <1>2, <1>3

\* So two live processes of such a key are one.
LEMMA LiveIsOne ==
  ASSUME IInv
  PROVE  OneProcessPerKey
<1>1. SUFFICES ASSUME NEW p \in Procs, NEW q \in Procs, os[p] = "alive", os[q] = "alive",
                      owner[p] = owner[q], owner[p] \in Uncrossed
               PROVE  p = q
  BY DEF OneProcessPerKey
<1>2. QED
  BY <1>1, AliveIsHeld DEF IInv, StarterInv, StartsApart, Running

\* A key has one live process until two calls to start it overlap, however many
\* goroutines call the Runner, whatever they do to other keys, however many stop
\* this one and whenever its process dies.
THEOREM OneProcess == Spec => []OneProcessPerKey
BY LiveIsOne, Invariance, PTL

\* No running process of such a key is dropped from Runner.procs.
THEOREM RunningTracked == Spec => []RunningIsTracked
<1>1. IInv => RunningIsTracked
  BY DEF IInv
<1>2. QED
  BY <1>1, Invariance, PTL

\* Of such a key Status says "running" only of the tracked process.
THEOREM StatusCurrent == Spec => []StatusIsCurrent
<1>1. ASSUME IInv PROVE StatusIsCurrent
  BY <1>1 DEF IInv, SharedInv, ThreadInv, ThreadOK, RunningIsTracked, StatusIsCurrent
<1>2. QED
  BY <1>1, Invariance, PTL

\* A Restart of such a key is never refused by its own Start.
THEOREM RestartAccepted == Spec => []RestartNotRefused
<1>1. ASSUME IInv PROVE RestartNotRefused
  BY <1>1 DEF IInv, StarterInv, StarterOK, RestartNotRefused
<1>2. QED
  BY <1>1, Invariance, PTL

\* A step of one goroutine moves no other.
LEMMA OthersStay ==
  ASSUME TypeOK, NEW t \in Threads, NEW u \in Threads, u # t,
         Step(u) \/ \E o \in Ops, k \in Keys : Call(u, o, k)
  PROVE  pc'[t] = pc[t]
<1>1. ASSUME NEW l, NEW p, Goto(u, l, p) PROVE pc'[t] = pc[t]
  BY <1>1 DEF Goto, TypeOK
<1>2. ASSUME NEW r, Return(u, r) PROVE pc'[t] = pc[t]
  BY <1>2 DEF Return, TypeOK
<1>3. CASE StartStep(u)
  BY <1>1, <1>2, <1>3 DEF StartStep, StartCheck, SpawnFails, Spawn, StartPublish
<1>4. CASE StopStep(u)
  BY <1>1, <1>2, <1>4 DEF StopStep, Lookup, StopMark, StopSignal, StopSawDone, StopTimesOut,
                          StopReturns
<1>5. CASE StatusRead(u)
  BY <1>2, <1>5 DEF StatusRead
<1>6. ASSUME NEW o \in Ops, NEW k \in Keys, Call(u, o, k) PROVE pc'[t] = pc[t]
  BY <1>6 DEF Call, TypeOK
<1>7. QED
  BY <1>3, <1>4, <1>5, <1>6 DEF Step

\* Whoever the callers are, a Stop that returns nil leaves its process reaped.
THEOREM StopKills == Spec => StopLeavesDead
<1>1. ASSUME IInv, Next, NEW t \in Threads,
             cur[t] # None, pc[t] \in StopPCs, StopReturns(t)
      PROVE  os[cur[t]] = "reaped"
  <2> USE DEF IInv, SharedInv
  <2>1. \/ pc'[t] = "check" /\ ret'[t] = ret[t]
        \/ pc'[t] = "idle" /\ ret'[t] = "ok"
    <3>1. /\ pc \in [Threads -> PCs]
          /\ ret \in [Threads -> Results \cup {None}]
      BY <1>1 DEF TypeOK
    <3>2. CASE op[t] = "restart"
      BY <1>1, <3>1, <3>2 DEF StopReturns, Goto
    <3>3. CASE op[t] # "restart"
      BY <1>1, <3>1, <3>3 DEF StopReturns, Return
    <3>4. QED
      BY <3>2, <3>3
  <2>2. ThreadOK(t) /\ pc[t] \in {"mark", "signal", "await", "drain"} /\ cur[t] \in Procs
    BY <1>1 DEF ThreadInv, ThreadOK
  <2>3. ProcOK(cur[t]) /\ state[cur[t]] \in States
    BY <1>1, <2>2 DEF ProcInv, TypeOK
  <2>4. CASE \E p \in Procs : WaitStep(p) \/ \E how \in {"clean", "failed", "signalled"} : Exit(p, how)
    <3>1. pc' = pc
      BY <2>4 DEF WaitStep, WaitReaps, WaitRecords, WaitCloses, Exit
    <3>2. QED
      BY <1>1, <2>1, <3>1
  <2>5. ASSUME NEW u \in Threads, Step(u) \/ \E o \in Ops, k \in Keys : Call(u, o, k)
        PROVE  u = t
    BY <1>1, <2>1, <2>5, OthersStay
  <2>6. CASE \E o \in Ops, k \in Keys : Call(t, o, k)
    BY <1>1, <2>6 DEF Call
  <2>7. CASE StartStep(t)
    BY <1>1, <2>7 DEF StartStep, StartCheck, SpawnFails, Spawn, StartPublish
  <2>8. CASE StatusRead(t)
    BY <1>1, <2>8 DEF StatusRead
  <2>9. CASE Lookup(t)
    BY <2>2, <2>9 DEF Lookup
  <2>10. CASE StopMark(t)
    <3>1. state[cur[t]] # "running"
      <4>1. ASSUME state[cur[t]] = "running" PROVE pc'[t] = "signal"
        BY <1>1, <2>10, <4>1 DEF StopMark, Goto, TypeOK
      <4>2. QED
        BY <2>1, <4>1
    <3>2. state[cur[t]] \in Recorded
      BY <2>2, <2>3, <3>1 DEF ThreadOK
    <3>3. QED
      BY <2>3, <3>2 DEF ProcOK
  <2>11. CASE StopSignal(t)
    BY <1>1, <2>1, <2>11 DEF StopSignal, Goto, Return, TypeOK
  <2>12. CASE StopSawDone(t)
    BY <2>3, <2>12 DEF StopSawDone, ProcOK
  <2>13. CASE StopTimesOut(t)
    BY <1>1, <2>1, <2>13 DEF StopTimesOut, Goto, TypeOK
  <2>14. QED
    BY <1>1, <2>4, <2>5, <2>6, <2>7, <2>8, <2>9, <2>10, <2>11, <2>12, <2>13
       DEF Next, Step, StopStep
<1>2. ASSUME IInv, [Next]_vars
      PROVE  [\A t \in Threads :
                 cur[t] # None /\ pc[t] \in StopPCs /\ StopReturns(t)
                    => os[cur[t]] = "reaped"]_vars
  BY <1>1, <1>2
<1>3. QED
  BY <1>2, Invariance, PTL DEF Spec, StopLeavesDead

-----------------------------------------------------------------------------
(* The Runner implements StationSupervisor.                                *)

\* The process the key tracks, its record and its live processes stay.
SameKey(j) ==
  /\ procs'[j] = procs[j]
  /\ procs[j] # None => /\ state'[procs[j]] = state[procs[j]]
                        /\ stopping'[procs[j]] = stopping[procs[j]]
  /\ \A q \in Procs : os'[q] = "alive" /\ owner'[q] = j <=> os[q] = "alive" /\ owner[q] = j

\* Steps that change no uncrossed key are stutters.
LEMMA CrossedStep ==
  ASSUME crossed' = crossed, \A j \in Uncrossed : SameKey(j)
  PROVE  UNCHANGED Supervisor!vars
<1>1. ASSUME NEW j \in Keys
      PROVE  liveOf'[j] = liveOf[j] /\ statusOf'[j] = statusOf[j] /\ askedOf'[j] = askedOf[j]
  <2>1. CASE j \in crossed
    BY <2>1 DEF liveOf, statusOf, askedOf, Seen
  <2>2. CASE j \notin crossed
    BY <2>2 DEF SameKey, liveOf, statusOf, askedOf, Seen
  <2>3. QED
    BY <2>1, <2>2
<1>2. liveOf' = liveOf /\ statusOf' = statusOf /\ askedOf' = askedOf
  BY <1>1 DEF liveOf, statusOf, askedOf
<1>3. QED
  BY <1>2 DEF Supervisor!vars

\* So are those that start, end, mark and record nothing.
LEMMA InvisibleStep ==
  ASSUME IInv, UNCHANGED <<procs, state, stopping, owner, crossed>>,
         \A p \in Procs : os'[p] = "alive" <=> os[p] = "alive"
  PROVE  UNCHANGED Supervisor!vars
BY CrossedStep DEF SameKey

\* That a key is crossed maps to Cross.
LEMMA CrossRefines ==
  ASSUME IInv, UNCHANGED <<procs, state, stopping, os, owner>>, NEW k \in Keys,
         crossed' \in {crossed, crossed \cup {k}}
  PROVE  (\E j \in Uncrossed : Supervisor!Follow(j)) \/ UNCHANGED Supervisor!vars
<1>1. CASE crossed' = crossed
  BY <1>1, InvisibleStep
<1>2. CASE crossed' # crossed
  <2>1. k \in Uncrossed /\ crossed' = crossed \cup {k}
    BY <1>2
  <2>2. ASSUME NEW j \in Keys
        PROVE  /\ liveOf'[j] = IF j = k THEN {} ELSE liveOf[j]
               /\ statusOf'[j] = IF j = k THEN "unknown" ELSE statusOf[j]
               /\ askedOf'[j] = IF j = k THEN FALSE ELSE askedOf[j]
    BY <2>1 DEF liveOf, statusOf, askedOf, Seen
  <2>3. /\ liveOf' = [liveOf EXCEPT ![k] = {}]
        /\ statusOf' = [statusOf EXCEPT ![k] = "unknown"]
        /\ askedOf' = [askedOf EXCEPT ![k] = FALSE]
    BY <2>2 DEF liveOf, statusOf, askedOf
  <2>4. Uncrossed' = Uncrossed \ {k}
    BY <2>1
  <2>5. QED
    BY <2>1, <2>3, <2>4 DEF Supervisor!Cross, Supervisor!Follow
<1>3. QED
  BY <1>1, <1>2

\* So does a call that meets another one.
LEMMA CallRefines ==
  ASSUME IInv, NEW t \in Threads, NEW o \in Ops, NEW k \in Keys, Call(t, o, k)
  PROVE  (\E j \in Uncrossed : Supervisor!Follow(j)) \/ UNCHANGED Supervisor!vars
<1>1. UNCHANGED <<procs, state, stopping, os, owner>>
  BY DEF Call
<1>2. crossed' \in {crossed, crossed \cup {k}}
  BY DEF Call
<1>3. QED
  BY <1>1, <1>2, CrossRefines

\* Spawn maps to Spawn: AliveIsHeld leaves an uncrossed key without a process.
LEMMA SpawnRefines ==
  ASSUME IInv, NEW t \in Threads, NEW p \in Procs, Spawn(t, p)
  PROVE  /\ arg[t] \in Keys
         /\ arg[t] \in Uncrossed => Supervisor!Spawn(arg[t], p)
         /\ arg[t] \notin Uncrossed => UNCHANGED Supervisor!vars
<1> USE DEF IInv, SharedInv
<1> DEFINE k == arg[t]
<1>1. pc[t] = "spawn" /\ ThreadOK(t) /\ StarterOK(t) /\ k \in Keys
  BY DEF Spawn, ThreadInv, ThreadOK, StarterInv
<1>2. /\ os[p] = "unborn" /\ os' = [os EXCEPT ![p] = "alive"] /\ owner' = [owner EXCEPT ![p] = k]
      /\ UNCHANGED <<procVars, crossed>>
  BY DEF Spawn, Goto
<1>3. CASE k \in Uncrossed
  <2>1. Starts(t, k) /\ ~Running(procs[k])
    BY <1>1, <1>3 DEF ThreadOK, StarterOK, Starts
  <2>2. statusOf[k] # "running"
    BY <1>1, <1>3, <2>1 DEF statusOf, Running, Seen
  <2>3. ASSUME NEW q \in Procs, os[q] = "alive" PROVE owner[q] # k
    BY <1>1, <1>3, <2>1, <2>3, AliveIsHeld DEF StarterInv, StartsApart, Running
  <2>4. liveOf[k] = {}
    BY <1>1, <2>3 DEF liveOf, Seen
  <2>5. ASSUME NEW q \in Procs, NEW j \in Keys
        PROVE  (os'[q] = "alive" /\ owner'[q] = j)
                 <=> IF j = k THEN q = p ELSE os[q] = "alive" /\ owner[q] = j
    BY <1>2, <2>3 DEF TypeOK
  <2>6. ASSUME NEW j \in Keys
        PROVE  liveOf'[j] = IF j = k THEN {p} ELSE liveOf[j]
    BY <1>2, <1>3, <2>5 DEF liveOf, Seen
  <2>7. liveOf' = [liveOf EXCEPT ![k] = {p}]
    BY <2>6 DEF liveOf
  <2>8. statusOf' = statusOf /\ askedOf' = askedOf
    BY <1>2 DEF statusOf, askedOf, Seen
  <2>9. Uncrossed' = Uncrossed
    BY <1>2
  <2>10. QED
    BY <1>1, <1>3, <2>2, <2>4, <2>7, <2>8, <2>9 DEF Supervisor!Spawn
<1>4. CASE k \notin Uncrossed
  <2>1. ASSUME NEW j \in Uncrossed PROVE SameKey(j)
    BY <1>2, <1>4, <2>1 DEF SameKey, TypeOK
  <2>2. QED
    BY <1>1, <1>2, <1>4, <2>1, CrossedStep
<1>5. QED
  BY <1>3, <1>4

\* StartPublish maps to Publish.
LEMMA PublishRefines ==
  ASSUME IInv, NEW t \in Threads, StartPublish(t)
  PROVE  (\E j \in Uncrossed : Supervisor!Follow(j)) \/ UNCHANGED Supervisor!vars
<1> USE DEF IInv, SharedInv
<1> DEFINE k == arg[t]
           p == cur[t]
<1>1. /\ ThreadOK(t) /\ StarterOK(t) /\ k \in Keys /\ p \in Procs
      /\ state[p] = "none" /\ (k \in Uncrossed => ~Running(procs[k]))
  BY DEF StartPublish, ThreadInv, ThreadOK, StarterInv, StarterOK
<1>2. /\ procs' = [procs EXCEPT ![k] = p] /\ state' = [state EXCEPT ![p] = "running"]
      /\ UNCHANGED <<stopping, done, osVars, crossed>>
  BY DEF StartPublish, Return
<1>3. ~stopping[p]
  BY <1>1 DEF ProcInv, ProcOK
<1>4. ASSUME NEW j \in Keys, j # k PROVE SameKey(j)
  <2>1. KeyOK(j) /\ procs[j] \in Procs \cup {None}
    BY DEF KeyInv, TypeOK
  <2>2. QED
    BY <1>1, <1>2, <1>4, <2>1 DEF SameKey, TypeOK, KeyOK
<1>5. CASE k \in Uncrossed
  <2>1. ASSUME NEW j \in Keys
        PROVE  /\ statusOf'[j] = IF j = k THEN "running" ELSE statusOf[j]
               /\ askedOf'[j] = IF j = k THEN FALSE ELSE askedOf[j]
    <3>1. CASE j = k
      BY <1>1, <1>2, <1>3, <1>5, <3>1 DEF statusOf, askedOf, TypeOK, Seen
    <3>2. CASE j # k
      BY <1>2, <1>4, <3>2 DEF statusOf, askedOf, Seen, SameKey
    <3>3. QED
      BY <3>1, <3>2
  <2>2. /\ statusOf' = [statusOf EXCEPT ![k] = "running"]
        /\ askedOf' = [askedOf EXCEPT ![k] = FALSE]
    BY <2>1 DEF statusOf, askedOf
  <2>3. liveOf' = liveOf /\ Uncrossed' = Uncrossed
    BY <1>2 DEF liveOf, Seen
  <2>4. statusOf[k] # "running"
    BY <1>1, <1>5 DEF statusOf, Running, Seen
  <2>5. Supervisor!Publish(k)
    BY <2>2, <2>3, <2>4 DEF Supervisor!Publish
  <2>6. QED
    BY <1>5, <2>5 DEF Supervisor!Follow
<1>6. CASE k \notin Uncrossed
  BY <1>2, <1>4, <1>6, CrossedStep
<1>7. QED
  BY <1>5, <1>6

\* StopMark maps to Ask on a running process, and to a stutter on a dead one.
LEMMA MarkRefines ==
  ASSUME IInv, NEW t \in Threads, StopMark(t)
  PROVE  (\E j \in Uncrossed : Supervisor!Follow(j)) \/ UNCHANGED Supervisor!vars
<1> USE DEF IInv, SharedInv
<1> DEFINE p == cur[t]
           k == owner[p]
<1>1. UNCHANGED <<procs, state, osVars, crossed>>
  BY DEF StopMark, StopReturns, Goto, Return
<1>2. CASE state[p] # "running"
  <2>1. stopping' = stopping
    BY <1>2 DEF StopMark
  <2>2. QED
    BY <1>1, <2>1, InvisibleStep
<1>3. ASSUME state[p] = "running"
      PROVE  /\ p \in Procs /\ k \in Keys
             /\ stopping' = [stopping EXCEPT ![p] = TRUE]
             /\ \A j \in Keys : j # k => SameKey(j)
  <2>1. p \in Procs /\ k \in Keys
    BY <1>3 DEF StopMark, ThreadInv, ThreadOK, ProcInv, ProcOK
  <2>2. stopping' = [stopping EXCEPT ![p] = TRUE]
    BY <1>3 DEF StopMark
  <2>3. ASSUME NEW j \in Keys, j # k PROVE SameKey(j)
    <3>1. KeyOK(j) /\ procs[j] \in Procs \cup {None}
      BY DEF KeyInv, TypeOK
    <3>2. QED
      BY <1>1, <2>1, <2>2, <2>3, <3>1 DEF SameKey, TypeOK, KeyOK
  <2>4. QED
    BY <2>1, <2>2, <2>3
<1>4. CASE state[p] = "running" /\ k \in Uncrossed
  <2>1. procs[k] = p
    BY <1>3, <1>4 DEF RunningIsTracked
  <2>2. ASSUME NEW j \in Keys
        PROVE  askedOf'[j] = IF j = k THEN TRUE ELSE askedOf[j]
    <3>1. CASE j = k
      <4>1. procs'[k] = p /\ p # None /\ stopping'[p] = TRUE
        BY <1>1, <1>3, <1>4, <2>1 DEF TypeOK
      <4>2. askedOf'[k] = (procs'[k] # None /\ stopping'[procs'[k]])
        BY <1>1, <1>3, <1>4 DEF askedOf, Seen
      <4>3. QED
        BY <3>1, <4>1, <4>2
    <3>2. CASE j # k
      BY <1>1, <1>3, <1>4, <3>2 DEF askedOf, Seen, SameKey
    <3>3. QED
      BY <3>1, <3>2
  <2>3. askedOf' = [askedOf EXCEPT ![k] = TRUE]
    BY <2>2 DEF askedOf
  <2>4. statusOf[k] = "running" /\ statusOf' = statusOf /\ liveOf' = liveOf
    BY <1>1, <1>3, <1>4, <2>1 DEF statusOf, liveOf, Seen
  <2>5. Uncrossed' = Uncrossed
    BY <1>1
  <2>6. QED
    BY <1>4, <2>3, <2>4, <2>5 DEF Supervisor!Ask, Supervisor!Follow
<1>5. CASE state[p] = "running" /\ k \notin Uncrossed
  BY <1>1, <1>3, <1>5, CrossedStep
<1>6. QED
  BY <1>2, <1>4, <1>5

\* Exit maps to Die: OneProcessPerKey makes it the key's only process.
LEMMA ExitRefines ==
  ASSUME IInv, NEW p \in Procs, NEW how \in {"clean", "failed", "signalled"}, Exit(p, how)
  PROVE  (\E j \in Uncrossed : Supervisor!Follow(j)) \/ UNCHANGED Supervisor!vars
<1> USE DEF IInv, SharedInv
<1> DEFINE k == owner[p]
<1>1. /\ os[p] = "alive" /\ os' = [os EXCEPT ![p] = "exited"]
      /\ UNCHANGED <<procVars, owner, crossed>>
  BY DEF Exit
<1>2. CASE k \in Uncrossed
  <2>1. \A q \in Procs : os[q] = "alive" /\ owner[q] = k => q = p
    BY <1>1, <1>2, LiveIsOne DEF OneProcessPerKey
  <2>2. ASSUME NEW j \in Keys PROVE liveOf'[j] = IF j = k THEN {} ELSE liveOf[j]
    <3>1. ASSUME NEW q \in Procs
          PROVE  (os'[q] = "alive" /\ owner'[q] = j)
                   <=> (j # k /\ os[q] = "alive" /\ owner[q] = j)
      BY <1>1, <2>1 DEF TypeOK
    <3>2. QED
      BY <1>1, <1>2, <3>1 DEF liveOf, Seen
  <2>3. liveOf' = [liveOf EXCEPT ![k] = {}]
    BY <2>2 DEF liveOf
  <2>4. statusOf' = statusOf /\ askedOf' = askedOf /\ Uncrossed' = Uncrossed
    BY <1>1 DEF statusOf, askedOf, Seen
  <2>5. Supervisor!Die(k)
    BY <2>3, <2>4 DEF Supervisor!Die
  <2>6. QED
    BY <1>2, <2>5 DEF Supervisor!Follow
<1>3. CASE k \notin Uncrossed
  <2>1. ASSUME NEW j \in Uncrossed PROVE SameKey(j)
    BY <1>1, <1>3, <2>1 DEF SameKey, TypeOK
  <2>2. QED
    BY <1>1, <2>1, CrossedStep
<1>4. QED
  BY <1>2, <1>3

\* WaitRecords maps to Record: RunningIsTracked makes it the key's status.
LEMMA RecordRefines ==
  ASSUME IInv, NEW p \in Procs, WaitRecords(p)
  PROVE  (\E j \in Uncrossed : Supervisor!Follow(j)) \/ UNCHANGED Supervisor!vars
<1> USE DEF IInv, SharedInv
<1> DEFINE k == owner[p]
<1>1. /\ state[p] = "running" /\ os[p] = "reaped" /\ k \in Keys
      /\ state' = [state EXCEPT ![p] = Classify(p)]
      /\ UNCHANGED <<procs, stopping, osVars, crossed>>
  BY DEF WaitRecords, ProcInv, ProcOK
<1>2. ASSUME NEW j \in Keys, j # k PROVE SameKey(j)
  <2>1. KeyOK(j) /\ procs[j] \in Procs \cup {None}
    BY DEF KeyInv, TypeOK
  <2>2. QED
    BY <1>1, <1>2, <2>1 DEF SameKey, TypeOK, KeyOK
<1>3. CASE k \in Uncrossed
  <2>1. procs[k] = p
    BY <1>1, <1>3 DEF RunningIsTracked
  <2>2. ASSUME NEW q \in Procs, os[q] = "alive", owner[q] = k PROVE FALSE
    BY <1>1, <1>3, <2>1, <2>2, AliveIsHeld DEF Running
  <2>3. liveOf[k] = {}
    BY <1>1, <2>2 DEF liveOf, Seen
  <2>4. ASSUME NEW j \in Keys PROVE statusOf'[j] = IF j = k THEN Classify(p) ELSE statusOf[j]
    <3>1. CASE j = k
      BY <1>1, <1>3, <2>1, <3>1 DEF statusOf, TypeOK, Seen
    <3>2. CASE j # k
      BY <1>1, <1>2, <3>2 DEF statusOf, Seen, SameKey
    <3>3. QED
      BY <3>1, <3>2
  <2>5. statusOf' = [statusOf EXCEPT ![k] = Classify(p)]
    BY <2>4 DEF statusOf
  <2>6. /\ statusOf[k] = "running" /\ liveOf' = liveOf /\ askedOf' = askedOf
        /\ Uncrossed' = Uncrossed
    BY <1>1, <1>3, <2>1 DEF statusOf, liveOf, askedOf, Seen
  <2>7. Classify(p) \in {"stopped", "crashed"} /\ (Classify(p) = "crashed" => ~askedOf[k])
    BY <1>1, <1>3, <2>1 DEF Classify, askedOf, Seen
  <2>8. Supervisor!Record(k, Classify(p))
    BY <2>3, <2>5, <2>6, <2>7 DEF Supervisor!Record
  <2>9. QED
    BY <1>3, <2>7, <2>8 DEF Supervisor!Follow
<1>4. CASE k \notin Uncrossed
  BY <1>1, <1>2, <1>4, CrossedStep
<1>5. QED
  BY <1>3, <1>4

\* A step of the Runner that spawns nothing follows a process or is a stutter.
LEMMA StepFollows ==
  ASSUME IInv, [Next]_vars, ~\E t \in Threads, p \in Procs : Spawn(t, p)
  PROVE  (\E k \in Uncrossed : Supervisor!Follow(k)) \/ UNCHANGED Supervisor!vars
<1>1. ASSUME NEW t \in Threads,
             \/ StartCheck(t) \/ SpawnFails(t) \/ Lookup(t) \/ StatusRead(t)
             \/ StopSignal(t) \/ StopSawDone(t) \/ StopTimesOut(t)
      PROVE  UNCHANGED Supervisor!vars
  <2>1. UNCHANGED <<procs, state, stopping, os, owner, crossed>>
    BY <1>1 DEF StartCheck, SpawnFails, Lookup, StatusRead, StopSignal, StopSawDone,
                StopTimesOut, StopReturns, Goto, Return
  <2>2. QED
    BY <2>1, InvisibleStep
<1>2. ASSUME NEW p \in Procs, WaitReaps(p) \/ WaitCloses(p)
      PROVE  UNCHANGED Supervisor!vars
  <2>1. UNCHANGED <<procs, state, stopping, owner, crossed>>
    BY <1>2 DEF WaitReaps, WaitCloses
  <2>2. \A q \in Procs : os'[q] = "alive" <=> os[q] = "alive"
    BY <1>2 DEF WaitReaps, WaitCloses, IInv, SharedInv, TypeOK
  <2>3. QED
    BY <2>1, <2>2, InvisibleStep
<1>3. CASE UNCHANGED vars
  BY <1>3, InvisibleStep DEF vars
<1>4. QED
  BY <1>1, <1>2, <1>3, CallRefines, PublishRefines, MarkRefines, ExitRefines, RecordRefines
     DEF Next, Step, StartStep, StopStep, WaitStep

\* Every step of the Runner is a step of StationSupervisor or a stutter.
LEMMA StepRefines ==
  ASSUME IInv, [Next]_vars
  PROVE  [Supervisor!Next]_(Supervisor!vars)
BY SpawnRefines, StepFollows DEF Supervisor!Next

\* At first nothing of a key is alive, tracked or crossed.
LEMMA InitRefines == Init => Supervisor!Init
<1> SUFFICES ASSUME Init PROVE Supervisor!Init
  OBVIOUS
<1>1. ASSUME NEW k \in Keys PROVE {p \in Procs : os[p] = "alive" /\ owner[p] = k} = {}
  BY DEF Init
<1>2. liveOf = [k \in Keys |-> {}]
  BY <1>1 DEF liveOf, Seen
<1>3. /\ statusOf = [k \in Keys |-> "absent"] /\ askedOf = [k \in Keys |-> FALSE]
      /\ Uncrossed = Keys
  BY DEF Init, statusOf, askedOf, Seen
<1>4. QED
  BY <1>2, <1>3 DEF Supervisor!Init

\* The Runner does what StationSupervisor promises, whoever calls it.
THEOREM Implementation == Spec => ImplementsSupervisor
<1>1. IInv /\ [Next]_vars => [Supervisor!Next]_(Supervisor!vars)
  BY StepRefines
<1>2. QED
  BY <1>1, InitRefines, Invariance, PTL DEF Spec, Supervisor!Spec, ImplementsSupervisor

-----------------------------------------------------------------------------
(***************************************************************************)
(* Managed stations: what is left of a request.                            *)
(***************************************************************************)

\* The next of the steps q is h, and the one after it n; or h is the last.
Then(q, h, n) == Head(q) = h /\ Tail(q) # <<>> /\ Head(Tail(q)) = n
Last(q, h)    == Head(q) = h /\ Tail(q) = <<>>

\* The next of the steps q is a call of the Runner, and becomes the wait for it.
Calls(q)   == Head(q) \in {"start", "stop", "restart"}
Waiting(q) == [q EXCEPT ![1] = "return"]

\* What may be left of a "create", and what its next step leaves.
LEMMA CreateLeft ==
  ASSUME NEW q \in Left("create")
  PROVE  /\ q \in Seq(StepNames) /\ q # <<>>
         /\ Tail(q) = <<>> \/ Tail(q) \in Left("create")
         /\ \/ Then(q, "insert", "config") \/ Then(q, "config", "script")
            \/ Then(q, "script", "mint") \/ Then(q, "mint", "start")
            \/ Last(q, "start") \/ Last(q, "return")
         /\ Calls(q) => /\ Head(q) = "start"
                         /\ Waiting(q) \in Left("create") /\ Head(Waiting(q)) = "return"
<1> DEFINE a == <<"insert", "config", "script", "mint", "start">>
           b == <<"config", "script", "mint", "start">>
           c == <<"script", "mint", "start">>
           d == <<"mint", "start">>
           e == <<"start">>
           f == <<"return">>
<1>1. Head(a) = "insert" /\ Tail(a) = b /\ a # <<>> /\ a \in Seq(StepNames)
  BY DEF StepNames
<1>2. Head(b) = "config" /\ Tail(b) = c /\ b # <<>> /\ b \in Seq(StepNames)
  BY DEF StepNames
<1>3. Head(c) = "script" /\ Tail(c) = d /\ c # <<>> /\ c \in Seq(StepNames)
  BY DEF StepNames
<1>4. Head(d) = "mint" /\ Tail(d) = e /\ d # <<>> /\ d \in Seq(StepNames)
  BY DEF StepNames
<1>5. Head(e) = "start" /\ Tail(e) = <<>> /\ e # <<>> /\ e \in Seq(StepNames)
  BY DEF StepNames
<1>6. Head(f) = "return" /\ Tail(f) = <<>> /\ f # <<>> /\ f \in Seq(StepNames)
  BY DEF StepNames
<1>7. [e EXCEPT ![1] = "return"] = f
  OBVIOUS
<1>8. Left("create") = {a, b, c, d, e, f}
  BY DEF Left, CreateSteps
<1> HIDE DEF a, b, c, d, e, f
<1>9. QED
  BY <1>1, <1>2, <1>3, <1>4, <1>5, <1>6, <1>7, <1>8
     DEF Then, Last, Calls, Waiting

\* What may be left of a "delete", and what its next step leaves.
LEMMA DeleteLeft ==
  ASSUME NEW q \in Left("delete")
  PROVE  /\ q \in Seq(StepNames) /\ q # <<>>
         /\ Tail(q) = <<>> \/ Tail(q) \in Left("delete")
         /\ \/ Then(q, "stop", "unregister") \/ Then(q, "return", "unregister")
            \/ Then(q, "unregister", "delete") \/ Then(q, "delete", "remove")
            \/ Last(q, "remove")
         /\ Calls(q) => /\ Head(q) = "stop"
                         /\ Waiting(q) \in Left("delete") /\ Head(Waiting(q)) = "return"
<1> DEFINE a == <<"stop", "unregister", "delete", "remove">>
           b == <<"return", "unregister", "delete", "remove">>
           c == <<"unregister", "delete", "remove">>
           d == <<"delete", "remove">>
           e == <<"remove">>
<1>1. Head(a) = "stop" /\ Tail(a) = c /\ a # <<>> /\ a \in Seq(StepNames)
  BY DEF StepNames
<1>2. Head(b) = "return" /\ Tail(b) = c /\ b # <<>> /\ b \in Seq(StepNames)
  BY DEF StepNames
<1>3. Head(c) = "unregister" /\ Tail(c) = d /\ c # <<>> /\ c \in Seq(StepNames)
  BY DEF StepNames
<1>4. Head(d) = "delete" /\ Tail(d) = e /\ d # <<>> /\ d \in Seq(StepNames)
  BY DEF StepNames
<1>5. Head(e) = "remove" /\ Tail(e) = <<>> /\ e # <<>> /\ e \in Seq(StepNames)
  BY DEF StepNames
<1>6. [a EXCEPT ![1] = "return"] = b
  OBVIOUS
<1>7. Left("delete") = {a, b, c, d, e}
  BY DEF Left, DeleteSteps
<1> HIDE DEF a, b, c, d, e
<1>8. QED
  BY <1>1, <1>2, <1>3, <1>4, <1>5, <1>6, <1>7
     DEF Then, Last, Calls, Waiting

\* What may be left of a "start", and what its next step leaves.
LEMMA StartLeft ==
  ASSUME NEW q \in Left("start")
  PROVE  /\ q \in Seq(StepNames) /\ q # <<>>
         /\ Tail(q) = <<>> \/ Tail(q) \in Left("start")
         /\ \/ Then(q, "get", "want") \/ Then(q, "want", "mint")
            \/ Then(q, "mint", "start") \/ Last(q, "start")
            \/ Last(q, "return")
         /\ Calls(q) => /\ Head(q) = "start"
                         /\ Waiting(q) \in Left("start") /\ Head(Waiting(q)) = "return"
<1> DEFINE a == <<"get", "want", "mint", "start">>
           b == <<"want", "mint", "start">>
           c == <<"mint", "start">>
           d == <<"start">>
           e == <<"return">>
<1>1. Head(a) = "get" /\ Tail(a) = b /\ a # <<>> /\ a \in Seq(StepNames)
  BY DEF StepNames
<1>2. Head(b) = "want" /\ Tail(b) = c /\ b # <<>> /\ b \in Seq(StepNames)
  BY DEF StepNames
<1>3. Head(c) = "mint" /\ Tail(c) = d /\ c # <<>> /\ c \in Seq(StepNames)
  BY DEF StepNames
<1>4. Head(d) = "start" /\ Tail(d) = <<>> /\ d # <<>> /\ d \in Seq(StepNames)
  BY DEF StepNames
<1>5. Head(e) = "return" /\ Tail(e) = <<>> /\ e # <<>> /\ e \in Seq(StepNames)
  BY DEF StepNames
<1>6. [d EXCEPT ![1] = "return"] = e
  OBVIOUS
<1>7. Left("start") = {a, b, c, d, e}
  BY DEF Left, StartSteps
<1> HIDE DEF a, b, c, d, e
<1>8. QED
  BY <1>1, <1>2, <1>3, <1>4, <1>5, <1>6, <1>7
     DEF Then, Last, Calls, Waiting

\* What may be left of a "stop", and what its next step leaves.
LEMMA StopLeft ==
  ASSUME NEW q \in Left("stop")
  PROVE  /\ q \in Seq(StepNames) /\ q # <<>>
         /\ Tail(q) = <<>> \/ Tail(q) \in Left("stop")
         /\ \/ Then(q, "get", "unwant") \/ Then(q, "unwant", "stop")
            \/ Last(q, "stop") \/ Last(q, "return")
         /\ Calls(q) => /\ Head(q) = "stop"
                         /\ Waiting(q) \in Left("stop") /\ Head(Waiting(q)) = "return"
<1> DEFINE a == <<"get", "unwant", "stop">>
           b == <<"unwant", "stop">>
           c == <<"stop">>
           d == <<"return">>
<1>1. Head(a) = "get" /\ Tail(a) = b /\ a # <<>> /\ a \in Seq(StepNames)
  BY DEF StepNames
<1>2. Head(b) = "unwant" /\ Tail(b) = c /\ b # <<>> /\ b \in Seq(StepNames)
  BY DEF StepNames
<1>3. Head(c) = "stop" /\ Tail(c) = <<>> /\ c # <<>> /\ c \in Seq(StepNames)
  BY DEF StepNames
<1>4. Head(d) = "return" /\ Tail(d) = <<>> /\ d # <<>> /\ d \in Seq(StepNames)
  BY DEF StepNames
<1>5. [c EXCEPT ![1] = "return"] = d
  OBVIOUS
<1>6. Left("stop") = {a, b, c, d}
  BY DEF Left, StopSteps
<1> HIDE DEF a, b, c, d
<1>7. QED
  BY <1>1, <1>2, <1>3, <1>4, <1>5, <1>6
     DEF Then, Last, Calls, Waiting

\* What may be left of a "restart", and what its next step leaves.
LEMMA RestartLeft ==
  ASSUME NEW q \in Left("restart")
  PROVE  /\ q \in Seq(StepNames) /\ q # <<>>
         /\ Tail(q) = <<>> \/ Tail(q) \in Left("restart")
         /\ \/ Then(q, "get", "want") \/ Then(q, "want", "mint")
            \/ Then(q, "mint", "restart") \/ Last(q, "restart")
            \/ Last(q, "return")
         /\ Calls(q) => /\ Head(q) = "restart"
                         /\ Waiting(q) \in Left("restart") /\ Head(Waiting(q)) = "return"
<1> DEFINE a == <<"get", "want", "mint", "restart">>
           b == <<"want", "mint", "restart">>
           c == <<"mint", "restart">>
           d == <<"restart">>
           e == <<"return">>
<1>1. Head(a) = "get" /\ Tail(a) = b /\ a # <<>> /\ a \in Seq(StepNames)
  BY DEF StepNames
<1>2. Head(b) = "want" /\ Tail(b) = c /\ b # <<>> /\ b \in Seq(StepNames)
  BY DEF StepNames
<1>3. Head(c) = "mint" /\ Tail(c) = d /\ c # <<>> /\ c \in Seq(StepNames)
  BY DEF StepNames
<1>4. Head(d) = "restart" /\ Tail(d) = <<>> /\ d # <<>> /\ d \in Seq(StepNames)
  BY DEF StepNames
<1>5. Head(e) = "return" /\ Tail(e) = <<>> /\ e # <<>> /\ e \in Seq(StepNames)
  BY DEF StepNames
<1>6. [d EXCEPT ![1] = "return"] = e
  OBVIOUS
<1>7. Left("restart") = {a, b, c, d, e}
  BY DEF Left, RestartSteps
<1> HIDE DEF a, b, c, d, e
<1>8. QED
  BY <1>1, <1>2, <1>3, <1>4, <1>5, <1>6, <1>7
     DEF Then, Last, Calls, Waiting

\* What may be left of a "put", and what its next step leaves.
LEMMA PutLeft ==
  ASSUME NEW q \in Left("put")
  PROVE  /\ q \in Seq(StepNames) /\ q # <<>>
         /\ Tail(q) = <<>> \/ Tail(q) \in Left("put")
         /\ \/ Then(q, "get", "save") \/ Last(q, "save")
         /\ ~Calls(q)
<1> DEFINE a == <<"get", "save">>
           b == <<"save">>
<1>1. Head(a) = "get" /\ Tail(a) = b /\ a # <<>> /\ a \in Seq(StepNames)
  BY DEF StepNames
<1>2. Head(b) = "save" /\ Tail(b) = <<>> /\ b # <<>> /\ b \in Seq(StepNames)
  BY DEF StepNames
<1>3. Left("put") = {a, b}
  BY DEF Left, PutSteps
<1> HIDE DEF a, b
<1>4. QED
  BY <1>1, <1>2, <1>3
     DEF Then, Last, Calls, Waiting

\* What may be left of a station of the boot loop, and what its next step leaves.
LEMMA BootLeft ==
  ASSUME NEW q \in Left("boot")
  PROVE  /\ q \in Seq(StepNames) /\ q # <<>>
         /\ Tail(q) = <<>> \/ Tail(q) \in Left("boot")
         /\ \/ Then(q, "mint", "start") \/ Last(q, "start")
            \/ Last(q, "return")
         /\ Calls(q) => /\ Head(q) = "start"
                         /\ Waiting(q) \in Left("boot") /\ Head(Waiting(q)) = "return"
<1> DEFINE a == <<"mint", "start">>
           b == <<"start">>
           c == <<"return">>
<1>1. Head(a) = "mint" /\ Tail(a) = b /\ a # <<>> /\ a \in Seq(StepNames)
  BY DEF StepNames
<1>2. Head(b) = "start" /\ Tail(b) = <<>> /\ b # <<>> /\ b \in Seq(StepNames)
  BY DEF StepNames
<1>3. Head(c) = "return" /\ Tail(c) = <<>> /\ c # <<>> /\ c \in Seq(StepNames)
  BY DEF StepNames
<1>4. [b EXCEPT ![1] = "return"] = c
  OBVIOUS
<1>5. Left("boot") = {a, b, c}
  BY DEF Left, BootSteps
<1> HIDE DEF a, b, c
<1>6. QED
  BY <1>1, <1>2, <1>3, <1>4, <1>5
     DEF Then, Last, Calls, Waiting

\* The next step of a request tells the request and the step after it.
LEMMA NextStep ==
  ASSUME NEW r \in Kinds, NEW q \in Left(r)
  PROVE  /\ q \in Seq(StepNames) /\ q # <<>>
         /\ Tail(q) = <<>> \/ Tail(q) \in Left(r)
         /\ Calls(q) => /\ Head(q) = RunnerOp(r)
                         /\ Waiting(q) \in Left(r) /\ Head(Waiting(q)) = "return"
         /\ \/ r = "create" /\ \/ Then(q, "insert", "config") \/ Then(q, "config", "script")
                               \/ Then(q, "script", "mint")
            \/ r \in {"create", "start", "boot"} /\ Then(q, "mint", "start")
            \/ r = "restart" /\ Then(q, "mint", "restart")
            \/ r \in {"start", "restart"} /\ Then(q, "get", "want")
            \/ r \in {"start", "restart"} /\ Then(q, "want", "mint")
            \/ r = "stop" /\ \/ Then(q, "get", "unwant") \/ Then(q, "unwant", "stop")
            \/ r = "put" /\ \/ Then(q, "get", "save") \/ Last(q, "save")
            \/ r = "delete" /\ \/ Then(q, "stop", "unregister") \/ Then(q, "return", "unregister")
                               \/ Then(q, "unregister", "delete") \/ Then(q, "delete", "remove")
                               \/ Last(q, "remove")
            \/ r \in {"create", "start", "boot"} /\ Last(q, "start")
            \/ r = "restart" /\ Last(q, "restart")
            \/ r = "stop" /\ Last(q, "stop")
            \/ r \in {"create", "start", "stop", "restart", "boot"} /\ Last(q, "return")
<1>1. CASE r = "create"  BY <1>1, CreateLeft DEF RunnerOp
<1>2. CASE r = "delete"  BY <1>2, DeleteLeft DEF RunnerOp
<1>3. CASE r = "start"   BY <1>3, StartLeft DEF RunnerOp
<1>4. CASE r = "stop"    BY <1>4, StopLeft DEF RunnerOp
<1>5. CASE r = "restart" BY <1>5, RestartLeft DEF RunnerOp
<1>6. CASE r = "put"     BY <1>6, PutLeft DEF RunnerOp
<1>7. CASE r = "boot"    BY <1>7, BootLeft DEF RunnerOp
<1>8. QED
  BY <1>1, <1>2, <1>3, <1>4, <1>5, <1>6, <1>7 DEF Kinds

\* A new request has all its steps left.
LEMMA StepsLeft == ASSUME NEW r \in Kinds PROVE Steps(r) \in Left(r)
BY DEF Steps, Left, Kinds

-----------------------------------------------------------------------------
\* The part of PanelTypeOK that a request changes.
RequestTypes ==
    /\ request \in [Threads -> Requests \cup {"boot", None}]
    /\ slug \in [Threads -> Keys \cup {None}]
    /\ todo \in [Threads -> Seq(StepNames)]
    /\ reply \in [Threads -> {"ok", "error", None}]

\* The request of goroutine u does not move.
SameRequest(u) == /\ request'[u] = request[u] /\ slug'[u] = slug[u]
                  /\ todo'[u] = todo[u] /\ reply'[u] = reply[u]

\* Where an answer leaves the requests.
LEMMA AnswerStep ==
  ASSUME PanelTypeOK, NEW t \in Threads, NEW r \in {"ok", "error"}, Answer(t, r)
  PROVE  /\ RequestTypes'
         /\ request'[t] = None /\ todo'[t] = <<>> /\ reply'[t] = r
         /\ \A u \in Threads : u # t => SameRequest(u)
         /\ UNCHANGED <<phase, bootq, deaths>>
         /\ skipped' = IF request[t] = "boot" /\ r = "error" THEN skipped \cup {slug[t]} ELSE skipped
<1>1. <<>> \in Seq(StepNames)
  OBVIOUS
<1>2. QED
  BY <1>1 DEF PanelTypeOK, RequestTypes, Answer, SameRequest

\* A request that a goroutine serves, and its next step.
LEMMA Served ==
  ASSUME PanelTypeOK, NEW t \in Threads, RequestOK(t), request[t] # None
  PROVE  /\ request[t] \in Kinds /\ slug[t] \in Keys /\ todo[t] \in Left(request[t])
         /\ request[t] # "boot" => request[t] \in Requests
BY PanelAssumption DEF Kinds, PanelTypeOK, RequestOK

\* Where a step that succeeds leaves them.
LEMMA AdvanceStep ==
  ASSUME PanelTypeOK, NEW t \in Threads, RequestOK(t), request[t] # None, Advance(t),
         Tail(todo[t]) # <<>>
  PROVE  /\ RequestTypes'
         /\ request'[t] = request[t] /\ slug'[t] = slug[t] /\ reply'[t] = reply[t]
         /\ todo'[t] = Tail(todo[t]) /\ todo'[t] \in Left(request[t])
         /\ \A u \in Threads : u # t => SameRequest(u)
         /\ UNCHANGED bootVars
<1>1. Tail(todo[t]) \in Left(request[t]) /\ Tail(todo[t]) \in Seq(StepNames)
  BY Served, NextStep
<1>2. /\ todo' = [todo EXCEPT ![t] = Tail(@)]
      /\ UNCHANGED <<request, slug, reply, bootVars>>
  BY DEF Advance
<1>3. QED
  BY <1>1, <1>2 DEF PanelTypeOK, RequestTypes, SameRequest

-----------------------------------------------------------------------------
(* SharedPanelInv: what holds of every station, crossed or not.            *)

DiskTypes ==
    /\ row \in [Keys -> {"none", "run", "halt"}]
    /\ config \in [Keys -> {"none", "partial", "whole"}]
    /\ script \in [Keys -> {"none", "cut", "starter", "edited"}]

BootTypes ==
    /\ phase \in {"down", "boot", "serving"}
    /\ bootq \subseteq Keys
    /\ skipped \subseteq Keys
    /\ deaths \in 0..MaxDeaths

\* PanelTypeOK speaks of the Runner, the disk, the requests and the boot.
LEMMA PanelTypeSplit ==
  PanelTypeOK' <=> TypeOK' /\ DiskTypes' /\ RequestTypes' /\ BootTypes'
BY DEF PanelTypeOK, DiskTypes, RequestTypes, BootTypes

\* Requests stay apart over a step in which none begins.
LEMMA RequestsStayApart ==
  ASSUME RequestsApart, crossed \subseteq crossed',
         \A u \in Threads : request'[u] # None => request'[u] = request[u] /\ slug'[u] = slug[u]
  PROVE  RequestsApart'
BY DEF RequestsApart

\* A goroutine that is in no call, or only waits, is not in the Runner.
LEMMA NotInRunner ==
  ASSUME NEW t \in Threads, RequestOK(t), NEW s, At(t, s), s # "return"
  PROVE  pc[t] = "idle" /\ request[t] # None
BY DEF RequestOK, At

\* The table and the files as a boot finds them stay as they are.
LEMMA BootTouchesNothing ==
  ASSUME SharedPanelInv, NEW t \in Threads, request[t] # None, phase # "serving"
  PROVE  /\ phase = "boot" /\ request[t] = "boot"
         /\ Head(todo[t]) \in {"mint", "start", "return"}
<1>1. phase = "boot" /\ request[t] = "boot"
  BY DEF SharedPanelInv, BootOK, PanelTypeOK
<1>2. todo[t] \in Left("boot")
  BY <1>1 DEF SharedPanelInv, RequestOK
<1>3. QED
  BY <1>1, <1>2, BootLeft DEF Then, Last

\* A boot request that ends has started its station or skips it.
LEMMA BootEnding ==
  ASSUME SharedPanelInv, NEW t \in Threads, NEW r \in {"ok", "error"}, Answer(t, r),
         UNCHANGED vars, phase # "serving" => row' = row,
         request[t] = "boot" /\ r = "ok" => procs[slug[t]] # None
  PROVE  BootOK'
<1> USE DEF SharedPanelInv
<1>1. /\ request'[t] = None /\ \A u \in Threads : u # t => SameRequest(u)
      /\ UNCHANGED <<phase, bootq>>
      /\ skipped' = IF request[t] = "boot" /\ r = "error" THEN skipped \cup {slug[t]} ELSE skipped
  BY AnswerStep
<1>2. None # "boot"
  BY PanelAssumption DEF Kinds
<1>3. CASE phase = "serving"
  BY <1>1, <1>2, <1>3 DEF BootOK, SameRequest
<1>4. CASE phase = "down"
  BY <1>1, <1>2, <1>4 DEF BootOK, SameRequest
<1>5. CASE phase = "boot"
  <2>1. row' = row /\ procs' = procs /\ ret' = ret
    BY <1>5 DEF vars
  <2>2. ASSUME NEW k \in Keys, row[k] = "run"
        PROVE  \/ k \in bootq' \cup skipped' \/ procs'[k] # None
               \/ \E u \in Threads : request'[u] = "boot" /\ slug'[u] = k
    <3>1. CASE request[t] = "boot" /\ slug[t] = k
      BY <1>1, <2>1, <3>1
    <3>2. CASE ~(request[t] = "boot" /\ slug[t] = k)
      BY <1>1, <1>5, <2>1, <2>2, <3>2 DEF BootOK, SameRequest
    <3>3. QED
      BY <3>1, <3>2
  <2>3. \A u \in Threads : request'[u] \in {None, "boot"}
    BY <1>1, <1>5 DEF BootOK, SameRequest
  <2>4. \A u \in Threads :
           request'[u] = "boot" => /\ row[slug'[u]] = "run"
                                   /\ At(u, "return")' /\ ret[u] = "ok" => procs[slug'[u]] # None
    BY <1>1, <1>2, <1>5 DEF BootOK, SameRequest, At
  <2>5. QED
    BY <1>1, <1>5, <2>1, <2>2, <2>3, <2>4 DEF BootOK
<1>6. QED
  BY <1>3, <1>4, <1>5 DEF PanelTypeOK

\* A handler's own step: it ends the request or goes on to the next step.
LEMMA HandlerKeeps ==
  ASSUME SharedPanelInv, NEW t \in Threads, request[t] # None, pc[t] = "idle",
         UNCHANGED vars, DiskTypes', phase # "serving" => row' = row,
         Answer(t, "error") \/ (Advance(t) /\ ~Calls(todo[t])),
         request[t] = "boot" /\ At(t, "return") /\ Advance(t) => ret[t] = "ok"
  PROVE  SharedPanelInv'
<1> USE DEF SharedPanelInv
<1> DEFINE q == todo[t]
<1>1. IInv'
  <2>1. [Next]_vars
    OBVIOUS
  <2>2. QED
    BY <2>1, NextKeeps
<1>2. BootTypes /\ TypeOK' /\ (request[t] = "boot" => slug[t] \in Keys)
  BY <1>1 DEF PanelTypeOK, BootTypes, RequestOK, IInv, SharedInv
<1>3. request[t] \in Kinds /\ slug[t] \in Keys /\ q \in Left(request[t])
  BY Served
<1>4. ASSUME NEW r \in {"ok", "error"}, Answer(t, r),
             request[t] = "boot" /\ r = "ok" => procs[slug[t]] # None
      PROVE  SharedPanelInv'
  <2>1. /\ RequestTypes' /\ request'[t] = None /\ todo'[t] = <<>>
        /\ \A u \in Threads : u # t => SameRequest(u)
        /\ UNCHANGED <<phase, bootq, deaths>>
        /\ skipped' = IF request[t] = "boot" /\ r = "error" THEN skipped \cup {slug[t]} ELSE skipped
    BY <1>4, AnswerStep
  <2>2. PanelTypeOK'
    BY <1>2, <2>1, PanelTypeSplit DEF BootTypes
  <2>3. ASSUME NEW u \in Threads PROVE RequestOK(u)'
    <3>1. pc'[u] = pc[u] /\ op'[u] = op[u] /\ arg'[u] = arg[u]
      BY DEF vars
    <3>2. CASE u = t
      BY <2>1, <3>1, <3>2 DEF RequestOK
    <3>3. CASE u # t
      BY <2>1, <3>1, <3>3 DEF RequestOK, SameRequest, At
    <3>4. QED
      BY <3>2, <3>3
  <2>4. BootOK'
    BY <1>4, BootEnding
  <2>5. RequestsApart'
    <3>1. crossed' = crossed
      BY DEF vars
    <3>2. QED
      BY <2>1, <3>1, RequestsStayApart DEF SameRequest
  <2>6. QED
    BY <1>1, <2>2, <2>3, <2>4, <2>5
<1>5. CASE Answer(t, "error")
  BY <1>4, <1>5
<1>6. CASE Advance(t) /\ ~Calls(q) /\ Tail(q) = <<>>
  <2>1. Answer(t, "ok")
    BY <1>6 DEF Advance
  <2>2. ASSUME request[t] = "boot" PROVE procs[slug[t]] # None
    <3>1. At(t, "return") /\ ret[t] = "ok"
      BY <1>3, <1>6, <2>2, BootLeft DEF Then, Last, Calls, At
    <3>2. QED
      BY <2>2, <3>1 DEF BootOK
  <2>3. QED
    BY <1>4, <2>1, <2>2
<1>7. CASE Advance(t) /\ ~Calls(q) /\ Tail(q) # <<>>
  <2>1. /\ RequestTypes'
        /\ request'[t] = request[t] /\ slug'[t] = slug[t] /\ reply'[t] = reply[t]
        /\ todo'[t] = Tail(q) /\ todo'[t] \in Left(request[t])
        /\ \A u \in Threads : u # t => SameRequest(u)
        /\ UNCHANGED bootVars
    BY <1>7, AdvanceStep
  <2>2. PanelTypeOK'
    BY <1>2, <2>1, PanelTypeSplit DEF BootTypes, bootVars
  <2>3. ASSUME NEW u \in Threads PROVE RequestOK(u)'
    <3>1. pc'[u] = pc[u] /\ op'[u] = op[u] /\ arg'[u] = arg[u]
      BY DEF vars
    <3>2. CASE u = t
      BY <2>1, <3>1, <3>2 DEF RequestOK
    <3>3. CASE u # t
      BY <2>1, <3>1, <3>3 DEF RequestOK, SameRequest, At
    <3>4. QED
      BY <3>2, <3>3
  <2>4. BootOK'
    <3>1. \A u \in Threads : request'[u] = request[u] /\ slug'[u] = slug[u]
      BY <2>1 DEF SameRequest
    <3>2. ASSUME NEW u \in Threads, request[u] = "boot", At(u, "return")' PROVE At(u, "return")
      <4>1. CASE u = t
        BY <1>3, <1>7, <2>1, <3>2, <4>1, BootLeft DEF Then, Last, At, Calls
      <4>2. CASE u # t
        BY <2>1, <3>2, <4>2 DEF SameRequest, At
      <4>3. QED
        BY <4>1, <4>2
    <3>3. CASE phase = "serving"
      BY <2>1, <3>1, <3>3 DEF BootOK, bootVars
    <3>4. CASE phase # "serving"
      <4>1. row' = row /\ procs' = procs /\ ret' = ret /\ UNCHANGED <<phase, bootq, skipped>>
        BY <2>1, <3>4 DEF bootVars, vars
      <4>2. QED
        BY <3>1, <3>2, <4>1 DEF BootOK
    <3>5. QED
      BY <3>3, <3>4
  <2>5. RequestsApart'
    <3>1. crossed' = crossed
      BY DEF vars
    <3>2. QED
      BY <2>1, <3>1, RequestsStayApart DEF SameRequest
  <2>6. QED
    BY <1>1, <2>2, <2>3, <2>4, <2>5
<1>8. QED
  BY <1>5, <1>6, <1>7

\* A step that moves only the files.
LEMMA FilesKeep ==
  ASSUME SharedPanelInv, UNCHANGED <<vars, row, reqVars, bootVars>>, DiskTypes'
  PROVE  SharedPanelInv'
<1>1. IInv'
  BY NextKeeps DEF SharedPanelInv
<1>2. /\ UNCHANGED <<pc, op, arg, ret, procs, crossed, row>>
      /\ UNCHANGED <<request, slug, todo, reply, phase, bootq, skipped, deaths>>
  BY DEF vars, reqVars, bootVars
<1>3. PanelTypeOK'
  BY <1>1, <1>2, PanelTypeSplit DEF SharedPanelInv, PanelTypeOK, IInv, SharedInv, RequestTypes,
                                    BootTypes
<1>4. BootOK' /\ RequestsApart' /\ \A u \in Threads : RequestOK(u)'
  BY <1>2 DEF SharedPanelInv, BootOK, RequestsApart, RequestOK, At
<1>5. QED
  BY <1>1, <1>3, <1>4 DEF SharedPanelInv

\* An error ends the request: the handler does not go on.
LEMMA AnswerIsFinal ==
  ASSUME PanelTypeOK, NEW t \in Threads, Answer(t, "error")
  PROVE  ~Advance(t)
<1>1. reply'[t] = "error" /\ todo'[t] = <<>>
  BY AnswerStep
<1>2. ASSUME Answer(t, "ok") PROVE FALSE
  BY <1>1, <1>2, AnswerStep
<1>3. ASSUME todo' = [todo EXCEPT ![t] = Tail(@)], Tail(todo[t]) # <<>> PROVE FALSE
  BY <1>1, <1>3 DEF PanelTypeOK
<1>4. QED
  BY <1>2, <1>3 DEF Advance

\* No step of a handler's own breaks it.
LEMMA OwnStepKeeps ==
  ASSUME SharedPanelInv, NEW t \in Threads, Handle(t), ~CallRunner(t)
  PROVE  SharedPanelInv'
<1>1. DiskTypes
  BY DEF SharedPanelInv, PanelTypeOK, DiskTypes
<1>2. ASSUME NEW s \in StepNames, s \notin {"start", "stop", "restart", "return"}, At(t, s),
             UNCHANGED vars, DiskTypes', Answer(t, "error") \/ Advance(t),
             row' # row => s \in {"insert", "want", "unwant", "delete"}
      PROVE  SharedPanelInv'
  <2>1. request[t] # None /\ pc[t] = "idle"
    BY <1>2, NotInRunner DEF SharedPanelInv
  <2>2. ~Calls(todo[t]) /\ ~At(t, "return")
    BY <1>2 DEF At, Calls
  <2>3. phase # "serving" => row' = row
    BY <1>2, <2>1, BootTouchesNothing DEF At
  <2>4. QED
    BY <1>2, <2>1, <2>2, <2>3, HandlerKeeps
<1>3. slug[t] \in Keys \/ request[t] = None
  BY DEF SharedPanelInv, RequestOK
<1>4. CASE Fails(t)
  BY <1>1, <1>2, <1>4 DEF Fails, StepNames, diskVars, DiskTypes
<1>5. CASE Insert(t)
  BY <1>1, <1>2, <1>5 DEF Insert, StepNames, DiskTypes
<1>6. CASE Get(t)
  BY <1>1, <1>2, <1>6 DEF Get, StepNames, diskVars, DiskTypes
<1>7. CASE Want(t)
  BY <1>1, <1>2, <1>7 DEF Want, SetDesired, StepNames, DiskTypes
<1>8. CASE Unwant(t)
  BY <1>1, <1>2, <1>8 DEF Unwant, SetDesired, StepNames, DiskTypes
<1>9. CASE DeleteRow(t)
  BY <1>1, <1>2, <1>9 DEF DeleteRow, StepNames, DiskTypes
<1>10. CASE WriteConfig(t)
  BY <1>1, <1>2, <1>10 DEF WriteConfig, StepNames, DiskTypes
<1>11. CASE WriteScript(t)
  BY <1>1, <1>2, <1>11 DEF WriteScript, StepNames, DiskTypes
<1>12. CASE Save(t)
  BY <1>1, <1>2, <1>12 DEF Save, StepNames, DiskTypes
<1>13. CASE RemoveFiles(t)
  BY <1>1, <1>2, <1>13 DEF RemoveFiles, StepNames, DiskTypes
<1>14. CASE MintOrUnregister(t)
  BY <1>1, <1>2, <1>14 DEF MintOrUnregister, StepNames, diskVars, DiskTypes
<1>15. CASE RunnerReturned(t)
  <2>1. /\ request[t] # None /\ pc[t] = "idle" /\ ~Calls(todo[t])
        /\ UNCHANGED vars /\ DiskTypes' /\ row' = row
    BY <1>1, <1>15 DEF RunnerReturned, At, Calls, diskVars, DiskTypes
  <2>2. CASE ret[t] = "ok" \/ request[t] = "delete"
    BY <1>15, <2>1, <2>2, HandlerKeeps DEF RunnerReturned
  <2>3. CASE ~(ret[t] = "ok" \/ request[t] = "delete")
    <3>1. Answer(t, "error")
      BY <1>15, <2>3 DEF RunnerReturned
    <3>2. ~Advance(t)
      BY <3>1, AnswerIsFinal DEF SharedPanelInv
    <3>3. QED
      BY <2>1, <3>1, <3>2, HandlerKeeps
  <2>4. QED
    BY <2>2, <2>3
<1>16. CASE BeginsWrite(t)
  BY <1>1, <1>3, <1>16, FilesKeep DEF BeginsWrite, At, DiskTypes
<1>17. QED
  BY <1>4, <1>5, <1>6, <1>7, <1>8, <1>9, <1>10, <1>11, <1>12, <1>13, <1>14, <1>15, <1>16 DEF Handle

\* Entering the Runner.
LEMMA CallRunnerKeeps ==
  ASSUME SharedPanelInv, NEW t \in Threads, CallRunner(t)
  PROVE  SharedPanelInv'
<1> USE DEF SharedPanelInv
<1> DEFINE q == todo[t]
<1>1. PICK o \in {"start", "stop", "restart"} : At(t, o) /\ Call(t, o, slug[t])
  BY DEF CallRunner
<1>2. pc[t] = "idle" /\ request[t] # None /\ Head(q) = o /\ Calls(q)
  BY <1>1, NotInRunner DEF At, Calls
<1>3. request[t] \in Kinds /\ slug[t] \in Keys /\ q \in Left(request[t]) /\ reply[t] = None
  BY <1>2, Served DEF RequestOK
<1>4. /\ o = RunnerOp(request[t])
      /\ Waiting(q) \in Left(request[t]) /\ Head(Waiting(q)) = "return"
  BY <1>2, <1>3, NextStep
<1>5. IInv'
  BY <1>1, <1>3, CallKeeps
<1>6. Waiting(q) # <<>> /\ Waiting(q) \in Seq(StepNames)
  BY <1>3, <1>4, NextStep
<1>7. /\ todo'[t] = Waiting(q) /\ todo' \in [Threads -> Seq(StepNames)]
      /\ \A u \in Threads : u # t => SameRequest(u)
      /\ UNCHANGED <<diskVars, request, slug, reply, bootVars>>
  BY <1>6 DEF CallRunner, PanelTypeOK, SameRequest, Waiting
<1>8. PanelTypeOK'
  BY <1>5, <1>7 DEF PanelTypeOK, IInv, SharedInv, diskVars, bootVars
<1>9. /\ pc'[t] = (IF o = "start" THEN "check" ELSE "lookup")
      /\ op'[t] = o /\ arg'[t] = slug[t] /\ ret'[t] = None
      /\ \A u \in Threads : u # t => SameThread(u) /\ ret'[u] = ret[u]
      /\ procs' = procs
  <2>1. TypeOK
    BY DEF PanelTypeOK
  <2>2. QED
    BY <1>1, <2>1 DEF Call, TypeOK, SameThread
<1>10. ASSUME NEW u \in Threads PROVE RequestOK(u)'
  <2>1. CASE u = t
    BY <1>2, <1>3, <1>4, <1>6, <1>7, <1>9, <2>1 DEF RequestOK, At
  <2>2. CASE u # t
    BY <1>7, <1>9, <2>2 DEF RequestOK, At, SameRequest, SameThread
  <2>3. QED
    BY <2>1, <2>2
<1>11. BootOK'
  <2>1. None # "ok"
    BY PanelAssumption
  <2>2. \A u \in Threads : At(u, "return")' /\ ret'[u] = "ok" => At(u, "return") /\ ret[u] = "ok"
    BY <1>7, <1>9, <2>1 DEF At, SameRequest
  <2>3. QED
    BY <1>7, <1>9, <2>2 DEF BootOK, diskVars, bootVars
<1>12. RequestsApart'
  <2>1. crossed \subseteq crossed'
    BY <1>1 DEF Call
  <2>2. QED
    BY <1>7, <2>1, RequestsStayApart
<1>13. QED
  BY <1>5, <1>8, <1>10, <1>11, <1>12

\* What a step in the Runner does to the call it is a step of.
LEMMA StepMoves ==
  ASSUME IInv, NEW t \in Threads, Step(t)
  PROVE  /\ pc[t] # "idle"
         /\ \/ pc'[t] = "idle" /\ op'[t] = None
            \/ /\ op'[t] = op[t] /\ arg'[t] = arg[t]
               /\ op[t] = "start" /\ pc[t] \in StartPCs => pc'[t] \in StartPCs
               /\ op[t] = "stop" /\ pc[t] \in StopPCs => pc'[t] \in StopPCs
         /\ \A u \in Threads : u # t => SameThread(u) /\ ret'[u] = ret[u]
         /\ crossed' = crossed
         /\ \A k \in Keys : procs[k] # None => procs'[k] # None
         /\ op[t] = "start" /\ pc[t] \in StartPCs /\ ret'[t] = "ok"
              => ret[t] = "ok" \/ procs'[arg[t]] # None
<1> USE DEF IInv, SharedInv
<1>1. ASSUME NEW l, NEW p, Goto(t, l, p)
      PROVE  /\ pc'[t] = l /\ op' = op /\ arg' = arg /\ ret' = ret /\ crossed' = crossed
             /\ \A u \in Threads : u # t => SameThread(u)
  BY <1>1 DEF Goto, TypeOK, SameThread
<1>2. ASSUME NEW r, Return(t, r)
      PROVE  /\ pc'[t] = "idle" /\ op'[t] = None /\ ret'[t] = r /\ crossed' = crossed
             /\ \A u \in Threads : u # t => SameThread(u) /\ ret'[u] = ret[u]
  BY <1>2 DEF Return, TypeOK, SameThread
<1>3. ThreadOK(t)
  BY DEF ThreadInv
<1>4. CASE StartCheck(t)
  <2>1. pc[t] = "check" /\ procs' = procs
    BY <1>4 DEF StartCheck
  <2>2. CASE Running(procs[arg[t]])
    BY <1>2, <1>4, <2>1, <2>2 DEF StartCheck
  <2>3. CASE ~Running(procs[arg[t]])
    BY <1>1, <1>4, <2>1, <2>3 DEF StartCheck
  <2>4. QED
    BY <2>2, <2>3
<1>5. CASE SpawnFails(t)
  <2>1. pc[t] = "spawn" /\ procs' = procs /\ Return(t, "error")
    BY <1>5 DEF SpawnFails
  <2>2. /\ pc'[t] = "idle" /\ op'[t] = None /\ ret'[t] = "error" /\ crossed' = crossed
        /\ \A u \in Threads : u # t => SameThread(u) /\ ret'[u] = ret[u]
    BY <1>2, <2>1
  <2>3. QED
    BY <2>1, <2>2
<1>6. ASSUME NEW p \in Procs, Spawn(t, p)
       PROVE  /\ pc[t] = "spawn" /\ pc'[t] = "publish" /\ procs' = procs
              /\ op' = op /\ arg' = arg /\ ret' = ret /\ crossed' = crossed
              /\ \A u \in Threads : u # t => SameThread(u)
  BY <1>1, <1>6 DEF Spawn
<1>7. CASE StartPublish(t)
  <2>1. /\ pc[t] = "publish" /\ cur[t] \in Procs /\ arg[t] \in Keys
        /\ procs' = [procs EXCEPT ![arg[t]] = cur[t]] /\ Return(t, "ok")
    BY <1>3, <1>7 DEF StartPublish, ThreadOK
  <2>2. procs'[arg[t]] # None /\ \A k \in Keys : procs[k] # None => procs'[k] # None
    BY <2>1 DEF TypeOK
  <2>3. QED
    BY <1>2, <2>1, <2>2
<1>8. CASE StopStep(t) /\ op[t] # "restart"
  BY <1>1, <1>2, <1>3, <1>8 DEF StopStep, Lookup, StopMark, StopSignal, StopSawDone,
                                StopTimesOut, StopReturns, ThreadOK
<1>9. CASE StopStep(t) /\ op[t] = "restart"
  BY <1>1, <1>2, <1>3, <1>9 DEF StopStep, Lookup, StopMark, StopSignal, StopSawDone,
                                StopTimesOut, StopReturns, ThreadOK
<1>10. CASE StatusRead(t)
  BY <1>2, <1>10 DEF StatusRead
<1>11. QED
  BY <1>4, <1>5, <1>6, <1>7, <1>8, <1>9, <1>10 DEF Step, StartStep

\* A step in the Runner brings to life only a process of its call's key.
LEMMA SpawnsForItsCall ==
  ASSUME IInv, NEW t \in Threads, Step(t), NEW p \in Procs, os'[p] = "alive"
  PROVE  owner'[p] = arg[t] \/ (os[p] = "alive" /\ owner'[p] = owner[p])
<1>1. ASSUME NEW q \in Procs, Spawn(t, q)
      PROVE  owner'[p] = arg[t] \/ (os[p] = "alive" /\ owner'[p] = owner[p])
  <2>1. TypeOK
    BY DEF IInv, SharedInv
  <2>2. os' = [os EXCEPT ![q] = "alive"] /\ owner' = [owner EXCEPT ![q] = arg[t]]
    BY <1>1 DEF Spawn
  <2>3. QED
    BY <2>1, <2>2 DEF TypeOK
<1>2. CASE ~\E q \in Procs : Spawn(t, q)
  <2>1. os' = os /\ owner' = owner
    BY <1>2 DEF Step, StartStep, StartCheck, SpawnFails, StartPublish, StopStep, Lookup,
                StopMark, StopSignal, StopSawDone, StopTimesOut, StatusRead
  <2>2. QED
    BY <2>1
<1>3. QED
  BY <1>1, <1>2

\* Nothing but the Runner moves: the requests see only its return.
LEMMA RunsKeeps ==
  ASSUME SharedPanelInv, NEW t \in Threads, Runs(t)
  PROVE  SharedPanelInv'
<1> USE DEF SharedPanelInv
<1>1. Step(t) /\ UNCHANGED <<diskVars, request, slug, todo, reply, bootVars>>
  BY DEF Runs, panelVars, reqVars
<1>2. IInv'
  BY <1>1, NextKeeps DEF Next
<1>3. PanelTypeOK'
  BY <1>1, <1>2 DEF PanelTypeOK, IInv, SharedInv, diskVars, bootVars
<1>4. /\ pc[t] # "idle"
      /\ \/ pc'[t] = "idle"
         \/ /\ op'[t] = op[t] /\ arg'[t] = arg[t]
            /\ op[t] = "start" /\ pc[t] \in StartPCs => pc'[t] \in StartPCs
            /\ op[t] = "stop" /\ pc[t] \in StopPCs => pc'[t] \in StopPCs
      /\ \A u \in Threads : u # t => SameThread(u) /\ ret'[u] = ret[u]
      /\ crossed' = crossed
      /\ \A k \in Keys : procs[k] # None => procs'[k] # None
      /\ op[t] = "start" /\ pc[t] \in StartPCs /\ ret'[t] = "ok"
           => ret[t] = "ok" \/ procs'[arg[t]] # None
  BY <1>1, StepMoves
<1>5. /\ At(t, "return") /\ arg[t] = slug[t] /\ op[t] = RunnerOp(request[t]) /\ slug[t] \in Keys
      /\ op[t] = "start" => pc[t] \in StartPCs
      /\ op[t] = "stop" => pc[t] \in StopPCs
  BY <1>4 DEF RequestOK, At
<1>6. ASSUME NEW u \in Threads PROVE RequestOK(u)'
  <2>1. CASE u = t
    BY <1>1, <1>4, <1>5, <2>1 DEF RequestOK, At
  <2>2. CASE u # t
    BY <1>1, <1>4, <2>2 DEF RequestOK, At, SameThread
  <2>3. QED
    BY <2>1, <2>2
<1>7. BootOK'
  <2>1. ASSUME NEW u \in Threads, request[u] = "boot", At(u, "return"), ret'[u] = "ok"
        PROVE  procs'[slug[u]] # None
    <3>1. slug[u] \in Keys /\ (ret[u] = "ok" => procs[slug[u]] # None)
      BY <2>1 DEF RequestOK, BootOK, At
    <3>2. CASE u = t
      BY <1>4, <1>5, <2>1, <3>1, <3>2 DEF RunnerOp
    <3>3. CASE u # t
      BY <1>4, <2>1, <3>1, <3>3
    <3>4. QED
      BY <3>2, <3>3
  <2>2. QED
    BY <1>1, <1>4, <2>1 DEF BootOK, At, diskVars, bootVars
<1>8. RequestsApart'
  BY <1>1, <1>4, RequestsStayApart
<1>9. QED
  BY <1>2, <1>3, <1>6, <1>7, <1>8

\* A child or a Wait goroutine moves no request and no call.
LEMMA ChildrenKeep ==
  ASSUME SharedPanelInv, NEW p \in Procs, Waits(p) \/ Exits(p)
  PROVE  SharedPanelInv'
<1> USE DEF SharedPanelInv
<1>1. UNCHANGED <<procs, thrVars, diskVars, request, slug, todo, reply, bootVars>>
  BY DEF Waits, WaitStep, WaitReaps, WaitRecords, WaitCloses, Exits, Exit, panelVars, reqVars
<1>2. IInv'
  BY NextKeeps DEF Next, Waits, Exits
<1>3. PanelTypeOK'
  BY <1>1, <1>2 DEF PanelTypeOK, IInv, SharedInv, diskVars, bootVars
<1>4. \A u \in Threads : RequestOK(u)'
  BY <1>1 DEF RequestOK, At
<1>5. BootOK' /\ RequestsApart'
  BY <1>1, RequestsStayApart DEF BootOK, At, diskVars, bootVars
<1>6. QED
  BY <1>2, <1>3, <1>4, <1>5

\* That more keys are crossed takes nothing from the invariant of the Runner.
LEMMA MoreCrossed ==
  ASSUME IInv, UNCHANGED <<procVars, osVars, pc, op, arg, cur, ret>>,
         crossed \subseteq crossed', crossed' \subseteq Keys
  PROVE  IInv'
<1> USE DEF IInv, SharedInv
<1>1. TypeOK'
  BY DEF TypeOK
<1>2. ProcInv' /\ ThreadInv' /\ PublisherInv' /\ KeyInv'
  BY DEF ProcInv, ProcOK, ThreadInv, ThreadOK, PublisherInv, OnePublisher, HasPublisher, KeyInv,
         KeyOK
<1>3. RunningIsTracked' /\ StarterInv'
  BY DEF RunningIsTracked, StarterInv, StartsApart, Starts, StarterOK, Running
<1>4. QED
  BY <1>1, <1>2, <1>3

\* A new request, or the next station of the boot loop.
LEMMA BeginKeeps ==
  ASSUME SharedPanelInv, NEW r \in Kinds, NEW k \in Keys,
         NEW t \in Threads, request[t] = None,
         r # "boot" => r \in Requests /\ phase = "serving",
         r = "boot" => phase = "boot" /\ row[k] = "run",
         request' = [request EXCEPT ![t] = r],
         slug' = [slug EXCEPT ![t] = k],
         todo' = [todo EXCEPT ![t] = Steps(r)],
         reply' = [reply EXCEPT ![t] = None],
         UNCHANGED <<procVars, osVars, pc, op, arg, cur, ret, diskVars, phase, skipped, deaths>>,
         crossed \subseteq crossed', crossed' \subseteq Keys,
         (\E u \in Threads : request[u] # None /\ slug[u] = k) => k \in crossed',
         bootq' \subseteq bootq,
         \A j \in bootq : j \in bootq' \/ (j = k /\ r = "boot")
  PROVE  SharedPanelInv'
<1> USE DEF SharedPanelInv
<1>1. IInv'
  BY MoreCrossed
<1>2. Steps(r) \in Left(r) /\ Steps(r) \in Seq(StepNames) /\ Steps(r) # <<>>
  BY StepsLeft, NextStep
<1>3. r \in Requests \cup {"boot"} /\ r # None
  BY PanelAssumption DEF Kinds
<1>4. PanelTypeOK'
  BY <1>1, <1>2, <1>3 DEF PanelTypeOK, IInv, SharedInv, diskVars
<1>5. /\ request'[t] = r /\ slug'[t] = k /\ todo'[t] = Steps(r) /\ reply'[t] = None
      /\ \A u \in Threads : u # t => SameRequest(u)
  BY DEF PanelTypeOK, SameRequest
<1>6. UNCHANGED <<pc, op, arg, ret, procs, row, phase, skipped>>
  BY DEF procVars, diskVars
<1>7. ASSUME NEW u \in Threads PROVE RequestOK(u)'
  <2>1. CASE u = t
    BY <1>2, <1>3, <1>5, <1>6, <2>1 DEF RequestOK
  <2>2. CASE u # t
    BY <1>5, <1>6, <2>2 DEF RequestOK, At, SameRequest
  <2>3. QED
    BY <2>1, <2>2
<1>8. BootOK'
  <2>1. r = "boot" => Head(Steps(r)) = "mint"
    BY DEF Steps, BootSteps
  <2>2. ASSUME NEW u \in Threads, request'[u] = "boot"
        PROVE  /\ phase = "boot" /\ row[slug'[u]] = "run"
               /\ At(u, "return")' /\ ret[u] = "ok" => procs[slug'[u]] # None
    <3>1. CASE u = t
      BY <1>5, <2>1, <2>2, <3>1 DEF At
    <3>2. CASE u # t
      BY <1>5, <2>2, <3>2 DEF BootOK, At, SameRequest
    <3>3. QED
      BY <3>1, <3>2
  <2>3. phase = "boot" => r = "boot" /\ \A u \in Threads : request'[u] \in {None, "boot"}
    BY <1>5 DEF BootOK, SameRequest
  <2>4. ASSUME phase = "boot", NEW j \in Keys, row[j] = "run"
        PROVE  \/ j \in bootq' \cup skipped \/ procs[j] # None
               \/ \E u \in Threads : request'[u] = "boot" /\ slug'[u] = j
    <3>1. CASE j = k
      BY <1>5, <2>3, <2>4, <3>1
    <3>2. CASE j # k
      <4>1. CASE \E u \in Threads : request[u] = "boot" /\ slug[u] = j
        BY <1>3, <1>5, <2>3, <2>4, <4>1 DEF SameRequest
      <4>2. CASE ~\E u \in Threads : request[u] = "boot" /\ slug[u] = j
        BY <2>4, <3>2, <4>2 DEF BootOK
      <4>3. QED
        BY <4>1, <4>2
    <3>3. QED
      BY <3>1, <3>2
  <2>5. phase # "down"
    BY <1>3
  <2>6. QED
    BY <1>6, <2>2, <2>3, <2>4, <2>5 DEF BootOK
<1>9. RequestsApart'
  <2>1. ASSUME NEW u \in Threads, NEW v \in Threads, u # v, request'[u] # None, request'[v] # None,
               slug'[u] = slug'[v], slug'[u] \in Uncrossed'
        PROVE  FALSE
    <3>1. ASSUME NEW w \in Threads, w # t, request'[w] # None
          PROVE  request[w] # None /\ slug[w] = slug'[w]
      BY <1>5, <3>1 DEF SameRequest
    <3>2. u # t /\ v # t
      BY <1>5, <2>1, <3>1
    <3>3. QED
      BY <2>1, <3>1, <3>2 DEF RequestsApart
  <2>2. QED
    BY <2>1 DEF RequestsApart
<1>10. QED
  BY <1>1, <1>4, <1>7, <1>8, <1>9

\* A death leaves the Runner as it starts.
LEMMA DiesKeeps ==
  ASSUME SharedPanelInv, Dies
  PROVE  SharedPanelInv'
<1>1. IInv'
  BY DEF Dies, IInv, SharedInv, TypeOK, ProcInv, ProcOK, ThreadInv, ThreadOK, PublisherInv,
         OnePublisher, HasPublisher, KeyInv, KeyOK, RunningIsTracked, StarterInv, StarterOK,
         StartsApart, Starts
<1>2. <<>> \in Seq(StepNames) /\ deaths + 1 \in 0..MaxDeaths
  BY PanelAssumption DEF Kinds, SharedPanelInv, PanelTypeOK, Dies
<1>3. PanelTypeOK'
  BY <1>1, <1>2 DEF SharedPanelInv, PanelTypeOK, Dies, IInv, SharedInv, diskVars
<1>4. BootOK' /\ RequestsApart' /\ \A u \in Threads : RequestOK(u)'
  BY PanelAssumption DEF Kinds, Dies, BootOK, RequestsApart, RequestOK
<1>5. QED
  BY <1>1, <1>3, <1>4 DEF SharedPanelInv

\* Who starts serving has reconciled.
LEMMA BootKeeps ==
  ASSUME SharedPanelInv, BootLists \/ Serves
  PROVE  SharedPanelInv'
<1> USE DEF SharedPanelInv
<1>1. UNCHANGED <<vars, diskVars, request, slug, todo, reply>>
  BY DEF BootLists, Serves, reqVars
<1>2. IInv'
  BY <1>1, NextKeeps
<1>3. PanelTypeOK'
  BY <1>1, <1>2 DEF PanelTypeOK, IInv, SharedInv, diskVars, BootLists, Serves
<1>4. UNCHANGED <<pc, op, arg, ret, procs, crossed, row>>
  BY <1>1 DEF vars, diskVars
<1>5. \A u \in Threads : RequestOK(u)'
  BY <1>1, <1>4 DEF RequestOK, At
<1>6. BootOK'
  BY <1>1, <1>4, PanelAssumption DEF Kinds, BootOK, At, BootLists, Serves
<1>7. RequestsApart'
  BY <1>1, <1>4, RequestsStayApart
<1>8. QED
  BY <1>2, <1>3, <1>5, <1>6, <1>7

\* SharedPanelInv is inductive.
LEMMA SharedKeeps ==
  ASSUME SharedPanelInv, [PanelNext]_allVars
  PROVE  SharedPanelInv'
<1>1. ASSUME NEW t \in Threads, NEW r \in Requests, NEW k \in Keys, Arrives(t, r, k)
      PROVE  SharedPanelInv'
  <2>1. r \in Kinds /\ r # "boot"
    BY PanelAssumption DEF Kinds
  <2>2. crossed \subseteq crossed' /\ crossed' \subseteq Keys
        /\ ((\E u \in Threads : request[u] # None /\ slug[u] = k) => k \in crossed')
    BY <1>1 DEF Arrives, SharedPanelInv, PanelTypeOK, TypeOK
  <2>3. QED
    BY <1>1, <2>1, <2>2, BeginKeeps DEF Arrives, bootVars
<1>2. ASSUME NEW t \in Threads, Handle(t) PROVE SharedPanelInv'
  BY <1>2, OwnStepKeeps, CallRunnerKeeps
<1>3. ASSUME NEW t \in Threads, NEW k \in Keys, BootStarts(t, k) PROVE SharedPanelInv'
  <2>1. "boot" \in Kinds /\ row[k] = "run"
    BY <1>3 DEF Kinds, BootStarts, SharedPanelInv, BootOK
  <2>2. UNCHANGED <<procVars, osVars, pc, op, arg, cur, ret, crossed>>
    BY <1>3 DEF BootStarts, vars
  <2>3. crossed' \subseteq Keys /\ \A u \in Threads : request[u] = None
    BY <1>3, <2>2 DEF BootStarts, SharedPanelInv, PanelTypeOK, TypeOK
  <2>4. QED
    BY <1>3, <2>1, <2>2, <2>3, BeginKeeps DEF BootStarts
<1>4. CASE UNCHANGED allVars
  <2>1. UNCHANGED vars /\ UNCHANGED <<row, config, script, request, slug, todo, reply,
                                      phase, bootq, skipped, deaths>>
    BY <1>4 DEF allVars, panelVars, diskVars, reqVars, bootVars
  <2>2. IInv'
    BY <2>1, NextKeeps DEF SharedPanelInv
  <2>3. UNCHANGED <<pc, op, arg, ret, procs, crossed>>
    BY <2>1 DEF vars
  <2>4. PanelTypeOK'
    BY <2>1, <2>2 DEF SharedPanelInv, PanelTypeOK, IInv, SharedInv
  <2>5. BootOK' /\ RequestsApart' /\ \A u \in Threads : RequestOK(u)'
    BY <2>1, <2>3 DEF SharedPanelInv, BootOK, RequestsApart, RequestOK, At
  <2>6. QED
    BY <2>2, <2>4, <2>5 DEF SharedPanelInv
<1>5. QED
  BY <1>1, <1>2, <1>3, <1>4, RunsKeeps, ChildrenKeep, BootKeeps, DiesKeeps DEF PanelNext

\* The panel comes up over an empty table with nothing running.
LEMMA PanelInitHolds == PanelInit => PanelInv
<1> SUFFICES ASSUME PanelInit PROVE PanelInv
  OBVIOUS
<1>1. IInv
  BY InitHolds DEF PanelInit
<1>2. <<>> \in Seq(StepNames) /\ 0 \in 0..MaxDeaths
  BY PanelAssumption DEF Kinds
<1>3. PanelTypeOK
  BY <1>1, <1>2 DEF PanelInit, PanelTypeOK, IInv, SharedInv
<1>4. BootOK /\ RequestsApart /\ \A u \in Threads : RequestOK(u)
  BY PanelAssumption DEF Kinds, PanelInit, Init, BootOK, RequestsApart, RequestOK
<1>5. AloneInv
  BY PanelAssumption DEF Kinds, PanelInit, Init, AloneInv, LiveOK, DoneOK, StopOK, LiveProc, At
<1>6. QED
  BY <1>1, <1>3, <1>4, <1>5 DEF PanelInv, SharedPanelInv

-----------------------------------------------------------------------------
(* AloneInv: what holds of the stations whose requests have not overlapped. *)

\* What runs of k is wanted.
Wanted(k) == \A p \in Procs : os[p] = "alive" /\ owner[p] = k => row[k] = "run"

\* Request t is the stop of k that has cleared desired_running.
Stops(t, k) == request[t] = "stop" /\ Head(todo[t]) \in {"stop", "return"} /\ slug[t] = k

\* Such a station is served by one goroutine at a time.
LEMMA Apart ==
  ASSUME SharedPanelInv, NEW t \in Threads, NEW u \in Threads,
         request[t] # None, request[u] # None, slug[t] = slug[u], slug[t] \in Uncrossed
  PROVE  t = u
BY DEF SharedPanelInv, RequestsApart

\* Only a stop that has cleared desired_running and not returned lets it run when
\* the table does not want it.
LEMMA WantedUnlessStopped ==
  ASSUME AloneInv, NEW k \in Uncrossed,
         \A u \in Threads : Stops(u, k) => At(u, "return") /\ pc[u] = "idle"
  PROVE  Wanted(k)
<1> SUFFICES ASSUME NEW p \in Procs, os[p] = "alive", owner[p] = k, row[k] # "run"
             PROVE  FALSE
  BY DEF Wanted
<1>1. PICK u \in Threads : Stops(u, k)
  BY DEF AloneInv, LiveOK, Stops
<1>2. StopOK(u)
  BY <1>1 DEF AloneInv, Stops
<1>3. QED
  BY <1>1, <1>2 DEF StopOK, LiveProc, Stops

\* Of the table and the files only what is about k moves.
OnlyDisk(k) ==
    \A j \in Keys : j # k => row'[j] = row[j] /\ config'[j] = config[j] /\ script'[j] = script[j]

\* A step of goroutine t about station k moves nothing of the others.
OnlyMoves(t, k) ==
    /\ crossed \subseteq crossed'
    /\ slug[t] = k /\ request[t] # None /\ slug'[t] \in {k, None}
    /\ \A u \in Threads : u # t => SameRequest(u) /\ SameThread(u)
    /\ OnlyDisk(k)
    /\ \A j \in Keys : j # k => procs'[j] = procs[j]
    /\ \A p \in Procs :
          os'[p] = "alive" => owner'[p] = k \/ (os[p] = "alive" /\ owner'[p] = owner[p])

\* So what is left to show is what it does to k, if k is not crossed.
LEMMA OneMoves ==
  ASSUME SharedPanelInv, SharedPanelInv', AloneInv,
         NEW k \in Keys, NEW t \in Threads, OnlyMoves(t, k),
         k \in Uncrossed' => (Wanted(k)' \/ Stops(t, k)') /\ DoneOK(t)' /\ StopOK(t)'
  PROVE  AloneInv'
<1>1. ASSUME NEW u \in Threads, u # t, slug'[u] \in Uncrossed' PROVE DoneOK(u)' /\ StopOK(u)'
  <2>1. SameRequest(u) /\ SameThread(u) /\ slug[u] \in Uncrossed
    BY <1>1 DEF OnlyMoves, SameRequest
  <2>2. CASE request[u] = None
    <3>1. request'[u] = None /\ pc'[u] = "idle"
      BY <2>1, <2>2 DEF SharedPanelInv, RequestOK, SameRequest, SameThread
    <3>2. QED
      BY <3>1, PanelAssumption DEF Kinds, DoneOK, StopOK
  <2>3. CASE request[u] # None
    <3>1. slug[u] \in Keys /\ slug[u] # k /\ (pc[u] # "idle" => arg[u] = slug[u])
      BY <1>1, <2>1, <2>3, Apart DEF SharedPanelInv, RequestOK, OnlyMoves
    <3>2. DoneOK(u) /\ StopOK(u)
      BY <2>1 DEF AloneInv
    <3>3. LiveProc(slug[u])' => LiveProc(slug[u])
      BY <2>1, <3>1 DEF LiveProc, SameRequest, OnlyMoves
    <3>4. DoneOK(u)'
      BY <2>1, <3>1, <3>2 DEF DoneOK, SameRequest, OnlyMoves, OnlyDisk
    <3>5. StopOK(u)'
      BY <2>1, <3>1, <3>2, <3>3 DEF StopOK, SameRequest, SameThread, At, OnlyMoves
    <3>6. QED
      BY <3>4, <3>5
  <2>4. QED
    BY <2>2, <2>3
<1>2. slug'[t] \in Uncrossed' => DoneOK(t)' /\ StopOK(t)'
  BY DEF OnlyMoves
<1>3. ASSUME NEW p \in Procs, os'[p] = "alive", owner'[p] \in Uncrossed', row'[owner'[p]] # "run"
      PROVE  \E u \in Threads : Stops(u, owner[p])'
  <2>1. CASE owner'[p] = k
    BY <1>3, <2>1 DEF Wanted, Stops
  <2>2. CASE owner'[p] # k
    <3>1. os[p] = "alive" /\ owner'[p] = owner[p] /\ owner[p] \in Uncrossed
      BY <1>3, <2>2 DEF OnlyMoves
    <3>2. PICK u \in Threads : Stops(u, owner[p])
      BY <1>3, <2>2, <3>1 DEF AloneInv, LiveOK, Stops, OnlyMoves, OnlyDisk
    <3>3. u # t
      BY <2>2, <3>1, <3>2 DEF Stops, OnlyMoves
    <3>4. QED
      BY <3>1, <3>2, <3>3 DEF Stops, SameRequest, OnlyMoves
  <2>3. QED
    BY <2>1, <2>2
<1>4. LiveOK'
  BY <1>3 DEF LiveOK, Stops
<1>5. QED
  BY <1>1, <1>2, <1>4 DEF AloneInv

\* Only a goroutine with a request takes the steps of one.
LEMMA HandleServes ==
  ASSUME NEW t \in Threads, Handle(t)
  PROVE  request[t] # None
BY DEF Handle, Fails, Insert, Get, Want, Unwant, SetDesired, DeleteRow, BeginsWrite, WriteConfig,
       WriteScript, Save, RemoveFiles, MintOrUnregister, CallRunner, RunnerReturned, At

\* Every step of a handler but its call of the Runner, and the beginning of a write,
\* answers the request or goes on.
LEMMA HandleAnswers ==
  ASSUME NEW t \in Threads, Handle(t), ~CallRunner(t), ~BeginsWrite(t)
  PROVE  /\ Answer(t, "error") \/ Advance(t)
         /\ \E s \in StepNames \ {"start", "stop", "restart"} :
               At(t, s) /\ (s = "return" => pc[t] = "idle")
<1>1. Answer(t, "error") \/ Advance(t)
  BY DEF Handle, Fails, Insert, Get, Want, Unwant, SetDesired, DeleteRow, WriteConfig,
         WriteScript, Save, RemoveFiles, MintOrUnregister, RunnerReturned
<1>2. \E s \in StepNames \ {"start", "stop", "restart"} :
         At(t, s) /\ (s = "return" => pc[t] = "idle")
  BY DEF StepNames, Handle, Fails, Insert, Get, Want, Unwant, SetDesired, DeleteRow,
         WriteConfig, WriteScript, Save, RemoveFiles, MintOrUnregister, RunnerReturned
<1>3. QED
  BY <1>1, <1>2

\* Nor does it touch the Runner.
LEMMA HandleLeavesRunner ==
  ASSUME NEW t \in Threads, Handle(t), ~CallRunner(t)
  PROVE  UNCHANGED vars
BY DEF Handle, Fails, Insert, Get, Want, Unwant, SetDesired, DeleteRow, BeginsWrite, WriteConfig,
       WriteScript, Save, RemoveFiles, MintOrUnregister, RunnerReturned

\* Where a handler's step leaves the requests.
LEMMA HandleRequests ==
  ASSUME PanelTypeOK, NEW t \in Threads, Handle(t)
  PROVE  slug'[t] \in {slug[t], None} /\ \A u \in Threads : u # t => SameRequest(u)
<1>1. ASSUME NEW r, Answer(t, r)
      PROVE  slug'[t] = None /\ \A u \in Threads : u # t => SameRequest(u)
  BY <1>1 DEF PanelTypeOK, Answer, SameRequest
<1>2. ASSUME Advance(t)
      PROVE  slug'[t] \in {slug[t], None} /\ \A u \in Threads : u # t => SameRequest(u)
  BY <1>1, <1>2 DEF PanelTypeOK, Advance, SameRequest
<1>3. CASE CallRunner(t)
  BY <1>3 DEF CallRunner, PanelTypeOK, SameRequest
<1>4. CASE BeginsWrite(t)
  BY <1>4 DEF BeginsWrite, reqVars, SameRequest
<1>5. CASE ~CallRunner(t) /\ ~BeginsWrite(t)
  BY <1>1, <1>2, <1>5, HandleAnswers
<1>6. QED
  BY <1>3, <1>4, <1>5

\* A handler's step is about its own station.
LEMMA HandleMoves ==
  ASSUME SharedPanelInv, NEW t \in Threads, NEW k \in Keys, slug[t] = k, Handle(t)
  PROVE  OnlyMoves(t, k) /\ UNCHANGED <<procs, state, os, owner>>
<1>1. PanelTypeOK /\ request[t] # None
  BY HandleServes DEF SharedPanelInv
<1>2. slug'[t] \in {k, None} /\ \A u \in Threads : u # t => SameRequest(u)
  BY <1>1, HandleRequests
<1>3. OnlyDisk(k)
  <2>1. CASE RemoveFiles(t)
    <3>1. /\ row' = row
          /\ config' = config \/ \E c : config' = [config EXCEPT ![k] = c]
          /\ script' = script \/ script' = [script EXCEPT ![k] = "none"]
      BY <2>1 DEF RemoveFiles
    <3>2. QED
      BY <1>1, <3>1 DEF OnlyDisk, PanelTypeOK
  <2>2. CASE ~RemoveFiles(t)
    BY <1>1, <2>2
       DEF OnlyDisk, PanelTypeOK, Handle, Fails, Insert, Get, Want, Unwant, SetDesired, DeleteRow,
           BeginsWrite, WriteConfig, WriteScript, Save, MintOrUnregister, CallRunner,
           RunnerReturned, diskVars
  <2>3. QED
    BY <2>1, <2>2
<1>4. /\ UNCHANGED <<procs, state, os, owner>> /\ crossed \subseteq crossed'
      /\ \A u \in Threads : u # t => SameThread(u)
  <2>1. CASE CallRunner(t)
    BY <1>1, <2>1 DEF CallRunner, Call, PanelTypeOK, TypeOK, SameThread
  <2>2. CASE ~CallRunner(t)
    BY <2>2, HandleLeavesRunner DEF vars, SameThread
  <2>3. QED
    BY <2>1, <2>2
<1>5. QED
  BY <1>1, <1>2, <1>3, <1>4 DEF OnlyMoves

\* So is a step in the Runner.
LEMMA RunsMoves ==
  ASSUME SharedPanelInv, NEW t \in Threads, NEW k \in Keys, slug[t] = k, Runs(t)
  PROVE  OnlyMoves(t, k) /\ UNCHANGED <<row, config, script, request, slug, todo, reply>>
<1>1. Step(t) /\ UNCHANGED <<row, config, script, request, slug, todo, reply>>
  BY DEF Runs, panelVars, diskVars, reqVars
<1>2. pc[t] # "idle" /\ crossed' = crossed /\ \A u \in Threads : u # t => SameThread(u)
  BY <1>1, StepMoves DEF SharedPanelInv
<1>3. request[t] # None /\ arg[t] = k
  BY <1>2 DEF SharedPanelInv, RequestOK, At
<1>4. \A j \in Keys : j # k => procs'[j] = procs[j]
  <2>1. procs \in [Keys -> Procs \cup {None}]
    BY DEF SharedPanelInv, PanelTypeOK, TypeOK
  <2>2. procs' = procs \/ procs' = [procs EXCEPT ![arg[t]] = cur[t]]
    BY <1>1 DEF Step, StartStep, StartCheck, SpawnFails, Spawn, StartPublish, StopStep, Lookup,
                StopMark, StopSignal, StopSawDone, StopTimesOut, StatusRead
  <2>3. QED
    BY <1>3, <2>1, <2>2
<1>5. QED
  BY <1>1, <1>2, <1>3, <1>4, SpawnsForItsCall
     DEF OnlyMoves, OnlyDisk, SameRequest, SharedPanelInv

\* Of a crossed station nothing is claimed.
LEMMA CrossedKeepsAlone ==
  ASSUME SharedPanelInv, SharedPanelInv', AloneInv,
         NEW t \in Threads, NEW k \in Keys, slug[t] = k, k \notin Uncrossed, Handle(t) \/ Runs(t)
  PROVE  AloneInv'
<1>1. OnlyMoves(t, k)
  BY HandleMoves, RunsMoves
<1>2. k \notin Uncrossed'
  BY <1>1 DEF OnlyMoves
<1>3. QED
  BY <1>1, <1>2, OneMoves

\* Where request t stands when its next step is s.
LEMMA AtStep ==
  ASSUME SharedPanelInv, AloneInv, NEW t \in Threads, slug[t] \in Uncrossed, NEW s, At(t, s),
         s \notin {"start", "stop", "restart"}, s # "return" \/ pc[t] = "idle"
  PROVE  /\ request[t] \in Kinds /\ slug[t] \in Keys /\ todo[t] \in Left(request[t])
         /\ request[t] # None /\ pc[t] = "idle" /\ ~Calls(todo[t])
         /\ Wanted(slug[t]) /\ DoneOK(t) /\ StopOK(t)
<1>1. request[t] # None /\ Head(todo[t]) = s
  BY DEF At
<1>2. request[t] \in Kinds /\ slug[t] \in Keys /\ todo[t] \in Left(request[t])
  BY <1>1, Served DEF SharedPanelInv
<1>3. pc[t] = "idle"
  BY NotInRunner DEF SharedPanelInv
<1>4. ASSUME NEW u \in Threads, Stops(u, slug[t]) PROVE At(u, "return") /\ pc[u] = "idle"
  <2>1. u = t
    BY <1>1, <1>4, Apart, PanelAssumption DEF Kinds, Stops
  <2>2. QED
    BY <1>1, <1>3, <1>4, <2>1 DEF Stops, At
<1>5. Wanted(slug[t])
  BY <1>4, WantedUnlessStopped
<1>6. QED
  BY <1>1, <1>2, <1>3, <1>5 DEF Calls, AloneInv

\* A handler's own step ends the request, or brings what DoneOK and LiveOK say of
\* the next one.
LEMMA OwnStepEnds ==
  ASSUME SharedPanelInv, SharedPanelInv', AloneInv,
         NEW t \in Threads, NEW k \in Uncrossed, slug[t] = k, Handle(t),
         request[t] # None, pc[t] = "idle", ~Calls(todo[t]), UNCHANGED vars,
         Answer(t, "error") \/ Advance(t),
         Answer(t, "error") \/ Tail(todo[t]) = <<>> => Wanted(k)',
         Advance(t) /\ Tail(todo[t]) # <<>> => DoneOK(t)' /\ (Wanted(k)' \/ Stops(t, k)')
  PROVE  AloneInv'
<1> DEFINE q == todo[t]
<1>1. OnlyMoves(t, k)
  BY HandleMoves
<1>2. UNCHANGED <<op, pc, procs, arg, cur, os, owner>>
  BY DEF vars
<1>3. ASSUME NEW r \in {"ok", "error"}, Answer(t, r), Wanted(k)' PROVE AloneInv'
  <2>1. request'[t] = None
    BY <1>3, AnswerStep DEF SharedPanelInv
  <2>2. DoneOK(t)' /\ StopOK(t)'
    BY <1>2, <2>1, PanelAssumption DEF Kinds, DoneOK, StopOK
  <2>3. QED
    BY <1>1, <1>3, <2>2, OneMoves
<1>4. CASE Answer(t, "error")
  BY <1>3, <1>4
<1>5. CASE Advance(t) /\ Tail(q) = <<>>
  BY <1>3, <1>5 DEF Advance
<1>6. CASE Advance(t) /\ Tail(q) # <<>>
  <2>1. request[t] \in Kinds /\ q \in Left(request[t]) /\ q # <<>>
    BY Served, NextStep DEF SharedPanelInv
  <2>2. request'[t] = request[t] /\ slug'[t] = k /\ todo'[t] = Tail(q)
    BY <1>6, AdvanceStep DEF SharedPanelInv
  <2>3. Head(Tail(q)) # "return"
    BY <1>6, <2>1, NextStep DEF Then, Last
  <2>4. ASSUME request[t] = "delete" PROVE ~LiveProc(k)
    <3>1. Head(q) \in {"return", "unregister", "delete", "remove"}
      BY <2>1, <2>4, DeleteLeft DEF Then, Last, Calls
    <3>2. QED
      BY <2>1, <2>4, <3>1 DEF AloneInv, StopOK, At
  <2>5. LiveProc(k)' <=> LiveProc(k)
    BY <1>2 DEF LiveProc
  <2>6. StopOK(t)'
    BY <1>2, <2>2, <2>3, <2>4, <2>5 DEF AloneInv, StopOK, At
  <2>7. QED
    BY <1>1, <1>6, <2>6, OneMoves
<1>7. QED
  BY <1>4, <1>5, <1>6

\* Steps of a handler that leave the table and the files alone.
LEMMA QuietKeepsAlone ==
  ASSUME SharedPanelInv, SharedPanelInv', AloneInv,
         NEW t \in Threads, slug[t] \in Uncrossed, Handle(t), NEW s, At(t, s),
         s \notin {"start", "stop", "restart", "insert", "config", "script", "want", "unwant",
                   "delete"},
         s # "return" \/ pc[t] = "idle",
         Answer(t, "error") \/ Advance(t), UNCHANGED vars, UNCHANGED diskVars
  PROVE  AloneInv'
<1> DEFINE q == todo[t]
<1>1. /\ request[t] \in Kinds /\ q \in Left(request[t])
      /\ request[t] # None /\ pc[t] = "idle" /\ ~Calls(q) /\ Head(q) = s
      /\ slug[t] \in Keys /\ Wanted(slug[t]) /\ DoneOK(t)
  BY AtStep DEF At
<1>2. PICK k \in Uncrossed : slug[t] = k
  OBVIOUS
<1>3. Wanted(k)'
  BY <1>1, <1>2 DEF Wanted, vars, diskVars
<1>4. ASSUME Advance(t), Tail(q) # <<>> PROVE DoneOK(t)'
  <2>1. request'[t] = request[t] /\ slug'[t] = slug[t] /\ todo'[t] = Tail(q)
    BY <1>1, <1>4, AdvanceStep DEF SharedPanelInv
  <2>2. \/ request[t] = "create" /\ Head(q) = "mint" /\ Head(Tail(q)) = "start"
        \/ request[t] \in {"start", "restart"} /\ Head(q) = "mint"
        \/ request[t] \in {"start", "restart"} /\ Head(q) = "get" /\ Head(Tail(q)) = "want"
        \/ request[t] = "stop" /\ Head(Tail(q)) = "unwant"
        \/ request[t] = "delete" /\ Head(Tail(q)) # "remove"
        \/ request[t] \in {"put", "boot"}
    BY <1>1, <1>4, NextStep DEF Then, Last
  <2>3. QED
    BY <1>1, <2>1, <2>2 DEF DoneOK, diskVars
<1>5. QED
  BY <1>1, <1>2, <1>3, <1>4, OwnStepEnds

\* The table and the files follow the requests.
LEMMA OwnStepKeepsAlone ==
  ASSUME SharedPanelInv, SharedPanelInv', AloneInv,
         NEW t \in Threads, NEW k \in Uncrossed, slug[t] = k, Handle(t), ~CallRunner(t)
  PROVE  AloneInv'
<1> DEFINE q == todo[t]
<1>1. ASSUME NEW s, At(t, s), s \notin {"start", "stop", "restart", "return"}
      PROVE  /\ request[t] \in Kinds /\ q \in Left(request[t])
             /\ request[t] # None /\ pc[t] = "idle" /\ ~Calls(q) /\ Head(q) = s
             /\ Wanted(k) /\ DoneOK(t) /\ StopOK(t)
  BY <1>1, AtStep DEF At
<1>2. ASSUME Advance(t), Tail(q) # <<>>, request[t] # None
      PROVE  request'[t] = request[t] /\ slug'[t] = slug[t] /\ todo'[t] = Tail(q)
  BY <1>2, AdvanceStep DEF SharedPanelInv
<1>3. /\ row \in [Keys -> {"none", "run", "halt"}]
      /\ config \in [Keys -> {"none", "partial", "whole"}]
      /\ script \in [Keys -> {"none", "cut", "starter", "edited"}]
  BY DEF SharedPanelInv, PanelTypeOK
<1>4. UNCHANGED vars
  BY HandleLeavesRunner
<1>5. ASSUME Wanted(k), row' = row \/ row' = [row EXCEPT ![k] = "run"]
      PROVE  Wanted(k)'
  BY <1>3, <1>4, <1>5 DEF Wanted, vars
<1>6. CASE Fails(t)
  <2>1. PICK s \in {"insert", "config", "script", "mint", "delete", "get", "want",
                    "unwant", "save"} : At(t, s)
    BY <1>6 DEF Fails
  <2>2. Answer(t, "error") /\ row' = row
    BY <1>6 DEF Fails, diskVars
  <2>3. ~Advance(t)
    BY <2>2, AnswerIsFinal DEF SharedPanelInv
  <2>4. QED
    BY <1>1, <1>4, <1>5, <2>1, <2>2, <2>3, OwnStepEnds
<1>7. CASE Insert(t) \/ Want(t)
  <2>1. PICK s \in {"insert", "want"} : At(t, s)
    BY <1>7 DEF Insert, Want, SetDesired
  <2>2. UNCHANGED <<config, script>>
    BY <1>7 DEF Insert, Want, SetDesired
  <2>3. \/ request[t] = "create" /\ Then(q, "insert", "config")
        \/ request[t] \in {"start", "restart"} /\ Then(q, "want", "mint")
    BY <1>1, <2>1, NextStep DEF Then, Last
  <2>4. \/ row' = row /\ Answer(t, "error")
        \/ row' = [row EXCEPT ![k] = "run"] /\ Advance(t)
    BY <1>7 DEF Insert, Want, SetDesired
  <2>5. Wanted(k)'
    BY <1>1, <1>5, <2>1, <2>4
  <2>6. ASSUME Advance(t) PROVE DoneOK(t)'
    <3>1. row' = [row EXCEPT ![k] = "run"]
      BY <2>4, <2>6, AnswerIsFinal DEF SharedPanelInv
    <3>2. QED
      BY <1>1, <1>2, <1>3, <2>1, <2>2, <2>3, <2>6, <3>1 DEF DoneOK, Then
  <2>7. QED
    BY <1>1, <1>4, <2>1, <2>4, <2>5, <2>6, OwnStepEnds
<1>8. CASE Get(t)
  BY <1>8, QuietKeepsAlone DEF Get
<1>9. CASE Unwant(t)
  <2>1. At(t, "unwant") /\ UNCHANGED <<config, script>>
    BY <1>9 DEF Unwant, SetDesired
  <2>2. request[t] = "stop" /\ Then(q, "unwant", "stop")
    BY <1>1, <2>1, NextStep DEF Then, Last
  <2>3. \/ row' = row /\ Answer(t, "error")
        \/ row' = [row EXCEPT ![k] = "halt"] /\ Advance(t)
    BY <1>9 DEF Unwant, SetDesired
  <2>4. CASE row' = row /\ Answer(t, "error")
    <3>1. Wanted(k)' /\ ~Advance(t)
      BY <1>1, <1>5, <2>1, <2>4, AnswerIsFinal DEF SharedPanelInv
    <3>2. QED
      BY <1>1, <1>4, <2>1, <2>4, <3>1, OwnStepEnds
  <2>5. CASE row' = [row EXCEPT ![k] = "halt"] /\ Advance(t)
    <3>1. request'[t] = "stop" /\ slug'[t] = k /\ Head(todo'[t]) = "stop" /\ row'[k] = "halt"
      BY <1>1, <1>2, <1>3, <2>1, <2>2, <2>5 DEF Then
    <3>2. DoneOK(t)'
      BY <3>1 DEF DoneOK
    <3>3. Stops(t, k)'
      BY <3>1 DEF Stops
    <3>4. ~Answer(t, "error") /\ Tail(q) # <<>>
      BY <2>2, <2>5, AnswerIsFinal DEF SharedPanelInv, Then
    <3>5. QED
      BY <1>1, <1>4, <2>1, <2>5, <3>2, <3>3, <3>4, OwnStepEnds
  <2>6. QED
    BY <2>3, <2>4, <2>5
<1>10. CASE DeleteRow(t)
  <2>1. At(t, "delete") /\ UNCHANGED <<config, script>>
    BY <1>10 DEF DeleteRow
  <2>2. request[t] = "delete" /\ Then(q, "delete", "remove")
    BY <1>1, <2>1, NextStep DEF Then, Last
  <2>3. row' = [row EXCEPT ![k] = "none"] /\ (Answer(t, "error") \/ Advance(t))
    BY <1>10 DEF DeleteRow
  <2>4. ~LiveProc(k)
    BY <1>1, <2>1, <2>2 DEF StopOK
  <2>5. Wanted(k)'
    BY <1>4, <2>3, <2>4 DEF Wanted, LiveProc, vars
  <2>6. ASSUME Advance(t) PROVE DoneOK(t)'
    BY <1>1, <1>2, <1>3, <2>1, <2>2, <2>3, <2>6 DEF DoneOK, Then
  <2>7. QED
    BY <1>1, <1>4, <2>1, <2>3, <2>5, <2>6, OwnStepEnds
<1>11. CASE WriteConfig(t)
  <2>1. /\ At(t, "config") /\ row' = row /\ script' = script /\ Advance(t)
        /\ config' = [config EXCEPT ![k] = "whole"]
    BY <1>11 DEF WriteConfig
  <2>2. request[t] = "create" /\ Then(q, "config", "script")
    BY <1>1, <2>1, NextStep DEF Then, Last
  <2>3. Wanted(k)'
    BY <1>1, <1>5, <2>1
  <2>4. DoneOK(t)'
    BY <1>1, <1>2, <1>3, <2>1, <2>2 DEF DoneOK, Then
  <2>5. QED
    BY <1>1, <1>4, <2>1, <2>3, <2>4, OwnStepEnds
<1>12. CASE WriteScript(t)
  <2>1. /\ At(t, "script") /\ row' = row /\ config' = config /\ Advance(t)
        /\ script' = [script EXCEPT ![k] = "starter"]
    BY <1>12 DEF WriteScript
  <2>2. request[t] = "create" /\ Then(q, "script", "mint")
    BY <1>1, <2>1, NextStep DEF Then, Last
  <2>3. Wanted(k)'
    BY <1>1, <1>5, <2>1
  <2>4. DoneOK(t)'
    BY <1>1, <1>2, <1>3, <2>1, <2>2 DEF DoneOK, Then
  <2>5. QED
    BY <1>1, <1>4, <2>1, <2>3, <2>4, OwnStepEnds
<1>13. CASE Save(t) \/ RemoveFiles(t)
  <2>1. PICK s \in {"save", "remove"} : At(t, s)
    BY <1>13 DEF Save, RemoveFiles
  <2>2. Advance(t) /\ row' = row
    BY <1>13 DEF Save, RemoveFiles
  <2>3. Tail(q) = <<>>
    BY <1>1, <2>1, NextStep DEF Then, Last
  <2>4. Wanted(k)'
    BY <1>1, <1>5, <2>1, <2>2
  <2>5. QED
    BY <1>1, <1>4, <2>1, <2>2, <2>3, <2>4, OwnStepEnds
<1>14. CASE MintOrUnregister(t)
  BY <1>4, <1>14, QuietKeepsAlone DEF MintOrUnregister
<1>15. CASE RunnerReturned(t)
  BY <1>4, <1>15, QuietKeepsAlone DEF RunnerReturned
<1>16. CASE BeginsWrite(t)
  <2>1. PICK s \in {"config", "script", "save"} : At(t, s)
    BY <1>16 DEF BeginsWrite
  <2>2. /\ UNCHANGED <<row, request, slug, todo, reply>>
        /\ s = "config" \/ config' = config
    BY <1>16, <2>1 DEF BeginsWrite, reqVars, At
  <2>3. UNCHANGED <<op, pc, procs, arg, cur, os, owner>>
    BY <1>4 DEF vars
  <2>4. \/ request[t] = "create" /\ Head(q) \in {"config", "script"}
        \/ request[t] = "put"
    BY <1>1, <2>1, NextStep DEF Then, Last
  <2>5. DoneOK(t)'
    BY <1>1, <2>1, <2>2, <2>4 DEF DoneOK
  <2>6. StopOK(t)' /\ Wanted(k)'
    BY <1>1, <2>1, <2>2, <2>3 DEF StopOK, At, LiveProc, Wanted
  <2>7. QED
    BY <2>5, <2>6, HandleMoves, OneMoves
<1>17. QED
  BY <1>6, <1>7, <1>8, <1>9, <1>10, <1>11, <1>12, <1>13, <1>14, <1>15, <1>16 DEF Handle

\* Entering the Runner changes no process yet.
LEMMA CallKeepsAlone ==
  ASSUME SharedPanelInv, SharedPanelInv', AloneInv,
         NEW t \in Threads, NEW k \in Uncrossed, slug[t] = k, CallRunner(t)
  PROVE  AloneInv'
<1> DEFINE q == todo[t]
<1>1. PICK o \in {"start", "stop", "restart"} : At(t, o) /\ Call(t, o, slug[t])
  BY DEF CallRunner
<1>2. pc[t] = "idle" /\ request[t] # None /\ Head(q) = o /\ Calls(q)
  BY <1>1, NotInRunner DEF SharedPanelInv, At, Calls
<1>3. request[t] \in Kinds /\ q \in Left(request[t])
  BY <1>2, Served DEF SharedPanelInv
<1>4. o = RunnerOp(request[t]) /\ Head(Waiting(q)) = "return"
  BY <1>2, <1>3, NextStep
<1>5. todo'[t] = Waiting(q) /\ UNCHANGED <<row, config, script, request, slug>>
  BY DEF CallRunner, SharedPanelInv, PanelTypeOK, Waiting, diskVars
<1>6. UNCHANGED <<procs, os, owner>> /\ pc'[t] \in {"check", "lookup"}
  <2>1. TypeOK
    BY DEF SharedPanelInv, PanelTypeOK
  <2>2. QED
    BY <1>1, <2>1 DEF Call, TypeOK
<1>7. DoneOK(t)'
  <2>1. DoneOK(t)
    BY DEF AloneInv
  <2>2. QED
    BY <1>2, <1>4, <1>5, <2>1 DEF DoneOK, RunnerOp
<1>8. StopOK(t)'
  BY <1>4, <1>5, <1>6 DEF StopOK
<1>9. Wanted(k)' \/ Stops(t, k)'
  <2>1. CASE Stops(t, k)
    BY <1>4, <1>5, <2>1 DEF Stops
  <2>2. CASE ~Stops(t, k)
    <3>1. ASSUME NEW u \in Threads PROVE ~Stops(u, k)
      BY <1>2, <2>2, Apart, PanelAssumption DEF Kinds, Stops
    <3>2. Wanted(k)
      BY <3>1, WantedUnlessStopped
    <3>3. QED
      BY <1>5, <1>6, <3>2 DEF Wanted
  <2>3. QED
    BY <2>1, <2>2
<1>10. QED
  BY <1>7, <1>8, <1>9, HandleMoves, OneMoves DEF Handle

\* While a request stops a station, what is alive of it is the process its key
\* tracks.
LEMMA AliveIsTracked ==
  ASSUME SharedPanelInv, NEW t \in Threads, pc[t] \in StopPCs, arg[t] \in Uncrossed,
         NEW p \in Procs, os[p] = "alive", owner[p] = arg[t]
  PROVE  procs[owner[p]] = p /\ state[p] = "running"
<1>1. ASSUME NEW u \in Threads, pc[u] = "publish", Starts(u, arg[t]) PROVE FALSE
  <2>1. \A v \in {t, u} : request[v] # None /\ slug[v] = arg[t]
    BY <1>1 DEF SharedPanelInv, RequestOK, At, Starts
  <2>2. QED
    BY <1>1, <2>1, Apart
<1>2. QED
  BY <1>1, AliveIsHeld DEF SharedPanelInv

\* Stop comes back only when nothing of its key is alive.
LEMMA StopComesBack ==
  ASSUME SharedPanelInv, AloneInv, NEW t \in Threads, slug[t] \in Uncrossed,
         op[t] = "stop", pc[t] \in StopPCs, StopStep(t), pc'[t] = "idle"
  PROVE  ~LiveProc(arg[t])
<1> USE DEF SharedPanelInv, IInv, SharedInv
<1>1. /\ ThreadOK(t) /\ arg[t] = slug[t]
      /\ pc[t] \in {"mark", "signal", "await", "drain"} => procs[arg[t]] = cur[t]
  BY DEF ThreadInv, AloneInv, StopOK, RequestOK
<1>2. SUFFICES ASSUME NEW p \in Procs, os[p] = "alive", owner[p] = arg[t]
               PROVE  FALSE
  BY DEF LiveProc
<1>3. procs[arg[t]] = p /\ state[p] = "running" /\ ~done[p]
  BY <1>1, <1>2, AliveIsTracked DEF ProcInv, ProcOK
<1>4. ASSUME NEW l, NEW r, Goto(t, l, r) PROVE l = "idle"
  BY <1>4 DEF Goto, TypeOK
<1>5. CASE Lookup(t)
  BY <1>3, <1>4, <1>5 DEF Lookup
<1>6. CASE StopMark(t)
  BY <1>1, <1>3, <1>4, <1>6 DEF StopMark
<1>7. CASE StopSignal(t)
  BY <1>1, <1>2, <1>3, <1>4, <1>7 DEF StopSignal
<1>8. CASE StopSawDone(t)
  BY <1>1, <1>3, <1>8 DEF StopSawDone
<1>9. CASE StopTimesOut(t)
  BY <1>4, <1>9 DEF StopTimesOut
<1>10. QED
  BY <1>5, <1>6, <1>7, <1>8, <1>9 DEF StopStep

\* Stop acts on the process it looked up, which stays the tracked one.
LEMMA StopStaysOn ==
  ASSUME SharedPanelInv, AloneInv, NEW t \in Threads, slug[t] \in Uncrossed,
         op[t] = "stop", pc[t] \in StopPCs, StopStep(t)
  PROVE  /\ UNCHANGED <<procs, os, owner>>
         /\ op'[t] = "stop" /\ pc'[t] \in {"mark", "signal", "await", "drain"}
              => procs[arg'[t]] = cur'[t]
<1> USE DEF SharedPanelInv, IInv, SharedInv
<1>1. /\ TypeOK
      /\ pc[t] \in {"mark", "signal", "await", "drain"} => procs[arg[t]] = cur[t]
  BY DEF AloneInv, StopOK
<1>2. UNCHANGED <<procs, os, owner>>
  BY DEF StopStep, Lookup, StopMark, StopSignal, StopSawDone, StopTimesOut
<1>3. ASSUME NEW l, NEW r, Goto(t, l, r), r = procs[arg[t]]
      PROVE  procs[arg'[t]] = cur'[t]
  BY <1>1, <1>3 DEF Goto, TypeOK
<1>4. ASSUME NEW r, Return(t, r) PROVE pc'[t] = "idle"
  BY <1>1, <1>4 DEF Return, TypeOK
<1>5. StopReturns(t) => pc'[t] = "idle"
  BY <1>4 DEF StopReturns
<1>6. CASE Lookup(t)
  BY <1>2, <1>3, <1>4, <1>5, <1>6 DEF Lookup
<1>7. CASE StopMark(t)
  BY <1>1, <1>2, <1>3, <1>5, <1>7 DEF StopMark
<1>8. CASE StopSignal(t)
  BY <1>1, <1>2, <1>3, <1>4, <1>8 DEF StopSignal
<1>9. CASE StopSawDone(t)
  BY <1>2, <1>5, <1>9 DEF StopSawDone
<1>10. CASE StopTimesOut(t)
  BY <1>1, <1>2, <1>3, <1>10 DEF StopTimesOut
<1>11. QED
  BY <1>6, <1>7, <1>8, <1>9, <1>10 DEF StopStep

\* The Runner's own steps: a station is spawned because the table wants it.
LEMMA RunsKeepsAlone ==
  ASSUME SharedPanelInv, SharedPanelInv', AloneInv,
         NEW t \in Threads, NEW k \in Uncrossed, slug[t] = k, Runs(t)
  PROVE  AloneInv'
<1>1. /\ Step(t) /\ OnlyMoves(t, k)
      /\ UNCHANGED <<row, config, script, request, slug, todo, reply>>
  BY RunsMoves DEF Runs
<1>2. pc[t] # "idle"
  BY <1>1, StepMoves DEF SharedPanelInv
<1>3. /\ At(t, "return") /\ arg[t] = k /\ op[t] = RunnerOp(request[t])
      /\ op[t] = "start" => pc[t] \in StartPCs
      /\ op[t] = "stop" => pc[t] \in StopPCs
  BY <1>2 DEF SharedPanelInv, RequestOK, At
<1>4. /\ request[t] \in Kinds /\ todo[t] \in Left(request[t]) /\ Head(todo[t]) = "return"
      /\ request[t] # None
  BY <1>3, Served DEF SharedPanelInv, At
<1>5. DoneOK(t)'
  BY <1>1 DEF AloneInv, DoneOK
<1>6. CASE request[t] \in {"stop", "delete"}
  <2>1. op[t] = "stop" /\ pc[t] \in StopPCs /\ StopStep(t)
    BY <1>1, <1>3, <1>6 DEF RunnerOp, Step, StartStep, StartCheck, SpawnFails, Spawn,
                            StartPublish, StatusRead
  <2>2. /\ UNCHANGED <<procs, os, owner>>
        /\ op'[t] = "stop" /\ pc'[t] \in {"mark", "signal", "await", "drain"}
             => procs[arg'[t]] = cur'[t]
    BY <2>1, StopStaysOn
  <2>3. pc'[t] = "idle" => ~LiveProc(k)
    BY <1>3, <2>1, StopComesBack
  <2>4. StopOK(t)'
    BY <1>1, <1>4, <2>2, <2>3 DEF StopOK, LiveProc
  <2>5. Wanted(k)' \/ Stops(t, k)'
    <3>1. CASE Stops(t, k)
      BY <1>1, <3>1 DEF Stops
    <3>2. CASE ~Stops(t, k)
      <4>1. ASSUME NEW u \in Threads PROVE ~Stops(u, k)
        BY <1>4, <3>2, Apart, PanelAssumption DEF Kinds, Stops
      <4>2. Wanted(k)
        BY <4>1, WantedUnlessStopped
      <4>3. QED
        BY <1>1, <2>2, <4>2 DEF Wanted
    <3>3. QED
      BY <3>1, <3>2
  <2>6. QED
    BY <1>1, <1>5, <2>4, <2>5, OneMoves
<1>7. CASE request[t] \notin {"stop", "delete"}
  <2>1. op[t] \in {"start", "restart"} /\ request[t] \in {"create", "start", "restart", "boot"}
    BY <1>3, <1>4, <1>7, NextStep DEF RunnerOp, Then, Last
  <2>2. row[k] = "run"
    BY <1>4, <2>1 DEF AloneInv, DoneOK, SharedPanelInv, BootOK
  <2>3. op'[t] # "stop"
    <3>1. op'[t] = op[t] \/ op'[t] = None
      BY <1>1, StepMoves DEF SharedPanelInv
    <3>2. QED
      BY <2>1, <3>1, PanelAssumption DEF Kinds
  <2>4. StopOK(t)'
    BY <1>1, <1>7, <2>3 DEF StopOK
  <2>5. Wanted(k)'
    BY <1>1, <2>2 DEF Wanted
  <2>6. QED
    BY <1>1, <1>5, <2>4, <2>5, OneMoves
<1>8. QED
  BY <1>6, <1>7

\* A child or a Wait goroutine brings nothing to life.
LEMMA ChildrenKeepAlone ==
  ASSUME SharedPanelInv, AloneInv, NEW p \in Procs, Waits(p) \/ Exits(p)
  PROVE  AloneInv'
<1>1. UNCHANGED <<procs, owner, pc, op, arg, cur, crossed, row, config, script, request, slug,
                  todo>>
  BY DEF Waits, WaitStep, WaitReaps, WaitRecords, WaitCloses, Exits, Exit, panelVars, diskVars,
         reqVars
<1>2. ASSUME NEW q \in Procs, os'[q] = "alive" PROVE os[q] = "alive"
  BY <1>2 DEF Waits, WaitStep, WaitReaps, WaitRecords, WaitCloses, Exits, Exit, SharedPanelInv,
              IInv, SharedInv, TypeOK
<1>3. ASSUME NEW k, LiveProc(k)' PROVE LiveProc(k)
  BY <1>1, <1>2, <1>3 DEF LiveProc
<1>4. ASSUME NEW u \in Threads, slug[u] \in Uncrossed PROVE DoneOK(u)' /\ StopOK(u)'
  BY <1>1, <1>3, <1>4 DEF AloneInv, DoneOK, StopOK, At
<1>5. LiveOK'
  BY <1>1, <1>2 DEF AloneInv, LiveOK
<1>6. QED
  BY <1>1, <1>4, <1>5 DEF AloneInv

\* Before its first step a request has brought about nothing.
LEMMA BeginKeepsAlone ==
  ASSUME SharedPanelInv, AloneInv, NEW r \in Kinds,
         NEW k \in Keys, NEW t \in Threads, request[t] = None,
         request' = [request EXCEPT ![t] = r],
         slug' = [slug EXCEPT ![t] = k],
         todo' = [todo EXCEPT ![t] = Steps(r)],
         UNCHANGED <<procVars, osVars, pc, op, arg, cur, diskVars>>, crossed \subseteq crossed'
  PROVE  AloneInv'
<1>1. /\ Steps(r) \in Left(r) /\ pc[t] = "idle"
      /\ request'[t] = r /\ slug'[t] = k /\ todo'[t] = Steps(r)
  BY StepsLeft DEF SharedPanelInv, PanelTypeOK, RequestOK
<1>2. /\ r = "create" => Head(Steps(r)) = "insert"
      /\ r \in {"start", "restart", "stop"} => Head(Steps(r)) = "get"
      /\ r = "delete" => Head(Steps(r)) = "stop"
  BY DEF Steps, CreateSteps, StartSteps, RestartSteps, StopSteps, DeleteSteps
<1>3. /\ UNCHANGED <<op, pc, procs, arg, cur, os, owner, row, config, script>>
      /\ \A u \in Threads : u # t => /\ request'[u] = request[u] /\ slug'[u] = slug[u]
                                     /\ todo'[u] = todo[u]
  BY DEF procVars, osVars, diskVars, SharedPanelInv, PanelTypeOK
<1>4. DoneOK(t)'
  BY <1>1, <1>2 DEF DoneOK
<1>5. StopOK(t)'
  BY <1>1, <1>2, <1>3 DEF StopOK, At
<1>6. ASSUME NEW u \in Threads, u # t, slug'[u] \in Uncrossed' PROVE DoneOK(u)' /\ StopOK(u)'
  <2>1. DoneOK(u) /\ StopOK(u)
    BY <1>3, <1>6 DEF AloneInv
  <2>2. QED
    BY <1>3, <1>6, <2>1 DEF DoneOK, StopOK, At, LiveProc
<1>7. LiveOK'
  <2>1. ASSUME NEW u \in Threads, request[u] = "stop" PROVE u # t
    BY <2>1, PanelAssumption DEF Kinds
  <2>2. QED
    BY <1>3, <2>1 DEF AloneInv, LiveOK
<1>8. QED
  BY <1>4, <1>5, <1>6, <1>7 DEF AloneInv

\* After a death nothing runs.
LEMMA DiesKeepsAlone ==
  ASSUME Dies
  PROVE  AloneInv'
BY PanelAssumption DEF Kinds, Dies, AloneInv, LiveOK, DoneOK, StopOK, LiveProc, At

\* PanelInv is inductive.
LEMMA PanelKeeps ==
  ASSUME PanelInv, [PanelNext]_allVars
  PROVE  PanelInv'
<1>1. SharedPanelInv /\ SharedPanelInv'
  BY SharedKeeps DEF PanelInv
<1>2. SUFFICES AloneInv'
  BY <1>1 DEF PanelInv
<1>3. AloneInv
  BY DEF PanelInv
<1>4. ASSUME NEW t \in Threads, NEW r \in Requests, NEW k \in Keys, Arrives(t, r, k)
      PROVE  AloneInv'
  <2>1. r \in Kinds
    BY PanelAssumption
  <2>2. QED
    BY <1>1, <1>3, <1>4, <2>1, BeginKeepsAlone DEF Arrives
<1>5. ASSUME NEW t \in Threads, NEW k \in Keys, BootStarts(t, k) PROVE AloneInv'
  <2>1. "boot" \in Kinds /\ request[t] = None
    BY <1>5 DEF Kinds, BootStarts
  <2>2. UNCHANGED <<procVars, osVars, pc, op, arg, cur, crossed>>
    BY <1>5 DEF BootStarts, vars
  <2>3. QED
    BY <1>1, <1>3, <1>5, <2>1, <2>2, BeginKeepsAlone DEF BootStarts
<1>6. ASSUME NEW t \in Threads, Handle(t) \/ Runs(t) PROVE AloneInv'
  <2>1. slug[t] \in Keys
    <3>1. request[t] # None
      BY <1>1, <1>6, StepMoves, HandleServes DEF SharedPanelInv, RequestOK, Runs
    <3>2. QED
      BY <1>1, <3>1 DEF SharedPanelInv, RequestOK
  <2>2. PICK k \in Keys : slug[t] = k
    BY <2>1
  <2>3. QED
    BY <1>1, <1>3, <1>6, <2>2, OwnStepKeepsAlone, CallKeepsAlone, RunsKeepsAlone,
       CrossedKeepsAlone
<1>7. CASE BootLists \/ Serves \/ UNCHANGED allVars
  <2>1. UNCHANGED <<vars, row, config, script, request, slug, todo>>
    BY <1>7 DEF BootLists, Serves, allVars, panelVars, diskVars, reqVars
  <2>2. UNCHANGED <<op, pc, procs, arg, cur, crossed, os, owner>>
    BY <2>1 DEF vars
  <2>3. QED
    BY <1>3, <2>1, <2>2 DEF AloneInv, LiveOK, DoneOK, StopOK, LiveProc, At
<1>8. QED
  BY <1>1, <1>3, <1>4, <1>5, <1>6, <1>7, ChildrenKeepAlone, DiesKeepsAlone
     DEF PanelNext

-----------------------------------------------------------------------------
\* PanelInv holds whatever the requests, the deaths and the failures.
THEOREM PanelInvariance == PanelSpec => []PanelInv
BY PanelInitHolds, PanelKeeps, PTL DEF PanelSpec

\* Type correctness of the panel: its table, its files, its requests, its boot.
THEOREM PanelTypeCorrect == PanelSpec => []PanelTypeOK
<1>1. PanelInv => PanelTypeOK
  BY DEF PanelInv, SharedPanelInv
<1>2. QED
  BY <1>1, PanelInvariance, PTL

\* No request changes the phase of the panel.
LEMMA HandleKeepsPhase ==
  ASSUME NEW t \in Threads, Handle(t)
  PROVE  phase' = phase
<1>1. CASE CallRunner(t)
  BY <1>1 DEF CallRunner, bootVars
<1>2. CASE BeginsWrite(t)
  BY <1>2 DEF BeginsWrite, bootVars
<1>3. CASE ~CallRunner(t) /\ ~BeginsWrite(t)
  BY <1>3, HandleAnswers DEF Answer, Advance, bootVars
<1>4. QED
  BY <1>1, <1>2, <1>3

\* However many requests overlap, no boot forgets a station the table wants.
THEOREM BootReconciles == PanelSpec => BootIsThorough
<1>1. ASSUME PanelInv, PanelNext, phase = "boot", phase' = "serving"
      PROVE  \A k \in Keys : row[k] = "run" => procs[k] # None \/ k \in skipped
  <2>1. ~\E t \in Threads : Handle(t)
    BY <1>1, HandleKeepsPhase
  <2>2. Serves
    BY <1>1, <2>1 DEF PanelNext, Arrives, Runs, Waits, Exits, BootLists, BootStarts, Dies,
                      panelVars, bootVars
  <2>3. QED
    BY <1>1, <2>2, PanelAssumption DEF Kinds, PanelInv, SharedPanelInv, BootOK, Serves
<1>2. ASSUME PanelInv, [PanelNext]_allVars
      PROVE  [phase = "boot" /\ phase' = "serving"
                => \A k \in Keys : row[k] = "run" => procs[k] # None \/ k \in skipped]_allVars
  BY <1>1, <1>2
<1>3. QED
  BY <1>2, PanelInvariance, PTL DEF PanelSpec, BootIsThorough

\* What runs of a station is what the table wants until two requests about it
\* overlap, however those about different stations do, whatever fails and whenever
\* the panel dies.
THEOREM WhatRunsIsWanted == PanelSpec => []LiveIsWanted
<1>1. PanelInv => LiveIsWanted
  BY DEF PanelInv, AloneInv, LiveOK, LiveIsWanted
<1>2. QED
  BY <1>1, PanelInvariance, PTL

\* A station that create spawns is fresh, until two requests about it overlap.
THEOREM CreateIsFresh == PanelSpec => []CreateStartsFresh
<1>1. ASSUME PanelInv, NEW t \in Threads, request[t] = "create", pc[t] # "idle",
             slug[t] \in Uncrossed
      PROVE  config[slug[t]] = "whole" /\ script[slug[t]] = "starter"
  <2>1. Head(todo[t]) = "return"
    BY <1>1 DEF PanelInv, SharedPanelInv, RequestOK, At
  <2>2. QED
    BY <1>1, <2>1 DEF PanelInv, AloneInv, DoneOK
<1>2. PanelInv => CreateStartsFresh
  BY <1>1 DEF CreateStartsFresh
<1>3. QED
  BY <1>2, PanelInvariance, PTL

\* A request is answered with success after its last step.
LEMMA LastStep ==
  ASSUME SharedPanelInv, PanelNext, NEW t \in Threads, request[t] # None,
         reply'[t] = "ok"
  PROVE  Handle(t) /\ ~CallRunner(t) /\ ~BeginsWrite(t) /\ Tail(todo[t]) = <<>>
<1>1. reply[t] = None /\ None # "ok"
  BY PanelAssumption DEF SharedPanelInv, RequestOK
<1>2. Handle(t)
  <2>1. reply \in [Threads -> {"ok", "error", None}]
    BY DEF SharedPanelInv, PanelTypeOK
  <2>2. ASSUME NEW u \in Threads, Handle(u) PROVE u = t
    <3>1. reply' = reply \/ \E r : reply' = [reply EXCEPT ![u] = r]
      BY <2>2, HandleAnswers DEF CallRunner, BeginsWrite, reqVars, Answer, Advance
    <3>2. QED
      BY <1>1, <2>1, <3>1
  <2>3. ~\E u \in Threads, r \in Requests, k \in Keys : Arrives(u, r, k)
    BY <1>1, <2>1 DEF Arrives
  <2>4. ~\E u \in Threads, k \in Keys : BootStarts(u, k)
    BY <1>1, <2>1 DEF BootStarts
  <2>5. QED
    BY <1>1, <2>2, <2>3, <2>4 DEF PanelNext, Runs, Waits, Exits, BootLists, Serves, Dies,
                                  panelVars, reqVars
<1>3. ~CallRunner(t) /\ ~BeginsWrite(t)
  BY <1>1 DEF CallRunner, BeginsWrite, reqVars
<1>4. ~Answer(t, "error")
  BY AnswerStep DEF SharedPanelInv
<1>5. Advance(t)
  BY <1>2, <1>3, <1>4, HandleAnswers
<1>6. Tail(todo[t]) = <<>>
  BY <1>1, <1>5 DEF Advance
<1>7. QED
  BY <1>2, <1>3, <1>6

\* A stop that succeeds ends the station for good, unless requests about it overlap.
THEOREM StopEndsStation == PanelSpec => StopIsComplete
<1>1. ASSUME PanelInv, PanelNext, NEW t \in Threads, request[t] = "stop", reply'[t] = "ok",
             slug[t] \in Uncrossed
      PROVE  row[slug[t]] = "halt" /\ ~LiveProc(slug[t])
  <2>1. SharedPanelInv /\ AloneInv /\ request[t] # None
    BY <1>1, PanelAssumption DEF Kinds, PanelInv
  <2>2. Handle(t) /\ ~CallRunner(t) /\ ~BeginsWrite(t) /\ Tail(todo[t]) = <<>>
    BY <1>1, <2>1, LastStep
  <2>3. PICK s \in StepNames \ {"start", "stop", "restart"} :
           At(t, s) /\ (s = "return" => pc[t] = "idle")
    BY <2>2, HandleAnswers
  <2>4. todo[t] \in Left("stop") /\ DoneOK(t) /\ StopOK(t)
    BY <1>1, <2>1, <2>3, AtStep
  <2>5. At(t, "return") /\ pc[t] = "idle" /\ Head(todo[t]) = "return"
    BY <2>2, <2>3, <2>4, StopLeft DEF Then, Last, At
  <2>6. QED
    BY <1>1, <2>4, <2>5 DEF DoneOK, StopOK
<1>2. ASSUME PanelInv, [PanelNext]_allVars
      PROVE  [\A t \in Threads :
                request[t] = "stop" /\ reply'[t] = "ok" /\ slug[t] \in Uncrossed
                  => row[slug[t]] = "halt" /\ ~LiveProc(slug[t])]_allVars
  BY <1>1, <1>2
<1>3. QED
  BY <1>2, PanelInvariance, PTL DEF PanelSpec, StopIsComplete

\* A delete that succeeds leaves nothing of it, unless requests about it overlap.
THEOREM DeleteEndsStation == PanelSpec => DeleteIsComplete
<1>1. ASSUME PanelInv, PanelNext, NEW t \in Threads, request[t] = "delete", reply'[t] = "ok",
             slug[t] \in Uncrossed
      PROVE  row[slug[t]] = "none" /\ ~LiveProc(slug[t])
  <2>1. SharedPanelInv /\ AloneInv /\ request[t] # None
    BY <1>1, PanelAssumption DEF Kinds, PanelInv
  <2>2. Handle(t) /\ ~CallRunner(t) /\ ~BeginsWrite(t) /\ Tail(todo[t]) = <<>>
    BY <1>1, <2>1, LastStep
  <2>3. PICK s \in StepNames \ {"start", "stop", "restart"} :
           At(t, s) /\ (s = "return" => pc[t] = "idle")
    BY <2>2, HandleAnswers
  <2>4. todo[t] \in Left("delete") /\ DoneOK(t) /\ StopOK(t)
    BY <1>1, <2>1, <2>3, AtStep
  <2>5. Head(todo[t]) = "remove"
    BY <2>2, <2>4, DeleteLeft DEF Then, Last
  <2>6. QED
    BY <1>1, <2>4, <2>5 DEF DoneOK, StopOK
<1>2. ASSUME PanelInv, [PanelNext]_allVars
      PROVE  [\A t \in Threads :
                request[t] = "delete" /\ reply'[t] = "ok" /\ slug[t] \in Uncrossed
                  => row[slug[t]] = "none" /\ ~LiveProc(slug[t])]_allVars
  BY <1>1, <1>2
<1>3. QED
  BY <1>2, PanelInvariance, PTL DEF PanelSpec, DeleteIsComplete

-----------------------------------------------------------------------------
(* The panel implements StationDirectory.                                  *)

\* Where no process of k is alive, StationDirectory sees none.
LEMMA NothingLive ==
  ASSUME NEW k \in Keys, ~LiveProc(k) \/ (Wanted(k) /\ row[k] # "run")
  PROVE  liveOf[k] = {}
BY DEF liveOf, LiveProc, Wanted, Seen

\* A step of the Runner's abstraction that keeps the rows is one of StationDirectory.
LEMMA FollowsOn ==
  ASSUME row' = row, (\E k \in Uncrossed : Supervisor!Follow(k)) \/ UNCHANGED Supervisor!vars
  PROVE  [Directory!DirNext]_(Directory!dirVars)
<1>1. ASSUME NEW k \in Uncrossed, Supervisor!Follow(k) PROVE Directory!DirNext
  <2>1. Directory!Follow(k)
    BY <1>1 DEF Supervisor!Follow, Supervisor!Publish, Supervisor!Ask, Supervisor!Die,
                Supervisor!Record, Supervisor!Cross, Directory!Follow, Directory!Publish,
                Directory!Ask, Directory!Die, Directory!Record, Directory!Cross
  <2>2. QED
    BY <2>1 DEF Directory!DirNext
<1>2. CASE UNCHANGED Supervisor!vars
  BY <1>2 DEF Supervisor!vars, Directory!vars, Directory!dirVars
<1>3. QED
  BY <1>1, <1>2

\* A handler's own step is a change of its station's row, or a stutter.
LEMMA HandleRefines ==
  ASSUME SharedPanelInv, AloneInv, NEW t \in Threads, NEW k \in Keys, slug[t] = k, Handle(t)
  PROVE  [Directory!DirNext]_(Directory!dirVars)
<1>1. CASE CallRunner(t)
  <2>1. row' = row /\ \E o \in Ops : Call(t, o, k)
    BY <1>1 DEF CallRunner, diskVars
  <2>2. QED
    BY <2>1, CallRefines, FollowsOn DEF SharedPanelInv
<1>2. SUFFICES ASSUME ~CallRunner(t)
               PROVE  [Directory!DirNext]_(Directory!dirVars)
  BY <1>1
<1>3. UNCHANGED Supervisor!vars
  BY <1>2, HandleLeavesRunner, InvisibleStep DEF vars, SharedPanelInv
<1>4. UNCHANGED Directory!vars
  BY <1>3 DEF Directory!vars, Supervisor!vars
<1>5. row \in [Keys -> {"none", "run", "halt"}]
  BY DEF SharedPanelInv, PanelTypeOK
<1>6. CASE row' = row
  BY <1>3, <1>6, FollowsOn
<1>7. CASE k \notin Uncrossed /\ row' # row
  <2>1. \E w \in {"none", "run", "halt"} : row' = [row EXCEPT ![k] = w]
    BY <1>2, <1>7
       DEF Handle, Fails, Insert, Get, Want, Unwant, SetDesired, DeleteRow, BeginsWrite,
           WriteConfig, WriteScript, Save, RemoveFiles, MintOrUnregister, RunnerReturned, diskVars
  <2>2. k \in Keys \ Uncrossed
    BY <1>7
  <2>3. QED
    BY <1>4, <2>1, <2>2 DEF Directory!Crossed, Directory!DirNext
<1>8. CASE k \in Uncrossed /\ row' # row
  <2>1. ASSUME NEW s, At(t, s), s \notin {"start", "stop", "restart", "return"}
        PROVE  /\ request[t] \in Kinds /\ todo[t] \in Left(request[t]) /\ Head(todo[t]) = s
               /\ Wanted(k) /\ StopOK(t)
    BY <1>8, <2>1, AtStep DEF At
  <2>2. CASE Insert(t)
    <3>1. row[k] = "none" /\ row' = [row EXCEPT ![k] = "run"] /\ Wanted(k)
      BY <1>8, <2>1, <2>2 DEF Insert
    <3>2. QED
      BY <1>4, <1>8, <3>1, NothingLive DEF Directory!Create, Directory!DirNext
  <2>3. CASE Want(t)
    <3>1. row[k] # "none" /\ row' = [row EXCEPT ![k] = "run"] /\ Wanted(k)
      BY <1>8, <2>1, <2>3 DEF Want, SetDesired
    <3>2. QED
      BY <1>4, <1>5, <1>8, <3>1, NothingLive DEF Directory!Want, Directory!DirNext
  <2>4. CASE Unwant(t)
    <3>1. row[k] # "none" /\ row' = [row EXCEPT ![k] = "halt"]
      BY <1>8, <2>4 DEF Unwant, SetDesired
    <3>2. QED
      BY <1>4, <1>8, <3>1 DEF Directory!Unwant, Directory!DirNext
  <2>5. CASE DeleteRow(t)
    <3>1. At(t, "delete") /\ row' = [row EXCEPT ![k] = "none"]
      BY <2>5 DEF DeleteRow
    <3>2. request[t] = "delete"
      BY <2>1, <3>1, NextStep DEF Then, Last
    <3>3. ~LiveProc(k)
      BY <2>1, <3>1, <3>2 DEF StopOK
    <3>4. QED
      BY <1>4, <1>8, <3>1, <3>3, NothingLive DEF Directory!Delete, Directory!DirNext
  <2>6. QED
    BY <1>2, <1>8, <2>2, <2>3, <2>4, <2>5
       DEF Handle, Fails, Get, BeginsWrite, WriteConfig, WriteScript, Save, RemoveFiles,
           MintOrUnregister, RunnerReturned, diskVars
<1>9. QED
  BY <1>6, <1>7, <1>8

\* A process is spawned for a call whose request has seen its row say "run".
LEMMA SpawnsWanted ==
  ASSUME SharedPanelInv, AloneInv, NEW t \in Threads, pc[t] = "spawn", arg[t] \in Uncrossed
  PROVE  row[arg[t]] = "run"
<1>1. /\ At(t, "return") /\ arg[t] = slug[t] /\ op[t] = RunnerOp(request[t])
      /\ op[t] \in {"start", "restart"} /\ request[t] # None
  BY DEF SharedPanelInv, RequestOK, IInv, SharedInv, ThreadInv, ThreadOK, At
<1>2. request[t] \in Kinds /\ todo[t] \in Left(request[t]) /\ Head(todo[t]) = "return"
  BY <1>1, Served DEF SharedPanelInv, At
<1>3. request[t] \in {"create", "start", "restart", "boot"}
  BY <1>1, <1>2, NextStep DEF RunnerOp, Then, Last
<1>4. QED
  BY <1>1, <1>2, <1>3 DEF AloneInv, DoneOK, SharedPanelInv, BootOK

\* So is every step of the Runner, of a child or of a Wait goroutine.
LEMMA RunnerRefines ==
  ASSUME SharedPanelInv, AloneInv, Next, row' = row
  PROVE  [Directory!DirNext]_(Directory!dirVars)
<1>1. IInv
  BY DEF SharedPanelInv
<1>2. ASSUME NEW t \in Threads, NEW p \in Procs, Spawn(t, p), arg[t] \in Uncrossed
      PROVE  Directory!DirNext
  <2>1. Supervisor!Spawn(arg[t], p)
    BY <1>1, <1>2, SpawnRefines
  <2>2. row[arg[t]] = "run"
    BY <1>2, SpawnsWanted DEF Spawn
  <2>3. Directory!SpawnWanted(arg[t], p)
    BY <2>1, <2>2 DEF Supervisor!Spawn, Directory!Spawn, Directory!SpawnWanted
  <2>4. QED
    BY <1>2, <2>3 DEF Directory!DirNext
<1>3. ASSUME NEW t \in Threads, NEW p \in Procs, Spawn(t, p), arg[t] \notin Uncrossed
      PROVE  UNCHANGED Supervisor!vars
  BY <1>1, <1>3, SpawnRefines
<1>4. QED
  BY <1>1, <1>2, <1>3, StepFollows, FollowsOn

\* A death maps to Reboot.
LEMMA DiesRefines ==
  ASSUME Dies
  PROVE  Directory!DirNext
<1>1. liveOf' = [k \in Keys |-> {}]
  BY DEF Dies, liveOf, Seen
<1>2. /\ statusOf' = [k \in Keys |-> "absent"] /\ askedOf' = [k \in Keys |-> FALSE]
      /\ Uncrossed' = Keys
  BY DEF Dies, statusOf, askedOf, Seen
<1>3. Directory!Reboot
  BY <1>1, <1>2 DEF Directory!Reboot, Directory!Init, Dies, diskVars
<1>4. QED
  BY <1>3 DEF Directory!DirNext

\* Every step of the panel is one of StationDirectory or a stutter.
LEMMA PanelRefines ==
  ASSUME PanelInv, [PanelNext]_allVars
  PROVE  [Directory!DirNext]_(Directory!dirVars)
<1>1. SharedPanelInv /\ AloneInv
  BY DEF PanelInv
<1>2. ASSUME UNCHANGED <<vars, row>> PROVE UNCHANGED Directory!dirVars
  <2>1. UNCHANGED Supervisor!vars
    BY <1>1, <1>2, InvisibleStep DEF vars, SharedPanelInv
  <2>2. QED
    BY <1>2, <2>1 DEF Supervisor!vars, Directory!vars, Directory!dirVars
<1>3. ASSUME NEW t \in Threads, Handle(t) PROVE [Directory!DirNext]_(Directory!dirVars)
  <2>1. slug[t] \in Keys
    BY <1>1, <1>3, HandleServes DEF SharedPanelInv, RequestOK
  <2>2. PICK k \in Keys : slug[t] = k
    BY <2>1
  <2>3. QED
    BY <1>1, <1>3, <2>2, HandleRefines
<1>4. ASSUME Next, row' = row PROVE [Directory!DirNext]_(Directory!dirVars)
  BY <1>1, <1>4, RunnerRefines
<1>5. ASSUME NEW t \in Threads, Runs(t) PROVE Next /\ row' = row
  BY <1>5 DEF Runs, Next, panelVars, diskVars
<1>6. ASSUME NEW p \in Procs, Waits(p) \/ Exits(p) PROVE Next /\ row' = row
  BY <1>6 DEF Waits, Exits, Next, panelVars, diskVars
<1>7. ASSUME NEW t \in Threads, NEW r \in Requests, NEW k \in Keys, Arrives(t, r, k)
      PROVE  [Directory!DirNext]_(Directory!dirVars)
  <2>1. UNCHANGED <<procs, state, stopping, os, owner, row>>
    BY <1>7 DEF Arrives, procVars, osVars, diskVars
  <2>2. crossed' \in {crossed, crossed \cup {k}}
    BY <1>7 DEF Arrives
  <2>3. QED
    BY <1>1, <2>1, <2>2, CrossRefines, FollowsOn DEF SharedPanelInv
<1>8. CASE \/ \E t \in Threads, k \in Keys : BootStarts(t, k)
           \/ BootLists \/ Serves \/ UNCHANGED allVars
  BY <1>2, <1>8 DEF BootStarts, BootLists, Serves, allVars, panelVars, diskVars
<1>9. QED
  BY <1>3, <1>4, <1>5, <1>6, <1>7, <1>8, DiesRefines DEF PanelNext

\* The panel does what StationDirectory promises, across its deaths and whatever
\* requests overlap.
THEOREM PanelImplementation == PanelSpec => ImplementsDirectory
<1>1. PanelInit => Directory!DirInit
  BY InitRefines DEF PanelInit, Supervisor!Init, Directory!DirInit, Directory!Init
<1>2. PanelInv /\ [PanelNext]_allVars => [Directory!DirNext]_(Directory!dirVars)
  BY PanelRefines
<1>3. QED
  BY <1>1, <1>2, PanelInvariance, PTL DEF PanelSpec, Directory!DirSpec, ImplementsDirectory

\* However often the panel dies and boots, a station has one process at most, until
\* two requests about it overlap.
THEOREM PanelOneProcess == PanelSpec => []OneProcessPerKey
<1>1. PanelInv => OneProcessPerKey
  BY LiveIsOne DEF PanelInv, SharedPanelInv
<1>2. QED
  BY <1>1, PanelInvariance, PTL

\* Whoever calls, and across deaths, the panel records no crash it asked for.
THEOREM PanelCrashesUnasked == PanelSpec => []CrashIsUnasked
<1>1. PanelInv => CrashIsUnasked
  BY DEF PanelInv, SharedPanelInv, IInv, SharedInv, ProcInv, ProcOK, CrashIsUnasked
<1>2. QED
  BY <1>1, PanelInvariance, PTL

\* To the Runner, a step of the panel is one of its own, its end, or the news that
\* requests overlap.
LEMMA PanelRunsRunner ==
  ASSUME PanelInv, [PanelNext]_allVars
  PROVE  [Next]_vars \/ Dies \/ UNCHANGED <<procVars, osVars, pc, cur>>
<1>1. ASSUME NEW t \in Threads, CallRunner(t) PROVE Next
  <2>1. slug[t] \in Keys
    BY <1>1, HandleServes DEF Handle, PanelInv, SharedPanelInv, RequestOK
  <2>2. \E o \in Ops : Call(t, o, slug[t])
    BY <1>1 DEF CallRunner, Ops
  <2>3. QED
    BY <2>1, <2>2 DEF Next
<1>2. ASSUME NEW t \in Threads, Handle(t), ~CallRunner(t) PROVE UNCHANGED vars
  BY <1>2, HandleLeavesRunner
<1>3. ASSUME NEW t \in Threads, Runs(t) PROVE Next
  BY <1>3 DEF Runs, Next
<1>4. ASSUME NEW p \in Procs, Waits(p) \/ Exits(p) PROVE Next
  BY <1>4 DEF Waits, Exits, Next
<1>5. ASSUME NEW t \in Threads, NEW r \in Requests, NEW k \in Keys, Arrives(t, r, k)
      PROVE  UNCHANGED <<procVars, osVars, pc, cur>>
  BY <1>5 DEF Arrives
<1>6. CASE \/ \E t \in Threads, k \in Keys : BootStarts(t, k)
           \/ BootLists \/ Serves \/ UNCHANGED allVars
  BY <1>6 DEF BootStarts, BootLists, Serves, allVars
<1>7. QED
  BY <1>1, <1>2, <1>3, <1>4, <1>5, <1>6 DEF PanelNext

\* No handler is stuck in a Stop, whatever else is asked of the same station.
THEOREM PanelDrainsMoveOn == PanelSpec => []DrainMovesOn
<1>1. PanelInit => DrainMovesOn
  BY DEF PanelInit, Init, DrainMovesOn
<1>2. Dies => DrainMovesOn'
  BY DEF Dies, DrainMovesOn
<1>3. DrainMovesOn /\ UNCHANGED <<procVars, osVars, pc, cur>> => DrainMovesOn'
  BY DEF DrainMovesOn
<1>4. PanelInv => IInv
  BY DEF PanelInv, SharedPanelInv
<1>5. PanelInv /\ [PanelNext]_allVars /\ DrainMovesOn => DrainMovesOn'
  BY <1>2, <1>3, <1>4, DrainKeeps, PanelRunsRunner
<1>6. QED
  BY <1>1, <1>5, PanelInvariance, PTL DEF PanelSpec

=============================================================================
