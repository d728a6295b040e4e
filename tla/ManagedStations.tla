-------------------------- MODULE ManagedStations --------------------------
(***************************************************************************)
(* Panel-managed stations end to end: the request handlers of              *)
(* internal/httpapi/managed_stations_handlers.go over the managed_stations *)
(* table, the generated files and the Runner, and the boot reconciliation  *)
(* of cmd/panel/main.go after the panel dies.  A handler is the sequence   *)
(* of steps it takes; each commits on its own and most of them may fail,   *)
(* which answers the request and leaves the earlier steps in place.        *)
(***************************************************************************)
EXTENDS StationRunner, Sequences

CONSTANTS
    Requests,   \* the kinds of requests that are made
    MaxDeaths   \* bound on how often the panel dies

\* What a goroutine can be at: a request of a handler, or a station of the boot loop.
Kinds == {"create", "delete", "start", "stop", "restart", "put", "boot"}

ASSUME PanelAssumption ==
    /\ Requests \subseteq Kinds \ {"boot"}
    /\ None \notin Kinds \cup {"ok", "error"}
    /\ MaxDeaths \in Nat

VARIABLES
    phase,     \* "down", "boot" (reconciling) or "serving"
    row,       \* the row of a key: "none", "run" (desired_running) or "halt"
    config,    \* a key's directory: "none", "partial" (no whole station.yaml) or "whole"
    script,    \* its station.lua: "none", "cut" short, the "starter" template or "edited"
    request,   \* the request a goroutine serves, None between requests
    slug,      \* the key it is about
    todo,      \* the steps left of it
    reply,     \* the answer to the last one: "ok", "error" or None
    bootq,     \* keys reconciliation still has to start
    skipped,   \* keys this boot's reconciliation logged and skipped
    deaths     \* how often the panel has died

diskVars  == <<row, config, script>>
reqVars   == <<request, slug, todo, reply>>
bootVars  == <<phase, bootq, skipped, deaths>>
panelVars == <<diskVars, reqVars, bootVars>>
allVars   == <<vars, panelVars>>

\* Mutants: desired_running is set after the start; it is not cleared by a stop;
\* a delete leaves the process alone.
StartSteps_WantLast    == <<"get", "mint", "start", "want">>
StopSteps_KeepsIntent  == <<"get", "stop">>
DeleteSteps_KeepsAlive == <<"unregister", "delete", "remove">>

\* The steps of each handler, in the order of the code.  "start", "stop" and
\* "restart" call the Runner; "return" is the wait for that call.
CreateSteps  == <<"insert", "config", "script", "mint", "start">>
DeleteSteps  == <<"stop", "unregister", "delete", "remove">>
StartSteps   == <<"get", "want", "mint", "start">>
StopSteps    == <<"get", "unwant", "stop">>
RestartSteps == <<"get", "want", "mint", "restart">>
PutSteps     == <<"get", "save">>
BootSteps    == <<"mint", "start">>

Steps(r) ==
    CASE r = "create"  -> CreateSteps
      [] r = "delete"  -> DeleteSteps
      [] r = "start"   -> StartSteps
      [] r = "stop"    -> StopSteps
      [] r = "restart" -> RestartSteps
      [] r = "put"     -> PutSteps
      [] r = "boot"    -> BootSteps

StepNames == {"insert", "config", "script", "mint", "start", "stop", "unregister",
              "delete", "remove", "get", "want", "unwant", "restart", "save", "return"}

PanelTypeOK ==
    /\ TypeOK
    /\ phase \in {"down", "boot", "serving"}
    /\ row \in [Keys -> {"none", "run", "halt"}]
    /\ config \in [Keys -> {"none", "partial", "whole"}]
    /\ script \in [Keys -> {"none", "cut", "starter", "edited"}]
    /\ request \in [Threads -> Requests \cup {"boot", None}]
    /\ slug \in [Threads -> Keys \cup {None}]
    /\ todo \in [Threads -> Seq(StepNames)]
    /\ reply \in [Threads -> {"ok", "error", None}]
    /\ bootq \subseteq Keys
    /\ skipped \subseteq Keys
    /\ deaths \in 0..MaxDeaths

\* The panel comes up over an empty table.
PanelInit ==
    /\ Init
    /\ phase = "down"
    /\ row = [k \in Keys |-> "none"]
    /\ config = [k \in Keys |-> "none"]
    /\ script = [k \in Keys |-> "none"]
    /\ request = [t \in Threads |-> None]
    /\ slug = [t \in Threads |-> None]
    /\ todo = [t \in Threads |-> <<>>]
    /\ reply = [t \in Threads |-> None]
    /\ bootq = {}
    /\ skipped = {}
    /\ deaths = 0

-----------------------------------------------------------------------------
(* Requests and their steps.                                               *)

\* Nothing keeps requests about one station apart; that one meets another is
\* remembered as calls of the Runner that cross.
Arrives(t, r, k) ==
    /\ phase = "serving"
    /\ request[t] = None
    /\ request' = [request EXCEPT ![t] = r]
    /\ slug' = [slug EXCEPT ![t] = k]
    /\ todo' = [todo EXCEPT ![t] = Steps(r)]
    /\ reply' = [reply EXCEPT ![t] = None]
    /\ crossed' = crossed \cup {j \in {k} : \E u \in Threads : request[u] # None /\ slug[u] = k}
    /\ UNCHANGED <<procVars, osVars, pc, op, arg, cur, ret, diskVars, bootVars>>

At(t, s) == request[t] # None /\ todo[t] # <<>> /\ Head(todo[t]) = s

\* The request is answered; a station of the boot loop is done with.
Answer(t, r) ==
    /\ request' = [request EXCEPT ![t] = None]
    /\ slug' = [slug EXCEPT ![t] = None]
    /\ todo' = [todo EXCEPT ![t] = <<>>]
    /\ reply' = [reply EXCEPT ![t] = r]
    /\ skipped' = IF request[t] = "boot" /\ r = "error" THEN skipped \cup {slug[t]} ELSE skipped
    /\ UNCHANGED <<phase, bootq, deaths>>

Advance(t) ==
    IF Tail(todo[t]) = <<>>
      THEN Answer(t, "ok")
      ELSE /\ todo' = [todo EXCEPT ![t] = Tail(@)]
           /\ UNCHANGED <<request, slug, reply, bootVars>>

\* A step with an error path that ends the request: the query, the mint or the
\* write failed, or the client hung up and cancelled its context.
Fails(t) ==
    /\ \E s \in {"insert", "config", "script", "mint", "delete", "get", "want",
                 "unwant", "save"} : At(t, s)
    /\ Answer(t, "error")
    /\ UNCHANGED <<vars, diskVars>>

\* INSERT with desired_running = 1: the UNIQUE (server_id, slug) decides.
Insert(t) ==
    /\ At(t, "insert")
    /\ IF row[slug[t]] = "none"
         THEN row' = [row EXCEPT ![slug[t]] = "run"] /\ Advance(t)
         ELSE row' = row /\ Answer(t, "error")
    /\ UNCHANGED <<vars, config, script>>

Get(t) ==
    /\ At(t, "get")
    /\ IF row[slug[t]] = "none" THEN Answer(t, "error") ELSE Advance(t)
    /\ UNCHANGED <<vars, diskVars>>

\* UPDATE ... WHERE server_id, slug: an error when the row has gone.
SetDesired(t, s, v) ==
    /\ At(t, s)
    /\ IF row[slug[t]] = "none"
         THEN row' = row /\ Answer(t, "error")
         ELSE row' = [row EXCEPT ![slug[t]] = v] /\ Advance(t)
    /\ UNCHANGED <<vars, config, script>>

Want(t)   == SetDesired(t, "want", "run")
Unwant(t) == SetDesired(t, "unwant", "halt")

DeleteRow(t) ==
    /\ At(t, "delete")
    /\ row' = [row EXCEPT ![slug[t]] = "none"]
    /\ IF row[slug[t]] = "none" THEN Answer(t, "error") ELSE Advance(t)
    /\ UNCHANGED <<vars, config, script>>

\* A write under way: writeStationFiles has made the directory, os.WriteFile has
\* emptied the file.  A failure, or a death of the panel, may leave it at that.
BeginsWrite(t) ==
    /\ \/ /\ At(t, "config") /\ config[slug[t]] # "partial"
          /\ config' = [config EXCEPT ![slug[t]] = "partial"]
          /\ script' = script
       \/ /\ At(t, "script") \/ (At(t, "save") /\ config[slug[t]] # "none")
          /\ script[slug[t]] # "cut"
          /\ script' = [script EXCEPT ![slug[t]] = "cut"]
          /\ config' = config
    /\ UNCHANGED <<vars, row, reqVars, bootVars>>

WriteConfig(t) ==
    /\ At(t, "config")
    /\ config' = [config EXCEPT ![slug[t]] = "whole"]
    /\ Advance(t)
    /\ UNCHANGED <<vars, row, script>>

\* Mutant: a script that is already there is kept.
WriteScript_KeepsOld(t) ==
    /\ At(t, "script")
    /\ script' = [script EXCEPT ![slug[t]] = IF @ = "none" THEN "starter" ELSE @]
    /\ Advance(t)
    /\ UNCHANGED <<vars, row, config>>

WriteScript(t) ==
    /\ At(t, "script")
    /\ script' = [script EXCEPT ![slug[t]] = "starter"]
    /\ Advance(t)
    /\ UNCHANGED <<vars, row, config>>

\* os.WriteFile makes no directory: without one the save fails.
Save(t) ==
    /\ At(t, "save")
    /\ config[slug[t]] # "none"
    /\ script' = [script EXCEPT ![slug[t]] = "edited"]
    /\ Advance(t)
    /\ UNCHANGED <<vars, row, config>>

\* RemoveAll removes what it can; its error is dropped, and the request succeeds
\* all the same.  The directory goes last.
RemoveFiles(t) ==
    /\ At(t, "remove")
    /\ config[slug[t]] # "none" => \E c \in {"none", "partial", config[slug[t]]} :
           config' = [config EXCEPT ![slug[t]] = c]
    /\ config[slug[t]] = "none" => config' = config
    /\ \/ script' = [script EXCEPT ![slug[t]] = "none"]
       \/ config'[slug[t]] # "none" /\ script' = script
    /\ Advance(t)
    /\ UNCHANGED <<vars, row>>

\* A token is minted; the audio server forgets the station (an error there is
\* dropped).  Neither changes anything here.
MintOrUnregister(t) ==
    /\ At(t, "mint") \/ At(t, "unregister")
    /\ Advance(t)
    /\ UNCHANGED <<vars, diskVars>>

\* The handler's goroutine enters the Runner ...
CallRunner(t) ==
    /\ \E o \in {"start", "stop", "restart"} : At(t, o) /\ Call(t, o, slug[t])
    /\ todo' = [todo EXCEPT ![t][1] = "return"]
    /\ UNCHANGED <<diskVars, request, slug, reply, bootVars>>

\* ... and comes back; deleteStationHandler drops the error of Stop.
RunnerReturned(t) ==
    /\ At(t, "return")
    /\ pc[t] = "idle"
    /\ IF ret[t] = "ok" \/ request[t] = "delete" THEN Advance(t) ELSE Answer(t, "error")
    /\ UNCHANGED <<vars, diskVars>>

-----------------------------------------------------------------------------
(* The panel's life.                                                       *)

\* ListManagedStations at boot, server by server; on an error the stations of that
\* server are skipped.
BootLists ==
    /\ phase = "down"
    /\ phase' = "boot"
    /\ LET desired == {k \in Keys : row[k] = "run"}
       IN  \E s \in SUBSET desired : bootq' = desired \ s /\ skipped' = s
    /\ UNCHANGED <<vars, diskVars, reqVars, deaths>>

\* Mutant: a station that was skipped is retried before boot goes on.
BootStarts_Retries(t, k) ==
    /\ phase = "boot"
    /\ \A u \in Threads : request[u] = None
    /\ k \in bootq \cup skipped
    /\ bootq' = (bootq \cup skipped) \ {k}
    /\ skipped' = {}
    /\ request' = [request EXCEPT ![t] = "boot"]
    /\ slug' = [slug EXCEPT ![t] = k]
    /\ todo' = [todo EXCEPT ![t] = Steps("boot")]
    /\ reply' = [reply EXCEPT ![t] = None]
    /\ UNCHANGED <<vars, diskVars, phase, deaths>>

\* The loop takes the next row, before any request is served.
BootStarts(t, k) ==
    /\ phase = "boot"
    /\ \A u \in Threads : request[u] = None
    /\ k \in bootq
    /\ bootq' = bootq \ {k}
    /\ request' = [request EXCEPT ![t] = "boot"]
    /\ slug' = [slug EXCEPT ![t] = k]
    /\ todo' = [todo EXCEPT ![t] = Steps("boot")]
    /\ reply' = [reply EXCEPT ![t] = None]
    /\ UNCHANGED <<vars, diskVars, phase, skipped, deaths>>

\* Mutant: the panel serves while it still reconciles.
Serves_Early ==
    /\ phase = "boot"
    /\ \A t \in Threads : request[t] = None
    /\ phase' = "serving"
    /\ UNCHANGED <<vars, diskVars, reqVars, bootq, skipped, deaths>>

Serves ==
    /\ phase = "boot"
    /\ bootq = {}
    /\ \A t \in Threads : request[t] = None
    /\ phase' = "serving"
    /\ UNCHANGED <<vars, diskVars, reqVars, bootq, skipped, deaths>>

\* SIGKILL, a crash, a power cut: goroutines and the procs map are gone, the
\* table and the files stay, and the children go down with the container or the
\* cgroup of the panel: its next life spawns new ones, as many as Procs again.
Dies ==
    /\ phase # "down"
    /\ deaths < MaxDeaths
    /\ deaths' = deaths + 1
    /\ phase' = "down"
    /\ bootq' = {} /\ skipped' = {}
    /\ request' = [t \in Threads |-> None]
    /\ slug' = [t \in Threads |-> None]
    /\ todo' = [t \in Threads |-> <<>>]
    /\ reply' = [t \in Threads |-> None]
    /\ procs' = [k \in Keys |-> None]
    /\ state' = [p \in Procs |-> "none"]
    /\ stopping' = [p \in Procs |-> FALSE] /\ done' = [p \in Procs |-> FALSE]
    /\ os' = [p \in Procs |-> "unborn"] /\ owner' = [p \in Procs |-> None]
    /\ signal' = [p \in Procs |-> "none"] /\ death' = [p \in Procs |-> "none"]
    /\ pc' = [t \in Threads |-> "idle"] /\ op' = [t \in Threads |-> None]
    /\ arg' = [t \in Threads |-> None] /\ cur' = [t \in Threads |-> None]
    /\ ret' = [t \in Threads |-> None] /\ crossed' = {}
    /\ UNCHANGED diskVars

-----------------------------------------------------------------------------
Handle(t) ==
    \/ Fails(t) \/ Insert(t) \/ Get(t) \/ Want(t) \/ Unwant(t) \/ DeleteRow(t)
    \/ BeginsWrite(t) \/ WriteConfig(t) \/ WriteScript(t) \/ Save(t) \/ RemoveFiles(t)
    \/ MintOrUnregister(t) \/ CallRunner(t) \/ RunnerReturned(t)

Runs(t)  == Step(t) /\ UNCHANGED panelVars
Waits(p) == WaitStep(p) /\ UNCHANGED panelVars
Exits(p) ==
    /\ \E how \in {"clean", "failed", "signalled"} : Exit(p, how)
    /\ UNCHANGED panelVars

PanelNext ==
    \/ \E t \in Threads, r \in Requests, k \in Keys : Arrives(t, r, k)
    \/ \E t \in Threads : Handle(t) \/ Runs(t)
    \/ \E p \in Procs : Waits(p) \/ Exits(p)
    \/ BootLists \/ Serves \/ Dies
    \/ \E t \in Threads, k \in Keys : BootStarts(t, k)

PanelSpec == PanelInit /\ [][PanelNext]_allVars

\* Goroutines run, the boot goes on, a killed child dies.
PanelFairness ==
    /\ \A t \in Threads : WF_allVars(Handle(t)) /\ WF_allVars(Runs(t))
    /\ \A p \in Procs : WF_allVars(Waits(p)) /\ WF_allVars(signal[p] = "KILL" /\ Exits(p))
    /\ WF_allVars(BootLists) /\ WF_allVars(Serves)
    /\ WF_allVars(\E t \in Threads, k \in Keys : BootStarts(t, k))

FairPanelSpec == PanelSpec /\ PanelFairness

-----------------------------------------------------------------------------
(* Properties.  Those marked (uncrossed) are about the stations on which no  *)
(* two requests have overlapped since the panel came up.                     *)

\* (uncrossed) A live station is one the table wants running, so the next boot
\* restarts it, unless the request that ends it is under way: desired_running
\* is set before the start and cleared before the stop, and a panel that dies in
\* between, or a step that fails, does not break it.
LiveIsWanted ==
    \A p \in Procs :
        os[p] = "alive" /\ owner[p] \in Uncrossed /\ row[owner[p]] # "run"
            => \E t \in Threads : request[t] \in {"stop", "delete"} /\ slug[t] = owner[p]

LiveProc(k) == \E p \in Procs : os[p] = "alive" /\ owner[p] = k

\* (uncrossed) A stop that was answered with success leaves no process and
\* a row that keeps the station down at the next boot; a delete leaves neither a
\* process nor a row ("the only way to fully remove a panel-managed station",
\* managed_stations_handlers.go:82-84).
DeleteIsComplete ==
    [][\A t \in Threads :
          request[t] = "delete" /\ reply'[t] = "ok" /\ slug[t] \in Uncrossed
              => row[slug[t]] = "none" /\ ~LiveProc(slug[t])]_allVars

StopIsComplete ==
    [][\A t \in Threads :
          request[t] = "stop" /\ reply'[t] = "ok" /\ slug[t] \in Uncrossed
              => row[slug[t]] = "halt" /\ ~LiveProc(slug[t])]_allVars

\* (uncrossed) A station that create spawns runs whole starter files (it "plays silence
\* until edited", managed_stations_handlers.go:34-38), whatever an earlier station
\* of its slug left behind: a delete that stopped half-way, a RemoveAll or a write
\* that failed, a panel that died in between.
CreateStartsFresh ==
    \A t \in Threads :
        request[t] = "create" /\ pc[t] # "idle" /\ slug[t] \in Uncrossed
            => config[slug[t]] = "whole" /\ script[slug[t]] = "starter"

\* When the panel starts serving, every station the table wants running has been
\* started by this boot or was skipped on its own failure: one broken station
\* does not keep the others down (main.go:150-156).
BootIsThorough ==
    [][phase = "boot" /\ phase' = "serving"
          => \A k \in Keys : row[k] = "run" => procs[k] # None \/ k \in skipped]_allVars

\* However many stations fail to start, boot ends in a panel that serves or dies.
BootEnds == phase = "boot" ~> phase # "boot"

-----------------------------------------------------------------------------
(* The inductive invariant, on top of IInv: what holds of every station,   *)
(* and what holds of the uncrossed ones.                                   *)

\* What may be left of a request, the call of the Runner it waits for included.
Left(r) ==
    CASE r = "create"  -> {CreateSteps, <<"config", "script", "mint", "start">>,
                           <<"script", "mint", "start">>, <<"mint", "start">>,
                           <<"start">>, <<"return">>}
      [] r = "delete"  -> {DeleteSteps, <<"return", "unregister", "delete", "remove">>,
                           <<"unregister", "delete", "remove">>, <<"delete", "remove">>,
                           <<"remove">>}
      [] r = "start"   -> {StartSteps, <<"want", "mint", "start">>, <<"mint", "start">>,
                           <<"start">>, <<"return">>}
      [] r = "stop"    -> {StopSteps, <<"unwant", "stop">>, <<"stop">>, <<"return">>}
      [] r = "restart" -> {RestartSteps, <<"want", "mint", "restart">>, <<"mint", "restart">>,
                           <<"restart">>, <<"return">>}
      [] r = "put"     -> {PutSteps, <<"save">>}
      [] r = "boot"    -> {BootSteps, <<"start">>, <<"return">>}

\* The call a request makes.
RunnerOp(r) ==
    IF r = "restart" THEN "restart" ELSE IF r \in {"stop", "delete"} THEN "stop" ELSE "start"

RequestOK(t) ==
    /\ request[t] = None => todo[t] = <<>> /\ pc[t] = "idle"
    /\ request[t] # None =>
         /\ slug[t] \in Keys
         /\ todo[t] \in Left(request[t]) /\ reply[t] = None
    /\ pc[t] # "idle" =>
         /\ At(t, "return") /\ arg[t] = slug[t] /\ op[t] = RunnerOp(request[t])
         /\ op[t] = "start" => pc[t] \in StartPCs
         /\ op[t] = "stop" => pc[t] \in StopPCs

\* Requests about an uncrossed station come one at a time.
RequestsApart ==
    \A t, u \in Threads :
        /\ request[t] # None /\ request[u] # None
        /\ slug[t] = slug[u] /\ slug[t] \in Uncrossed
        => t = u

\* Boot serves nobody; what it has to start is wanted, and what is wanted and
\* was not skipped is being started or has been.
BootOK ==
    /\ phase = "down" => \A t \in Threads : request[t] = None
    /\ phase = "boot" =>
         /\ \A t \in Threads : request[t] \in {None, "boot"}
         /\ \A k \in bootq : row[k] = "run"
         /\ \A k \in Keys : row[k] = "run" =>
               \/ k \in bootq \cup skipped \/ procs[k] # None
               \/ \E t \in Threads : request[t] = "boot" /\ slug[t] = k
    /\ \A t \in Threads :
         request[t] = "boot" => /\ phase = "boot" /\ row[slug[t]] = "run"
                                /\ At(t, "return") /\ ret[t] = "ok" => procs[slug[t]] # None

\* What the steps of a request have brought about so far.
DoneOK(t) ==
    /\ request[t] = "create" =>
         /\ Head(todo[t]) # "insert" => row[slug[t]] = "run"
         /\ Head(todo[t]) \notin {"insert", "config"} => config[slug[t]] = "whole"
         /\ Head(todo[t]) \notin {"insert", "config", "script"} => script[slug[t]] = "starter"
    /\ request[t] \in {"start", "restart"} /\ Head(todo[t]) \notin {"get", "want"}
         => row[slug[t]] = "run"
    /\ request[t] = "stop" /\ Head(todo[t]) \in {"stop", "return"} => row[slug[t]] = "halt"
    /\ request[t] = "delete" /\ Head(todo[t]) = "remove" => row[slug[t]] = "none"

\* Stop acts on the process its key tracks, and leaves none alive.
StopOK(t) ==
    /\ op[t] = "stop" /\ pc[t] \in {"mark", "signal", "await", "drain"} => procs[arg[t]] = cur[t]
    /\ \/ request[t] \in {"stop", "delete"} /\ At(t, "return") /\ pc[t] = "idle"
       \/ request[t] = "delete" /\ Head(todo[t]) \in {"unregister", "delete", "remove"}
       => ~LiveProc(slug[t])

\* A station runs because the table wants it, or is about to be stopped.
LiveOK ==
    \A p \in Procs : os[p] = "alive" /\ owner[p] \in Uncrossed =>
        \/ row[owner[p]] = "run"
        \/ \E t \in Threads : /\ request[t] = "stop" /\ Head(todo[t]) \in {"stop", "return"}
                              /\ slug[t] = owner[p]

SharedPanelInv ==
    PanelTypeOK /\ IInv /\ BootOK /\ RequestsApart /\ \A t \in Threads : RequestOK(t)
AloneInv == LiveOK /\ \A t \in Threads : slug[t] \in Uncrossed => DoneOK(t) /\ StopOK(t)
PanelInv == SharedPanelInv /\ AloneInv

-----------------------------------------------------------------------------
(* The promise of the panel, and how this state implements it.             *)

Directory == INSTANCE StationDirectory
               WITH apart <- Uncrossed, live <- liveOf, status <- statusOf,
                    asked <- askedOf, wanted <- row

\* The panel implements StationDirectory, across its deaths.
ImplementsDirectory == Directory!DirSpec

=============================================================================
