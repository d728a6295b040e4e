--------------------------- MODULE StationEditor ---------------------------
(***************************************************************************)
(* The edit page of one managed station: EditStationPage.tsx, the          *)
(* Controller section with its script editor (ControllerSection.tsx,       *)
(* ScriptEditor.tsx), and the two query cache entries they live on         *)
(* (useManagedStation.ts): ['station-process', ..], polled, and            *)
(* ['station-script', ..], fetched when the section appears.  Other        *)
(* operators save, delete and create the same station meanwhile.  The log  *)
(* tail, the "Saved" note and the page's wording are left out.             *)
(***************************************************************************)
EXTENDS Naturals

CONSTANTS
    Texts,        \* contents of a script
    Starter,      \* the one a new station is given
    Requests,     \* requests the page may have under way at a time
    None,
    Pending,      \* a fetch nobody answered yet
    MaxGen,       \* bound on how often the station is created anew
    MaxTroubles   \* bound on fetches that fail

\* A crashed process is handled like a stopped one.
Processes == {"running", "stopped", "unmanaged"}
Kinds     == {"save", "start", "stop", "restart", "delete"}
Versions  == [gen : 0..MaxGen, text : Texts]
Mutations == [kind : Kinds, text : Texts \cup {None}, at : {"sent", "ok", "failed"},
              mine : BOOLEAN, answer : Processes \cup {None}]

ASSUME StationEditorAssumption ==
    /\ Starter \in Texts
    /\ None \notin Texts \cup Versions \cup Mutations
    /\ Pending \notin Texts \cup Versions /\ None # Pending
    /\ MaxGen \in Nat /\ MaxTroubles \in Nat

VARIABLES
    gen,         \* which incarnation of the station this is
    script,      \* its script file, None while there is no such station
    proc,        \* its process, "unmanaged" while there is no such station
    procSeen, procFetch,      \* ['station-process', ..]: data, and the fetch under way
    scriptSeen, scriptFetch,  \* ['station-script', ..]: None or the version read
    editing,     \* the edit page is mounted
    draft,       \* the section's content, dirty and seeded
    request,     \* request[r]: None or a mutation under way
    unheard,     \* the incarnations whose deletion this page was not told of
    troubles

server == <<gen, script, proc>>
cache  == <<procSeen, procFetch, scriptSeen, scriptFetch>>
vars == <<gen, script, proc, procSeen, procFetch, scriptSeen, scriptFetch,
          editing, draft, request, unheard, troubles>>

\* useState and useRef of a section that was just mounted.
Blank == [text |-> None, dirty |-> FALSE, seeded |-> FALSE]

\* EditStationPage renders the section for a station that has a process.
Section == editing /\ procSeen \in {"running", "stopped"}

EditorTypeOK ==
    /\ gen \in 0..MaxGen
    /\ script \in Texts \cup {None}
    /\ proc \in Processes
    /\ script = None <=> proc = "unmanaged"
    /\ procSeen \in Processes \cup {None}
    /\ procFetch \in Processes \cup {None, Pending}
    /\ scriptSeen \in Versions \cup {None}
    /\ scriptFetch \in Versions \cup {None, Pending}
    /\ editing \in BOOLEAN
    /\ draft \in [text : Texts \cup {None}, dirty : BOOLEAN, seeded : BOOLEAN]
    /\ request \in [Requests -> Mutations \cup {None}]
    /\ \A r \in Requests :
         request[r] # None /\ request[r].kind = "save" => request[r].text # None
    /\ unheard \subseteq 0..MaxGen
    /\ troubles \in 0..MaxTroubles
    /\ ~Section => draft = Blank

Init ==
    /\ gen = 0 /\ script = Starter /\ proc = "running"
    /\ procSeen = None /\ procFetch = None
    /\ scriptSeen = None /\ scriptFetch = None
    /\ editing = FALSE /\ draft = Blank
    /\ request = [r \in Requests |-> None]
    /\ unheard = {} /\ troubles = 0

-----------------------------------------------------------------------------
(* The section.                                                            *)

Seed_Always(d, seen) ==    \* Mutant: the guard on seeded.current is dropped.
    IF seen # None
    THEN [text |-> seen.text, dirty |-> d.dirty \/ d.text # seen.text, seeded |-> TRUE]
    ELSE d

\* The seeding effect.  ScriptEditor puts the new value into CodeMirror, whose
\* update listener calls onChange: a draft that is changed by it is dirty.
Seed(d, seen) ==
    IF seen # None /\ ~d.seeded
    THEN [text |-> seen.text, dirty |-> d.dirty \/ d.text # seen.text, seeded |-> TRUE]
    ELSE d

\* After every step: a section that is gone forgets its draft, one that is
\* there seeds it from the cache, and one that appears fetches the script.
Rendered(d) == draft' = IF Section' THEN Seed(d, scriptSeen') ELSE Blank

ScriptFetched(fetch) ==
    scriptFetch' = IF Section' /\ ~Section /\ fetch = None THEN Pending ELSE fetch

\* Requests outlive the section that sent them; its callbacks do not.
Unowned(reqs) ==
    request' = [r \in Requests |->
        IF reqs[r] = None \/ Section' THEN reqs[r] ELSE [reqs[r] EXCEPT !.mine = FALSE]]

Quiet == Rendered(draft) /\ ScriptFetched(scriptFetch) /\ Unowned(request)

\* The page is opened, which fetches the process, or left.
Open ==
    /\ ~editing /\ editing' = TRUE
    /\ procFetch' = IF procFetch = None THEN Pending ELSE procFetch
    /\ UNCHANGED <<server, procSeen, scriptSeen, unheard, troubles>>
    /\ Quiet

Leave ==
    /\ editing /\ editing' = FALSE
    /\ UNCHANGED <<server, procSeen, procFetch, scriptSeen, unheard, troubles>>
    /\ Quiet

\* onChange
Type(t) ==
    /\ Section /\ t # draft.text
    /\ draft' = [draft EXCEPT !.text = t, !.dirty = TRUE]
    /\ UNCHANGED <<server, cache, editing, request, unheard, troubles>>

Enabled(kind) ==
    /\ \A r \in Requests : request[r] # None /\ request[r].mine => request[r].kind # kind
    /\ kind = "save"  => draft.dirty
    /\ kind = "start" => procSeen # "running"
    /\ kind = "stop"  => procSeen = "running"

\* A button is clicked.  The panel refuses to save nothing.
Send(r, kind) ==
    /\ Section /\ request[r] = None /\ Enabled(kind)
    /\ kind = "save" => draft.text # None
    /\ request' = [request EXCEPT ![r] =
           [kind |-> kind, text |-> IF kind = "save" THEN draft.text ELSE None,
            at |-> "sent", mine |-> TRUE, answer |-> None]]
    /\ UNCHANGED <<server, cache, editing, draft, unheard, troubles>>

-----------------------------------------------------------------------------
(* The panel, seen from this page.                                         *)

\* An answer that is lost fails the request as a refusal does.
Answered(r, ok) ==
    \E heard \in {ok, FALSE} :
        request' = [request EXCEPT ![r].at = IF heard THEN "ok" ELSE "failed",
                                   ![r].answer = IF heard THEN proc' ELSE None]

Sent(r, kind) == request[r] # None /\ request[r].at = "sent" /\ request[r].kind = kind

Saves(r) ==
    /\ Sent(r, "save")
    /\ script' = IF script = None THEN None ELSE request[r].text
    /\ UNCHANGED <<gen, proc, unheard>>
    /\ Answered(r, script # None)

Starts(r) ==
    /\ Sent(r, "start") \/ Sent(r, "restart")
    /\ LET ok == proc # "unmanaged" /\ (proc = "running" => request[r].kind = "restart")
       IN  proc' = (IF ok THEN "running" ELSE proc) /\ Answered(r, ok)
    /\ UNCHANGED <<gen, script, unheard>>

Stops(r) ==
    /\ Sent(r, "stop")
    /\ proc' = IF proc = "running" THEN "stopped" ELSE proc
    /\ UNCHANGED <<gen, script, unheard>>
    /\ Answered(r, proc # "unmanaged")

Removed == script' = None /\ proc' = "unmanaged" /\ UNCHANGED gen

Deletes(r) ==
    /\ Sent(r, "delete")
    /\ Removed
    /\ Answered(r, script # None)
    /\ unheard' = IF script # None /\ request'[r].at = "failed"
                  THEN unheard \cup {gen} ELSE unheard

\* A request the panel never sees, or fails to carry out.
Fails(r) ==
    /\ \E kind \in Kinds : Sent(r, kind)
    /\ UNCHANGED <<server, unheard>>
    /\ Answered(r, FALSE)

Panel(r) ==
    /\ Saves(r) \/ Starts(r) \/ Stops(r) \/ Deletes(r) \/ Fails(r)
    /\ UNCHANGED <<cache, editing, draft, troubles>>

\* Other operators, and the process itself.
Others ==
    /\ \/ \E t \in Texts : script # None /\ script' = t /\ UNCHANGED <<gen, proc, unheard>>
       \/ script # None /\ Removed /\ unheard' = unheard \cup {gen}
       \/ /\ script = None /\ gen < MaxGen
          /\ gen' = gen + 1 /\ script' = Starter /\ proc' = "running"
          /\ UNCHANGED unheard
       \/ /\ script # None
          /\ proc' \in {"running", "stopped"} \ {proc}
          /\ UNCHANGED <<gen, script, unheard>>
    /\ UNCHANGED <<cache, editing, draft, request, troubles>>

-----------------------------------------------------------------------------
(* The cache.  A failed fetch leaves the data as it is.                    *)

ReadProcess ==
    /\ procFetch = Pending
    /\ procFetch' = proc
    /\ UNCHANGED <<server, procSeen, scriptSeen, scriptFetch, editing, draft, request, unheard, troubles>>

\* fetchProcessOrNull: an unmanaged station is data, not an error.
ReceiveProcess ==
    /\ procFetch \in Processes
    /\ procSeen' = procFetch /\ procFetch' = None
    /\ UNCHANGED <<server, scriptSeen, editing, unheard, troubles>>
    /\ Quiet

\* A missing script is an error: the request fails.
ReadScript ==
    /\ scriptFetch = Pending
    /\ scriptFetch' = IF script = None THEN None ELSE [gen |-> gen, text |-> script]
    /\ UNCHANGED <<server, procSeen, procFetch, scriptSeen, editing, draft, request, unheard, troubles>>

ReceiveScript ==
    /\ scriptFetch \in Versions
    /\ scriptSeen' = scriptFetch
    /\ UNCHANGED <<server, procSeen, procFetch, editing, unheard, troubles>>
    /\ Rendered(draft) /\ ScriptFetched(None) /\ Unowned(request)

FetchFails ==
    /\ troubles < MaxTroubles /\ troubles' = troubles + 1
    /\ \/ procFetch = Pending /\ procFetch' = None /\ UNCHANGED scriptFetch
       \/ scriptFetch = Pending /\ scriptFetch' = None /\ UNCHANGED procFetch
    /\ UNCHANGED <<server, procSeen, scriptSeen, editing, draft, request, unheard>>

Poll_IfRunning ==    \* Mutant: only a running process is polled.
    /\ editing /\ procFetch = None /\ procSeen \in {None, "running"}
    /\ procFetch' = Pending
    /\ UNCHANGED <<server, procSeen, scriptSeen, scriptFetch, editing, draft, request, unheard, troubles>>

\* refetchInterval
Poll ==
    /\ editing /\ procFetch = None
    /\ procFetch' = Pending
    /\ UNCHANGED <<server, procSeen, scriptSeen, scriptFetch, editing, draft, request, unheard, troubles>>

\* react-query fetches what is on screen again when the window gets focus.
Focus ==
    /\ Section /\ scriptFetch = None
    /\ scriptFetch' = Pending
    /\ UNCHANGED <<server, procSeen, procFetch, scriptSeen, editing, draft, request, unheard, troubles>>

\* An entry that is unused for gcTime is dropped.
Forget ==
    /\ ~editing
    /\ procSeen' = None /\ scriptSeen' = None
    /\ UNCHANGED <<server, procFetch, scriptFetch, editing, draft, request, unheard, troubles>>

-----------------------------------------------------------------------------
(* Answers reach the page.                                                 *)

Got(r, at, kinds) == request[r] # None /\ request[r].at = at /\ request[r].kind \in kinds

Over(r) == [request EXCEPT ![r] = None]

\* useSaveScript has no callback of its own, so the cached script stays.
Saved(r) ==
    /\ Got(r, "ok", {"save"})
    /\ UNCHANGED <<server, procSeen, procFetch, scriptSeen, scriptFetch, editing, unheard, troubles>>
    /\ Rendered(IF request[r].mine THEN [draft EXCEPT !.dirty = FALSE] ELSE draft)
    /\ Unowned(Over(r))

\* useProcessAction: the answer is put into the cache.
Acted(r) ==
    /\ Got(r, "ok", {"start", "stop", "restart"})
    /\ procSeen' = request[r].answer
    /\ UNCHANGED <<server, procFetch, scriptSeen, editing, unheard, troubles>>
    /\ Rendered(draft) /\ ScriptFetched(scriptFetch) /\ Unowned(Over(r))

Deleted_KeepsScript(r) ==    \* Mutant: only the process is removed from the cache.
    /\ Got(r, "ok", {"delete"})
    /\ editing' = (editing /\ ~request[r].mine)
    /\ procSeen' = None
    /\ procFetch' = IF editing' THEN Pending ELSE None
    /\ UNCHANGED <<server, scriptSeen, scriptFetch, unheard, troubles>>
    /\ Rendered(draft) /\ Unowned(Over(r))

\* Both entries are removed, with the fetches under way, and the section that
\* sent the request leaves the page.  A page opened again since then starts
\* over at its next poll; here it does so at once.
Deleted(r) ==
    /\ Got(r, "ok", {"delete"})
    /\ editing' = (editing /\ ~request[r].mine)
    /\ procSeen' = None /\ scriptSeen' = None
    /\ procFetch' = IF editing' THEN Pending ELSE None
    /\ scriptFetch' = None
    /\ UNCHANGED <<server, unheard, troubles>>
    /\ Rendered(draft) /\ Unowned(Over(r))

Refused(r) ==
    /\ Got(r, "failed", Kinds)
    /\ request' = Over(r)
    /\ UNCHANGED <<server, cache, editing, draft, unheard, troubles>>

-----------------------------------------------------------------------------

Edits == Open \/ Leave \/ (\E t \in Texts : Type(t))
            \/ \E r \in Requests, kind \in Kinds : Send(r, kind)
Process == ReadProcess \/ ReceiveProcess
Script == ReadScript \/ ReceiveScript \/ FetchFails \/ Poll \/ Focus \/ Forget
Callback(r) == Saved(r) \/ Acted(r) \/ Deleted(r) \/ Refused(r)

Next == Edits \/ Others \/ Process \/ Script
            \/ \E r \in Requests : Panel(r) \/ Callback(r)

Spec == Init /\ [][Next]_vars

\* Requests are answered, and a mounted page polls.
FairSpec == Spec /\ WF_vars(Process) /\ WF_vars(Poll)
                 /\ \A r \in Requests : WF_vars(Panel(r)) /\ WF_vars(Callback(r))

-----------------------------------------------------------------------------
(* Properties.                                                             *)

\* While the section stays, nothing but the operator's typing changes a seeded
\* draft: no refetch on focus, no save by somebody else, no answer of one's
\* own (seeded, ControllerSection.tsx:52-60).
DraftIsKept ==
    [][draft.seeded /\ Section' /\ draft'.text # draft.text =>
           \E t \in Texts : Type(t)]_vars

\* A script in the cache is one of the station that exists now, or of one
\* whose deletion this page was not told of: by somebody else, or of its own
\* with a lost answer.  Deleting a station here and creating another under its
\* slug never opens the editor on the old script (useManagedStation.ts:74-75),
\* whatever was being fetched.
ScriptIsOfThisStation ==
    scriptSeen # None =>
        \/ scriptSeen.gen \in unheard
        \/ scriptSeen.gen = gen /\ script # None
        \/ \E r \in Requests : Got(r, "ok", {"delete"})

\* An open page ends up showing the process as it is, although answers of
\* actions and of older polls overtake one another.
ProcessConverges ==
    \A p \in Processes : <>[](editing /\ proc = p) => <>[](procSeen = p)

-----------------------------------------------------------------------------
(* The inductive invariant.                                                *)

Current(version) ==
    version \in Versions =>
        \/ version.gen \in unheard
        \/ version.gen = gen /\ script # None
        \/ \E r \in Requests : Got(r, "ok", {"delete"})

\* An answer under way is as good as the script in the cache.
EditorInv == EditorTypeOK /\ Current(scriptSeen) /\ Current(scriptFetch)

=============================================================================
