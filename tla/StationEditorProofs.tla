------------------------ MODULE StationEditorProofs -------------------------
(***************************************************************************)
(* Proofs about StationEditor for any texts, requests and bounds.          *)
(* EditorInv says that the cached script and the one being fetched are of  *)
(* the station that exists, unless its deletion is still to be heard of;   *)
(* DraftIsKept needs no more than the type invariant.                      *)
(***************************************************************************)
EXTENDS StationEditor, TLAPS

USE StationEditorAssumption

\* A deletion that succeeded and has not reached the page.
DeletePending == \E r \in Requests : Got(r, "ok", {"delete"})

Drafts == [text : Texts \cup {None}, dirty : BOOLEAN, seeded : BOOLEAN]

\* An empty draft is a draft.
LEMMA BlankFits == Blank \in Drafts
BY DEF Blank, Drafts

\* A draft is seeded with a text.
LEMMA SeedFits ==
  ASSUME NEW d \in Drafts,
         NEW seen \in Versions \cup {None}
  PROVE  /\ Seed(d, seen) \in Drafts
         /\ d.seeded => Seed(d, seen) = d
<1>1. CASE seen # None /\ ~d.seeded
  <2>1. seen.text \in Texts BY <1>1 DEF Versions
  <2>2. (d.dirty \/ d.text # seen.text) \in BOOLEAN OBVIOUS
  <2>3. Seed(d, seen) = [text |-> seen.text, dirty |-> d.dirty \/ d.text # seen.text, seeded |-> TRUE]
    BY <1>1 DEF Seed
  <2> QED BY <1>1, <2>1, <2>2, <2>3 DEF Drafts
<1>2. CASE ~(seen # None /\ ~d.seeded) BY <1>2 DEF Seed
<1> QED BY <1>1, <1>2

\* What every step of the page leaves of its draft.
LEMMA RenderedFits ==
  ASSUME EditorTypeOK,
         NEW d \in Drafts,
         scriptSeen' \in Versions \cup {None}, Rendered(d)
  PROVE  /\ draft' \in Drafts
         /\ ~Section' => draft' = Blank
         /\ d.seeded /\ Section' => draft' = d
BY SeedFits, BlankFits DEF Rendered

\* Requests that lose their section are otherwise the same.
LEMMA UnownedFits ==
  ASSUME NEW reqs \in [Requests -> Mutations \cup {None}], Unowned(reqs)
  PROVE  /\ request' \in [Requests -> Mutations \cup {None}]
         /\ \A r \in Requests : reqs[r] # None =>
              /\ request'[r] # None /\ request'[r].at = reqs[r].at
              /\ request'[r].kind = reqs[r].kind /\ request'[r].text = reqs[r].text
         /\ \A r \in Requests : reqs[r] = None => request'[r] = None
<1>1. ASSUME NEW r \in Requests, reqs[r] # None, ~Section'
      PROVE  /\ [reqs[r] EXCEPT !.mine = FALSE] \in Mutations
             /\ [reqs[r] EXCEPT !.mine = FALSE].at = reqs[r].at
             /\ [reqs[r] EXCEPT !.mine = FALSE].kind = reqs[r].kind
             /\ [reqs[r] EXCEPT !.mine = FALSE].text = reqs[r].text
  BY <1>1 DEF Mutations
<1> QED BY <1>1 DEF Unowned
\* The station runs and nothing is cached at first.
LEMMA EditorInitHolds == Init => EditorInv
<1> SUFFICES ASSUME Init PROVE EditorInv OBVIOUS
<1>1. EditorTypeOK
  <2>1. script \in Texts /\ script # None /\ proc = "running" BY DEF Init
  <2>2. draft \in Drafts /\ draft = Blank BY BlankFits DEF Init
  <2>3. /\ request \in [Requests -> Mutations \cup {None}]
        /\ \A r \in Requests : request[r] = None
    BY DEF Init
  <2>4. gen \in 0..MaxGen /\ troubles \in 0..MaxTroubles BY DEF Init
  <2> QED BY <2>1, <2>2, <2>3, <2>4 DEF Init, EditorTypeOK, Processes, Drafts
<1> QED BY <1>1 DEF Init, EditorInv, Current

\* The cache is as good as before if the station and the pending deletions are.
LEMMA CurrentKept ==
  ASSUME EditorInv, NEW version, Current(version), unheard' = unheard,
         \/ gen' = gen /\ (script # None => script' # None)
         \/ DeletePending',
         DeletePending => DeletePending'
  PROVE  Current(version)'
BY DEF Current, DeletePending

\* A step of the page is typed if what it takes from elsewhere is.
LEMMA CommitFits ==
  ASSUME EditorTypeOK, NEW d \in Drafts, NEW reqs \in [Requests -> Mutations \cup {None}],
         \A r \in Requests : reqs[r] # None => reqs[r] = request[r],
         Rendered(d), Unowned(reqs), UNCHANGED server,
         procSeen' \in Processes \cup {None}, procFetch' \in Processes \cup {None, Pending},
         scriptSeen' \in Versions \cup {None}, scriptFetch' \in Versions \cup {None, Pending},
         editing' \in BOOLEAN, unheard' \subseteq 0..MaxGen, troubles' = troubles
  PROVE  EditorTypeOK'
<1>1. draft' \in Drafts /\ (~Section' => draft' = Blank) BY RenderedFits
<1>2. /\ request' \in [Requests -> Mutations \cup {None}]
      /\ \A r \in Requests :
           request'[r] # None /\ request'[r].kind = "save" => request'[r].text # None
  BY UnownedFits DEF EditorTypeOK
<1> QED BY <1>1, <1>2 DEF EditorTypeOK, server, Drafts

\* A fetch of the script that is started or goes on.
LEMMA ScriptFetchedFits ==
  ASSUME NEW fetch \in Versions \cup {None, Pending}, ScriptFetched(fetch)
  PROVE  /\ scriptFetch' \in Versions \cup {None, Pending}
         /\ scriptFetch' \in Versions => scriptFetch' = fetch
BY DEF ScriptFetched

\* A commit that leaves the station alone and finishes no deletion keeps what
\* is cached, or drops it, or caches what was fetched.
LEMMA CommitKeeps ==
  ASSUME EditorInv, EditorTypeOK', UNCHANGED <<server, unheard>>,
         DeletePending => DeletePending',
         scriptSeen' \in Versions => scriptSeen' \in {scriptSeen, scriptFetch},
         scriptFetch' \in Versions => scriptFetch' = scriptFetch
  PROVE  EditorInv'
<1>1. Current(scriptSeen)'
  <2> SUFFICES ASSUME scriptSeen' \in Versions, ~(scriptSeen'.gen \in unheard')
               PROVE  (scriptSeen'.gen = gen' /\ script' # None) \/ DeletePending'
    BY DEF Current, DeletePending
  <2> QED BY DEF EditorInv, Current, DeletePending, server
<1>2. Current(scriptFetch)'
  <2> SUFFICES ASSUME scriptFetch' \in Versions, ~(scriptFetch'.gen \in unheard')
               PROVE  (scriptFetch'.gen = gen' /\ script' # None) \/ DeletePending'
    BY DEF Current, DeletePending
  <2> QED BY DEF EditorInv, Current, DeletePending, server
<1> QED BY <1>1, <1>2 DEF EditorInv

\* Requests that lose their section still wait for their answer.
LEMMA PendingKept ==
  ASSUME NEW reqs \in [Requests -> Mutations \cup {None}], Unowned(reqs),
         \A r \in Requests : Got(r, "ok", {"delete"}) => reqs[r] = request[r]
  PROVE  DeletePending => DeletePending'
<1> SUFFICES ASSUME NEW r \in Requests, Got(r, "ok", {"delete"}) PROVE Got(r, "ok", {"delete"})'
  BY DEF DeletePending
<1> QED BY UnownedFits DEF Got

\* Opening and leaving the page, and an answered poll.
LEMMA QuietKeeps ==
  ASSUME EditorInv, Open \/ Leave \/ ReceiveProcess
  PROVE  EditorInv'
<1>0. /\ EditorTypeOK /\ draft \in Drafts /\ request \in [Requests -> Mutations \cup {None}]
      /\ scriptFetch \in Versions \cup {None, Pending}
  BY DEF EditorInv, EditorTypeOK, Drafts
<1>1. /\ UNCHANGED <<server, scriptSeen, unheard, troubles>> /\ Quiet
      /\ procSeen' \in Processes \cup {None} /\ procFetch' \in Processes \cup {None, Pending}
      /\ editing' \in BOOLEAN
  BY DEF EditorInv, EditorTypeOK, Open, Leave, ReceiveProcess
<1>2. /\ scriptFetch' \in Versions \cup {None, Pending}
      /\ scriptFetch' \in Versions => scriptFetch' = scriptFetch
  BY <1>0, <1>1, ScriptFetchedFits DEF Quiet
<1>3. scriptSeen' \in Versions \cup {None} /\ unheard' \subseteq 0..MaxGen
  BY <1>0, <1>1 DEF EditorTypeOK
<1>4. EditorTypeOK' BY <1>0, <1>1, <1>2, <1>3, CommitFits DEF Quiet
<1>5. DeletePending => DeletePending' BY <1>0, <1>1, PendingKept DEF Quiet
<1> QED BY <1>1, <1>2, <1>4, <1>5, CommitKeeps

\* The script that was fetched is put into the cache.
LEMMA ReceiveKeeps ==
  ASSUME EditorInv, ReceiveScript
  PROVE  EditorInv'
<1> USE DEF ReceiveScript
<1>0. /\ EditorTypeOK /\ draft \in Drafts /\ request \in [Requests -> Mutations \cup {None}]
  BY DEF EditorInv, EditorTypeOK, Drafts
<1>1. scriptFetch' \in {None, Pending} BY DEF ScriptFetched
<1>2. EditorTypeOK' BY <1>0, <1>1, CommitFits DEF EditorTypeOK
<1>3. DeletePending => DeletePending' BY <1>0, PendingKept
<1>4. UNCHANGED <<server, unheard>> /\ scriptSeen' = scriptFetch OBVIOUS
<1> QED BY <1>1, <1>2, <1>3, <1>4, CommitKeeps

\* Typing and clicking.
LEMMA EditsKeep ==
  ASSUME EditorInv,
         \/ \E t \in Texts : Type(t)
         \/ \E r \in Requests, kind \in Kinds : Send(r, kind)
  PROVE  EditorInv'
<1>0. EditorTypeOK /\ draft \in Drafts BY DEF EditorInv, EditorTypeOK, Drafts
<1>1. UNCHANGED <<server, cache, editing, unheard, troubles>> BY DEF Type, Send
<1>2. /\ draft' \in Drafts /\ request' \in [Requests -> Mutations \cup {None}]
      /\ \A r \in Requests :
           request'[r] # None /\ request'[r].kind = "save" => request'[r].text # None
      /\ Section \/ draft' = draft
      /\ DeletePending => DeletePending'
  <2>1. ASSUME NEW t \in Texts, Type(t) PROVE <1>2
    <3>1. draft' \in Drafts BY <1>0, <2>1 DEF Type, Drafts
    <3>2. request' = request BY <2>1 DEF Type
    <3>3. Section BY <2>1 DEF Type
    <3> QED BY <1>0, <3>1, <3>2, <3>3 DEF EditorTypeOK, DeletePending, Got
  <2>2. ASSUME NEW r \in Requests, NEW kind \in Kinds, Send(r, kind) PROVE <1>2
    <3> DEFINE m == [kind |-> kind, text |-> IF kind = "save" THEN draft.text ELSE None,
                     at |-> "sent", mine |-> TRUE, answer |-> None]
    <3>1. m \in Mutations /\ (m.kind = "save" => m.text # None)
      BY <1>0, <2>2 DEF Mutations, Drafts, Send
    <3>2. request[r] = None /\ request' = [request EXCEPT ![r] = m] /\ draft' = draft
      BY <2>2 DEF Send
    <3> HIDE DEF m
    <3>3. /\ request' \in [Requests -> Mutations \cup {None}]
          /\ \A q \in Requests :
               request'[q] # None /\ request'[q].kind = "save" => request'[q].text # None
      BY <1>0, <3>1, <3>2 DEF EditorTypeOK
    <3>4. DeletePending => DeletePending'
      BY <1>0, <3>2 DEF EditorTypeOK, DeletePending, Got
    <3> QED BY <1>0, <3>2, <3>3, <3>4
  <2> QED BY <2>1, <2>2
<1>3. Section' = Section BY <1>1 DEF Section, cache
<1>4. EditorTypeOK' BY <1>0, <1>1, <1>2, <1>3 DEF EditorTypeOK, server, cache, Drafts
<1>5. UNCHANGED <<server, unheard, scriptSeen, scriptFetch>> BY <1>1 DEF cache
<1> QED BY <1>2, <1>4, <1>5, CommitKeeps

\* Reading, polling and failing fetches; an entry that is forgotten.
LEMMA FetchesKeep ==
  ASSUME EditorInv, ReadProcess \/ FetchFails \/ Poll \/ Focus \/ Forget
  PROVE  EditorInv'
<1>0. EditorTypeOK BY DEF EditorInv
<1>1. UNCHANGED <<server, editing, draft, request, unheard>> /\ troubles' \in 0..MaxTroubles
  BY <1>0 DEF ReadProcess, FetchFails, Poll, Focus, Forget, EditorTypeOK
<1>2. /\ procFetch' \in Processes \cup {None, Pending}
      /\ scriptFetch' \in {scriptFetch, None, Pending}
      /\ scriptSeen' \in {scriptSeen, None}
      /\ procSeen' = procSeen \/ (procSeen' = None /\ ~editing)
  BY <1>0 DEF ReadProcess, FetchFails, Poll, Focus, Forget, EditorTypeOK
<1>3. Section' = Section BY <1>1, <1>2 DEF Section
<1>4. EditorTypeOK' BY <1>0, <1>1, <1>2, <1>3 DEF EditorTypeOK, server
<1>5. DeletePending => DeletePending' BY <1>1 DEF DeletePending, Got
<1> QED BY <1>1, <1>2, <1>4, <1>5, CommitKeeps

\* The panel reads the script of the station that exists.
LEMMA ReadKeeps ==
  ASSUME EditorInv, ReadScript
  PROVE  EditorInv'
<1> USE DEF ReadScript
<1>0. EditorTypeOK BY DEF EditorInv
<1>1. Section' = Section BY DEF Section
<1>2. \/ script = None /\ scriptFetch' = None
      \/ /\ script # None /\ scriptFetch' = [gen |-> gen, text |-> script]
         /\ scriptFetch' \in Versions
  BY <1>0 DEF EditorTypeOK, Versions
<1>3. EditorTypeOK' BY <1>0, <1>1, <1>2 DEF EditorTypeOK, server
<1>4. Current(scriptFetch)' BY <1>2 DEF Current, server
<1>5. Current(scriptSeen)' BY DEF EditorInv, Current, Got, server
<1> QED BY <1>3, <1>4, <1>5 DEF EditorInv

\* An answer changes what a request knows, not what it is.
LEMMA AnsweredFits ==
  ASSUME EditorTypeOK, NEW r \in Requests, request[r] # None, request[r].at = "sent",
         NEW ok \in BOOLEAN, Answered(r, ok), proc' \in Processes
  PROVE  /\ request' \in [Requests -> Mutations \cup {None}]
         /\ \A q \in Requests :
              request'[q] # None /\ request'[q].kind = "save" => request'[q].text # None
         /\ DeletePending => DeletePending'
         /\ request[r].kind = "delete" => request'[r].at = "failed" \/ DeletePending'
<1> PICK heard \in {ok, FALSE} :
        request' = [request EXCEPT ![r].at = IF heard THEN "ok" ELSE "failed",
                                   ![r].answer = IF heard THEN proc' ELSE None]
  BY DEF Answered
<1> DEFINE m == [request[r] EXCEPT !.at = IF heard THEN "ok" ELSE "failed",
                                   !.answer = IF heard THEN proc' ELSE None]
<1>1. request[r] \in Mutations BY DEF EditorTypeOK
<1>2. m \in Mutations BY <1>1 DEF Mutations
<1>3. m.kind = request[r].kind /\ m.text = request[r].text
      /\ m.at = IF heard THEN "ok" ELSE "failed"
  BY <1>1 DEF Mutations
<1>4. request' = [request EXCEPT ![r] = m] BY <1>1 DEF EditorTypeOK, Mutations
<1> HIDE DEF m
<1>5. request' \in [Requests -> Mutations \cup {None}] BY <1>2, <1>4 DEF EditorTypeOK
<1>6. m # None BY <1>2
<1>7. request'[r] = m /\ \A q \in Requests : q # r => request'[q] = request[q]
  BY <1>4 DEF EditorTypeOK
<1>8. \A q \in Requests :
        request'[q] # None /\ request'[q].kind = "save" => request'[q].text # None
  BY <1>1, <1>3, <1>7 DEF EditorTypeOK
<1>9. DeletePending => DeletePending'
  <2> SUFFICES ASSUME NEW q \in Requests, Got(q, "ok", {"delete"})
               PROVE  Got(q, "ok", {"delete"})'
    BY DEF DeletePending
  <2>1. q # r BY DEF Got
  <2> QED BY <1>7, <2>1 DEF Got
<1>10. request[r].kind = "delete" => request'[r].at = "failed" \/ Got(r, "ok", {"delete"})'
  BY <1>3, <1>6, <1>7 DEF Got
<1> QED BY <1>5, <1>8, <1>9, <1>10 DEF DeletePending

\* The panel's answers: only a deletion takes the script away, and its answer
\* is on its way or lost.
LEMMA PanelKeeps ==
  ASSUME EditorInv, NEW r \in Requests, Panel(r)
  PROVE  EditorInv'
<1>0. EditorTypeOK BY DEF EditorInv
<1>1. UNCHANGED <<cache, editing, draft, troubles>> /\ gen' = gen
  BY DEF Panel, Saves, Starts, Stops, Deletes, Fails, Removed, server
<1>2. PICK ok \in BOOLEAN :
        /\ Answered(r, ok)
        /\ request[r] # None /\ request[r] \in Mutations /\ request[r].at = "sent"
        /\ script' \in Texts \cup {None} /\ proc' \in Processes
        /\ script' = None <=> proc' = "unmanaged"
        /\ \/ unheard' = unheard /\ (script # None => script' # None)
           \/ /\ request[r].kind = "delete"
              /\ unheard' = IF request'[r].at = "failed" THEN unheard \cup {gen} ELSE unheard
  <2>1. /\ script \in Texts \cup {None} /\ proc \in Processes
        /\ script = None <=> proc = "unmanaged"
    BY <1>0 DEF EditorTypeOK
  <2>2. \A k : Sent(r, k) => /\ request[r] # None /\ request[r] \in Mutations
                             /\ request[r].at = "sent" /\ request[r].kind = k
    BY <1>0 DEF Sent, EditorTypeOK
  <2>3. (script # None) \in BOOLEAN /\ (proc # "unmanaged") \in BOOLEAN OBVIOUS
  <2>4. CASE Saves(r)
    <3>1. Sent(r, "save") /\ Answered(r, script # None) /\ proc' = proc /\ unheard' = unheard
          /\ script' = IF script = None THEN None ELSE request[r].text
      BY <2>4 DEF Saves
    <3>2. request[r].text \in Texts BY <1>0, <2>2, <3>1 DEF EditorTypeOK, Mutations
    <3> QED BY <2>1, <2>2, <2>3, <3>1, <3>2
  <2>5. CASE Starts(r)
    <3> DEFINE ok == proc # "unmanaged" /\ (proc = "running" => request[r].kind = "restart")
    <3>1. ok \in BOOLEAN OBVIOUS
    <3>2. /\ Sent(r, "start") \/ Sent(r, "restart")
          /\ Answered(r, ok) /\ script' = script /\ unheard' = unheard
          /\ proc' = IF ok THEN "running" ELSE proc
      BY <2>5 DEF Starts
    <3> QED BY <2>1, <2>2, <3>1, <3>2 DEF Processes
  <2>6. CASE Stops(r)
    <3>1. Sent(r, "stop") /\ Answered(r, proc # "unmanaged") /\ script' = script
          /\ unheard' = unheard
          /\ proc' = IF proc = "running" THEN "stopped" ELSE proc
      BY <2>6 DEF Stops
    <3> QED BY <2>1, <2>2, <2>3, <3>1 DEF Processes
  <2>7. CASE Deletes(r)
    <3>1. Sent(r, "delete") /\ Answered(r, script # None)
          /\ script' = None /\ proc' = "unmanaged"
          /\ unheard' = IF script # None /\ request'[r].at = "failed"
                        THEN unheard \cup {gen} ELSE unheard
      BY <2>7 DEF Deletes, Removed
    <3>2. CASE script = None BY <2>1, <2>2, <2>3, <3>1, <3>2 DEF Processes
    <3>3. CASE script # None BY <2>1, <2>2, <2>3, <3>1, <3>3 DEF Processes
    <3> QED BY <3>2, <3>3
  <2>8. CASE Fails(r)
    <3>1. PICK kind \in Kinds : Sent(r, kind) BY <2>8 DEF Fails
    <3>2. Answered(r, FALSE) /\ script' = script /\ proc' = proc /\ unheard' = unheard
      BY <2>8 DEF Fails, server
    <3> QED BY <2>1, <2>2, <3>1, <3>2
  <2> QED BY <2>4, <2>5, <2>6, <2>7, <2>8 DEF Panel
<1>3. /\ request' \in [Requests -> Mutations \cup {None}]
      /\ \A q \in Requests :
           request'[q] # None /\ request'[q].kind = "save" => request'[q].text # None
      /\ DeletePending => DeletePending'
      /\ request[r].kind = "delete" => request'[r].at = "failed" \/ DeletePending'
  BY <1>0, <1>2, AnsweredFits
<1>4. Section' = Section BY <1>1 DEF Section, cache
<1>5. EditorTypeOK'
  <2>1. gen \in 0..MaxGen /\ unheard \subseteq 0..MaxGen BY <1>0 DEF EditorTypeOK
  <2>2. unheard' \subseteq 0..MaxGen BY <1>2, <2>1
  <2> QED BY <1>0, <1>1, <1>2, <1>3, <1>4, <2>2 DEF EditorTypeOK, cache
<1>6. /\ unheard \subseteq unheard'
      /\ (script # None => script' # None) \/ gen \in unheard' \/ DeletePending'
  BY <1>2, <1>3
<1>7. Current(scriptSeen)' /\ Current(scriptFetch)'
  BY <1>1, <1>3, <1>6 DEF EditorInv, Current, DeletePending, cache
<1> QED BY <1>5, <1>7 DEF EditorInv

\* Other operators: a deletion of theirs is one the page is not told of.
LEMMA OthersKeep ==
  ASSUME EditorInv, Others
  PROVE  EditorInv'
<1>0. EditorTypeOK BY DEF EditorInv
<1>1. UNCHANGED <<cache, editing, draft, request, troubles>> BY DEF Others
<1>2. /\ gen' \in 0..MaxGen /\ script' \in Texts \cup {None} /\ proc' \in Processes
      /\ unheard' \subseteq 0..MaxGen
      /\ script' = None <=> proc' = "unmanaged"
  <2>2. /\ gen \in 0..MaxGen /\ script \in Texts \cup {None} /\ proc \in Processes
        /\ unheard \subseteq 0..MaxGen
        /\ script = None <=> proc = "unmanaged"
    BY <1>0 DEF EditorTypeOK
  <2>3. CASE \E t \in Texts : script # None /\ script' = t /\ UNCHANGED <<gen, proc, unheard>>
    BY <2>2, <2>3
  <2>4. CASE script # None /\ Removed /\ unheard' = unheard \cup {gen}
    BY <2>2, <2>4 DEF Removed, Processes
  <2>5. CASE /\ script = None /\ gen < MaxGen
             /\ gen' = gen + 1 /\ script' = Starter /\ proc' = "running"
             /\ UNCHANGED unheard
    BY <2>2, <2>5 DEF Processes
  <2>6. CASE /\ script # None
             /\ proc' \in {"running", "stopped"} \ {proc}
             /\ UNCHANGED <<gen, script, unheard>>
    BY <2>2, <2>6 DEF Processes
  <2> QED BY <2>3, <2>4, <2>5, <2>6 DEF Others
<1>3. Section' = Section BY <1>1 DEF Section, cache
<1>4. EditorTypeOK' BY <1>0, <1>1, <1>2, <1>3 DEF EditorTypeOK, cache
<1>5. DeletePending' <=> DeletePending BY <1>1 DEF DeletePending, Got
<1>6. /\ unheard \subseteq unheard'
      /\ \/ gen' = gen /\ (script # None => script' # None)
         \/ script = None
         \/ gen \in unheard'
  BY <1>0 DEF Others, EditorTypeOK
<1>7. Current(scriptSeen)' /\ Current(scriptFetch)'
  BY <1>1, <1>5, <1>6 DEF EditorInv, Current, DeletePending, cache
<1> QED BY <1>4, <1>7 DEF EditorInv

\* The answers that reach the page: only a deletion empties the cache.
LEMMA CallbackKeeps ==
  ASSUME EditorInv, NEW r \in Requests, Callback(r)
  PROVE  EditorInv'
<1>0. /\ EditorTypeOK /\ draft \in Drafts
      /\ request[r] # None /\ request[r] \in Mutations
      /\ scriptFetch \in Versions \cup {None, Pending}
      /\ scriptSeen \in Versions \cup {None}
  BY DEF EditorInv, EditorTypeOK, Drafts, Callback, Saved, Acted, Deleted, Refused, Got
<1>1. /\ Over(r) \in [Requests -> Mutations \cup {None}]
      /\ \A q \in Requests : Over(r)[q] # None => Over(r)[q] = request[q]
      /\ \A q \in Requests : q # r => Over(r)[q] = request[q]
  BY <1>0 DEF Over, EditorTypeOK
<1>2. ASSUME request[r].kind # "delete" \/ request[r].at # "ok"
      PROVE  \A q \in Requests : Got(q, "ok", {"delete"}) => Over(r)[q] = request[q]
  BY <1>1, <1>2 DEF Got
<1>3. CASE Saved(r)
  <2>1. /\ UNCHANGED <<server, procSeen, procFetch, scriptSeen, scriptFetch, editing, unheard, troubles>>
        /\ Unowned(Over(r)) /\ request[r].kind # "delete"
    BY <1>3 DEF Saved, Got
  <2>2. PICK d \in Drafts : Rendered(d)
    <3>1. [draft EXCEPT !.dirty = FALSE] \in Drafts BY <1>0 DEF Drafts
    <3> QED BY <1>0, <1>3, <3>1 DEF Saved
  <2>3. EditorTypeOK'
    BY <1>0, <1>1, <2>1, <2>2, CommitFits DEF EditorTypeOK
  <2>4. DeletePending => DeletePending' BY <1>1, <1>2, <2>1, PendingKept
  <2> QED BY <2>1, <2>3, <2>4, CommitKeeps
<1>4. CASE Acted(r)
  <2>1. /\ UNCHANGED <<server, procFetch, scriptSeen, editing, unheard, troubles>>
        /\ Rendered(draft) /\ ScriptFetched(scriptFetch) /\ Unowned(Over(r))
        /\ procSeen' \in Processes \cup {None} /\ request[r].kind # "delete"
    BY <1>0, <1>4 DEF Acted, Got, Mutations
  <2>2. /\ scriptFetch' \in Versions \cup {None, Pending}
        /\ scriptFetch' \in Versions => scriptFetch' = scriptFetch
    BY <1>0, <2>1, ScriptFetchedFits
  <2>3. EditorTypeOK'
    BY <1>0, <1>1, <2>1, <2>2, CommitFits DEF EditorTypeOK
  <2>4. DeletePending => DeletePending' BY <1>1, <1>2, <2>1, PendingKept
  <2> QED BY <2>1, <2>2, <2>3, <2>4, CommitKeeps
<1>5. CASE Deleted(r)
  <2>1. /\ UNCHANGED <<server, troubles>> /\ Rendered(draft) /\ Unowned(Over(r))
        /\ procSeen' = None /\ scriptSeen' = None /\ scriptFetch' = None
        /\ procFetch' \in {None, Pending} /\ unheard' = unheard
    BY <1>5 DEF Deleted
  <2>2. editing' \in BOOLEAN BY <1>0, <1>5 DEF Deleted, EditorTypeOK
  <2>3. unheard' \subseteq 0..MaxGen BY <1>0, <2>1 DEF EditorTypeOK
  <2>4. EditorTypeOK' BY <1>0, <1>1, <2>1, <2>2, <2>3, CommitFits
  <2> QED BY <2>1, <2>4 DEF EditorInv, Current
<1>6. CASE Refused(r)
  <2>1. /\ UNCHANGED <<server, cache, editing, draft, unheard, troubles>>
        /\ request' = Over(r) /\ request[r].at # "ok"
    BY <1>6 DEF Refused, Got
  <2>2. Section' = Section BY <2>1 DEF Section, cache
  <2>3. EditorTypeOK' BY <1>0, <1>1, <2>1, <2>2 DEF EditorTypeOK, server, cache
  <2>4. DeletePending => DeletePending' BY <1>1, <1>2, <2>1 DEF DeletePending, Got
  <2>5. UNCHANGED <<scriptSeen, scriptFetch>> BY <2>1 DEF cache
  <2> QED BY <2>1, <2>3, <2>4, <2>5, CommitKeeps
<1> QED BY <1>3, <1>4, <1>5, <1>6 DEF Callback

\* Every step preserves the invariant.
LEMMA EditorInductive == EditorInv /\ [Next]_vars => EditorInv'
<1> SUFFICES ASSUME EditorInv, [Next]_vars PROVE EditorInv' OBVIOUS
<1>1. CASE Edits BY <1>1, QuietKeeps, EditsKeep DEF Edits
<1>2. CASE Others BY <1>2, OthersKeep
<1>3. CASE Process BY <1>3, QuietKeeps, FetchesKeep DEF Process
<1>4. CASE Script BY <1>4, ReadKeeps, ReceiveKeeps, FetchesKeep DEF Script
<1>5. ASSUME NEW r \in Requests, Panel(r) \/ Callback(r) PROVE EditorInv'
  BY <1>5, PanelKeeps, CallbackKeeps
<1>6. CASE UNCHANGED vars
  BY <1>6 DEF EditorInv, EditorTypeOK, Current, Got, Section, vars
<1> QED BY <1>1, <1>2, <1>3, <1>4, <1>5, <1>6 DEF Next

\* EditorInv holds in every reachable state.
LEMMA EditorInvariant == Spec => []EditorInv
BY EditorInitHolds, EditorInductive, PTL DEF Spec

\* The model is well typed for any texts, requests and bounds.
THEOREM EditorTypeCorrect == Spec => []EditorTypeOK
BY EditorInvariant, PTL DEF EditorInv

\* The cached script is one of the station that exists, for any number of
\* requests under way (useManagedStation.ts:74-75).
THEOREM ScriptIsOfStation == Spec => []ScriptIsOfThisStation
<1>1. EditorInv => ScriptIsOfThisStation
  BY DEF EditorInv, EditorTypeOK, Current, ScriptIsOfThisStation
<1> QED BY <1>1, EditorInvariant, PTL

\* Only typing changes a draft that was seeded (ControllerSection.tsx:52-60).
THEOREM DraftKept == Spec => DraftIsKept
<1>1. ASSUME EditorInv, Next, draft.seeded, Section', draft'.text # draft.text
      PROVE  \E t \in Texts : Type(t)
  <2>0. EditorTypeOK /\ draft \in Drafts BY <1>1 DEF EditorInv, EditorTypeOK, Drafts
  <2>1. ASSUME NEW d \in Drafts, Rendered(d), d.seeded, scriptSeen' \in Versions \cup {None}
        PROVE  draft' = d
    BY <1>1, <2>0, <2>1, RenderedFits
  <2>2. scriptSeen' \in Versions \cup {None}
    <3>1. EditorTypeOK' BY <1>1, EditorInductive DEF EditorInv
    <3> QED BY <3>1 DEF EditorTypeOK
  <2>3. ~Rendered(draft) /\ draft' # draft BY <1>1, <2>0, <2>1, <2>2
  <2>4. ASSUME NEW r \in Requests, Saved(r) PROVE FALSE
    <3>1. [draft EXCEPT !.dirty = FALSE] \in Drafts
          /\ [draft EXCEPT !.dirty = FALSE].text = draft.text
          /\ [draft EXCEPT !.dirty = FALSE].seeded = draft.seeded
      BY <2>0 DEF Drafts
    <3> QED BY <1>1, <2>1, <2>2, <2>3, <2>4, <3>1 DEF Saved
  <2>5. ASSUME NEW r \in Requests, Panel(r) \/ Callback(r) PROVE FALSE
    BY <2>3, <2>4, <2>5 DEF Panel, Callback, Acted, Deleted, Refused
  <2>6. ~(Others \/ Process \/ Script)
    BY <2>3 DEF Others, Process, Script, ReadProcess, ReceiveProcess, ReadScript,
                ReceiveScript, FetchFails, Poll, Focus, Forget, Quiet
  <2>7. ~Open /\ ~Leave /\ \A r \in Requests, kind \in Kinds : ~Send(r, kind)
    BY <2>3 DEF Open, Leave, Send, Quiet
  <2> QED BY <1>1, <2>5, <2>6, <2>7 DEF Next, Edits
<1>2. EditorInv /\ [Next]_vars =>
        [draft.seeded /\ Section' /\ draft'.text # draft.text => \E t \in Texts : Type(t)]_vars
  BY <1>1
<1> QED BY <1>2, EditorInvariant, PTL DEF Spec, DraftIsKept

=============================================================================
