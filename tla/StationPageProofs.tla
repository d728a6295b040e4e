------------------------- MODULE StationPageProofs -------------------------
(***************************************************************************)
(* Proofs about the cached station of StationPage, for any stations,       *)
(* visits, mutations and bounds: PageInv is inductive.  The streams only   *)
(* matter to EffectOK; NewsOK and FetchOK carry HeardIsShown.              *)
(***************************************************************************)
EXTENDS StationPage, SequenceTheorems, TLAPS

USE StationPageAssumption

\* A page that was never opened has no news.
LEMMA PageInitHolds == Init => PageInv
BY EmptySeq DEF Init, PageInv, PageTypeOK, EffectOK, NewsOK, FetchOK, HeardIsShown, Versions

\* What stands for no version is none.
LEMMA ConstantsApart == None \notin Versions /\ Pending \notin Versions /\ Done \notin Versions
BY DEF Versions

\* Bounds on what is on the wire may grow.
LEMMA Widened ==
  ASSUME NEW i \in Nat, NEW j \in Nat, i <= j, NEW q \in Seq(0..i)
  PROVE  q \in Seq(0..j)
BY SeqMonotonic, 0..i \subseteq 0..j

\* An event that is appended is one of the changes up to now.
LEMMA Appended ==
  ASSUME NEW n \in Nat, NEW q \in Seq(0..n)
  PROVE  Append(q, n + 1) \in Seq(0..(n + 1)) /\ Append(q, n + 1) # <<>>
<1>1. q \in Seq(0..(n + 1)) BY Widened
<1> QED BY <1>1, AppendProperties

\* A change of a station reaches its open streams and spoils no answer.
LEMMA ChangedKeeps ==
  ASSUME PageInv, NEW s \in Stations, Changed(s),
         UNCHANGED <<trouble, pageVars, cacheVars, phase, station, option, mine>>,
         sent' \in [Mutations -> Versions \cup {None, Pending, Done}],
         \A m \in Mutations : sent'[m] # sent[m] =>
           sent[m] # None /\ station[m] = s /\ sent'[m] = version[s] + 1
  PROVE  PageInv'
<1> USE DEF PageInv, pageVars, cacheVars, Changed
<1>1. version' \in [Stations -> Versions] /\ version'[s] = version[s] + 1
      /\ \A r \in Stations : r # s => version'[r] = version[r]
  BY DEF PageTypeOK, Versions
<1>2. ASSUME NEW v \in Visits, wire'[v] # <<>>
      PROVE  wire'[v] \in Seq(0..version'[target'[v]]) /\ phase[v] = "open"
  <2>1. CASE wire'[v] = wire[v]
    <3>1. wire[v] \in Seq(0..version[target[v]]) /\ phase[v] = "open"
      BY <1>2, <2>1 DEF NewsOK, PageTypeOK
    <3>2. target[v] \in Stations BY <3>1 DEF EffectOK, PageTypeOK
    <3>3. /\ target'[v] = target[v]
          /\ version[target[v]] \in Nat /\ version'[target[v]] \in Nat
          /\ version[target[v]] <= version'[target[v]]
      BY <1>1, <3>2 DEF PageTypeOK, Versions
    <3> QED BY <2>1, <3>1, <3>3, Widened
  <2>2. CASE wire'[v] # wire[v]
    <3>1. phase[v] = "open" /\ target[v] = s /\ wire'[v] = Append(wire[v], version[s] + 1)
      BY <2>2 DEF PageTypeOK
    <3>2. wire[v] \in Seq(0..version[s]) /\ version[s] \in Nat
      BY <3>1, EmptySeq DEF NewsOK, PageTypeOK, Versions
    <3> QED BY <1>1, <3>1, <3>2, Appended
  <2> QED BY <2>1, <2>2
<1>3. PageTypeOK'
  <2>1. ASSUME NEW v \in Visits PROVE wire'[v] \in Seq(Versions)
    <3>1. CASE wire'[v] = <<>> BY <3>1, EmptySeq
    <3>2. CASE wire'[v] # <<>>
      <4>1. phase[v] = "open" /\ wire'[v] \in Seq(0..version'[target'[v]]) BY <1>2, <3>2
      <4>2. target'[v] \in Stations BY <4>1 DEF EffectOK, PageTypeOK
      <4>3. version'[target'[v]] \in Nat /\ version'[target'[v]] <= MaxVersion
        BY <1>1, <4>2 DEF Versions
      <4> QED BY <4>1, <4>3, Widened DEF Versions
    <3> QED BY <3>1, <3>2
  <2>2. wire' \in [Visits -> Seq(Versions)] BY <2>1
  <2> QED BY <1>1, <1>2, <2>2 DEF PageTypeOK
<1>4. EffectOK' BY DEF EffectOK
<1>5. NewsOK'
  <2>1. ASSUME NEW m \in Mutations, sent'[m] \in Versions
        PROVE  sent'[m] <= version'[station[m]]
    <3>1. CASE sent'[m] = sent[m]
      <4>1. station[m] \in Stations /\ sent[m] <= version[station[m]]
        BY <2>1, <3>1, ConstantsApart DEF NewsOK
      <4> QED BY <1>1, <2>1, <3>1, <4>1 DEF PageTypeOK, Versions
    <3>2. CASE sent'[m] # sent[m] BY <1>1, <3>2 DEF PageTypeOK, Versions
    <3> QED BY <3>1, <3>2
  <2>2. \A m \in Mutations : sent'[m] # None => station[m] \in Stations /\ option[m] \in Stations
    BY DEF NewsOK
  <2> QED BY <1>2, <2>1, <2>2 DEF NewsOK
<1>6. FetchOK' BY <1>1 DEF FetchOK, PageTypeOK, Versions
<1>7. HeardIsShown' BY DEF HeardIsShown
<1> QED BY <1>3, <1>4, <1>5, <1>6, <1>7

\* News that is no newer than its station may be told at any time.
LEMMA InvalidateKeeps ==
  ASSUME PageInv, NEW s \in Stations, NEW n \in Versions, Invalidate(s, n),
         n <= version[s],
         UNCHANGED <<version, data, failed, shown>>
  PROVE  /\ fetch' \in [Stations -> Versions \cup {None, Pending}]
         /\ heard' \in [Stations -> Versions]
         /\ FetchOK' /\ HeardIsShown'
<1>0. /\ fetch \in [Stations -> Versions \cup {None, Pending}]
      /\ heard \in [Stations -> Versions]
      /\ data \in [Stations -> Versions \cup {None}]
      /\ version \in [Stations -> Versions]
      /\ FetchOK /\ HeardIsShown
  BY DEF PageInv, PageTypeOK
<1> USE <1>0 DEF Invalidate
<1>1. fetch' \in [Stations -> Versions \cup {None, Pending}] OBVIOUS
<1>2. heard' \in [Stations -> Versions] OBVIOUS
<1>3. ASSUME NEW r \in Stations
      PROVE  /\ heard'[r] <= version[r]
             /\ fetch'[r] \in Versions => heard'[r] <= fetch'[r] /\ fetch'[r] <= version[r]
             /\ fetch'[r] = None /\ ~failed[r] /\ data[r] # None => data[r] >= heard'[r]
  <2>1. CASE r = s /\ shown = s
    BY <2>1 DEF FetchOK, HeardIsShown, Versions
  <2>2. CASE ~(r = s /\ shown = s)
    <3>1. fetch'[r] = fetch[r] /\ heard'[r] = heard[r] BY <2>2
    <3> QED BY <3>1 DEF FetchOK, HeardIsShown
  <2> QED BY <2>1, <2>2
<1> QED BY <1>1, <1>2, <1>3 DEF FetchOK, HeardIsShown
\* The cache's own steps: an answer that arrives is no older than the news.
LEMMA CachedKeeps ==
  ASSUME PageInv, NEW s \in Stations, Cached(s)
  PROVE  PageInv'
<1>0. /\ fetch \in [Stations -> Versions \cup {None, Pending}]
      /\ heard \in [Stations -> Versions]
      /\ data \in [Stations -> Versions \cup {None}]
      /\ version \in [Stations -> Versions]
      /\ failed \in [Stations -> BOOLEAN]
      /\ PageTypeOK /\ EffectOK /\ NewsOK /\ FetchOK /\ HeardIsShown
  BY DEF PageInv, PageTypeOK
<1>1. UNCHANGED <<version, pageVars, heard, streamVars, mutVars>> /\ trouble' \in 0..MaxTroubles
  BY <1>0 DEF Cached, Respond, Receive, FetchFails, Poll, Forget, Fetched, Trouble, PageTypeOK
<1>2. EffectOK' /\ NewsOK'
  BY <1>0, <1>1 DEF EffectOK, NewsOK, pageVars, streamVars, mutVars
<1>3. /\ fetch' \in [Stations -> Versions \cup {None, Pending}]
      /\ data' \in [Stations -> Versions \cup {None}]
      /\ failed' \in [Stations -> BOOLEAN]
  BY <1>0 DEF Cached, Respond, Receive, FetchFails, Poll, Forget, Fetched
<1>4. PageTypeOK'
  BY <1>0, <1>1, <1>3 DEF PageTypeOK, pageVars, streamVars, mutVars
<1>5. FetchOK' /\ HeardIsShown'
  <2>1. \A r \in Stations : heard[r] \in Int /\ version[r] \in Int BY <1>0 DEF Versions
  <2>2. CASE Respond(s)
    BY <1>0, <1>1, <2>1, <2>2, ConstantsApart DEF Respond, FetchOK, HeardIsShown, Versions
  <2>3. CASE Receive(s)
    BY <1>0, <1>1, <2>1, <2>3, ConstantsApart DEF Receive, FetchOK, HeardIsShown, Versions
  <2>4. CASE FetchFails(s)
    BY <1>0, <1>1, <2>1, <2>4, ConstantsApart DEF FetchFails, FetchOK, HeardIsShown
  <2>5. CASE Poll(s)
    BY <1>0, <1>1, <2>1, <2>5, ConstantsApart DEF Poll, Fetched, FetchOK, HeardIsShown
  <2>6. CASE Forget(s)
    BY <1>0, <1>1, <2>1, <2>6, ConstantsApart DEF Forget, FetchOK, HeardIsShown
  <2> QED BY <2>2, <2>3, <2>4, <2>5, <2>6 DEF Cached
<1> QED BY <1>2, <1>4, <1>5 DEF PageInv

\* Asking when nothing is under way disturbs no answer.
LEMMA FetchedKeeps ==
  ASSUME PageInv, NEW s \in Stations, Fetched(s), UNCHANGED <<version, data, failed, heard>>
  PROVE  /\ fetch' \in [Stations -> Versions \cup {None, Pending}]
         /\ FetchOK' /\ HeardIsShown'
<1>0. fetch \in [Stations -> Versions \cup {None, Pending}] /\ FetchOK /\ HeardIsShown
  BY DEF PageInv, PageTypeOK
<1> QED BY <1>0, ConstantsApart DEF Fetched, FetchOK, HeardIsShown

\* The cleanup of the mounted effect leaves nothing of it but a token request.
LEMMA LeaveKeeps ==
  ASSUME PageInv, Leave
  PROVE  PageInv'
<1> USE DEF PageInv, Leave
<1>1. effect \in Visits BY DEF PageTypeOK
<1>2. wire' = [w \in Visits |-> IF w = effect THEN <<>> ELSE wire[w]] BY DEF Silenced
<1>3. wire' \in [Visits -> Seq(Versions)] BY <1>2, EmptySeq DEF PageTypeOK
<1>4. PageTypeOK'
  BY <1>1, <1>2, <1>3 DEF PageTypeOK, AfterCleanup, cacheVars
<1>5. EffectOK' BY <1>1 DEF EffectOK, PageTypeOK, AfterCleanup
<1>6. NewsOK' BY <1>2 DEF NewsOK
<1>7. FetchOK' /\ HeardIsShown' BY DEF FetchOK, HeardIsShown, cacheVars
<1> QED BY <1>4, <1>5, <1>6, <1>7

\* The next effect starts where the last one was cleaned up.
LEMMA VisitKeeps ==
  ASSUME PageInv, NEW s \in Stations, NEW v \in Visits, Visit(s, v)
  PROVE  PageInv'
<1> USE DEF PageInv, Visit
<1>1. v # effect BY DEF EffectOK
<1>2. wire' = [w \in Visits |-> IF w = effect THEN <<>> ELSE wire[w]] BY DEF Silenced
<1>3. wire' \in [Visits -> Seq(Versions)] BY <1>2, EmptySeq DEF PageTypeOK
<1>4. /\ fetch' \in [Stations -> Versions \cup {None, Pending}]
      /\ FetchOK' /\ HeardIsShown'
  BY FetchedKeeps
<1>5. PageTypeOK'
  <2>1. phase' \in [Visits -> {"unused", "minting", "opening", "open", "waiting", "done"}]
    BY DEF PageTypeOK, AfterCleanup
  <2>2. \A w \in Visits : wire'[w] # <<>> => phase'[w] = "open"
    BY <1>2 DEF PageTypeOK
  <2>3. cancelled' \in [Visits -> BOOLEAN] BY DEF PageTypeOK
  <2> QED BY <1>3, <1>4, <2>1, <2>2, <2>3 DEF PageTypeOK
<1>6. EffectOK' BY <1>1 DEF EffectOK, PageTypeOK, AfterCleanup
<1>7. NewsOK'
  <2>1. \A w \in Visits : wire'[w] # <<>> => w # v BY <1>2 DEF PageTypeOK
  <2>2. \A w \in Visits : wire'[w] # <<>> => wire'[w] \in Seq(0..version'[target'[w]])
    BY <1>2, <2>1 DEF NewsOK, PageTypeOK
  <2> QED BY <2>2 DEF NewsOK
<1> QED BY <1>4, <1>5, <1>6, <1>7

\* What connect() does on its own, but for the events it delivers.
LEMMA TurnsKeep ==
  ASSUME PageInv, NEW v \in Visits,
         \/ Minted(v) \/ MintFails(v) \/ Connected(v) \/ StreamFails(v) \/ Retry(v)
  PROVE  PageInv'
<1> USE DEF PageInv
<1> DEFINE Phases == {"unused", "minting", "opening", "open", "waiting", "done"}
<1>1. PICK from \in SUBSET Phases, to \in Phases :
        /\ Turn(v, from, to)
        /\ from \cap {"unused", "done"} = {} /\ to # "unused"
        /\ cancelled[v] => to = "done" \/ phase[v] # "minting"
        /\ to # "minting" \/ phase[v] = "waiting"
  <2>1. CASE Minted(v) BY <2>1 DEF Minted, Turn
  <2>2. CASE MintFails(v) BY <2>2 DEF MintFails, Turn
  <2>3. CASE Connected(v) BY <2>3 DEF Connected, Turn
  <2>4. CASE StreamFails(v) BY <2>4 DEF StreamFails, Turn
  <2>5. CASE Retry(v) BY <2>5 DEF Retry, Turn
  <2> QED BY <2>1, <2>2, <2>3, <2>4, <2>5
<1>2. trouble' \in 0..MaxTroubles
  BY DEF Minted, MintFails, Connected, StreamFails, Retry, Trouble, PageTypeOK
<1> USE <1>1 DEF Turn, pageVars, cacheVars, mutVars
<1>3. wire' = [w \in Visits |-> IF w = v THEN <<>> ELSE wire[w]] BY DEF Silenced
<1>4. wire' \in [Visits -> Seq(Versions)] BY <1>3, EmptySeq DEF PageTypeOK
<1>5. PageTypeOK' BY <1>2, <1>3, <1>4 DEF PageTypeOK
<1>6. EffectOK' BY DEF EffectOK, PageTypeOK
<1>7. NewsOK' BY <1>3 DEF NewsOK
<1>8. FetchOK' /\ HeardIsShown' BY DEF FetchOK, HeardIsShown
<1> QED BY <1>5, <1>6, <1>7, <1>8

\* An event speaks of a version its station has reached.
LEMMA DeliverKeeps ==
  ASSUME PageInv, NEW v \in Visits, Deliver(v)
  PROVE  PageInv'
<1> USE DEF PageInv, Deliver
<1>1. target[v] \in Stations BY DEF EffectOK, PageTypeOK
<1>2. wire[v] \in Seq(0..version[target[v]]) BY DEF NewsOK
<1>3. /\ Head(wire[v]) \in 0..version[target[v]]
      /\ Tail(wire[v]) \in Seq(0..version[target[v]])
      /\ Tail(wire[v]) \in Seq(Versions)
  BY <1>2, HeadTailProperties DEF PageTypeOK
<1>4. Head(wire[v]) \in Versions /\ Head(wire[v]) <= version[target[v]]
  BY <1>1, <1>3 DEF PageTypeOK, Versions
<1>5. /\ fetch' \in [Stations -> Versions \cup {None, Pending}]
      /\ heard' \in [Stations -> Versions]
      /\ FetchOK' /\ HeardIsShown'
  BY <1>1, <1>4, InvalidateKeeps DEF pageVars
<1>6. wire' \in [Visits -> Seq(Versions)] BY <1>3 DEF PageTypeOK
<1>7. PageTypeOK' BY <1>5, <1>6 DEF PageTypeOK, pageVars, mutVars
<1>8. EffectOK' BY DEF EffectOK, pageVars
<1>9. NewsOK' BY <1>3 DEF NewsOK, PageTypeOK, pageVars, mutVars
<1> QED BY <1>5, <1>7, <1>8, <1>9

\* A mutation reports the version it made, to the station its page shows.
LEMMA MutationKeeps ==
  ASSUME PageInv, NEW m \in Mutations, Mutation(m)
  PROVE  PageInv'
<1> USE DEF PageInv
<1>1. CASE Mutate(m)
  <2> USE <1>1 DEF Mutate, pageVars, cacheVars, streamVars
  <2>1. PageTypeOK' BY DEF PageTypeOK
  <2>2. EffectOK' BY DEF EffectOK
  <2>3. NewsOK' BY ConstantsApart DEF NewsOK, PageTypeOK
  <2>4. FetchOK' /\ HeardIsShown' BY DEF FetchOK, HeardIsShown
  <2> QED BY <2>1, <2>2, <2>3, <2>4
<1>2. CASE Apply(m)
  <2> USE <1>2 DEF Apply
  <2>1. station[m] \in Stations BY DEF NewsOK
  <2>2. version[station[m]] + 1 \in Versions BY <2>1 DEF Changed, PageTypeOK, Versions
  <2>3. sent' \in [Mutations -> Versions \cup {None, Pending, Done}] BY <2>2 DEF PageTypeOK
  <2>4. \A n \in Mutations : sent'[n] # sent[n] =>
          sent[n] # None /\ station[n] = station[m] /\ sent'[n] = version[station[m]] + 1
    BY DEF PageTypeOK
  <2> QED BY <2>1, <2>3, <2>4, ChangedKeeps
<1>3. CASE MutationFails(m)
  <2> USE <1>3 DEF MutationFails, pageVars, cacheVars, streamVars
  <2>1. PageTypeOK' BY DEF PageTypeOK, Trouble
  <2>2. EffectOK' BY DEF EffectOK
  <2>3. NewsOK' BY ConstantsApart DEF NewsOK, PageTypeOK
  <2>4. FetchOK' /\ HeardIsShown' BY DEF FetchOK, HeardIsShown
  <2> QED BY <2>1, <2>2, <2>3, <2>4
<1>4. CASE Answered(m)
  <2> USE <1>4 DEF Answered
  <2>1. station[m] \in Stations /\ option[m] \in Stations /\ sent[m] <= version[station[m]]
    BY ConstantsApart DEF NewsOK
  <2> DEFINE n == IF option[m] = station[m] THEN sent[m] ELSE 0
  <2>2. n \in Versions /\ n <= version[option[m]]
    BY <2>1 DEF PageTypeOK, Versions
  <2>3. Invalidate(option[m], n) OBVIOUS
  <2> HIDE DEF n
  <2>4. /\ fetch' \in [Stations -> Versions \cup {None, Pending}]
        /\ heard' \in [Stations -> Versions]
        /\ FetchOK' /\ HeardIsShown'
    BY <2>1, <2>2, <2>3, InvalidateKeeps DEF pageVars
  <2>5. PageTypeOK' BY <2>4 DEF PageTypeOK, pageVars, streamVars
  <2>6. EffectOK' BY DEF EffectOK, pageVars, streamVars
  <2>7. NewsOK' BY ConstantsApart DEF NewsOK, PageTypeOK, pageVars, streamVars
  <2> QED BY <2>4, <2>5, <2>6, <2>7
<1> QED BY <1>1, <1>2, <1>3, <1>4 DEF Mutation

\* Every step preserves the invariant.
LEMMA PageInductive == PageInv /\ [Next]_vars => PageInv'
<1> SUFFICES ASSUME PageInv, [Next]_vars PROVE PageInv' OBVIOUS
<1>1. ASSUME NEW s \in Stations, Change(s) PROVE PageInv'
  <2>1. UNCHANGED <<trouble, pageVars, cacheVars, phase, station, option, mine>>
        /\ sent' = sent /\ Changed(s)
    BY <1>1 DEF Change, mutVars
  <2>2. sent \in [Mutations -> Versions \cup {None, Pending, Done}] BY DEF PageInv, PageTypeOK
  <2> QED BY <2>1, <2>2, ChangedKeeps
<1>2. ASSUME NEW s \in Stations, Cached(s) PROVE PageInv' BY <1>2, CachedKeeps
<1>3. ASSUME NEW s \in Stations, NEW v \in Visits, Visit(s, v) PROVE PageInv'
  BY <1>3, VisitKeeps
<1>4. CASE Leave BY <1>4, LeaveKeeps
<1>5. ASSUME NEW v \in Visits, Streamed(v) PROVE PageInv'
  BY <1>5, TurnsKeep, DeliverKeeps DEF Streamed
<1>6. ASSUME NEW m \in Mutations, Mutation(m) PROVE PageInv' BY <1>6, MutationKeeps
<1>7. CASE UNCHANGED vars
  BY <1>7 DEF PageInv, PageTypeOK, EffectOK, NewsOK, FetchOK, HeardIsShown, vars
<1> QED BY <1>1, <1>2, <1>3, <1>4, <1>5, <1>6, <1>7 DEF Next

\* PageInv holds in every reachable state.
LEMMA PageInvariant == Spec => []PageInv
BY PageInitHolds, PageInductive, PTL DEF Spec

\* The model is well typed for any stations, visits, mutations and bounds.
THEOREM PageTypeCorrect == Spec => []PageTypeOK
BY PageInvariant, PTL DEF PageInv

\* No EventSource outlives its page, however often pages are opened and left
\* while tokens are on their way (useStationEvents.ts).
THEOREM OneStreamOnly == Spec => []OneStream
<1>1. PageInv => OneStream BY DEF PageInv, EffectOK, OneStream
<1> QED BY <1>1, PageInvariant, PTL

\* What the page heard of it shows, for any number of stations, streams and
\* mutations that overlap (applyEvent, useInvalidateStation).
THEOREM NewsIsShown == Spec => []HeardIsShown
BY PageInvariant, PTL DEF PageInv

=============================================================================
