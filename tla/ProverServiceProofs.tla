--------------------------- MODULE ProverServiceProofs --------------------------
(***************************************************************************)
(* The key cache, for every number of providers, key sets and failures: it *)
(* only moves forward, because a provider never has two fetches at a time. *)
(*                                                                         *)
(* The request path, for every number of requests, workers, issuers and    *)
(* faults.  What holds of a request depends on that request, the key cache *)
(* and the mutex only, so a step is looked at for the request that takes   *)
(* it, and changes another one at most by granting it the mutex.           *)
(***************************************************************************)
EXTENDS ProverService, TLAPS

Fetching == {"sent", "got"}

\* A loop fetches for its own provider, and runs once main is done with it.
LoopsOwn ==
  \A p \in Providers :
    /\ p \notin populated => fetch[p] = Off
    /\ fetch[p].at \in Fetching => fetch[p].provider = p

\* main fetches for a provider it is not done with.
MainAhead == fetch[main].at \in Fetching => fetch[main].provider \notin populated

\* What is cached has been published.
CachedPublished == \A p \in Providers : cache[p] <= published[p]

\* An answer is no older than what is cached for its provider.
AnswersNewer ==
  \A t \in Tasks :
    fetch[t].at = "got" /\ fetch[t].version # Failed
      => /\ cache[fetch[t].provider] <= fetch[t].version
         /\ fetch[t].version <= published[fetch[t].provider]

IInv == JwkTypeOK /\ LoopsOwn /\ MainAhead /\ CachedPublished /\ AnswersNewer

--------------------------------------------------------------------------------
\* The four forms of a fetch, told apart by their field "at".
LEMMA FetchForms ==
  ASSUME NEW x \in FetchStates
  PROVE  /\ x.at = "off" => x = Off
         /\ x.at = "sleep" => x = Asleep
         /\ x.at = "sent" => x.provider \in Providers /\ x = Sent(x.provider)
         /\ x.at = "got" => /\ x.provider \in Providers
                            /\ x.version \in 0 .. MaxVersion \cup {Failed}
                            /\ x = Got(x.provider, x.version)
         /\ x.at \in {"off", "sleep", "sent", "got"}
<1>1. CASE x = Off
  BY <1>1 DEF Off
<1>2. CASE x = Asleep
  BY <1>2 DEF Asleep
<1>3. CASE \E p \in Providers : x = Sent(p)
  BY <1>3 DEF Sent
<1>4. CASE \E p \in Providers, v \in 0 .. MaxVersion \cup {Failed} : x = Got(p, v)
  BY <1>4 DEF Got
<1> QED  BY <1>1, <1>2, <1>3, <1>4 DEF FetchStates

\* What the constructors of a fetch build.
LEMMA FetchTypes ==
  /\ Off \in FetchStates /\ Off.at = "off"
  /\ Asleep \in FetchStates /\ Asleep.at = "sleep"
  /\ \A p \in Providers :
       Sent(p) \in FetchStates /\ Sent(p).at = "sent" /\ Sent(p).provider = p
  /\ \A p \in Providers, v \in 0 .. MaxVersion \cup {Failed} :
       /\ Got(p, v) \in FetchStates /\ Got(p, v).at = "got"
       /\ Got(p, v).provider = p /\ Got(p, v).version = v
<1>1. Off \in FetchStates /\ Off.at = "off"
  BY DEF FetchStates, Off
<1>2. Asleep \in FetchStates /\ Asleep.at = "sleep"
  BY DEF FetchStates, Asleep
<1>3. ASSUME NEW p \in Providers
      PROVE  Sent(p) \in FetchStates /\ Sent(p).at = "sent" /\ Sent(p).provider = p
  <2>1. Sent(p) \in FetchStates
    BY DEF FetchStates
  <2> QED  BY <2>1 DEF Sent
<1>4. ASSUME NEW p \in Providers, NEW v \in 0 .. MaxVersion \cup {Failed}
      PROVE  /\ Got(p, v) \in FetchStates /\ Got(p, v).at = "got"
             /\ Got(p, v).provider = p /\ Got(p, v).version = v
  <2>1. Got(p, v) \in FetchStates
    BY DEF FetchStates
  <2> QED  BY <2>1 DEF Got
<1> QED  BY <1>1, <1>2, <1>3, <1>4

\* Nothing is fetched and nothing cached when the service starts.
LEMMA InitIInv == JwkInit => IInv
<1> SUFFICES ASSUME JwkInit PROVE IInv
  OBVIOUS
<1>1. \A t \in Tasks : fetch[t] = Off
  BY DEF JwkInit
<1>2. main \in Tasks /\ Providers \subseteq Tasks
  BY DEF Tasks
<1>3. JwkTypeOK
  <2>1. 0 \in 0 .. MaxVersion /\ 0 \in 0 .. MaxFailures
    BY VersionsAssumption
  <2>2. fetch \in [Tasks -> FetchStates]
    BY FetchTypes DEF JwkInit
  <2>3. cache \in [Providers -> 0 .. MaxVersion \cup {NotCached}]
    BY DEF JwkInit
  <2> QED  BY <2>1, <2>2, <2>3 DEF JwkInit, JwkTypeOK
<1>4. LoopsOwn /\ MainAhead /\ AnswersNewer
  BY <1>1, <1>2, FetchTypes DEF LoopsOwn, MainAhead, AnswersNewer, Fetching
<1>5. CachedPublished
  <2>1. NotCached <= 0
    BY DEF NotCached
  <2> QED  BY <2>1 DEF JwkInit, CachedPublished
<1> QED  BY <1>3, <1>4, <1>5 DEF IInv

\* An answer in the hands of t changes the entry of its provider only, upwards
\* and not beyond what is published.
LEMMA CachedForward ==
  ASSUME IInv, NEW t \in Tasks, fetch[t].at = "got"
  PROVE  /\ Cached(t) \in [Providers -> 0 .. MaxVersion \cup {NotCached}]
         /\ \A p \in Providers :
              /\ Cached(t)[p] >= cache[p] /\ Cached(t)[p] <= published[p]
              /\ p # fetch[t].provider => Cached(t)[p] = cache[p]
<1>1. /\ fetch[t].provider \in Providers
      /\ fetch[t].version \in 0 .. MaxVersion \cup {Failed}
  BY FetchForms DEF IInv, JwkTypeOK
<1>2. /\ cache \in [Providers -> 0 .. MaxVersion \cup {NotCached}]
      /\ published \in [Providers -> 0 .. MaxVersion]
  BY DEF IInv, JwkTypeOK
<1>3. \A p \in Providers : cache[p] <= published[p]
  BY DEF IInv, CachedPublished
<1>4. CASE fetch[t].version = Failed
  BY <1>2, <1>3, <1>4, VersionsAssumption DEF Cached, NotCached
<1>5. CASE fetch[t].version # Failed
  <2>1. /\ cache[fetch[t].provider] <= fetch[t].version
        /\ fetch[t].version <= published[fetch[t].provider]
    BY <1>5 DEF IInv, AnswersNewer
  <2>2. Cached(t) = [cache EXCEPT ![fetch[t].provider] = fetch[t].version]
    BY <1>5 DEF Cached
  <2> QED  BY <1>1, <1>2, <1>3, <1>5, <2>1, <2>2, VersionsAssumption DEF NotCached, Failed
<1> QED  BY <1>4, <1>5

\* A step that only changes what one task waits for, to a request or an answer for
\* the same provider, keeps the invariant.
LEMMA AnswerIInv == ASSUME IInv, NEW t \in Tasks, Answer(t) \/ Fail(t) PROVE IInv'
<1> DEFINE p == fetch[t].provider
<1>1. PICK v \in 0 .. MaxVersion \cup {Failed} :
        /\ fetch' = [fetch EXCEPT ![t] = Got(p, v)]
        /\ v \in {published[p], Failed}
  BY FetchForms DEF Answer, Fail, IInv, JwkTypeOK
<1>2. /\ fetch[t].at = "sent" /\ p \in Providers
      /\ UNCHANGED <<published, cache, populated, serving>>
      /\ failures' \in 0 .. MaxFailures
  BY FetchForms, VersionsAssumption DEF Answer, Fail, IInv, JwkTypeOK
<1>3. /\ Got(p, v) \in FetchStates /\ Got(p, v).at = "got"
      /\ Got(p, v).provider = p /\ Got(p, v).version = v
  BY <1>2, FetchTypes
<1>4. fetch \in [Tasks -> FetchStates] /\ Providers \subseteq Tasks /\ main \in Tasks
  BY DEF IInv, JwkTypeOK, Tasks
<1> HIDE DEF p
<1>5. JwkTypeOK'
  BY <1>1, <1>2, <1>3, <1>4 DEF IInv, JwkTypeOK
<1>6. LoopsOwn'
  <2> SUFFICES ASSUME NEW q \in Providers
               PROVE  /\ q \notin populated => fetch'[q] = Off
                      /\ fetch'[q].at \in Fetching => fetch'[q].provider = q
    BY <1>2 DEF LoopsOwn
  <2>1. /\ q \notin populated => fetch[q] = Off
        /\ fetch[q].at \in Fetching => fetch[q].provider = q
    BY DEF IInv, LoopsOwn
  <2>2. CASE q = t
    <3>1. p = q /\ q \in populated
      BY <1>2, <2>1, <2>2, FetchTypes DEF Fetching, p
    <3> QED  BY <1>1, <1>3, <1>4, <2>2, <3>1
  <2>3. CASE q # t
    BY <1>1, <1>4, <2>1, <2>3
  <2> QED  BY <2>2, <2>3
<1>7. MainAhead'
  <2>1. CASE t = main
    <3>1. p \notin populated
      BY <1>2, <2>1 DEF IInv, MainAhead, Fetching, p
    <3> QED  BY <1>1, <1>2, <1>3, <1>4, <2>1, <3>1 DEF MainAhead
  <2>2. CASE t # main
    BY <1>1, <1>2, <1>4, <2>2 DEF IInv, MainAhead
  <2> QED  BY <2>1, <2>2
<1>8. CachedPublished'
  BY <1>2 DEF IInv, CachedPublished
<1>9. AnswersNewer'
  <2>1. cache[p] <= published[p] /\ published[p] \in Int
    BY <1>2, VersionsAssumption DEF IInv, CachedPublished, JwkTypeOK
  <2> SUFFICES ASSUME NEW u \in Tasks, fetch'[u].at = "got", fetch'[u].version # Failed
               PROVE  /\ cache[fetch'[u].provider] <= fetch'[u].version
                      /\ fetch'[u].version <= published[fetch'[u].provider]
    BY <1>2 DEF AnswersNewer
  <2>2. CASE u = t
    BY <1>1, <1>3, <1>4, <2>1, <2>2
  <2>3. CASE u # t
    BY <1>1, <1>4, <2>3 DEF IInv, AnswersNewer
  <2> QED  BY <2>2, <2>3
<1> QED  BY <1>5, <1>6, <1>7, <1>8, <1>9 DEF IInv

\* main hands p over to the loop it starts: p had no other fetch.
LEMMA EndPopulateIInv == ASSUME IInv, EndPopulate PROVE IInv'
<1> DEFINE p == fetch[main].provider
<1>1. /\ fetch[main].at = "got" /\ cache' = Cached(main)
      /\ populated' = populated \cup {p}
      /\ fetch' = [fetch EXCEPT ![main] = Off, ![p] = Sent(p)]
      /\ UNCHANGED <<published, failures, serving>>
  BY DEF EndPopulate
<1>2. /\ fetch \in [Tasks -> FetchStates] /\ main \in Tasks
      /\ Providers \subseteq Tasks /\ main \notin Providers
  BY ProvidersAssumption DEF IInv, JwkTypeOK, Tasks
<1>3. p \in Providers
  BY <1>1, <1>2, FetchForms
<1>4. /\ Off \in FetchStates /\ Off.at = "off"
      /\ Sent(p) \in FetchStates /\ Sent(p).at = "sent" /\ Sent(p).provider = p
  BY <1>3, FetchTypes
<1>5. /\ Cached(main) \in [Providers -> 0 .. MaxVersion \cup {NotCached}]
      /\ \A q \in Providers :
           /\ Cached(main)[q] <= published[q]
           /\ q # p => Cached(main)[q] = cache[q]
  BY <1>1, <1>2, CachedForward
<1> HIDE DEF p
<1>6. /\ fetch'[main] = Off /\ fetch'[p] = Sent(p)
      /\ \A u \in Tasks \ {main, p} : fetch'[u] = fetch[u]
      /\ fetch' \in [Tasks -> FetchStates]
  BY <1>1, <1>2, <1>3, <1>4
<1>7. JwkTypeOK'
  BY <1>1, <1>3, <1>5, <1>6 DEF IInv, JwkTypeOK
<1>8. LoopsOwn'
  BY <1>1, <1>2, <1>3, <1>4, <1>6 DEF IInv, LoopsOwn
<1>9. MainAhead'
  BY <1>4, <1>6 DEF MainAhead, Fetching
<1>10. CachedPublished'
  BY <1>1, <1>5 DEF CachedPublished
<1>11. AnswersNewer'
  <2> SUFFICES ASSUME NEW u \in Tasks, fetch'[u].at = "got", fetch'[u].version # Failed
               PROVE  /\ cache'[fetch'[u].provider] <= fetch'[u].version
                      /\ fetch'[u].version <= published[fetch'[u].provider]
    BY <1>1 DEF AnswersNewer
  <2>1. u \in Tasks \ {main, p} /\ fetch'[u] = fetch[u]
    BY <1>4, <1>6
  <2>2. u \in Providers /\ fetch[u].provider = u
    BY <2>1 DEF Tasks, IInv, LoopsOwn, Fetching
  <2>3. cache'[u] = cache[u]
    BY <1>1, <1>5, <2>1, <2>2
  <2> QED  BY <2>1, <2>2, <2>3 DEF IInv, AnswersNewer
<1> QED  BY <1>7, <1>8, <1>9, <1>10, <1>11 DEF IInv

\* A loop caches the answer it got, of its own provider.
LEMMA EndRefreshIInv == ASSUME IInv, NEW p \in Providers, EndRefresh(p) PROVE IInv'
<1>1. /\ fetch[p].at = "got" /\ cache' = Cached(p)
      /\ fetch' = [fetch EXCEPT ![p] = Asleep]
      /\ UNCHANGED <<published, failures, populated, serving>>
  BY DEF EndRefresh
<1>2. /\ fetch \in [Tasks -> FetchStates] /\ main \in Tasks
      /\ Providers \subseteq Tasks /\ main # p
  BY ProvidersAssumption DEF IInv, JwkTypeOK, Tasks
<1>3. fetch[p].provider = p /\ p \in populated
  BY <1>1, FetchTypes DEF IInv, LoopsOwn, Fetching
<1>4. /\ Cached(p) \in [Providers -> 0 .. MaxVersion \cup {NotCached}]
      /\ \A q \in Providers :
           /\ Cached(p)[q] <= published[q]
           /\ q # p => Cached(p)[q] = cache[q]
  BY <1>1, <1>2, <1>3, CachedForward
<1>5. /\ fetch'[p] = Asleep
      /\ \A u \in Tasks \ {p} : fetch'[u] = fetch[u]
      /\ fetch' \in [Tasks -> FetchStates]
  BY <1>1, <1>2, FetchTypes
<1>6. JwkTypeOK'
  BY <1>1, <1>4, <1>5 DEF IInv, JwkTypeOK
<1>7. LoopsOwn' /\ MainAhead'
  BY <1>1, <1>2, <1>3, <1>5, FetchTypes DEF IInv, LoopsOwn, MainAhead, Fetching
<1>8. CachedPublished'
  BY <1>1, <1>4 DEF CachedPublished
<1>9. AnswersNewer'
  <2> SUFFICES ASSUME NEW u \in Tasks, fetch'[u].at = "got", fetch'[u].version # Failed
               PROVE  /\ cache'[fetch'[u].provider] <= fetch'[u].version
                      /\ fetch'[u].version <= published[fetch'[u].provider]
    BY <1>1 DEF AnswersNewer
  <2>1. u \in Tasks \ {p} /\ fetch'[u] = fetch[u] /\ fetch[u].provider \in Providers
    BY <1>2, <1>5, FetchTypes, FetchForms
  <2>2. fetch[u].provider # p
    <3>1. CASE u = main
      BY <1>3, <2>1, <3>1 DEF IInv, MainAhead, Fetching
    <3>2. CASE u \in Providers
      BY <2>1, <3>2 DEF IInv, LoopsOwn, Fetching
    <3> QED  BY <3>1, <3>2 DEF Tasks
  <2>3. cache'[fetch[u].provider] = cache[fetch[u].provider]
    BY <1>1, <1>4, <2>1, <2>2
  <2> QED  BY <2>1, <2>3 DEF IInv, AnswersNewer
<1> QED  BY <1>6, <1>7, <1>8, <1>9 DEF IInv

\* A rotation raises what is published, never what is cached.
LEMMA PublishIInv == ASSUME IInv, NEW p \in Providers, Publish(p) PROVE IInv'
<1>1. /\ published \in [Providers -> 0 .. MaxVersion] /\ published[p] < MaxVersion
      /\ published' = [published EXCEPT ![p] = @ + 1]
      /\ UNCHANGED <<failures, cache, populated, serving, fetch>>
  BY DEF Publish, IInv, JwkTypeOK
<1>2. /\ published' \in [Providers -> 0 .. MaxVersion]
      /\ \A q \in Providers : published[q] <= published'[q]
  BY <1>1, VersionsAssumption
<1>3. cache \in [Providers -> 0 .. MaxVersion \cup {NotCached}]
  BY DEF IInv, JwkTypeOK
<1>4. JwkTypeOK' /\ LoopsOwn' /\ MainAhead'
  BY <1>1, <1>2 DEF IInv, JwkTypeOK, LoopsOwn, MainAhead
<1>5. CachedPublished'
  <2> SUFFICES ASSUME NEW q \in Providers PROVE cache[q] <= published'[q]
    BY <1>1 DEF CachedPublished
  <2>1. cache[q] <= published[q] /\ cache[q] \in Int
    BY <1>3 DEF IInv, CachedPublished, NotCached
  <2> QED  BY <1>1, <1>2, <2>1, VersionsAssumption
<1>6. AnswersNewer'
  <2> SUFFICES ASSUME NEW u \in Tasks, fetch[u].at = "got", fetch[u].version # Failed
               PROVE  /\ cache[fetch[u].provider] <= fetch[u].version
                      /\ fetch[u].version <= published'[fetch[u].provider]
    BY <1>1 DEF AnswersNewer
  <2>1. /\ cache[fetch[u].provider] <= fetch[u].version
        /\ fetch[u].version <= published[fetch[u].provider]
    BY DEF IInv, AnswersNewer
  <2>2. fetch[u].provider \in Providers /\ fetch[u].version \in 0 .. MaxVersion
    BY FetchForms DEF IInv, JwkTypeOK
  <2> QED  BY <1>1, <1>2, <2>1, <2>2, VersionsAssumption
<1> QED  BY <1>4, <1>5, <1>6 DEF IInv

\* A request is sent by a task that had none, for a provider that is its own.
LEMMA RequestIInv ==
  ASSUME IInv, NEW t \in Tasks, NEW p \in Providers, fetch[t].at \notin Fetching,
         fetch' = [fetch EXCEPT ![t] = Sent(p)],
         UNCHANGED <<published, failures, cache, populated, serving>>,
         IF t = main THEN p \notin populated ELSE t = p /\ p \in populated
  PROVE  IInv'
<1>1. /\ fetch \in [Tasks -> FetchStates] /\ main \in Tasks
      /\ Providers \subseteq Tasks /\ main \notin Providers
  BY ProvidersAssumption DEF IInv, JwkTypeOK, Tasks
<1>2. Sent(p) \in FetchStates /\ Sent(p).at = "sent" /\ Sent(p).provider = p
  BY FetchTypes
<1>3. /\ fetch'[t] = Sent(p) /\ fetch' \in [Tasks -> FetchStates]
      /\ \A u \in Tasks \ {t} : fetch'[u] = fetch[u]
  BY <1>1, <1>2
<1>4. JwkTypeOK'
  BY <1>3 DEF IInv, JwkTypeOK
<1>5. LoopsOwn'
  BY <1>1, <1>2, <1>3 DEF IInv, LoopsOwn
<1>6. MainAhead'
  BY <1>1, <1>2, <1>3 DEF IInv, MainAhead
<1>7. CachedPublished' /\ AnswersNewer'
  BY <1>2, <1>3 DEF IInv, CachedPublished, AnswersNewer
<1> QED  BY <1>4, <1>5, <1>6, <1>7 DEF IInv

\* main asks for a provider it is not done with.
LEMMA PopulateIInv == ASSUME IInv, NEW p \in Providers, Populate(p) PROVE IInv'
BY RequestIInv, FetchTypes DEF Populate, Fetching, Tasks

\* A loop that slept asks again.
LEMMA WakeUpIInv == ASSUME IInv, NEW p \in Providers, WakeUp(p) PROVE IInv'
<1>1. p \in populated
  BY FetchTypes DEF WakeUp, IInv, LoopsOwn
<1> QED  BY <1>1, RequestIInv, ProvidersAssumption DEF WakeUp, Fetching, Tasks

LEMMA ServeIInv == ASSUME IInv, Serve PROVE IInv'
BY DEF Serve, IInv, JwkTypeOK, LoopsOwn, MainAhead, CachedPublished, AnswersNewer

LEMMA StutterIInv == ASSUME IInv, UNCHANGED jwkVars PROVE IInv'
BY DEF jwkVars, IInv, JwkTypeOK, LoopsOwn, MainAhead, CachedPublished, AnswersNewer

\* Every step keeps the invariant.
LEMMA NextIInv == ASSUME IInv, [JwkNext]_jwkVars PROVE IInv'
<1>1. ASSUME NEW p \in Providers, Publish(p) PROVE IInv'
  BY <1>1, PublishIInv
<1>2. ASSUME NEW t \in Tasks, Answer(t) \/ Fail(t) PROVE IInv'
  BY <1>2, AnswerIInv
<1>3. ASSUME NEW t \in Tasks, TaskStep(t) PROVE IInv'
  <2>1. CASE t = main
    BY <1>3, <2>1, EndPopulateIInv, ServeIInv, PopulateIInv DEF TaskStep
  <2>2. CASE t # main
    BY <1>3, <2>2, EndRefreshIInv, WakeUpIInv DEF TaskStep, Tasks
  <2> QED  BY <2>1, <2>2
<1>4. CASE UNCHANGED jwkVars
  BY <1>4, StutterIInv
<1> QED  BY <1>1, <1>2, <1>3, <1>4 DEF JwkNext

\* No step of a state of the invariant takes an entry back.
LEMMA NextForward ==
  ASSUME IInv, [JwkNext]_jwkVars
  PROVE  \A p \in Providers : cache'[p] >= cache[p]
<1>1. cache \in [Providers -> 0 .. MaxVersion \cup {NotCached}]
  BY DEF IInv, JwkTypeOK
<1>2. CASE cache' = cache
  BY <1>1, <1>2, VersionsAssumption DEF NotCached
<1>3. ASSUME NEW t \in Tasks, fetch[t].at = "got", cache' = Cached(t)
      PROVE  \A p \in Providers : cache'[p] >= cache[p]
  BY <1>3, CachedForward
<1>4. cache' = cache \/ \E t \in Tasks : fetch[t].at = "got" /\ cache' = Cached(t)
  BY DEF JwkNext, jwkVars, Publish, Answer, Fail, TaskStep, EndPopulate, Serve, Populate,
         EndRefresh, WakeUp
<1> QED  BY <1>2, <1>3, <1>4

LEMMA Invariance == JwkSpec => []IInv
<1>1. JwkInit => IInv
  BY InitIInv
<1>2. IInv /\ [JwkNext]_jwkVars => IInv'
  BY NextIInv
<1> QED  BY <1>1, <1>2, PTL DEF JwkSpec

\* The type invariant, for every set of providers and every bound.
THEOREM JwkTypeCorrect == JwkSpec => []JwkTypeOK
<1>1. IInv => JwkTypeOK
  BY DEF IInv
<1> QED  BY <1>1, Invariance, PTL

\* No answer overwrites a newer one, and no error a key set (fetch_and_cache_jwk,
\* populate_jwk_cache): a provider never has two fetches at a time, since its loop
\* starts after the fetch of main.
THEOREM CacheForward == JwkSpec => NeverOlder
<1>1. IInv /\ [JwkNext]_jwkVars => [\A p \in Providers : cache'[p] >= cache[p]]_jwkVars
  BY NextForward
<1> QED  BY <1>1, Invariance, PTL DEF JwkSpec, NeverOlder

--------------------------------------------------------------------------------
\* The queue of the mutex: requests that wait, each of them once.
Queue ==
  /\ queue \in Seq(Requests)
  /\ \A i \in 1 .. Len(queue) : pc[queue[i]] = "queued"
  /\ \A i, j \in 1 .. Len(queue) : i # j => queue[i] # queue[j]

Mutex == holder \in Requests \cup {None} /\ MutexHandedOn /\ Queue

\* Unless a fetch has failed, the keys of every provider main is done with are
\* cached, and main is done with all of them when the port is bound.
Startup ==
  /\ serving => populated = Providers
  /\ failures = 0 =>
       /\ \A t \in Tasks : fetch[t].at = "got" => fetch[t].version # Failed
       /\ \A p \in populated : cache[p] # NotCached

Data ==
  /\ load \in Loads
  /\ pc \in [Requests -> InFlight \cup Ended \cup {"idle"}]
  /\ input \in [Paths -> Requests \cup {None}]
  /\ witness \in [Paths -> Requests \cup {None, Empty}]
  /\ proof \in [Requests -> Requests \cup {None, Bad}]
  /\ faulted \in SUBSET Requests

WithProver == {"queued", "granted", "proving"}
Checked    == {"witness", "queued", "granted", "proving", "verify", "ok"}

\* What holds of a request: its files and its proof, where it is in its handler ...
Files(r) ==
  /\ pc[r] = "witness" => input[PathOf(r)] = r
  /\ pc[r] \in WithProver => witness[PathOf(r)] = r
  /\ pc[r] = "verify" => proof[r] = r \/ r \in faulted
  /\ input[PathOf(r)] # None \/ witness[PathOf(r)] # None => pc[r] \in InFlight \cup {"lost"}

\* ... what its end means ...
Outcome(r) ==
  /\ pc[r] \in Checked => load.input[r].valid
  /\ pc[r] = "ok" => proof[r] = r
  /\ pc[r] \in {"server_error", "dropped"} => r \in faulted \/ ~ load.input[r].derivable

\* ... and, for a request with a key that every key set holds, that the key is found.
Found(r) ==
  failures = 0 /\ KnownKey(r) =>
    /\ pc[r] = "ready" => serving
    /\ pc[r] \notin {"fetching", "fetched", "unknown"}
    /\ pc[r] = "bad_request" => ~ load.input[r].valid

Request(r) == Files(r) /\ Outcome(r) /\ Found(r)

SvcInv == IInv /\ Startup /\ Mutex /\ Data /\ \A r \in Requests : Request(r)

--------------------------------------------------------------------------------
\* What is left of a queue when one request leaves it.
LEMMA WithoutQueue ==
  ASSUME NEW q \in Seq(Requests), NEW r,
         \A i, j \in 1 .. Len(q) : i # j => q[i] # q[j]
  PROVE  /\ Without(q, r) \in Seq(Requests)
         /\ \A i \in 1 .. Len(Without(q, r)) :
              /\ Without(q, r)[i] # r
              /\ \E j \in 1 .. Len(q) : Without(q, r)[i] = q[j]
         /\ \A i, j \in 1 .. Len(Without(q, r)) :
              i # j => Without(q, r)[i] # Without(q, r)[j]
         /\ q = << >> => Without(q, r) = << >>
<1> DEFINE w == Without(q, r)
<1>1. CASE \E i \in 1 .. Len(q) : q[i] = r
  <2> DEFINE k == CHOOSE i \in 1 .. Len(q) : q[i] = r
  <2> DEFINE at(i) == IF i < k THEN i ELSE i + 1
  <2>1. k \in 1 .. Len(q) /\ q[k] = r
    BY <1>1
  <2>2. w = [i \in 1 .. Len(q) - 1 |-> q[at(i)]]
    BY <1>1 DEF Without
  <2> HIDE DEF k, w
  <2>3. Len(q) \in Nat /\ Len(q) - 1 \in Nat
    BY <2>1
  <2>4. /\ \A i \in 1 .. Len(q) - 1 : at(i) \in 1 .. Len(q) /\ at(i) # k
        /\ \A i, j \in 1 .. Len(q) - 1 : i # j => at(i) # at(j)
    BY <2>1, <2>3
  <2>5. \A i \in 1 .. Len(q) : q[i] \in Requests
    OBVIOUS
  <2> HIDE DEF at
  <2>6. w \in Seq(Requests) /\ Len(w) = Len(q) - 1
    BY <2>2, <2>3, <2>4, <2>5
  <2>7. \A i \in 1 .. Len(w) : w[i] = q[at(i)]
    BY <2>2, <2>6
  <2>8. q # << >>
    BY <2>1
  <2> QED  BY <2>1, <2>4, <2>6, <2>7, <2>8 DEF w
<1>2. CASE ~ \E i \in 1 .. Len(q) : q[i] = r
  BY <1>2 DEF Without
<1> QED  BY <1>1, <1>2

Owning == {"granted", "proving", "verify"}
Places == InFlight \cup Ended \cup {"idle"}

\* A request that ends hands the mutex over if it owns it, and leaves the queue if it
\* is in it.
LEMMA LetGoMutex ==
  ASSUME Mutex, pc \in [Requests -> Places], NEW r \in Requests,
         NEW how \in Ended, LetGo(r, how)
  PROVE  /\ Mutex' /\ pc' \in [Requests -> Places] /\ pc'[r] = how
         /\ \A q \in Requests \ {r} :
              pc'[q] = pc[q] \/ (pc[q] = "queued" /\ pc'[q] = "granted")
<1>1. /\ how \notin Owning /\ how # "queued" /\ how \in Places
      /\ "granted" \in Places /\ None \notin Requests
  BY NamesAssumption DEF Ended, Owning, Places, InFlight, Waiting
<1>2. /\ queue \in Seq(Requests) /\ holder \in Requests \cup {None}
      /\ holder = None => queue = << >>
      /\ \A q \in Requests : pc[q] \in Owning <=> holder = q
      /\ \A i \in 1 .. Len(queue) : pc[queue[i]] = "queued"
      /\ \A i, j \in 1 .. Len(queue) : i # j => queue[i] # queue[j]
  BY DEF Mutex, Queue, MutexHandedOn, Owning
<1>3. CASE holder # r \/ queue = << >>
  <2>1. /\ pc' = [pc EXCEPT ![r] = how] /\ queue' = Without(queue, r)
        /\ holder' = IF holder = r THEN None ELSE holder
    BY <1>3 DEF LetGo
  <2>2. /\ queue' \in Seq(Requests)
        /\ \A i \in 1 .. Len(queue') : queue'[i] # r /\ \E j \in 1 .. Len(queue) : queue'[i] = queue[j]
        /\ \A i, j \in 1 .. Len(queue') : i # j => queue'[i] # queue'[j]
        /\ queue = << >> => queue' = << >>
    BY <1>2, <2>1, WithoutQueue
  <2>3. Queue'
    <3>1. ASSUME NEW i \in 1 .. Len(queue') PROVE pc'[queue'[i]] = "queued"
      <4>1. PICK j \in 1 .. Len(queue) : queue'[i] = queue[j]
        BY <2>2
      <4>2. pc[queue[j]] = "queued" /\ queue[j] # r
        BY <1>2, <2>2, <4>1
      <4>3. queue[j] \in Requests
        BY <1>2
      <4> QED  BY <2>1, <4>1, <4>2, <4>3
    <3> QED  BY <2>2, <3>1 DEF Queue
  <2>4. MutexHandedOn'
    <3>1. holder' = None => queue' = << >>
      BY <1>1, <1>2, <1>3, <2>1, <2>2
    <3>2. ASSUME NEW q \in Requests PROVE pc'[q] \in Owning <=> holder' = q
      BY <1>1, <1>2, <1>3, <2>1
    <3> QED  BY <3>1, <3>2 DEF MutexHandedOn, Owning
  <2> QED  BY <1>1, <1>2, <2>1, <2>3, <2>4 DEF Mutex
<1>4. CASE holder = r /\ queue # << >>
  <2> DEFINE h == Head(queue)
  <2>1. /\ pc' = [pc EXCEPT ![r] = how, ![h] = "granted"]
        /\ holder' = h /\ queue' = Tail(queue)
    BY <1>4 DEF LetGo
  <2>2. /\ 1 \in 1 .. Len(queue) /\ h = queue[1] /\ h \in Requests
        /\ queue' \in Seq(Requests) /\ Len(queue') = Len(queue) - 1
        /\ \A i \in 1 .. Len(queue') : queue'[i] = queue[i + 1] /\ i + 1 \in 1 .. Len(queue)
    BY <1>2, <1>4, <2>1
  <2> HIDE DEF h
  <2>3. pc[h] = "queued" /\ h # r
    BY <1>2, <1>4, <2>2 DEF Owning
  <2>4. /\ pc'[r] = how /\ pc'[h] = "granted" /\ pc' \in [Requests -> Places]
        /\ \A q \in Requests \ {r, h} : pc'[q] = pc[q]
    BY <1>1, <2>1, <2>2, <2>3
  <2>5. Queue'
    <3>1. ASSUME NEW i \in 1 .. Len(queue') PROVE pc'[queue'[i]] = "queued"
      <4>1. /\ queue'[i] = queue[i + 1] /\ i + 1 \in 1 .. Len(queue) /\ i + 1 # 1
        BY <2>2
      <4>2. /\ queue[i + 1] # h /\ pc[queue[i + 1]] = "queued" /\ queue[i + 1] \in Requests
        BY <1>2, <2>2, <4>1
      <4>3. queue[i + 1] # r
        BY <1>2, <1>4, <4>2 DEF Owning
      <4> QED  BY <2>4, <4>1, <4>2, <4>3
    <3>2. ASSUME NEW i \in 1 .. Len(queue'), NEW j \in 1 .. Len(queue'), i # j
          PROVE  queue'[i] # queue'[j]
      BY <1>2, <2>2, <3>2
    <3> QED  BY <2>2, <3>1, <3>2 DEF Queue
  <2>6. MutexHandedOn'
    <3>1. holder' # None
      BY <1>1, <2>1, <2>2
    <3>2. ASSUME NEW q \in Requests PROVE pc'[q] \in Owning <=> holder' = q
      BY <1>1, <1>2, <1>4, <2>1, <2>3, <2>4 DEF Owning
    <3> QED  BY <3>1, <3>2 DEF MutexHandedOn, Owning
  <2> QED  BY <2>1, <2>2, <2>3, <2>4, <2>5, <2>6 DEF Mutex
<1> QED  BY <1>3, <1>4

LEMMA OwnPath ==
  /\ \A r \in Requests : PathOf(r) \in Paths
  /\ \A q, r \in Requests : PathOf(q) = PathOf(r) => q = r
BY DEF PathOf, Paths

LEMMA SameKeys == ASSUME NEW r, UNCHANGED load PROVE KnownKey(r)' = KnownKey(r)
BY DEF KnownKey

\* A request that does nothing, or is granted the mutex, keeps what holds of it.
LEMMA Framed ==
  ASSUME NEW q \in Requests, Request(q),
         pc'[q] = pc[q] \/ (pc[q] = "queued" /\ pc'[q] = "granted"),
         input'[PathOf(q)] = input[PathOf(q)], witness'[PathOf(q)] = witness[PathOf(q)],
         proof'[q] = proof[q], UNCHANGED load, faulted \subseteq faulted',
         failures' = 0 => failures = 0, serving => serving'
  PROVE  Request(q)'
<1>1. PathOf(q)' = PathOf(q)
  BY DEF PathOf
<1>2. CASE pc'[q] = pc[q]
  <2>1. Files(q)'
    BY <1>1, <1>2 DEF Request, Files
  <2>2. Outcome(q)'
    BY <1>2 DEF Request, Outcome
  <2>3. Found(q)'
    BY <1>2, SameKeys DEF Request, Found
  <2> QED  BY <2>1, <2>2, <2>3 DEF Request
<1>3. CASE pc[q] = "queued" /\ pc'[q] = "granted"
  <2>1. Files(q)'
    BY <1>1, <1>3 DEF Request, Files, WithProver, InFlight, Waiting
  <2>2. Outcome(q)'
    BY <1>3 DEF Request, Outcome, Checked
  <2>3. Found(q)'
    BY <1>3, SameKeys DEF Request, Found
  <2> QED  BY <2>1, <2>2, <2>3 DEF Request
<1> QED  BY <1>2, <1>3

\* The cache is left alone.
LEMMA CacheSame == ASSUME IInv, Startup, UNCHANGED jwkVars PROVE IInv' /\ Startup'
<1>1. IInv'
  BY StutterIInv
<1>2. Startup'
  BY DEF jwkVars, Startup
<1> QED  BY <1>1, <1>2

\* A handler ends, with the files of its request, for a reason that holds.
LEMMA EndInv ==
  ASSUME SvcInv, NEW r \in Requests, NEW how \in Ended, End(r, how),
         UNCHANGED <<jwkVars, load>>, faulted \subseteq faulted', faulted' \in SUBSET Requests,
         how = "ok" => proof[r] = r /\ load.input[r].valid,
         how \in {"server_error", "dropped"} => r \in faulted' \/ ~ load.input[r].derivable,
         how = "bad_request" /\ failures = 0 /\ KnownKey(r) => ~ load.input[r].valid
  PROVE  SvcInv'
<1>1. /\ Mutex' /\ pc' \in [Requests -> Places] /\ pc'[r] = how
      /\ \A q \in Requests \ {r} :
           pc'[q] = pc[q] \/ (pc[q] = "queued" /\ pc'[q] = "granted")
  BY LetGoMutex DEF End, SvcInv, Data, Places
<1>2. /\ input' = [input EXCEPT ![PathOf(r)] = None]
      /\ witness' = [witness EXCEPT ![PathOf(r)] = None] /\ UNCHANGED proof
  BY DEF End, Removed
<1>3. Data'
  BY <1>1, <1>2 DEF SvcInv, Data, Places
<1>4. ASSUME NEW q \in Requests PROVE Request(q)'
  <2>1. CASE q # r
    <3>1. PathOf(q) # PathOf(r) /\ PathOf(q) \in Paths
      BY <2>1, OwnPath
    <3>2. input'[PathOf(q)] = input[PathOf(q)] /\ witness'[PathOf(q)] = witness[PathOf(q)]
      BY <1>2, <3>1 DEF SvcInv, Data
    <3>3. Request(q) /\ proof'[q] = proof[q] /\ UNCHANGED <<load, failures, serving>>
      BY <1>2 DEF SvcInv, jwkVars
    <3> QED  BY <1>1, <2>1, <3>2, <3>3, Framed
  <2>2. CASE q = r
    <3>1. input'[PathOf(r)] = None /\ witness'[PathOf(r)] = None /\ PathOf(r)' = PathOf(r)
      BY <1>2, OwnPath DEF SvcInv, Data, PathOf
    <3>2. /\ how \notin WithProver /\ how \notin {"witness", "verify", "ready"}
          /\ how \notin {"fetching", "fetched", "unknown"}
          /\ how \in Checked => how = "ok"
      BY DEF Ended, WithProver, Checked
    <3>3. Files(r)'
      BY <1>1, <3>1, <3>2 DEF Files
    <3>4. Outcome(r)'
      BY <1>1, <1>2, <3>2 DEF Outcome
    <3>5. Found(r)'
      BY <1>1, <3>2, SameKeys DEF Found, jwkVars
    <3> QED  BY <2>2, <3>3, <3>4, <3>5 DEF Request
  <2> QED  BY <2>1, <2>2
<1> QED  BY <1>1, <1>3, <1>4, CacheSame DEF SvcInv

\* A request goes on by itself: it neither takes nor gives the mutex, nor queues.
LEMMA AloneInv ==
  ASSUME SvcInv, NEW r \in Requests, NEW to \in Places,
         pc' = [pc EXCEPT ![r] = to], UNCHANGED <<holder, queue, jwkVars, load>>,
         pc[r] # "queued", to \in Owning <=> pc[r] \in Owning,
         faulted \subseteq faulted', Data', Request(r)',
         \A q \in Requests \ {r} :
           /\ input'[PathOf(q)] = input[PathOf(q)] /\ witness'[PathOf(q)] = witness[PathOf(q)]
           /\ proof'[q] = proof[q]
  PROVE  SvcInv'
<1>1. /\ pc'[r] = to /\ \A q \in Requests \ {r} : pc'[q] = pc[q]
  BY DEF SvcInv, Data
<1>2. Mutex'
  <2>1. Queue'
    <3>1. ASSUME NEW i \in 1 .. Len(queue) PROVE pc'[queue[i]] = "queued"
      <4>1. pc[queue[i]] = "queued" /\ queue[i] \in Requests
        BY DEF SvcInv, Mutex, Queue
      <4> QED  BY <1>1, <4>1
    <3> QED  BY <3>1 DEF SvcInv, Mutex, Queue
  <2>2. MutexHandedOn'
    <3>1. ASSUME NEW q \in Requests PROVE pc'[q] \in Owning <=> holder' = q
      BY <1>1 DEF SvcInv, Mutex, MutexHandedOn, Owning
    <3> QED  BY <3>1 DEF SvcInv, Mutex, MutexHandedOn, Owning
  <2> QED  BY <2>1, <2>2 DEF SvcInv, Mutex
<1>3. ASSUME NEW q \in Requests PROVE Request(q)'
  <2>1. CASE q # r
    <3>1. Request(q) /\ UNCHANGED <<failures, serving>>
      BY DEF SvcInv, jwkVars
    <3> QED  BY <1>1, <2>1, <3>1, Framed
  <2> QED  BY <2>1
<1> QED  BY <1>2, <1>3, CacheSame DEF SvcInv

LEMMA ArriveInv == ASSUME SvcInv, NEW r \in Requests, Arrive(r) PROVE SvcInv'
<1>1. /\ serving /\ pc[r] = "idle" /\ pc' = [pc EXCEPT ![r] = "ready"]
      /\ UNCHANGED <<jwkVars, load, input, witness, proof, holder, queue, faulted>>
  BY DEF Arrive
<1>2. "ready" \in Places /\ "ready" \in InFlight
  BY DEF Places, InFlight
<1>3. Data' /\ pc'[r] = "ready"
  BY <1>1, <1>2 DEF SvcInv, Data, Places
<1>4. Request(r)'
  BY <1>1, <1>2, <1>3 DEF Request, Files, Outcome, Found, WithProver, Checked, jwkVars
<1> QED  BY <1>1, <1>2, <1>3, <1>4, AloneInv DEF Owning

\* A request whose JWT is good goes on to its witness; its files are its own.
LEMMA ValidatedInv ==
  ASSUME SvcInv, NEW r \in Requests, pc[r] \in {"ready", "fetched"}, Validated(r),
         UNCHANGED <<jwkVars, load, faulted>>
  PROVE  SvcInv'
<1>1. faulted \in SUBSET Requests /\ "bad_request" \in Ended /\ "server_error" \in Ended
  BY DEF SvcInv, Data, Ended
<1>2. CASE ~ load.input[r].valid
  BY <1>1, <1>2, EndInv DEF Validated
<1>3. CASE load.input[r].valid /\ ~ load.input[r].derivable
  BY <1>1, <1>3, EndInv DEF Validated
<1>4. CASE load.input[r].valid /\ load.input[r].derivable
  <2>1. /\ pc' = [pc EXCEPT ![r] = "witness"]
        /\ input' = [input EXCEPT ![PathOf(r)] = r]
        /\ witness' = [witness EXCEPT ![PathOf(r)] = Empty]
        /\ UNCHANGED <<proof, holder, queue>>
    BY <1>4 DEF Validated
  <2>2. "witness" \in Places /\ "witness" \in InFlight
    BY DEF Places, InFlight, Blocking
  <2>3. Data' /\ pc'[r] = "witness" /\ input'[PathOf(r)] = r
    BY <2>1, <2>2, OwnPath DEF SvcInv, Data, Places
  <2>4. \A q \in Requests \ {r} :
          /\ input'[PathOf(q)] = input[PathOf(q)] /\ witness'[PathOf(q)] = witness[PathOf(q)]
    BY <2>1, OwnPath DEF SvcInv, Data
  <2>5. Request(r)'
    <3>1. PathOf(r)' = PathOf(r)
      BY DEF PathOf
    <3>2. Files(r)'
      BY <2>2, <2>3, <3>1 DEF Files, WithProver
    <3>3. Outcome(r)' /\ Found(r)'
      BY <1>4, <2>3 DEF Outcome, Found
    <3> QED  BY <3>2, <3>3 DEF Request
  <2> QED  BY <2>1, <2>2, <2>3, <2>4, <2>5, AloneInv DEF Owning
<1> QED  BY <1>2, <1>3, <1>4

\* A key that is in every key set is cached when a request looks for it.
LEMMA KnownCacheable ==
  ASSUME SvcInv, NEW r \in Requests, pc[r] = "ready", failures = 0, KnownKey(r)
  PROVE  Cacheable(r)
<1>1. serving /\ populated = Providers
  BY DEF SvcInv, Request, Found, Startup
<1>2. load.input[r].iss \in Providers /\ cache[load.input[r].iss] # NotCached
  BY <1>1 DEF SvcInv, Startup, KnownKey
<1>3. cache[load.input[r].iss] \in 0 .. MaxVersion
  BY <1>2 DEF SvcInv, IInv, JwkTypeOK
<1> QED  BY <1>2, <1>3 DEF Cacheable, KnownKey

LEMMA HandleInv == ASSUME SvcInv, NEW r \in Requests, Handle(r) PROVE SvcInv'
<1>1. pc[r] = "ready" /\ UNCHANGED <<jwkVars, load, faulted>>
  BY DEF Handle
<1>2. CASE Cacheable(r)
  BY <1>1, <1>2, ValidatedInv DEF Handle
<1>3. CASE /\ ~ Cacheable(r) /\ pc' = [pc EXCEPT ![r] = "fetching"]
           /\ UNCHANGED <<input, witness, proof, holder, queue>>
  <2>1. "fetching" \in Places /\ "fetching" \in InFlight
    BY DEF Places, InFlight, Waiting
  <2>2. Data' /\ pc'[r] = "fetching"
    BY <1>1, <1>3, <2>1 DEF SvcInv, Data, Places
  <2>3. ~ (failures = 0 /\ KnownKey(r))
    BY <1>1, <1>3, KnownCacheable
  <2>4. Request(r)'
    BY <1>1, <2>1, <2>2, <2>3, SameKeys
       DEF Request, Files, Outcome, Found, WithProver, Checked, jwkVars
  <2> QED  BY <1>1, <1>3, <2>1, <2>2, <2>4, AloneInv DEF Owning
<1>4. CASE ~ Cacheable(r) /\ End(r, "bad_request")
  <2>1. faulted \in SUBSET Requests /\ "bad_request" \in Ended
    BY DEF SvcInv, Data, Ended
  <2> QED  BY <1>1, <1>4, <2>1, KnownCacheable, EndInv
<1> QED  BY <1>2, <1>3, <1>4 DEF Handle

\* The answer to the fetch of a federated key.
LEMMA FederatedInv ==
  ASSUME SvcInv, NEW r \in Requests, FederatedAnswer(r) \/ FederatedFail(r)
  PROVE  SvcInv'
<1>1. PICK to \in {"fetched", "unknown"} : pc' = [pc EXCEPT ![r] = to]
  BY DEF FederatedAnswer, FederatedFail
<1>2. /\ pc[r] = "fetching" /\ faulted \subseteq faulted' /\ faulted' \in SUBSET Requests
      /\ UNCHANGED <<jwkVars, load, input, witness, proof, holder, queue>>
  BY DEF FederatedAnswer, FederatedFail, Strike, SvcInv, Data
<1>3. to \in Places /\ to \in InFlight
  BY DEF Places, InFlight, Waiting
<1>4. Data' /\ pc'[r] = to
  BY <1>1, <1>2, <1>3 DEF SvcInv, Data, Places
<1>5. ~ (failures = 0 /\ KnownKey(r))
  BY <1>2 DEF SvcInv, Request, Found
<1>6. Request(r)'
  BY <1>2, <1>3, <1>4, <1>5, SameKeys
     DEF Request, Files, Outcome, Found, WithProver, Checked, jwkVars
<1> QED  BY <1>1, <1>2, <1>3, <1>4, <1>6, AloneInv DEF Owning

LEMMA FetchedInv == ASSUME SvcInv, NEW r \in Requests, Fetched(r) PROVE SvcInv'
<1>1. UNCHANGED <<jwkVars, load, faulted>>
  BY DEF Fetched
<1>2. CASE pc[r] = "fetched"
  BY <1>1, <1>2, ValidatedInv DEF Fetched
<1>3. CASE pc[r] = "unknown"
  <2>1. /\ End(r, "bad_request") /\ "bad_request" \in Ended
        /\ faulted \in SUBSET Requests /\ ~ (failures = 0 /\ KnownKey(r))
    BY <1>3 DEF Fetched, SvcInv, Data, Ended, Request, Found
  <2> QED  BY <1>1, <2>1, EndInv
<1> QED  BY <1>2, <1>3 DEF Fetched

\* A witness is there: the request gets the mutex, or the last place in the queue.
LEMMA WitnessedInv == ASSUME SvcInv, NEW r \in Requests, Witnessed(r) PROVE SvcInv'
<1>1. pc[r] = "witness" /\ input[PathOf(r)] = r
  BY DEF Witnessed, SvcInv, Request, Files
<1>2. /\ witness' = [witness EXCEPT ![PathOf(r)] = r]
      /\ input' = [input EXCEPT ![PathOf(r)] = None]
      /\ UNCHANGED <<proof, jwkVars, load, faulted>>
  BY <1>1 DEF Witnessed, Removed
<1>3. \/ /\ holder = None /\ pc' = [pc EXCEPT ![r] = "proving"]
         /\ holder' = r /\ UNCHANGED queue
      \/ /\ holder # None /\ pc' = [pc EXCEPT ![r] = "queued"]
         /\ queue' = Append(queue, r) /\ UNCHANGED holder
  BY <1>1 DEF Witnessed
<1>4. {"proving", "queued"} \subseteq Places /\ {"proving", "queued"} \subseteq InFlight
  BY DEF Places, InFlight, Blocking, Waiting
<1>5. /\ Data' /\ pc'[r] \in {"proving", "queued"}
      /\ \A q \in Requests \ {r} : pc'[q] = pc[q]
  BY <1>2, <1>3, <1>4 DEF SvcInv, Data, Places
<1>6. /\ witness'[PathOf(r)] = r
      /\ \A q \in Requests \ {r} :
           /\ input'[PathOf(q)] = input[PathOf(q)] /\ witness'[PathOf(q)] = witness[PathOf(q)]
  BY <1>2, OwnPath DEF SvcInv, Data
<1>7. /\ queue \in Seq(Requests) /\ holder \in Requests \cup {None} /\ None \notin Requests
      /\ holder = None => queue = << >>
      /\ \A q \in Requests : pc[q] \in Owning <=> holder = q
      /\ \A i \in 1 .. Len(queue) : pc[queue[i]] = "queued"
      /\ \A i, j \in 1 .. Len(queue) : i # j => queue[i] # queue[j]
  BY NamesAssumption DEF SvcInv, Mutex, Queue, MutexHandedOn, Owning
<1>8. Mutex'
  <2>1. CASE holder = None /\ pc' = [pc EXCEPT ![r] = "proving"] /\ holder' = r /\ UNCHANGED queue
    <3>1. Queue' /\ holder' # None
      BY <1>7, <2>1 DEF Queue
    <3>2. ASSUME NEW q \in Requests PROVE pc'[q] \in Owning <=> holder' = q
      BY <1>5, <1>7, <2>1 DEF SvcInv, Data, Owning
    <3> QED  BY <2>1, <3>1, <3>2 DEF Mutex, MutexHandedOn, Owning
  <2>2. CASE /\ holder # None /\ pc' = [pc EXCEPT ![r] = "queued"]
             /\ queue' = Append(queue, r) /\ UNCHANGED holder
    <3>1. /\ queue' \in Seq(Requests) /\ Len(queue') = Len(queue) + 1
          /\ Len(queue) \in Nat
          /\ \A i \in 1 .. Len(queue) : queue'[i] = queue[i] /\ queue[i] \in Requests
          /\ queue'[Len(queue) + 1] = r
      BY <1>7, <2>2
    <3>2. pc'[r] = "queued"
      BY <2>2 DEF SvcInv, Data
    <3>3. ASSUME NEW i \in 1 .. Len(queue) PROVE queue'[i] # r /\ pc'[queue'[i]] = "queued"
      BY <1>1, <1>5, <1>7, <3>1
    <3>4. \A i \in 1 .. Len(queue') : i \in 1 .. Len(queue) \/ i = Len(queue) + 1
      BY <3>1
    <3>5. Queue'
      <4>1. \A i \in 1 .. Len(queue') : pc'[queue'[i]] = "queued"
        BY <3>1, <3>2, <3>3, <3>4
      <4>2. ASSUME NEW i \in 1 .. Len(queue'), NEW j \in 1 .. Len(queue'), i # j
            PROVE  queue'[i] # queue'[j]
        BY <1>7, <3>1, <3>3, <3>4, <4>2
      <4> QED  BY <3>1, <4>1, <4>2 DEF Queue
    <3>6. ASSUME NEW q \in Requests PROVE pc'[q] \in Owning <=> holder' = q
      BY <1>1, <1>5, <1>7, <2>2, <3>2 DEF Owning
    <3> QED  BY <1>7, <2>2, <3>5, <3>6 DEF Mutex, MutexHandedOn, Owning
  <2> QED  BY <1>3, <2>1, <2>2
<1>9. ASSUME NEW q \in Requests PROVE Request(q)'
  <2>1. CASE q # r
    <3>1. /\ Request(q) /\ proof'[q] = proof[q]
          /\ UNCHANGED <<failures, serving, load>> /\ faulted \subseteq faulted'
      BY <1>2 DEF SvcInv, jwkVars
    <3> QED  BY <1>5, <1>6, <2>1, <3>1, Framed
  <2>2. CASE q = r
    <3>1. PathOf(r)' = PathOf(r)
      BY DEF PathOf
    <3>2. Files(r)'
      BY <1>4, <1>5, <1>6, <3>1 DEF Files, WithProver
    <3>3. Outcome(r)'
      BY <1>1, <1>2, <1>5 DEF SvcInv, Request, Outcome, Checked
    <3>4. Found(r)'
      BY <1>5 DEF Found
    <3> QED  BY <2>2, <3>2, <3>3, <3>4 DEF Request
  <2> QED  BY <2>1, <2>2
<1> QED  BY <1>2, <1>5, <1>8, <1>9, CacheSame DEF SvcInv

\* The prover runs with the mutex, and returns a proof of the witness of the request,
\* or a bad one.
LEMMA ProveInv ==
  ASSUME SvcInv, NEW r \in Requests, Granted(r) \/ Prove(r) \/ ProveBadly(r)
  PROVE  SvcInv'
<1>1. {"proving", "verify"} \subseteq Places /\ {"proving", "verify"} \subseteq InFlight
  BY DEF Places, InFlight, Blocking
<1>2. PathOf(r)' = PathOf(r) /\ None \notin Requests
  BY NamesAssumption DEF PathOf
<1>3. CASE Granted(r)
  <2>1. /\ pc[r] = "granted" /\ pc' = [pc EXCEPT ![r] = "proving"]
        /\ UNCHANGED <<jwkVars, load, input, witness, proof, holder, queue, faulted>>
    BY <1>3 DEF Granted
  <2>2. Data' /\ pc'[r] = "proving"
    BY <1>1, <2>1 DEF SvcInv, Data, Places
  <2>3. Files(r)'
    BY <1>1, <1>2, <2>1, <2>2 DEF SvcInv, Request, Files, WithProver
  <2>4. Outcome(r)' /\ Found(r)'
    BY <2>1, <2>2 DEF SvcInv, Request, Outcome, Found, Checked
  <2> QED  BY <1>1, <2>1, <2>2, <2>3, <2>4, AloneInv DEF Owning, Request
<1>4. CASE Prove(r) \/ ProveBadly(r)
  <2>1. /\ pc[r] = "proving" /\ pc' = [pc EXCEPT ![r] = "verify"]
        /\ UNCHANGED <<jwkVars, load, input, witness, holder, queue>>
        /\ faulted \subseteq faulted' /\ faulted' \in SUBSET Requests
    BY <1>4 DEF Prove, ProveBadly, Strike, SvcInv, Data
  <2>2. \/ proof' = [proof EXCEPT ![r] = witness[PathOf(r)]]
        \/ proof' = [proof EXCEPT ![r] = Bad] /\ r \in faulted'
    BY <1>4 DEF Prove, ProveBadly, Strike
  <2>3. witness[PathOf(r)] = r
    BY <2>1 DEF SvcInv, Request, Files, WithProver
  <2>4. /\ Data' /\ pc'[r] = "verify" /\ (proof'[r] = r \/ r \in faulted')
        /\ \A q \in Requests \ {r} : proof'[q] = proof[q]
    BY <1>1, <2>1, <2>2, <2>3 DEF SvcInv, Data, Places
  <2>5. Files(r)'
    BY <1>1, <1>2, <2>1, <2>4 DEF Files, WithProver
  <2>6. Outcome(r)' /\ Found(r)'
    BY <2>1, <2>4 DEF SvcInv, Request, Outcome, Found, Checked
  <2> QED  BY <1>1, <2>1, <2>4, <2>5, <2>6, AloneInv DEF Owning, Request
<1> QED  BY <1>3, <1>4

LEMMA VerifyInv == ASSUME SvcInv, NEW r \in Requests, Verify(r) PROVE SvcInv'
<1>1. /\ pc[r] = "verify" /\ UNCHANGED <<jwkVars, load, faulted>>
      /\ faulted \in SUBSET Requests /\ "ok" \in Ended /\ "server_error" \in Ended
  BY DEF Verify, SvcInv, Data, Ended
<1>2. load.input[r].valid /\ (proof[r] = r \/ r \in faulted)
  BY <1>1 DEF SvcInv, Request, Files, Outcome, Checked
<1>3. CASE proof[r] = r
  BY <1>1, <1>2, <1>3, EndInv DEF Verify
<1>4. CASE proof[r] # r
  BY <1>1, <1>2, <1>4, EndInv DEF Verify
<1> QED  BY <1>3, <1>4

LEMMA FailureInv ==
  ASSUME SvcInv, NEW r \in Requests, Failure(r) \/ Cancel(r) PROVE SvcInv'
<1>1. {"server_error", "dropped", "cancelled"} \subseteq Ended /\ faulted \in SUBSET Requests
  BY DEF Ended, SvcInv, Data
<1>2. CASE Failure(r)
  <2>1. PICK how \in {"server_error", "dropped"} : End(r, how)
    BY <1>2 DEF Failure
  <2>2. /\ UNCHANGED <<jwkVars, load>> /\ faulted' = faulted \cup {r}
    BY <1>2 DEF Failure, Strike
  <2> QED  BY <1>1, <2>1, <2>2, EndInv
<1>3. CASE Cancel(r)
  BY <1>1, <1>3, EndInv DEF Cancel
<1> QED  BY <1>2, <1>3

\* A process that takes the place of an aborted one starts from nothing; no request
\* is answered on the way.
LEMMA AbortInv == ASSUME SvcInv, NEW r \in Requests, Abort(r) PROVE SvcInv'
<1>1. /\ pc' = [q \in Requests |-> IF pc[q] \in InFlight THEN "lost" ELSE pc[q]]
      /\ holder' = None /\ queue' = << >>
      /\ cache' = [p \in Providers |-> NotCached]
      /\ populated' = {} /\ serving' = FALSE
      /\ fetch' = [t \in Tasks |-> Off]
      /\ faulted' = faulted \cup {r}
      /\ UNCHANGED <<load, published, failures, input, witness, proof>>
  BY DEF Abort, Strike
<1>2. "lost" \in Places /\ "lost" \notin InFlight /\ None \notin Requests
  BY NamesAssumption DEF Places, Ended, InFlight, Blocking, Waiting
<1>3. IInv'
  <2>1. \A t \in Tasks : fetch'[t] = Off
    BY <1>1
  <2>2. main \in Tasks /\ Providers \subseteq Tasks
    BY DEF Tasks
  <2>3. JwkTypeOK'
    <3>1. fetch' \in [Tasks -> FetchStates]
      BY <1>1, FetchTypes
    <3>2. cache' \in [Providers -> 0 .. MaxVersion \cup {NotCached}]
      BY <1>1
    <3> QED  BY <1>1, <3>1, <3>2 DEF SvcInv, IInv, JwkTypeOK
  <2>4. LoopsOwn' /\ MainAhead' /\ AnswersNewer'
    BY <2>1, <2>2, FetchTypes DEF LoopsOwn, MainAhead, AnswersNewer, Fetching
  <2>5. CachedPublished'
    <3>1. ASSUME NEW p \in Providers PROVE cache'[p] <= published'[p]
      <4>1. published[p] \in 0 .. MaxVersion
        BY DEF SvcInv, IInv, JwkTypeOK
      <4>2. NotCached <= published[p]
        BY <4>1, VersionsAssumption DEF NotCached
      <4> QED  BY <1>1, <4>2
    <3> QED  BY <3>1 DEF CachedPublished
  <2> QED  BY <2>3, <2>4, <2>5 DEF IInv
<1>4. Startup'
  BY <1>1, FetchTypes DEF Startup
<1>5. ASSUME NEW q \in Requests
      PROVE  pc'[q] \notin InFlight /\ (pc'[q] = pc[q] \/ pc'[q] = "lost")
  BY <1>1, <1>2
<1>6. Data'
  BY <1>1, <1>2 DEF SvcInv, Data, Places
<1>7. Mutex'
  BY <1>1, <1>2, <1>5 DEF Mutex, Queue, MutexHandedOn, InFlight, Blocking, Waiting
<1>8. ASSUME NEW q \in Requests PROVE Request(q)'
  <2>1. PathOf(q)' = PathOf(q) /\ Request(q)
    BY DEF PathOf, SvcInv
  <2>2. /\ pc'[q] \notin WithProver /\ pc'[q] \notin {"witness", "verify", "ready"}
        /\ pc'[q] \notin {"fetching", "fetched", "unknown"}
    BY <1>5 DEF WithProver, InFlight, Blocking, Waiting
  <2>3. Files(q)'
    BY <1>1, <1>5, <2>1, <2>2 DEF Request, Files
  <2>4. Outcome(q)'
    BY <1>1, <1>5, <2>1 DEF Request, Outcome, Checked
  <2>5. Found(q)'
    BY <1>1, <1>5, <2>1, <2>2, SameKeys DEF Request, Found
  <2> QED  BY <2>3, <2>4, <2>5 DEF Request
<1> QED  BY <1>3, <1>4, <1>6, <1>7, <1>8 DEF SvcInv

\* What has been cached without a failure stays cached.
LEMMA StartupInv ==
  ASSUME IInv, Startup, JwkNext
  PROVE  Startup' /\ (failures' = 0 => failures = 0) /\ (serving => serving')
<1>1. /\ failures \in Nat /\ fetch \in [Tasks -> FetchStates]
      /\ cache \in [Providers -> 0 .. MaxVersion \cup {NotCached}]
      /\ published \in [Providers -> 0 .. MaxVersion] /\ populated \subseteq Providers
  BY VersionsAssumption DEF IInv, JwkTypeOK
<1>2. ASSUME NEW p \in Providers, Publish(p) \/ Populate(p) \/ WakeUp(p) PROVE
        /\ UNCHANGED <<failures, cache, populated, serving>>
        /\ \A t \in Tasks : fetch'[t] = fetch[t] \/ fetch'[t].at = "sent"
  BY <1>1, <1>2, FetchTypes DEF Publish, Populate, WakeUp, Tasks
<1>3. ASSUME NEW p \in Providers, Publish(p) \/ Populate(p) \/ WakeUp(p)
      PROVE  Startup' /\ UNCHANGED <<failures, serving>>
  BY <1>2, <1>3 DEF Startup
<1>4. ASSUME NEW t \in Tasks, Answer(t) PROVE Startup' /\ UNCHANGED <<failures, serving>>
  <2>1. /\ UNCHANGED <<failures, cache, populated, serving>> /\ fetch[t].provider \in Providers
        /\ fetch' = [fetch EXCEPT ![t] = Got(fetch[t].provider, published[fetch[t].provider])]
    BY <1>1, <1>4, FetchForms DEF Answer
  <2>2. published[fetch[t].provider] \in 0 .. MaxVersion
    BY <1>1, <2>1
  <2>3. published[fetch[t].provider] # Failed
    BY <2>2, VersionsAssumption DEF Failed
  <2>4. fetch'[t].version # Failed
    BY <1>1, <2>1, <2>2, <2>3, FetchTypes
  <2> QED  BY <1>1, <2>1, <2>4 DEF Startup
<1>5. ASSUME NEW t \in Tasks, Fail(t) PROVE Startup' /\ failures' # 0 /\ UNCHANGED serving
  BY <1>1, <1>5 DEF Fail, Startup
<1>6. ASSUME NEW t \in Tasks, fetch[t].at = "got", cache' = Cached(t)
      PROVE  \A p \in Providers : cache[p] # NotCached => cache'[p] # NotCached
  <2> SUFFICES ASSUME NEW p \in Providers, cache[p] # NotCached PROVE cache'[p] # NotCached
    OBVIOUS
  <2>1. cache'[p] >= cache[p] /\ cache[p] \in 0 .. MaxVersion
    BY <1>1, <1>6, CachedForward
  <2> QED  BY <2>1, VersionsAssumption DEF NotCached
<1>7. ASSUME NEW p \in Providers, EndRefresh(p) PROVE Startup' /\ UNCHANGED <<failures, serving>>
  <2>1. /\ fetch[p].at = "got" /\ cache' = Cached(p) /\ p \in Tasks
        /\ UNCHANGED <<failures, populated, serving>>
        /\ fetch' = [fetch EXCEPT ![p] = Asleep]
    BY <1>7 DEF EndRefresh, Tasks
  <2>2. \A t \in Tasks : fetch'[t] = fetch[t] \/ fetch'[t].at = "sleep"
    BY <1>1, <2>1, FetchTypes
  <2> QED  BY <1>1, <1>6, <2>1, <2>2 DEF Startup
<1>8. CASE EndPopulate
  <2> DEFINE p == fetch[main].provider
  <2>1. /\ fetch[main].at = "got" /\ cache' = Cached(main) /\ main \in Tasks
        /\ UNCHANGED <<failures, serving>> /\ populated' = populated \cup {p}
        /\ fetch' = [fetch EXCEPT ![main] = Off, ![p] = Sent(p)]
    BY <1>8 DEF EndPopulate, Tasks
  <2>2. p \in Providers /\ p \in Tasks /\ fetch[main].version \in 0 .. MaxVersion \cup {Failed}
    BY <1>1, <2>1, FetchForms DEF Tasks
  <2>3. \A t \in Tasks :
          fetch'[t] = fetch[t] \/ fetch'[t].at = "off" \/ fetch'[t].at = "sent"
    BY <1>1, <2>1, <2>2, FetchTypes
  <2>4. ASSUME failures = 0 PROVE cache'[p] # NotCached
    <3>1. fetch[main].version # Failed
      BY <2>1, <2>4 DEF Startup
    <3>2. cache'[p] = fetch[main].version
      BY <1>1, <2>1, <2>2, <3>1 DEF Cached
    <3> QED  BY <2>2, <3>1, <3>2, VersionsAssumption DEF NotCached
  <2>5. \A q \in Providers : cache[q] # NotCached => cache'[q] # NotCached
    BY <1>6, <2>1
  <2> HIDE DEF p
  <2>6. Startup'
    BY <1>1, <2>1, <2>2, <2>3, <2>4, <2>5 DEF Startup
  <2> QED  BY <2>1, <2>6
<1>9. CASE Serve
  BY <1>9 DEF Serve, Startup
<1> QED  BY <1>3, <1>4, <1>5, <1>7, <1>8, <1>9 DEF JwkNext, TaskStep, Tasks

\* The steps of main and of the refresh loops are steps of JwkCache.
LEMMA KeyStepsInv == ASSUME SvcInv, KeySteps PROVE SvcInv'
<1>1. JwkNext /\ UNCHANGED svcVars
  <2>1. ASSUME NEW p \in Providers, EndRefresh(p) \/ WakeUp(p) PROVE TaskStep(p) /\ p \in Tasks
    BY <2>1, ProvidersAssumption DEF TaskStep, Tasks
  <2>2. ASSUME EndPopulate \/ Serve \/ \E p \in Providers : Populate(p)
        PROVE  TaskStep(main) /\ main \in Tasks
    BY <2>2 DEF TaskStep, Tasks
  <2> QED  BY <2>1, <2>2 DEF KeySteps, JwkNext
<1>2. IInv' /\ Startup' /\ (failures' = 0 => failures = 0) /\ (serving => serving')
  BY <1>1, NextIInv, StartupInv DEF SvcInv
<1>3. UNCHANGED <<load, pc, input, witness, proof, holder, queue, faulted>>
  BY <1>1 DEF svcVars
<1>4. Mutex' /\ Data'
  BY <1>3 DEF SvcInv, Mutex, MutexHandedOn, Queue, Data
<1>5. ASSUME NEW q \in Requests PROVE Request(q)'
  BY <1>2, <1>3, Framed DEF SvcInv
<1> QED  BY <1>2, <1>4, <1>5 DEF SvcInv

LEMMA SvcStutter == ASSUME SvcInv, UNCHANGED vars PROVE SvcInv'
<1>1. UNCHANGED jwkVars /\ UNCHANGED <<load, pc, input, witness, proof, holder, queue, faulted>>
  BY DEF vars, svcVars
<1>2. Mutex' /\ Data'
  BY <1>1 DEF SvcInv, Mutex, MutexHandedOn, Queue, Data
<1>3. ASSUME NEW q \in Requests PROVE Request(q)'
  BY <1>1, Framed DEF SvcInv, jwkVars
<1> QED  BY <1>1, <1>2, <1>3, CacheSame DEF SvcInv

LEMMA SvcInit == Init => SvcInv
<1> SUFFICES ASSUME Init PROVE SvcInv
  OBVIOUS
<1>1. IInv
  BY InitIInv DEF Init
<1>2. Startup
  BY FetchTypes DEF Init, JwkInit, Startup
<1>3. /\ \A r \in Requests : pc[r] = "idle"
      /\ \A r \in Requests : input[PathOf(r)] = None /\ witness[PathOf(r)] = None
      /\ holder = None /\ queue = << >> /\ None \notin Requests
  BY OwnPath, NamesAssumption DEF Init
<1>4. Mutex
  BY <1>3 DEF Mutex, MutexHandedOn, Queue
<1>5. Data
  BY DEF Init, Data
<1>6. \A r \in Requests : Request(r)
  BY <1>3 DEF Request, Files, Outcome, Found, WithProver, Checked
<1> QED  BY <1>1, <1>2, <1>4, <1>5, <1>6 DEF SvcInv

LEMMA SvcNext == ASSUME SvcInv, [Next]_vars PROVE SvcInv'
<1>1. CASE KeySteps
  BY <1>1, KeyStepsInv
<1>2. ASSUME NEW r \in Requests, Progress(r) PROVE SvcInv'
  BY <1>2, HandleInv, FetchedInv, WitnessedInv, ProveInv, VerifyInv DEF Progress
<1>3. ASSUME NEW r \in Requests, Surroundings(r) PROVE SvcInv'
  BY <1>3, ArriveInv, FederatedInv, FailureInv, ProveInv, AbortInv DEF Surroundings
<1>4. CASE UNCHANGED vars
  BY <1>4, SvcStutter
<1> QED  BY <1>1, <1>2, <1>3, <1>4 DEF Next

LEMMA SvcInvariance == Spec => []SvcInv
<1>1. Init => SvcInv
  BY SvcInit
<1>2. SvcInv /\ [Next]_vars => SvcInv'
  BY SvcNext
<1> QED  BY <1>1, <1>2, PTL DEF Spec

--------------------------------------------------------------------------------
\* The type invariant of the service and of the cache below it.
THEOREM ServiceTypeCorrect == Spec => []TypeOK
<1>1. SvcInv => TypeOK
  BY DEF SvcInv, IInv, Mutex, Queue, Data, TypeOK
<1> QED  BY <1>1, SvcInvariance, PTL

\* The mutex of the prover has an owner as long as a request queues for it, and its
\* owner is the one request that uses the prover, whoever is dropped or fails.
THEOREM MutexCorrect == Spec => []MutexHandedOn
<1>1. SvcInv => MutexHandedOn
  BY DEF SvcInv, Mutex
<1> QED  BY <1>1, SvcInvariance, PTL

\* Only a verified proof of the request's own witness, for a valid JWT, is signed.
THEOREM SignedCorrect == Spec => []SignedOwn
<1>1. SvcInv => SignedOwn
  BY DEF SvcInv, Request, Outcome, Checked, SignedOwn
<1> QED  BY <1>1, SvcInvariance, PTL

\* A request answered with 500, or not at all, was struck itself, or does not fit the
\* circuit: no request harms another.
THEOREM FaultsLocal == Spec => []FaultsStayLocal
<1>1. SvcInv => FaultsStayLocal
  BY DEF SvcInv, Request, Outcome, FaultsStayLocal
<1> QED  BY <1>1, SvcInvariance, PTL

\* No honest request is refused unless the fetch of a key set has failed.
THEOREM HonestCorrect == Spec => []HonestAccepted
<1>1. ASSUME SvcInv PROVE HonestAccepted
  <2> SUFFICES ASSUME NEW r \in Requests, pc[r] = "bad_request", load.input[r].valid, KnownKey(r)
               PROVE  failures > 0
    BY DEF HonestAccepted
  <2>1. failures # 0
    BY <1>1 DEF SvcInv, Request, Found
  <2>2. failures \in Nat
    BY <1>1, VersionsAssumption DEF SvcInv, IInv, JwkTypeOK
  <2> QED  BY <2>1, <2>2
<1> QED  BY <1>1, SvcInvariance, PTL

\* The files of a request are gone when it is over, unless its process was aborted.
THEOREM FilesRemoved == Spec => []NoLeftovers
<1>1. SvcInv => NoLeftovers
  BY DEF SvcInv, Request, Files, NoLeftovers
<1> QED  BY <1>1, SvcInvariance, PTL
================================================================================
