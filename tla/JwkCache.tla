-------------------------------- MODULE JwkCache --------------------------------
(***************************************************************************)
(* The JWK cache of the prover service (jwk_fetching.rs) and the startup   *)
(* of the service around it (main.rs).  main populates the cache for one   *)
(* configured provider after the other, starting that provider's refresh   *)
(* loop each time, and only then binds the port.  A fetch is a request     *)
(* that the provider answers at some moment with the key set it publishes  *)
(* then, or with an error; the answer reaches the cache later.  Nothing in *)
(* the code bounds the time a fetch takes.                                 *)
(*                                                                         *)
(* A provider's key sets are numbered in the order it publishes them, and  *)
(* the cache holds for each provider the number of a key set, or NotCached.*)
(***************************************************************************)
EXTENDS Integers

CONSTANTS
  Providers,      \* config.oidc_providers
  MaxVersion,     \* bound: how often a provider may publish a new key set
  MaxFailures     \* bound: how many fetches fail

ASSUME VersionsAssumption == MaxVersion \in Nat /\ MaxFailures \in Nat

VARIABLES
  published,   \* the number of the key set each provider publishes now
  failures,    \* fetches that have failed
  cache,       \* DECODING_KEY_CACHE
  populated,   \* the providers main has finished with
  serving,     \* the port is bound
  fetch        \* the fetch of each task: of main, and of each refresh loop

jwkVars == <<published, failures, cache, populated, serving, fetch>>

NotCached == -1
Failed    == -2

main  == "main"
Tasks == Providers \cup {main}

ASSUME ProvidersAssumption == main \notin Providers

\* A task has no fetch (off), sleeps before the next one, waits for its answer
\* (sent), or has the answer, a version or Failed, in its hands (got).
Off         == [at |-> "off"]
Asleep      == [at |-> "sleep"]
Sent(p)     == [at |-> "sent", provider |-> p]
Got(p, ver) == [at |-> "got", provider |-> p, version |-> ver]

JwkInit ==
  /\ published = [p \in Providers |-> 0]
  /\ failures = 0
  /\ cache = [p \in Providers |-> NotCached]
  /\ populated = {}
  /\ serving = FALSE
  /\ fetch = [t \in Tasks |-> Off]

\* The provider rotates its keys.
Publish(p) ==
  /\ published[p] < MaxVersion
  /\ published' = [published EXCEPT ![p] = @ + 1]
  /\ UNCHANGED <<failures, cache, populated, serving, fetch>>

\* init_jwk_fetching: populate_jwk_cache(p).await, for one provider after the
\* other, in whatever order the configuration lists them.
\* Mutant of Populate: the refresh loop is started without awaiting it.
PopulateNotAwaited(p) ==
  /\ ~ serving /\ fetch[main] = Off /\ p \notin populated
  /\ fetch' = [fetch EXCEPT ![main] = Sent(p), ![p] = Sent(p)]
  /\ UNCHANGED <<published, failures, cache, populated, serving>>

Populate(p) ==
  /\ ~ serving /\ fetch[main] = Off /\ p \notin populated
  /\ fetch' = [fetch EXCEPT ![main] = Sent(p)]
  /\ UNCHANGED <<published, failures, cache, populated, serving>>

\* The endpoint of the provider answers a task with the current key set.
Answer(t) ==
  /\ fetch[t].at = "sent"
  /\ fetch' = [fetch EXCEPT ![t] = Got(@.provider, published[@.provider])]
  /\ UNCHANGED <<published, failures, cache, populated, serving>>

\* Connection errors, and answers that are no JSON object with an array "keys".
Fail(t) ==
  /\ fetch[t].at = "sent"
  /\ failures < MaxFailures
  /\ failures' = failures + 1
  /\ fetch' = [fetch EXCEPT ![t] = Got(@.provider, Failed)]
  /\ UNCHANGED <<published, cache, populated, serving>>

\* fetch_and_cache_jwk: an answer replaces the whole entry, an error is logged
\* and leaves what was cached.
\* Mutant of Cached: an error is cached.
ErrorCached(t) == [cache EXCEPT ![fetch[t].provider] = fetch[t].version]

Cached(t) ==
  IF fetch[t].version = Failed THEN cache
  ELSE [cache EXCEPT ![fetch[t].provider] = fetch[t].version]

\* The end of populate_jwk_cache(p): the refresh loop of p starts, with a fetch.
\* Mutant of EndPopulate: main awaits the loop it starts.
LoopAwaited ==
  /\ fetch[main].at = "got"
  /\ cache' = Cached(main)
  /\ fetch' = [fetch EXCEPT ![main] = Asleep,
                              ![fetch[main].provider] = Sent(fetch[main].provider)]
  /\ UNCHANGED <<published, failures, populated, serving>>

EndPopulate ==
  /\ fetch[main].at = "got"
  /\ cache' = Cached(main)
  /\ LET p == fetch[main].provider IN
       /\ populated' = populated \cup {p}
       /\ fetch' = [fetch EXCEPT ![main] = Off, ![p] = Sent(p)]
  /\ UNCHANGED <<published, failures, serving>>

\* The end of an iteration of start_jwk_refresh_loop, and the end of its sleep.
\* Mutant of EndRefresh: the loop ends at the first error.
StopOnError(p) ==
  /\ fetch[p].at = "got"
  /\ cache' = Cached(p)
  /\ fetch' = [fetch EXCEPT ![p] = IF @.version = Failed THEN Off ELSE Asleep]
  /\ UNCHANGED <<published, failures, populated, serving>>

EndRefresh(p) ==
  /\ fetch[p].at = "got"
  /\ cache' = Cached(p)
  /\ fetch' = [fetch EXCEPT ![p] = Asleep]
  /\ UNCHANGED <<published, failures, populated, serving>>

WakeUp(p) ==
  /\ fetch[p].at = "sleep"
  /\ fetch' = [fetch EXCEPT ![p] = Sent(p)]
  /\ UNCHANGED <<published, failures, cache, populated, serving>>

\* main binds the port once init_jwk_fetching has returned.
\* Mutant of Serve: it does not wait for init_jwk_fetching.
ServeAtOnce ==
  /\ ~ serving
  /\ serving' = TRUE
  /\ UNCHANGED <<published, failures, cache, populated, fetch>>

Serve ==
  /\ ~ serving /\ populated = Providers
  /\ serving' = TRUE
  /\ UNCHANGED <<published, failures, cache, populated, fetch>>

TaskStep(t) ==
  IF t = main THEN EndPopulate \/ Serve \/ \E p \in Providers : Populate(p)
  ELSE EndRefresh(t) \/ WakeUp(t)

JwkNext ==
  \/ \E p \in Providers : Publish(p)
  \/ \E t \in Tasks : Answer(t) \/ Fail(t) \/ TaskStep(t)

JwkSpec == JwkInit /\ [][JwkNext]_jwkVars

\* The runtime polls its tasks and fires their timers.
TasksRun == \A t \in Tasks : WF_jwkVars(TaskStep(t))

\* Tasks of the providers in S get their answers.
Answered(S) ==
  \A t \in Tasks :
    WF_jwkVars(/\ fetch[t].at = "sent" /\ fetch[t].provider \in S
               /\ Answer(t) \/ Fail(t))

--------------------------------------------------------------------------------
FetchStates ==
  {Off, Asleep} \cup {Sent(p) : p \in Providers}
    \cup {Got(p, v) : p \in Providers, v \in 0 .. MaxVersion \cup {Failed}}

\* Type invariant.
JwkTypeOK ==
  /\ published \in [Providers -> 0 .. MaxVersion]
  /\ failures \in 0 .. MaxFailures
  /\ cache \in [Providers -> 0 .. MaxVersion \cup {NotCached}]
  /\ populated \in SUBSET Providers
  /\ serving \in BOOLEAN
  /\ fetch \in [Tasks -> FetchStates]

\* The cache never goes back to an older key set, nor loses its key set to an
\* error: populate_jwk_cache is awaited before the loop of that provider
\* starts, so its answers arrive in the order they were asked for.
NeverOlder ==
  [][\A p \in Providers : cache'[p] >= cache[p]]_jwkVars

\* "Do initial jwk cache population non-async, so that we don't handle requests
\* before this is populated" (jwk_fetching.rs:135): requests are handled only
\* when the keys of every provider are cached.
ServingPopulated ==
  serving => \A p \in Providers : cache[p] # NotCached

\* Once main is done with provider p, every key set p publishes is cached in the
\* end, or superseded in the cache by a later one, though fetches of p may fail
\* and the endpoints of other providers may never answer.
Refreshed(p) ==
  \A v \in 0 .. MaxVersion :
    (p \in populated /\ published[p] >= v) ~> cache[p] >= v

\* The service starts if no fetch hangs for ever, be the answers errors: none of the
\* loops that main starts on the way keeps it (start_jwk_refresh_loop only spawns).
Starts == (\A t \in Tasks : []<>(fetch[t].at # "sent")) => <>serving
================================================================================
