----------------------------- MODULE ProverService ------------------------------
(***************************************************************************)
(* The request path of the prover service: prove_handler (handlers.rs) and *)
(* what it calls, on top of the key cache it reads.  Handlers are futures, *)
(* polled by the tokio workers.  A handler gives its worker back at an     *)
(* await: while a federated key is fetched and while it queues for the     *)
(* prover's mutex.  It keeps its worker through everything that blocks: the*)
(* witness generator, the proof in C++, its verification.                  *)
(*                                                                         *)
(* The process may abort (an exception of the C++ prover cannot cross into *)
(* Rust) and is then restarted, its temporary files still on disk.         *)
(***************************************************************************)
EXTENDS JwkCache, Sequences, FiniteSets

CONSTANTS
  Requests,     \* one POST /v0/prove each
  Loads,        \* to check: the number of workers, a bound on the requests
                \* struck by a fault of the environment, and the input of each
                \* request: iss, kid, valid (the checks of the JWT other than
                \* the lookup of its key), derivable (the circuit's inputs)
  KeysAt,       \* the kids in each key set of each issuer
  Federated,    \* the issuers that AUTH_0_REGEX or COGNITO_REGEX matches
  EnableFederated   \* config.enable_federated_jwks

ASSUME ServiceAssumption ==
  \A l \in Loads : l.workers \in Nat \ {0} /\ l.maxFaults \in Nat

None == "none"
Bad  == "bad"      \* a proof that verifies for no statement
Empty == "empty"   \* what a file holds when it has just been created

ASSUME NamesAssumption == Requests \cap {None, Bad, Empty} = {}

VARIABLES
  load,      \* one of Loads
  pc,        \* where the handler of a request is, or how the request ended
  input,     \* whose circuit inputs each input file holds
  witness,   \* whose witness each witness file holds
  proof,     \* what the C++ prover returned to each request
  holder,    \* the owner of state.full_prover
  queue,     \* the requests waiting for it
  faulted    \* the requests struck by a fault

svcVars == <<load, pc, input, witness, proof, holder, queue, faulted>>
vars    == <<jwkVars, svcVars>>

\* NamedTempFile::new chooses a fresh path.
\* Mutant of PathOf: a fixed one, as of formatted_input.json.
SharedPath(r) == "formatted_input.json"

PathOf(r) == <<"tmp", r>>
Paths     == {PathOf(r) : r \in Requests}

Blocking == {"witness", "proving", "verify"}
Waiting  == {"fetching", "fetched", "unknown", "queued", "granted"}
InFlight == Blocking \cup Waiting \cup {"ready"}
Ended    == {"ok", "bad_request", "server_error", "dropped", "cancelled", "lost"}

\* The requests that keep a worker.
\* Mutant of OnWorker: the fetch of a federated key blocks its thread.
FetchBlocks == {r \in Requests : pc[r] \in Blocking \cup {"fetching"}}
OnWorker    == {r \in Requests : pc[r] \in Blocking}

WorkerFree == Cardinality(OnWorker) < load.workers

Init ==
  /\ JwkInit
  /\ load \in Loads
  /\ pc = [r \in Requests |-> "idle"]
  /\ input = [f \in Paths |-> None] /\ witness = [f \in Paths |-> None]
  /\ proof = [r \in Requests |-> None]
  /\ holder = None /\ queue = <<>> /\ faulted = {}

Strike(r) ==
  /\ Cardinality(faulted \cup {r}) <= load.maxFaults
  /\ faulted' = faulted \cup {r}

\* A future that is dropped while it waits leaves the queue, wherever it is in it.
Without(q, r) ==
  IF \E i \in 1 .. Len(q) : q[i] = r
  THEN LET k == CHOOSE i \in 1 .. Len(q) : q[i] = r
       IN  [i \in 1 .. Len(q) - 1 |-> q[IF i < k THEN i ELSE i + 1]]
  ELSE q

\* A handler that ends, or whose future is dropped, lets go of the mutex: the
\* first request in the queue gets it, and runs when a worker polls it.
\* Mutant of LetGo: a handler that was granted the mutex, and has not run since,
\* takes the wake-up of the next one with it.
GrantLost(r, how) ==
  IF holder # r \/ queue = <<>> \/ pc[r] = "granted"
  THEN /\ pc' = [pc EXCEPT ![r] = how]
       /\ holder' = IF holder = r THEN None ELSE holder
       /\ queue' = Without(queue, r)
  ELSE /\ pc' = [pc EXCEPT ![r] = how, ![Head(queue)] = "granted"]
       /\ holder' = Head(queue)
       /\ queue' = Tail(queue)

LetGo(r, how) ==
  IF holder # r \/ queue = <<>>
  THEN /\ pc' = [pc EXCEPT ![r] = how]
       /\ holder' = IF holder = r THEN None ELSE holder
       /\ queue' = Without(queue, r)
  ELSE /\ pc' = [pc EXCEPT ![r] = how, ![Head(queue)] = "granted"]
       /\ holder' = Head(queue)
       /\ queue' = Tail(queue)

\* The files of r are removed when their NamedTempFiles are dropped.
\* Mutant of Removed: the witness file is kept for a retry.
WitnessKept(files, r) ==
  IF files = witness THEN files ELSE [files EXCEPT ![PathOf(r)] = None]

Removed(files, r) == [files EXCEPT ![PathOf(r)] = None]

\* The handler of r returns, panics or is dropped.
End(r, how) ==
  /\ LetGo(r, how)
  /\ input' = Removed(input, r)
  /\ witness' = Removed(witness, r)
  /\ UNCHANGED proof

Arrive(r) ==
  /\ serving /\ pc[r] = "idle"
  /\ pc' = [pc EXCEPT ![r] = "ready"]
  /\ UNCHANGED <<jwkVars, load, input, witness, proof, holder, queue, faulted>>

\* The rest of preprocess_and_validate_request, once the key is there, then
\* derive_circuit_input_signals, and witness_gen until it starts the command.
Validated(r) ==
  IF ~ load.input[r].valid THEN End(r, "bad_request")
  ELSE IF ~ load.input[r].derivable THEN End(r, "server_error")
  ELSE /\ pc' = [pc EXCEPT ![r] = "witness"]
       /\ input' = [input EXCEPT ![PathOf(r)] = r]
       /\ witness' = [witness EXCEPT ![PathOf(r)] = Empty]
       /\ UNCHANGED <<proof, holder, queue>>

\* get_jwk: the cached key, or else, where enabled, the key is fetched.
Cacheable(r) ==
  /\ load.input[r].iss \in Providers
  /\ cache[load.input[r].iss] # NotCached
  /\ load.input[r].kid \in KeysAt[load.input[r].iss][cache[load.input[r].iss]]

Handle(r) ==
  /\ pc[r] = "ready" /\ WorkerFree
  /\ IF Cacheable(r) THEN Validated(r)
     ELSE IF EnableFederated /\ load.input[r].iss \in Federated
     THEN /\ pc' = [pc EXCEPT ![r] = "fetching"]
          /\ UNCHANGED <<input, witness, proof, holder, queue>>
     ELSE End(r, "bad_request")
  /\ UNCHANGED <<jwkVars, load, faulted>>

\* The endpoint of the issuer answers get_federated_jwk, or fails it.
FederatedAnswer(r) ==
  /\ pc[r] = "fetching"
  /\ LET iss == load.input[r].iss
         now == IF iss \in Providers THEN published[iss] ELSE 0 IN
     pc' = [pc EXCEPT ![r] = IF load.input[r].kid \in KeysAt[iss][now]
                             THEN "fetched" ELSE "unknown"]
  /\ UNCHANGED <<jwkVars, load, input, witness, proof, holder, queue, faulted>>

FederatedFail(r) ==
  /\ pc[r] = "fetching" /\ Strike(r)
  /\ pc' = [pc EXCEPT ![r] = "unknown"]
  /\ UNCHANGED <<jwkVars, load, input, witness, proof, holder, queue>>

Fetched(r) ==
  /\ pc[r] \in {"fetched", "unknown"} /\ WorkerFree
  /\ IF pc[r] = "fetched" THEN Validated(r) ELSE End(r, "bad_request")
  /\ UNCHANGED <<jwkVars, load, faulted>>

\* witness_gen returns, without its input file, and prove asks for the prover.
\* The command fails on an input that is gone.
\* Mutant of Witnessed: the command is started and not waited for.
Spawned(r) ==
  /\ pc[r] = "witness"
  /\ input' = Removed(input, r)
  /\ IF holder = None
     THEN /\ pc' = [pc EXCEPT ![r] = "proving"]
          /\ holder' = r
          /\ UNCHANGED queue
     ELSE /\ pc' = [pc EXCEPT ![r] = "queued"]
          /\ queue' = Append(queue, r)
          /\ UNCHANGED holder
  /\ UNCHANGED <<jwkVars, load, faulted, witness, proof>>

Witnessed(r) ==
  /\ pc[r] = "witness"
  /\ IF input[PathOf(r)] \notin Requests THEN End(r, "server_error")
     ELSE /\ witness' = [witness EXCEPT ![PathOf(r)] = input[PathOf(r)]]
          /\ input' = Removed(input, r)
          /\ IF holder = None
             THEN /\ pc' = [pc EXCEPT ![r] = "proving"]
                  /\ holder' = r
                  /\ UNCHANGED queue
             ELSE /\ pc' = [pc EXCEPT ![r] = "queued"]
                  /\ queue' = Append(queue, r)
                  /\ UNCHANGED holder
          /\ UNCHANGED proof
  /\ UNCHANGED <<jwkVars, load, faulted>>

Granted(r) ==
  /\ pc[r] = "granted" /\ WorkerFree
  /\ pc' = [pc EXCEPT ![r] = "proving"]
  /\ UNCHANGED <<jwkVars, load, input, witness, proof, holder, queue, faulted>>

\* FullProver::prove returns the proof of the witness it read.
Prove(r) ==
  /\ pc[r] = "proving"
  /\ proof' = [proof EXCEPT ![r] = witness[PathOf(r)]]
  /\ pc' = [pc EXCEPT ![r] = "verify"]
  /\ UNCHANGED <<jwkVars, load, input, witness, holder, queue, faulted>>

\* ... or a proof that does not verify.
ProveBadly(r) ==
  /\ pc[r] = "proving" /\ Strike(r)
  /\ proof' = [proof EXCEPT ![r] = Bad]
  /\ pc' = [pc EXCEPT ![r] = "verify"]
  /\ UNCHANGED <<jwkVars, load, input, witness, holder, queue>>

\* encode_proof and verify_proof against the public inputs hash of r, then the
\* signature and the response.
\* Mutant of Verify: the result of the verification is ignored.
NotVerified(r) ==
  /\ pc[r] = "verify"
  /\ End(r, "ok")
  /\ UNCHANGED <<jwkVars, load, faulted>>

Verify(r) ==
  /\ pc[r] = "verify"
  /\ End(r, IF proof[r] = r THEN "ok" ELSE "server_error")
  /\ UNCHANGED <<jwkVars, load, faulted>>

\* The witness command fails, or the prover refuses the witness; or a file the
\* handler reads is bad and it panics (prepared_vk).
Failure(r) ==
  /\ Strike(r)
  /\ \/ pc[r] \in {"witness", "proving"} /\ End(r, "server_error")
     \/ pc[r] = "verify" /\ End(r, "dropped")
  /\ UNCHANGED <<jwkVars, load>>

\* The client has gone: hyper drops the handler, which is waiting.
Cancel(r) ==
  /\ pc[r] \in Waiting
  /\ End(r, "cancelled")
  /\ UNCHANGED <<jwkVars, load, faulted>>

\* An exception of FullProver::prove aborts the process.  The one that replaces
\* it has an empty cache, and the files of its predecessor on its disk.
Abort(r) ==
  /\ pc[r] = "proving" /\ Strike(r)
  /\ pc' = [q \in Requests |-> IF pc[q] \in InFlight THEN "lost" ELSE pc[q]]
  /\ holder' = None /\ queue' = <<>>
  /\ cache' = [p \in Providers |-> NotCached]
  /\ populated' = {} /\ serving' = FALSE
  /\ fetch' = [t \in Tasks |-> Off]
  /\ UNCHANGED <<load, published, failures, input, witness, proof>>

\* Main runs on a thread of its own, the refresh loops on the workers.
KeySteps ==
  /\ \/ \E p \in Providers : Publish(p) \/ Populate(p)
     \/ \E t \in Tasks : Answer(t) \/ Fail(t)
     \/ EndPopulate \/ Serve
     \/ WorkerFree /\ \E p \in Providers : EndRefresh(p) \/ WakeUp(p)
  /\ UNCHANGED svcVars

\* What the handler of r does by itself.
Progress(r) ==
  Handle(r) \/ Fetched(r) \/ Witnessed(r) \/ Granted(r) \/ Prove(r) \/ Verify(r)

Surroundings(r) ==
  \/ Arrive(r) \/ FederatedAnswer(r) \/ FederatedFail(r) \/ Cancel(r)
  \/ ProveBadly(r) \/ Failure(r) \/ Abort(r)

Next == KeySteps \/ \E r \in Requests : Progress(r) \/ Surroundings(r)

Spec == Init /\ [][Next]_vars

\* Workers poll what is ready, and what runs on them terminates.
FairSpec == Spec /\ \A r \in Requests : WF_vars(Progress(r))

--------------------------------------------------------------------------------
\* Type invariant.
TypeOK ==
  /\ JwkTypeOK
  /\ load \in Loads
  /\ pc \in [Requests -> InFlight \cup Ended \cup {"idle"}]
  /\ input \in [Paths -> Requests \cup {None}]
  /\ witness \in [Paths -> Requests \cup {None, Empty}]
  /\ proof \in [Requests -> Requests \cup {None, Bad}]
  /\ holder \in Requests \cup {None}
  /\ queue \in Seq(Requests)
  /\ faulted \in SUBSET Requests

\* The mutex is never idle while a request queues for it, whoever was dropped
\* or failed on the way (prove awaits full_prover.lock()), and its owner is
\* the one request that is in the prover or about to run there.
MutexHandedOn ==
  /\ holder = None => queue = <<>>
  /\ \A r \in Requests :
       pc[r] \in {"granted", "proving", "verify"} <=> holder = r

\* What the service signs is a proof it has verified, made of the witness of
\* that request, for a valid JWT (prove_handler signs last).
SignedOwn ==
  \A r \in Requests : pc[r] = "ok" => proof[r] = r /\ load.input[r].valid

\* A request that nothing of the environment struck is not answered with 500,
\* nor left without an answer, whatever happens to the requests beside it and
\* whatever files they use; unless the process went down.
FaultsStayLocal ==
  \A r \in Requests :
    pc[r] \in {"server_error", "dropped"} => r \in faulted \/ ~ load.input[r].derivable

\* A key in every key set of its issuer is found by every request, at once after
\* a start or a restart too, if the keys have always been fetched successfully.
KnownKey(r) ==
  /\ load.input[r].iss \in Providers
  /\ \A v \in 0 .. MaxVersion : load.input[r].kid \in KeysAt[load.input[r].iss][v]

HonestAccepted ==
  \A r \in Requests :
    pc[r] = "bad_request" /\ load.input[r].valid /\ KnownKey(r) => failures > 0

\* The inputs and witnesses of users do not stay on disk after their request,
\* except those of a process that was aborted.
NoLeftovers ==
  \A r \in Requests :
    input[PathOf(r)] # None \/ witness[PathOf(r)] # None
      => pc[r] \in InFlight \cup {"lost"}

\* Requests whose keys are cached are answered, although the fetches of federated
\* keys and of the refresh loops may hang for ever.
LocalAnswered ==
  \A r \in Requests :
    pc[r] = "ready" /\ load.input[r].iss \notin Federated ~> pc[r] \in Ended
================================================================================
