------------------------------ MODULE FullProver -------------------------------
(***************************************************************************)
(* The library around the Groth16 prover: lib.rs, fullprover.cpp and       *)
(* fileloader.hpp.  The constructor maps the key file and keeps it; prove  *)
(* maps the witness file, runs Prover::prove (Groth16Prove) on pointers    *)
(* into the two mappings, and returns a copy of the proof, which Rust reads*)
(* in place.                                                               *)
(*                                                                         *)
(* held is the set of what has been acquired and not released, with its    *)
(* owner: an exception releases what belongs to an object whose constructor*)
(* has ended, and nothing else.                                            *)
(***************************************************************************)
EXTENDS Groth16Prove, BinFile

CONSTANTS
  Keys,          \* the files the prover may be made from
  WitnessFiles,  \* the files it may be asked to prove, with their witnesses
  MaxRequests    \* a bound on the requests; MaxDeferred is one for each of them

\* The version and the lengths of the primes are 32-bit integers of the file.
ASSUME KeysAssumption == \A f \in Keys : {f.version, f.n8q, f.n8r} \subseteq Nat

\* The witness generator is asked for witnesses that satisfy the circuit.  Of a file
\* that is cut off, the data are those it would have had.
ASSUME FilesAssumption == Witnesses # {} /\ \A f \in WitnessFiles : f.data \in Witnesses

VARIABLES
  key, file,
  mode,          \* where the constructor or the request is
  held,
  state,         \* FullProver::state
  response, borrowed,  \* the answer, and the string it points to, as Rust sees it
  strings, requests    \* the strings allocated for proofs, and how many were asked for

own  == <<key, file, mode, held, state, response, borrowed, strings, requests>>
all  == <<vars, own>>

\* The files, as loaded: one has a descriptor until a FileLoader owns it.
Fd(x)     == <<"fd", x>>
Loader(x) == <<"FileLoader", x>>
Header(x) == <<"Header", x>>
altBbn128r == <<"mpz_t">>
prover == <<"Prover">>

FullInit ==
  /\ Init /\ wtns = CHOOSE w \in Witnesses : TRUE     \* not read yet
  /\ key \in Keys /\ file = <<>>
  /\ mode = <<"new">>
  /\ held = {} /\ state = "none"
  /\ response = "none" /\ borrowed = 0 /\ strings = {} /\ requests = 0

Enter(label) == mode' = label
Keep == UNCHANGED <<key, file, state, response, borrowed, strings, requests>>
Groth16Idle == UNCHANGED vars

\* An exception of class e, thrown while h is held.  The constructor clears its
\* integer, which no destructor does then; FullProver catches two classes.  What
\* prove throws is not caught.
\* Mutant of Caught: the integer stays.
CaughtAsIs(h) == {y \in h : y = altBbn128r \/ y = Fd("zkey")}
Caught(h) == {y \in h : y = Fd("zkey")}

Raise(x, e, h) ==
  IF x = "zkey" /\ e \in {"invalid_argument", "system_error"}
  THEN /\ held' = Caught(h) /\ Enter(<<"failed">>)
       /\ state' = IF e = "invalid_argument" THEN "UNSUPPORTED_ZKEY_CURVE"
                   ELSE "ZKEY_FILE_LOAD_ERROR"
       /\ UNCHANGED <<key, file, response, borrowed, strings, requests>>
  ELSE held' = h /\ Enter(<<"terminated">>) /\ Keep

Fault == faults < MaxFaults /\ faults' = faults + 1
         /\ UNCHANGED <<wtns, pc, task, msm, buf, r, s, proof, deferred>>

--------------------------------------------------------------------------------
\* FullProverImpl::FullProverImpl.
New1 == /\ mode = <<"new">>
        /\ held' = {altBbn128r} /\ Enter(<<"open", "zkey">>)
        /\ Keep /\ Groth16Idle

The(x) == IF x = "zkey" THEN key ELSE file

\* FileLoader: open; then fstat and mmap, which close the file when they fail.  A
\* file of no size cannot be mapped.
Open(x) ==
  /\ mode = <<"open", x>>
  /\ IF The(x).exists THEN held' = held \cup {Fd(x)} /\ Enter(<<"map", x>>) /\ Keep
     ELSE Raise(x, "system_error", held)
  /\ Groth16Idle

Map(x) ==
  /\ mode = <<"map", x>>
  /\ \/ /\ The(x).size > 0
        /\ held' = (held \ {Fd(x)}) \cup {Loader(x)} /\ Enter(<<"parse", x>>)
        /\ Keep /\ Groth16Idle
     \/ /\ IF The(x).size = 0 THEN Groth16Idle ELSE Fault
        /\ Raise(x, "system_error", held \ {Fd(x)})

Parse(x) ==
  /\ mode = <<"parse", x>>
  /\ LET e == IF x = "zkey" THEN BinFile(key, "zkey", 1) ELSE BinFile(file, "wtns", 2) IN
     IF e = "ok" THEN Enter(<<"header", x>>) /\ UNCHANGED held /\ Keep
     ELSE Raise(x, e, held)
  /\ Groth16Idle

ReadHeader(x) ==
  /\ mode = <<"header", x>>
  /\ LET e == IF x = "zkey" THEN ZKeyHeader(key) ELSE WtnsHeader(file) IN
     IF e = "ok" THEN held' = held \cup {Header(x)} /\ Enter(<<"curve", x>>) /\ Keep
     ELSE Raise(x, e, held)
  /\ Groth16Idle

\* The prime of the key, the sections, makeProver (which makes a table of roots).
MakeProver ==
  /\ mode = <<"curve", "zkey">>
  /\ LET bad == \E id \in 4 .. 9 : ~has(key, id) IN
     \/ key.curve # "bn128" /\ Raise("zkey", "invalid_argument", held) /\ Groth16Idle
     \/ key.curve = "bn128" /\ bad /\ Raise("zkey", "range_error", held) /\ Groth16Idle
     \/ key.curve = "bn128" /\ ~bad /\ Raise("zkey", "bad_alloc", held) /\ Fault
     \/ /\ key.curve = "bn128" /\ ~bad
        /\ held' = held \cup {prover} /\ Enter(<<"ready">>) /\ state' = "OK"
        /\ UNCHANGED <<key, file, response, borrowed, strings, requests>> /\ Groth16Idle

--------------------------------------------------------------------------------
\* FullProver::prove.  lib.rs hands out only a prover whose state is OK, and its
\* caller keeps it under a mutex: one request at a time.
Ask(f) ==
  /\ mode = <<"ready">> /\ borrowed = 0 /\ requests < MaxRequests
  /\ requests' = requests + 1 /\ file' = f /\ Enter(<<"open", "wtns">>)
  /\ UNCHANGED <<key, held, state, response, borrowed, strings>> /\ Groth16Idle

\* The return from prove: its objects are destroyed, the file is unmapped.
Return(answer) ==
  /\ held' = held \ {Header("wtns"), Loader("wtns")} /\ Enter(<<"answered">>)
  /\ response' = answer
  /\ UNCHANGED <<key, file, state, requests>>

\* What Prover::prove reads through its pointers into the two files: the coefficients,
\* the points, of two coordinates or of four, and the witness.
Readable ==
  /\ holds(key, 4, getSectionSize(key, 4))
  /\ holds(key, 5, 2 * nVars) /\ holds(key, 6, 2 * nVars) /\ holds(key, 7, 4 * nVars)
  /\ holds(key, 8, 2 * (nVars - nPublic - 1)) /\ holds(key, 9, 2 * domainSize)
  /\ holds(file, 2, nVars)

\* The prime of the witness; its data; the call of Prover::prove.
CallProver ==
  /\ mode = <<"curve", "wtns">>
  /\ \/ /\ file.curve # "bn128"
        /\ Return("WITNESS_GENERATION_INVALID_CURVE") /\ UNCHANGED <<borrowed, strings>>
        /\ Groth16Idle
     \/ /\ file.curve = "bn128" /\ ~has(file, 2)
        /\ Raise("wtns", "range_error", held) /\ Groth16Idle
     \/ /\ file.curve = "bn128" /\ has(file, 2) /\ Readable
        /\ Enter(<<"proving">>) /\ UNCHANGED held /\ Keep
        /\ wtns' = file.data
        /\ UNCHANGED <<pc, task, msm, buf, r, s, proof, faults, deferred>>

\* The call for files that do not hold all of that.  Nothing is compared with their
\* sizes.  Past the end there is no memory, and the process ends; or there is, up to
\* the end of a page or in another section, and a proof comes of whatever it holds: a
\* proof that has no value here.
Overrun ==
  /\ mode = <<"curve", "wtns">> /\ file.curve = "bn128" /\ has(file, 2) /\ ~Readable
  /\ \/ Enter(<<"terminated">>) /\ UNCHANGED held /\ Keep
     \/ Return("SUCCESS") /\ strings' = strings \cup {requests} /\ borrowed' = requests
  /\ Groth16Idle

Proving == mode = <<"proving">> /\ pc # <<"left">> /\ Next /\ UNCHANGED own

\* After Prover::prove: the copy made by strdup, which the response points to.  In
\* Rust the response is plain data: its destructor, which would free the string,
\* does not run, and the string that lib.rs lends out stays.
\* Mutant of Respond: the response is destroyed when lib.rs has read it.
RespondOwned ==
  /\ mode = <<"proving">> /\ pc = <<"left">> /\ proof # <<>>
  /\ Return("SUCCESS") /\ strings' = strings /\ borrowed' = requests
  /\ Groth16Idle

Respond ==
  /\ mode = <<"proving">> /\ pc = <<"left">> /\ proof # <<>>
  /\ Return("SUCCESS") /\ strings' = strings \cup {requests} /\ borrowed' = requests
  /\ Groth16Idle

\* Prover::prove threw.
ProverThrew ==
  /\ mode = <<"proving">> /\ pc = <<"left">> /\ proof = <<>>
  /\ Raise("wtns", "bad_alloc", held) /\ Groth16Idle

\* The caller has read the answer; the locals of Prover::prove are fresh next time.
Read ==
  /\ mode = <<"answered">> /\ Enter(<<"ready">>)
  /\ response' = "none" /\ borrowed' = 0 /\ file' = <<>>
  /\ UNCHANGED <<key, held, state, strings, requests>>
  /\ wtns' = CHOOSE w \in Witnesses : TRUE
  /\ pc' = <<"launch", 1>>
  /\ task' = [t \in Tasks |-> "none"]
  /\ msm' = [t \in DOMAIN msm |-> Unset] /\ buf' = [x \in DOMAIN buf |-> Freed]
  /\ r' = Unset /\ s' = Unset /\ proof' = <<>>
  /\ deferred' = 0 /\ UNCHANGED faults

\* FullProver is dropped, also when new returns its error: the destructor.
Drop ==
  /\ mode \in {<<"ready">>, <<"failed">>} /\ Enter(<<"dropped">>)
  /\ held' = held \ {altBbn128r, Loader("zkey"), Header("zkey"), prover}
  /\ Keep /\ Groth16Idle

Over == mode \in {<<"dropped">>, <<"terminated">>} /\ UNCHANGED all

Load == \E x \in {"zkey", "wtns"} : Open(x) \/ Map(x) \/ Parse(x) \/ ReadHeader(x)
Request == (\E f \in WitnessFiles : Ask(f)) \/ CallProver \/ Overrun \/ Proving \/ Respond
           \/ ProverThrew

FullNext == New1 \/ Load \/ MakeProver \/ Request \/ Read \/ Drop \/ Over

FullSpec == FullInit /\ [][FullNext]_all

--------------------------------------------------------------------------------
\* Whatever is read is still there: the key and the witness while the function or
\* one of its tasks may read them through the pointers into the mapped files, after
\* an exception too, and the string of an answer while Rust reads it.
NoDangling ==
  /\ (mode = <<"proving">> /\ pc # <<"left">>) \/ (\E t \in Tasks : Running(t)) =>
       {Loader("zkey"), Loader("wtns"), prover} \subseteq held
  /\ borrowed # 0 => borrowed \in strings

\* A constructor that failed leaves nothing behind, wherever it failed, and nothing
\* of a request is held when the next can come: descriptors, mappings, integers.
NothingHeld ==
  /\ mode \in {<<"failed">>, <<"dropped">>} => held = {}
  /\ mode = <<"ready">> => held = {altBbn128r, Loader("zkey"), Header("zkey"), prover}

\* The library keeps the promises of ProverLibrary: only a file that is a Groth16 key
\* over this curve by its type, headers and list of sections makes a prover; a request
\* is answered with the error or with a proof, which verifies for its own witness if
\* key and witness file hold all that is read of them; a failure in between ends the
\* process.  A key that is cut off in its sections makes a prover like any other.
GoodKey(f) ==
  /\ f.exists /\ f.type = "zkey" /\ f.version <= 1 /\ f.protocol = 1 /\ f.curve = "bn128"
  /\ \A id \in {1, 2} \cup 4 .. 9 : has(f, id)
  /\ getSectionSize(f, 1) = 1
  /\ getSectionSize(f, 2) = 5 + f.n8q + f.n8r + 18 * f.n8q

\* The caller's view of state, which FullProver::new turns into a result.
Result == [none |-> "loading", OK |-> "ready",
           ZKEY_FILE_LOAD_ERROR   |-> "ZKeyFileLoadError",
           UNSUPPORTED_ZKEY_CURVE |-> "UnsupportedZKeyCurve"]

Status == IF mode = <<"dropped">> THEN "dropped"
          ELSE IF mode = <<"terminated">> THEN "ended" ELSE Result[state]

Requested == \/ mode[1] \in {"open", "map", "parse", "header", "curve"} /\ mode[2] = "wtns"
             \/ mode[1] \in {"proving", "answered"}

Asking == IF ~Requested THEN "none" ELSE IF Readable THEN "whole" ELSE "cut"

Answered ==
  CASE response = "none" -> "none"
    [] response = "SUCCESS" ->
         IF proof = <<>> THEN "unspecified"
         ELSE IF wtns = file.data /\ Verifies(proof) THEN "verified" ELSE "wrong"
    [] OTHER -> response

Library == INSTANCE ProverLibrary WITH
  Reasons <- {"WITNESS_GENERATION_INVALID_CURVE"},
  good <- GoodKey(key), status <- Status,
  request <- Asking, answer <- Answered

KeepsPromises == Library!Spec
================================================================================
