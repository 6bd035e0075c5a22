# A TLA+ model of the keyless prover

The repository holds a zero-knowledge proving service: an HTTP service in Rust
(`prover-service/`) that validates a JWT, derives the inputs of a circom circuit
(`circuit/`), runs the witness generator, has a Groth16 prover in C++
(`rust-rapidsnark/`) make a proof, verifies it and signs it. This directory has TLA+
modules of it, TLC configurations that check them on small instances, and proofs that
TLAPS checks for all parameters. `PROJECT.json` maps each definition to the lines it
models and lists runs, properties, mutants, hazards and theorems. Source paths below
are relative to `src/`; C++ files without a directory are under
`rust-rapidsnark/rapidsnark/src/`, Rust files under `prover-service/src/`.

## 1. The system

```
 client --HTTP--> prove_handler --get_jwk--> DECODING_KEY_CACHE <--insert-- refresh loops
                     |   \--(federated issuers)--> fetch_jwks ---> OIDC providers
                     |--derive_circuit_input_signals
                     |--witness_gen --files--> witness command
                     |--full_prover.lock() --FFI--> FullProver::prove (C++)
                     |                                  |-- Prover::prove
                     |                                        |-- 4 x multiexp  (std::async)
                     |                                        |-- coefficient loops (TBB, spinlocks)
                     |                                        |-- 3 x ifft/shift/fft (std::async, TBB)
                     |                                        '-- multiexp of H, assembly
                     |--verify_proof
                     '--sign
```

### Inventory

| Component | State it keeps | Operations | Interacts with | Hard behaviour | What makes it correct |
|---|---|---|---|---|---|
| JWK cache and startup (`jwk_fetching.rs`, `main.rs`) | `DECODING_KEY_CACHE`, one refresh task per provider | populate, fetch, insert, refresh, sleep, bind the port | providers over HTTP, `get_jwk` | fetches that fail or never return, keys rotated between fetches, order of populate and loop | never back to an older key set; a healthy provider stays fresh; startup ends |
| Prove handler (`handlers.rs`, `proving.rs`, `witness_gen.rs`, `training_wheels/`) | handler futures, mutex of the prover, temporary files | validate, derive, generate the witness, prove, verify, sign, fail | key cache, files, C++ prover, client | cancellation while queued, panic with the lock held, blocked workers, abort and restart, files of several requests | only verified proofs of the same request are signed; faults stay local; the mutex is handed on; local requests are answered |
| Coefficient loops of `Prover::prove` (`groth16.cpp` 115-167, `spinlock.hpp`) | arrays a, b, c; 1024 spinlocks | zero, lock, add, unlock, multiply | TBB workers | racing additions into one row, locks shared by rows | no data race, no term lost, termination |
| Groth16 prover (`groth16.cpp`) | futures, arrays, r and s, the proof | launch, transform, join, sample, assemble, destroy | `std::async` threads, transforms, multiexponentiations | order of the tasks, deferred tasks, exceptions while tasks use the arrays | the proof verifies; no use after free; no access beside a transform |
| Number theoretic transform (`fft.cpp`, `fft.hpp`) | table of roots, the array | construct, permute, stages, scale, GPU attempt | TBB, GPU adapter | spans that do not divide, in-place parallel loops, fallback half way | the result is the transform; bodies are disjoint |
| Multiexponentiation (`multiexp.cpp`, `naf.cpp`, `exp.hpp`) | buckets per thread, chunk results | chunk, accumulate, pack, reduce, combine; NAF for one point | TBB, curve operations, GPU adapter | buckets reused from chunk to chunk, last chunk shorter, any thread runs any body | the result is the sum |
| Elliptic curves (`curve.cpp`, over `RawFq` and `f2field.cpp`) | none of its own; operands by reference | add, sub, dbl, neg, copy, eq on projective and affine points | the field | aliased operands and results, equal and opposite operands, zeros | the group law; one zero; eq decides equality |
| GPU adapter (`icicle_adapter.cpp`) | device and domain, loaded once | NTT and MSM, or decline | transforms, multiexponentiation | the form of its inputs | the same result as on the CPU |
| Finite fields (`fr_generic.cpp`, `fr_raw_generic.cpp`, `fr.cpp`, `f2field.cpp`, Fq alike) | none; elements tagged short, long or Montgomery; raw elements | arithmetic, comparison, bits, shifts, conversion | everything in C++ | conversions between tags, overflow from short to long, carries | it is the integers modulo the prime |
| Full prover and FFI (`fullprover.cpp`, `rust-rapidsnark/src/lib.rs`) | the prover and mapped zkey; the response's strings | construct, prove, destroy | Rust above, Groth16 below | exceptions in the constructor and at the language border, pointers into mapped files, ownership of the response | nothing used after its release, nothing kept after a failure; errors become results |
| Binary containers (`binfile_utils.cpp`, `zkey_utils.hpp`, `wtns_utils.hpp`) | section table, read position | open, read sections | full prover | wrong, incomplete or truncated files | only a file that is a key by its headers and its list of sections makes a prover |
| Input derivation (`input_processing/`, `keyless-common/`) | none | parse fields, pad, hash, pack | circuit | parser and circuit agree on what a field is | honest JWTs derive inputs that satisfy the circuit |
| Circuit (`circuit/templates/`) | constraints | field parsing, hashing, selectors, RSA, packing | input derivation | a constraint that is missing or too strong | what is accepted is a field of the JWT |
| Configuration, keys, VK (`config.rs`, `state.rs`, `load_vk.rs`, `prover_key.rs`, `training_wheels/sign.rs`) | read once | load, convert | startup, handler | little | conversions are inverse |
| Metrics, logging, release helper, scripts, test harness, vendored and generated code | | | | | not part of the service's behaviour |

`PROJECT.json` "hazards" lists what is hard to test in this code, each at its line,
with the properties that watch it or the reason why none does yet.

## 2. The modules

| Module | Models | Extends |
|---|---|---|
| `ZkeyCoefs` | coefficients of a zkey and rows as formal sums of terms | |
| `CoefSum` | abstract: each term is added to its row in one indivisible step | `ZkeyCoefs` |
| `CoefAccumulation` | the three parallel loops with spinlocks, one memory access a step; refines `CoefSum` | `ZkeyCoefs` |
| `CoefAccumulationProofs` | inductive invariant, theorems | `CoefAccumulation`, `TLAPS` |
| `JwkCache` | the key cache, the refresh loops, startup | |
| `ProverService` | the request path, over the key cache | `JwkCache` |
| `ProverServiceProofs` | inductive invariants of the cache and of the request path, theorems | `ProverService`, `TLAPS` |
| `PrimeField` | integers modulo a prime: `Add`, `Sub`, `Mul`, `Pow`, `Inv`, `Total` | |
| `FftRoots` | the roots the FFT constructor computes, and the transforms by definition | `PrimeField` |
| `FieldProofs` | induction, sums, powers and the arithmetic of the field; roots of unity, bit reversal, transforms and interpolation by definition: lemmas for four modules of proofs below | `FftRoots`, `FiniteSetTheorems`, `TLAPS` |
| `RootTable` | the constructor's parallel spans that fill the table of roots | `FftRoots` |
| `Fft` | `fft` and `ifft` with their parallel bodies and the GPU attempts | `RootTable` |
| `FftProofs` | inductive invariant, theorems | `Fft`, `FieldProofs` |
| `Naf` | the non-adjacent form of a scalar and multiplication by it | `PrimeField` |
| `Multiexp` | the bucket algorithm, its special cases and the GPU kernel | `Naf` |
| `MultiexpProofs` | inductive invariant, theorems | `Multiexp`, `FieldProofs` |
| `ProvingKey` | the points of a key, as snarkjs makes them from a circuit | `FftRoots` |
| `Groth16Prove` | `Prover::prove` as a whole, with the algebra of the proof | `ProvingKey` |
| `BinFile` | the sections of key and witness files and what reading them throws | |
| `ProverLibrary` | abstract: what the library promises its caller | |
| `FullProver` | the library around `Prover::prove`, from `FullProver::new` to drop; refines `ProverLibrary` | `Groth16Prove`, `BinFile` |
| `FullProverProofs` | one call: the lifetimes of tasks and arrays, the algebra of the proof; the library from request to request, the refinement of `ProverLibrary`, theorems | `FullProver`, `FieldProofs` |
| `FieldRaw` | the raw operations on words, with carries, borrows and Montgomery rounds | `PrimeField` |
| `FieldElement` | the tagged elements and every operation on them; `RawFr` | `FieldRaw` |
| `FieldCalculator` | a sequence of operations on an element, beside the integer it should stand for | `FieldElement` |
| `FieldCalculatorProofs` | rounds, carries and borrows of the raw operations, every operation on elements; inductive invariant, theorems | `FieldCalculator`, `FieldProofs` |
| `BaseField` | the field under a curve: the prime field or its quadratic extension | `PrimeField` |
| `Curve` | points in memory and the operations on them | instances of `BaseField` |
| `JwtChars` | characters, texts and padded arrays | |
| `FieldSignals` | the service's field parser and the signals it derives for a field | `JwtChars` |
| `FieldCircuit` | the circuit's constraints on a field, template by template | `JwtChars` |
| `JwtField` | an issuer writing a payload, the service or anyone else making signals, the circuit accepting them | `FieldSignals`, `FieldCircuit` |
| `JwtFieldProofs` | the circuit's scan of a payload, inductive invariant of the issuer, what the circuit accepts, theorems | `JwtField`, `TLAPS` |
| `MC*` | the constants of each run | the module they check |

### How state and actions correspond to the code

**CoefAccumulation.** `phase` is the `tbb::parallel_for` that runs; `todo` its indices
nobody has taken; `pc[w]` and `item[w]` where TBB worker w is; `lockable[l]` the atomic
of spinlock l; `reg[w]` the row `f.add` has read; `ab` and `c` the three arrays. TBB
partitions a range and gives the pieces to workers as it likes; `Claim` lets a worker
take any index, which covers every partition. `spinlock::lock` is `Exchange`, which gets the
lock or goes on to spin, and `SpinExit`, the relaxed load that ends the spin.
`f.add` is `LoadRow` and `StoreRow`, so that a missing lock loses a term. A field element is
a formal sum, the number of times each term is in it: the field adds nothing
to the question, and an error in a sum cannot be hidden by a coincidence of values. The
arrays begin with `Garbage`, since `new FrElement[]` initialises nothing.

**JwkCache.** A key set is the number of its publication, so that "older" has a meaning.
`fetch[t]` is the fetch of a task: main's, while it populates, or a provider's refresh loop:
off, asleep, sent, or answered with the answer not yet in the cache. `Populate`/`EndPopulate` are the iteration of
`init_jwk_fetching`, whose end starts the loop; `EndRefresh` and `WakeUp` the iteration of
`start_jwk_refresh_loop`; `Answer` and `Fail` are the provider. A fetch may stay `sent` for ever:
`reqwest::get` has no timeout.

**ProverService.** `pc[r]` says where the handler of request r is. Between two awaits a handler
keeps a tokio worker, and `OnWorker` counts those; a step that begins after an await needs
a `WorkerFree`. The witness command, the C++ call and the verification block their worker.
`input` and `witness` are the temporary files by path, holding whose data is in them; `holder`
and `queue` are the tokio mutex, which is fair: `LetGo`
hands it to the first in the queue, in the step in which the guard is dropped, for whatever reason (return, panic,
cancellation). `End` is every way a handler stops: lock handed on, files removed. `Abort` is an exception in
the C++ code, which may not unwind into Rust: the process dies and comes back with
an empty cache and the old files. Whether a JWT passes the other checks and whether
inputs can be derived from it are given with the request.

**RootTable, Fft.** `at[k]` is the index span k computes next. It raises `roots[1]` to the first of them with `RawFr::exp`, which copies the base and then squares and multiplies in the entry itself: `exp[k]`
is the copy and the bits that are left, `CopyBase` and `Raise` are its steps. So span 1, if it starts at 1, works in `roots[1]` while the others read it. In `Fft`, `phase` is the loop that
runs, `left` the bodies not begun, `held` what the bodies in progress have read: `Load` and `Store` are apart,
so any overlap of two bodies shows. `GpuTransform` and `NoGpu` are the attempt at the
start of `ifft` and, again, of `fft`, which `ifft` falls back to.

**Multiexp, Naf.** `accs[t][v]` is the bucket of value v of thread t; `todo` the bodies that have not run; `upper`
the terms that the calls of `reduce` have set aside on the way down. Bodies share no bucket unless they run on one thread, so
a body is one step, on any thread. Points are multiples of a generator, integers
modulo Q. `Naf` goes byte by byte with the two carried bits, as `buildNaf` does through its table.

**Groth16Prove.** `pc` is the statement of `Prover::prove`; `task[t]` the state of a `std::async` task
(deferred, running, done, threw); `msm` the results; `buf` the arrays, `Freed` outside their life. `Get` is `future::get`: it
runs a deferred task, waits, or rethrows. Every exit goes through
`DestroyFutures`, `Free`, `Leave`, the reverse order of declaration. The coefficient loops, a
transform's steps and a multiexponentiation are one step each here: what they compute is the subject of the modules
above. The proving key is made, in the model, from a toxic setup as snarkjs makes
it (`ProvingKey`; the `.cfg` gives the points, and `KeyOfCircuit` has TLC compare them with their making), so that
`Verifies` is the pairing equation in the exponent.

**FullProver, BinFile, ProverLibrary.** `mode` is the statement of the constructor or of `FullProverImpl::prove`; within
`proving` the steps are those of `Groth16Prove`, whose variables are the locals of one call and fresh in the next. `held`
is what has been acquired and not released: file descriptors, mappings (`Loader`), headers with their GMP integers, the prover, and
`altBbn128r`, the one integer that no destructor clears when the constructor throws. `Raise` is an exception: of the constructor's, `FullProver` catches
two classes and no other; of `prove`'s, none, and what nobody catches ends the process. `Map` fails for an empty file, or by a fault. In `BinFile`
an operator returns the class of the exception that the code throws at that point, or `assert`; sizes are counted in the 32-bit integers of the format. `strings` are the
copies of proofs that have been allocated and not freed, `borrowed` the one that Rust reads: bindgen's struct has no destructor, so `Respond` frees nothing.
`CallProver` looks for the data of the witness (`getSectionData(2)`, whose exception nobody catches) and calls `Prover::prove` with pointers into the two files. Nothing compares what is read through these with what is there: `Readable` says
whether it is, `Overrun` is what comes of a file where it is not, the end of the process or a proof of whatever the memory holds, which has no value here.
`Result` is the match in `FullProver::new` of `lib.rs`. `ProverLibrary` knows only of a key that is good by its headers or not, a status, whether the files of a request are whole or cut off, and an answer; `KeepsPromises` maps to it.

**FieldElement, FieldRaw, FieldCalculator.** The raw elements are the numbers their words spell; `Clear` and `Left` are a round
of `Fr_rawMMul`, with the carry that goes to word 1 of the next. An element is a record of the C++ struct's fields, and an operation a function from the old contents of
the result and the operands to the new contents, so that a field that an operation does not set keeps its junk. The functions of one name for each combination of forms
(`add_l1ml2n` and the like) are the cases of one operator. In `FieldCalculator`, `acc` is an element in whatever form the operations before have left it in, and `val` the
integer modulo Q it should stand for.

**BaseField.** An element of the extension is a record of two; `mul2` and `square2` are the formulas of `f2field.cpp`. The laws in `Curve` (`Plus`, `OnCurve`) use products and
quotients by their definition instead, so that an error in the formulas cannot hide on both sides.

**Curve.** `mem` is a memory of points, `val` the elements they should stand for. Each operation is a
function of the whole memory that follows the order of the assignments of the code, so
that `add(p, p, p)` or `dbl(p, p)` reads what the earlier assignments have left.
`curve.hpp` makes the operations with a `PointAffine` result from these and a copy; so does `Next`.

**JwtField.** `text` is the payload as far as the issuer, who is external, has written it; `names` the names in each
object that is open; `members` what a JSON parser would find: position, level, name and value of each member. `signals` is nothing, what the
service derived (`Derive`, through `FieldSignals`), or what the circuit accepted from anyone (`Prove`). `Prove` does not go
through all signals but through those that are made of positions in the payload, since the circuit compares every array with the payload; `Parts` says which.
`Deserialized` is what `DecodedJWT::from_b64` has made sure of before the service derives anything: the field is there once in the object itself, however its name is written, a string or an unsigned number. The parser works on the text as it is, but the value of
aud is that of the payload as serde_json has decoded it (`ValueUsed`, `private_aud_value`; `Decoded` replaces each escape by the character it stands for).
In `FieldCircuit` a template is the conjunction of its constraints. Those that hold where checks are skipped (`SharedConstraints`, `GapConstraints`) are
apart from those that do not (`SharedChecks`, `QuotedChecks`). `QuotedField` stands for the user id, `NamedField`, which asks for the name too, for iss and aud, `NonceField`, which asks for digits too, for nonce, `UnquotedField` for iat.

## 3. The runs

| Run | Instance | What it checks |
|---|---|---|
| `coef_accumulation` | 3 workers, 2 locks, 5 coefficients on 3 rows | `NoDataRace`, `RowsComplete`, the refinement of `CoefSum`, `Termination` |
| `jwk_cache` | 2 providers (one may hang), 2 rotations each, 2 failures | `NeverOlder`, `HealthyRefreshed`, `Starts` |
| `jwk_unpopulated` | 2 providers, 1 failure | refutes `ServingPopulated` |
| `prover_service` | 3 requests; 2 workers and 2 faults, or 1 worker and refused inputs | `MutexHandedOn`, `SignedOwn`, `FaultsStayLocal`, `HonestAccepted`, `NoLeftovers`, `LocalAnswered` |
| `fft` | F_17, 8 roots, spans 1, 3, 5, 8, 20, sizes 1 to 8 | `NoOverlap`, `TransformCorrect`, `RootsStable` |
| `multiexp` | scalars of 10 bits, chunks of 3, 2 threads, 0 to 3 points | `BucketSums`, `CpuCorrect` |
| `multiexp_gpu` | the same | refutes `SameOnGpu` |
| `groth16_prove` | 5 wires, domain of 4, F_17; 16 key files, 7 witness files, 2 requests, 1 fault, 2 deferred tasks in each | `ProofVerifies`, `NoUseAfterFree`, `TransformsAlone`, `NoDangling`, `NothingHeld`, the refinement `KeepsPromises` |
| `field_elements` | Q = 193 in 2 words of 5 bits, shorts of 3 bits, all elements in all forms | `Tracks`, `ReadsBack` |
| `curve` | 2 points, 2 curves over F_7 and 1 over F_9 | `GroupLaw`, `Representation`, `EqDecides` |
| `jwt_fields` | payloads of 24 characters, 4 names, 8 strings, 5 spacings | `AcceptedIsMember`, `PlainAccepted` |
| `jwt_skip_aud` | the same | refutes `SkipIsNoop` |

Each passing run also checks the type invariant of its module.

### Bounds, and why they suffice

The safety properties of `coef_accumulation`, `jwk_cache`, `prover_service`, `fft`, `multiexp`, `field_elements`, `groth16_prove` and `jwt_fields` are proved
for all parameters (section 5). There the instance shows that the assumptions can be met and that the interesting cases happen, and it bears
the liveness. For `curve` the bounds are all there is.

* *coef_accumulation.* A lost update takes two workers on one row; three allow
  a third to take the lock in between. The coefficients are such that two rows of one residue
  share a lock, a row of a shares it with the row of b, and another row has another lock.
* *jwk_cache.* `MaxVersion` 2 allows an answer to be overtaken by two others; `MaxFailures` 2 a failure of the
  first fetch and of a later one. Two providers make independence a question at all.
* *prover_service.* Three requests: one in the prover and two in the queue, of which the first can be cancelled. `maxFaults` 2 allows
  a fault of a request while another one's is being handled. One worker with a federated request: the case
  where a blocked worker would stop everything. The cache underneath has one provider, one rotation, one failure.
* *fft.* The 8 roots in 1, 3, 5, 8 and 20 spans: `increment` is 8, 2 with a remainder, 1 with a remainder, 1 (there and with 5 spans span 1 builds its first power in `roots[1]`, while the others read it), and 0 (the last of
  20 spans computes the whole table, `roots[0]` and `roots[1]` included). Exponents have up to three bits, set and not.
  Up to 8 elements: every stage loop with more than one group, a size with
  `n/2` = 0 (n = 1) and one with an empty scaling loop (n = 2). A transform is linear, so that the unit vectors of a size
  cover all inputs; one dense vector is added because two faults can cancel on unit vectors.
* *multiexp.* Ten bits in five bytes of two bits, read in words of two bytes, chunks of three bits: the last chunk has one bit,
  the last two are read from a word that was moved back, and chunks straddle bytes. The calls have zero points, zero, equal and
  maximal chunk values. All 1024 scalars go through NAF.
* *groth16_prove.* The circuit has a public wire, a constraint using it, and rows added for
  public wires as snarkjs does. One fault anywhere and the deferred tasks give every path
  to the destructors. `Draws` has zero, a large element, the modulus, which is the first value to be rejected, and the one above it. The key files are one that is right and each way one can be wrong:
  missing, empty, cut off in the type, the version, the section table and a section, of another type, version, protocol or curve, with a section
  too long or missing, with less data of A than the circuit needs, and cut off in the data of its last section, here H. No other section can lack its end unnoticed, since the constructor reads the header that follows it. The witness files are two that are right,
  and one each that is missing, of another curve, with a header of another size, without its data, and cut off in it. Two requests, since what the first leaves is what the second meets; a fault in the constructor and one in a request exclude each other.
* *field_elements.* The prime has the bits it has in the code, two fewer than the words (`MaxBits` = 8 of 10), and lies in the same part of their range, which is what the single
  subtractions rely on. Two words make a carry between words and a round that begins with what another left. A short has 3 bits, half of a word holds one, and sums and products of two overflow
  it. Every element is an operand, in each of its forms, so one operation meets every pair; a sequence is needed for the forms that only operations make, a short in Montgomery form above all.
* *curve.* Over F_7 every point of both curves is reached in every representation (x, y, zz, zzz) with two objects;
  one curve has prime order, as bn128, the other a point of order two, on which doubling gives zero. F_9 is the least field with a square root of -1 that is not in the prime field. No usable curve over it has
  a = 0, so the third curve has a general a.

* *jwt_fields.* 24 characters are room for a member after a nested object that holds a bracket in a string, the shortest payload
  on which the circuit's bracket count could be misled (23), and for an escaped backslash before the member. The names and strings
  are those that look like structure: an escaped quote before the key, the key as a value, a comma or bracket in a string, an escaped
  backslash before the closing quote; and those that decoding changes, the key written as the escape of its code and a line feed in a value. The circuit's arrays are 10, 1 and 3 long, so that some fields and values do not fit.

Every bound is a constant of a `.cfg`: `MaxText`, `MaxVersion`, `MaxFailures`, `maxFaults` in `Loads`, `MaxFaults`, `MaxDeferred`, `MaxRequests`. Deadlock is checked in every run.
Runs in which the system ends have a stuttering `Finished`/`Terminated`/`Over` step for its end only, and the services never stop.

### Fairness

* `CoefAccumulation`: WF of some worker claiming (the thread that called `parallel_for` takes part in it), WF of
  `Join` (the same thread), WF of the body of each worker that has taken an index (the operating system stops no thread for ever). Nothing is
  assumed about who gets a spinlock: an exchange may fail any number of times, and termination follows because each index needs the lock once.
* `JwkCache`: `TasksRun`, the tokio runtime polls tasks that are ready and fires timers; `Answered({google})`, one
  provider answers or fails each fetch in the end. Nothing of the kind for the other provider. `Starts` has its own premise, that no fetch hangs for ever.
* `ProverService`: WF of what a handler does by itself, which includes the witness command and the C++ call: they terminate. There is none for
  arrivals, federated answers, cancellations, faults or the refresh loops.

The other modules are checked for safety only.

## 4. What the runs show

All properties of the passing runs hold. Three statements in the repository do not:

* **`jwk_unpopulated`.** `jwk_fetching.rs:135` says the first population is awaited "so that we don't handle
  requests before this is populated". A failed fetch is logged (115-117) and forgotten: the port is bound with nothing cached for
  that provider, and valid requests are answered with 400 until the refresh loop succeeds. Also, as `Starts` makes explicit,
  a first fetch that never returns keeps the service from starting.
* **`multiexp_gpu`.** `ICICLE_INTEGRATION.md:44` says scalars are in Montgomery form inside Rapidsnark, and the adapter
  declares them so (`icicle_adapter.cpp:164, 225`). `Prover::prove` passes plain integers (the witness as read, and H after
  `fromMontgomery`), as the CPU kernel needs; on the GPU the sum is then divided by the radix. Such a proof would fail the verification the service
  makes before it signs, so that it would show as an error and not as a bad answer.
* **`jwt_skip_aud`.** `ParseJWTFieldWithQuotedValue.circom:21-23` says that with `skip_checks` the template "will function as a no-op". Its
  selectors are constrained all the same, and `ArraySelector` wants a non-empty range. When aud checks are skipped the service derives an empty aud value
  (`field_check_input.rs:130`), whose range is empty: no witness exists. With any value that is not empty, as in the tests of the template, the property holds.

Smaller observations: iat is not held to the top level as the other fields are, because the nesting check after it names
iss again (`keyless.circom:411`), so that `AcceptedIsMember` asks for the level of quoted values only; values that contain a quote, end in a backslash, are
empty, or have tabs around them are not derived in the form the circuit wants, which `PlainAccepted` excepts (the parser says of escapes that it does not handle them). The value of aud is derived decoded (`field_check_input.rs:132`) and compared by the circuit with
the field as it is written: an aud with any escape, `https:\/\/...` among them, has no proof, which `PlainAccepted` excepts too. `prepared_vk` reads and parses a file for every proof and
panics with the lock held if it is bad (`MutexHandedOn` shows that the lock survives it); an abort of the process leaves
witness files behind (`NoLeftovers` excepts it); the witness generator blocks a tokio worker, which
`LocalAnswered` survives only because commands are assumed to end.

Of the prover library:

* An answer's string stays valid because it is never freed: the destructor of `ProverResponse` would free it while it is lent, and the mutant of `Respond` shows it. Each proof leaks its string.
* `range_error` (a missing section, a section of another size), failed assertions and failed allocations in the constructor end the process instead of becoming a `ProverInitError`; so does every
  exception of `prove`. `KeepsPromises` allows it (`Ended`). A file of another type or version is reported as an unsupported curve.
* The extent of a section is compared with the file only where it is read by `read`, not where `getSectionData` hands out its start, and the sizes of the sections 4 to 9 of a key and of the data of a witness
  are compared with nothing. A key that was cut off in its last section makes a prover, and a proof by it is wrong or ends the process; so does a witness file that was cut off (`Overrun`). `KeepsPromises` promises a proof that verifies only where the files hold
  all that is read (`Readable`), and "a key" there means one by its type, headers and list of sections (`GoodKey`).
* A witness file without a second section ends the process: `getSectionData` throws, and nothing between it and Rust catches.

Of the field elements:

* The operations on tagged elements are used by `fr.cpp` and the tests alone; the engine uses `RawFr`. The generic files are built where there is no nasm (`meson.build`).
* `Fr_toMontgomery` of a short into another object leaves that object's `shortVal` as it was, while its type says short: what reads `shortVal` then is wrong. `Tracks` holds of `longVal` then, and of the
  rest only `InSync`. The callers in the file read `longVal` only.
* `Fr_longNeg` looks at the lowest word alone, so that `Fr_toInt` gives some elements that fit no `int` for a small negative one; `ReadsBack` is about those that fit. The comment above `Fr_toInt` describes another function.
* The product or square of two shorts is always stored as a long element, whether it overflows or not.
* `F2Field::square` for a non-residue other than -1 adds the wrong temporary (`f2field.cpp:165`); nothing in the repository makes such a field.
* `neg` of the affine zero into a `Point` gives (0, 0, 1, 1), which is not the zero (`curve.cpp:593`); it has no caller, and `Next` leaves the zero out.

## 5. What is proved

### The coefficient loops

`CoefAccumulationProofs` proves, for every number of workers, locks, coefficients and rows, every placement of the coefficients and every
initial content of the arrays:

| Theorem | Statement |
|---|---|
| `TypeCorrect` | `Spec => []TypeOK` |
| `RaceFreedom` | `Spec => []NoDataRace` |
| `SumsComplete` | `Spec => []RowsComplete` |
| `Refinement` | `Spec => RefinesCoefSum`, the locked loops implement the indivisible sums |

The assumptions are those of the constants: `CountsAssumption` and `CoefsAssumption` (each coefficient has a matrix number and a row in
range), `LocksAssumption` (there is a lock) and `GarbageAssumption` (memory holds some sum). TLC evaluates them in `coef_accumulation`.

None of the properties is inductive. `NoDataRace` needs that a lock has one holder and that its word is 1 while held (`LockHeld`);
that in turn that two workers are never at one index (`ClaimedOnce`) and that `pc`, `phase` and `todo` fit together (`BodyOfPhase`), since the
lock protects only the middle loop and the others rely on their indices being distinct. `RowsComplete` needs what a row holds half way: the sum of the terms not in `Remaining`
(`PartialSums`), which a store preserves only if the row is still what was loaded (`RowUnchanged`), and which begins to hold at the end of the
first loop because each row not waiting for its zeroing is zero (`ZeroedRows`). `Products` is the same for c. `IInv` is their conjunction with
`TypeOK`; `IInvInit` and `IInvStep` show it inductive, the latter from one lemma per conjunct (`TypeStep`, `ClaimStep`, `LockStep`, `RowStep`, `ZeroStep`,
`SumStep`, `ProductStep`), each with a step for each action that can disturb it. For the refinement, `RemainingSame`, `RemainingStore` and `RemainingJoin`
say how the set of outstanding coefficients changes, and `RefinementStep` maps `StoreRow` and `MultiplyRow` to a step of `CoefSum` and all
others to a stutter.

### The key cache

`ProverServiceProofs`, for every set of providers and every bound on rotations and failures, from `VersionsAssumption` (the bounds are
numbers) and `ProvidersAssumption` (main is not the name of a provider):

| Theorem | Statement |
|---|---|
| `JwkTypeCorrect` | `JwkSpec => []JwkTypeOK` |
| `CacheForward` | `JwkSpec => NeverOlder` |

An answer could be older than the cache only if another fetch of the same provider had overtaken it. `LoopsOwn` and
`MainAhead` say why there is none: a loop fetches for its own provider only, has not started while main is not done with the provider, and main
fetches for no provider it is done with. From that, `AnswersNewer`: an answer that is not yet in the cache is no older than what is there
and no newer than what has been published.

### The request path

The same module, for any number of requests, workers, issuers, file names and faults, about `Spec`, the safety part of `FairSpec`. It
adds `ServiceAssumption` and `NamesAssumption` (no request is called as a marker of the files is) to the assumptions above:

| Theorem | Statement |
|---|---|
| `ServiceTypeCorrect` | `Spec => []TypeOK` |
| `MutexCorrect` | `Spec => []MutexHandedOn` |
| `SignedCorrect` | `Spec => []SignedOwn` |
| `FaultsLocal` | `Spec => []FaultsStayLocal` |
| `HonestCorrect` | `Spec => []HonestAccepted` |
| `FilesRemoved` | `Spec => []NoLeftovers` |

The invariant `SvcInv` has a part for what is shared and a part for each request. Shared are the invariant of the cache, `Startup`
(unless a fetch has failed, the providers main is done with have keys, and the port is bound when it is done with all of them) and `Mutex`:
`MutexHandedOn` together with `Queue`, that the queue holds requests which wait, each once. `Request(r)` is what holds of one request: that its files hold its own data as
long as it needs them and are gone otherwise (`Files`), that it got where it is because the checks before were passed and that its
end means what it says (`Outcome`), and that its key is found (`Found`). A step disturbs another request in one way only, by granting it the mutex; `LetGoMutex` is that
fact, `EndInv` and `AloneInv` use it for the steps that end a handler and those that do not, and there is a lemma for each action. `Request`
says nothing of a request that is not part of the state a step of another can write, since no two have a path in common; `PathOf` is injective
because temporary names are unique.

### Induction, sums and the field

TLAPS has an SMT solver, Zenon and a decision procedure for temporal steps here, and none of them can instantiate an induction rule that has an operator as
parameter. `FieldProofs` therefore states induction for sets: `Induction` (a set of numbers that has 0 and with each
number the next has all) and `SubsetInduction` (the same for finite sets), both from the existence of a least counterexample (`Least`,
`SmallestSubset`). Recursive functions and the folds of the community modules are `CHOOSE`s; that there is a function with the equations is shown by
induction (`SumExists`, `PowersExist`), after which the equations may be used (`SumUnfold`, `SumAdd`, `PowUnfold`). On top are sums over finite sets (union,
exchange of two sums, splitting into halves), congruence modulo Q (`Cong`), powers and inverses. That `Mul` has no divisors of zero and
each unit an inverse follows from `PrimeAssumption`. The second half of the module is about the roots and transforms. The proofs of the multiexponentiation and
of the field calculator use the first half only, and nothing there cites `DomainAssumption` or `RootsAssumption`, which are in scope but say nothing about them.

### The transforms

`FftProofs`, for every prime, every number of roots, every size, input and number of spans and every order of the loop bodies, with the GPU or without
it at each attempt. The assumptions are `FieldAssumption` and `PrimeAssumption` (Q is a prime above 2), `DomainAssumption` and `RootsAssumption` (2^logRoots divides Q - 1,
there is a non-residue, and what the constructor checks of its first root), `SpansAssumption` (there is a span) and `SizesAssumption` (the sizes are powers of two within the table).

| Theorem | Statement |
|---|---|
| `TypeCorrect` | `Spec => []TypeOK` |
| `NeverOverlap` | `Spec => []NoOverlap` |
| `RootsStay` | `Spec => RootsStable`, for entries that others may read |
| `TransformsCorrect` | `Spec => []TransformCorrect` |

`TableInv` says of the table that its first two entries are always there (`Table`), that each span has written the powers up to its index
(`Progress`), that the entry a span builds is the power by the bits done so far and that its copy of the base, once made, is `roots[1]` (`Raisings`), and that all entries are written once the spans are done (`Complete`). `SpansApart` keeps every other span out of the entry that one builds;
where that entry is `roots[1]`, the exponent has one bit and what is written is the copy of `roots[1]` itself, and `roots[0]` gets the power by 0 (`BitRaised`, `RaiseWrites`). Then `FftInv` (`Running` while a transform runs) says of each loop (`Halfway`) that the
elements of a body that is still to come, or has read and not written, are as they were before the loop, and all others as the loop is to leave them (`Begun`, `Ended`). It is preserved by a store because the bodies of a loop have disjoint indices: a
pair of the permutation is its own reversal (`ReversePairs`), the butterflies of a stage differ by half a block (`StagePairs`), and the scaling loop pairs i with n - i (`ScalePairs`).

What the loops compute is in `FieldProofs`. After stage s, a block of 2^s elements of the array holds the transform of the elements with the
same low bits, in their order (`StageStep`, `StageBlocks`, from the radix-2 step `Radix2`); before the first stage that is bit reversal (`StageZero`, `PlaceFacts`), after the last the
transform by definition (`StageLast`). That the scaling loop makes the inverse of it rests on the sum of the powers of a root of unity being zero (`RootsOrthogonal`, `InverseIs`).

### The multiexponentiation

`MultiexpProofs`, for every number of points, width of the scalars, chunk size, number of threads and schedule. The assumptions are those on the
field, `SizesAssumption` (the sizes are numbers, a chunk and what precedes it in its first byte fit into a word, the radix is no multiple of Q) and `CallsAssumption` (bases are elements, scalars
fit their bytes, and there are as many of both).

| Theorem | Statement |
|---|---|
| `TypesHold` | `Spec => []TypeOK` |
| `BucketsSum` | `Spec => []BucketSums` |
| `CpuComputes` | `Spec => []CpuCorrect` |

`MultiexpInv` has a part for each phase. `Processing`: over the threads, the buckets of a value add up to the bases processed that have this value in the chunk. `Reducing`: `Worth`, which is what
`reduce` has set aside, what the threads have folded and what is left in the buckets by weight, is the sum of the chunk modulo Q; `WeightedIsChunkSum` establishes it, `FoldKeeps` and `RecurseKeeps` preserve it (`WeightedFold`: to add the upper
half of the buckets to the lower and count it once with its weight changes nothing), and `WeightedOne` ends it. `Collected`: the results are the sums of their chunks. `HighPartStep` and `HighPartEnds` say that the chunks of a scalar, the last one shorter, are the
scalar; hence what `horner` computes is the sum (`HornerValue`). `Recoding` is about a single point: the digits written so far, those that the carried bits still stand for and the
rest of the scalar are the scalar (`RecodeStep`, for a digit of a row of the table of `naf.cpp`), and `MulIs` says that doubling and adding along the digits multiplies by it.
`getChunk` is not the obvious quotient: it reads a word, moves it back where it would pass the end of the scalar, shifts and masks; `ChunkIs` shows it equal.

### The field elements

`FieldCalculatorProofs`, for every odd prime that has two bits less than its words, every number of words, every size of a word and of a short, every set of operands in every form, and
any sequence of operations:

| Theorem | Statement |
|---|---|
| `Montgomery` | the three products by rounds are reduced, and what they are times R |
| `CalculatorTypeCorrect` | `Spec => []TypeOK` |
| `CalculatorTracks` | `Spec => []Tracks` |
| `CalculatorReadsBack` | `Spec => []ReadsBack` |

The assumptions are those on the field, `RawAssumption` (the prime has `MaxBits` bits), `ShortAssumption` (a short has a sign and another bit, the square of its limit is below a word, and a word is below the prime, as 32, 64 and 254 bits are) and
`ValuesAssumption` (the operands stand for elements).

*Raw operations.* `NpIs`: the word np exists, since the prime is odd. A round adds the multiple of q that clears the lowest word (`Cleared`); its carry out of N + 1 words is the one that `Left` gives to the next round, since
what is left stays below twice q times a word, and the last subtraction of q is enough (`Montgomery`). `RawSums`, `CopyIs` and `ShortSums` do the carries and borrows of sums, differences, negations and shorts.

*Elements.* The inductive invariant is `IsValue(acc, val)`: a plain long is the integer, a long in Montgomery form is R times it, a short is it modulo q. Of a short in Montgomery form it bounds the long part only, because `toMontgomery` into
another object leaves the old short there; operations that read the short part have `Stands`, which adds that the two agree, for their premise, and `InSync` in the model is that premise (`InSyncIs`).
Each operation has its lemma: `SumsAre`, `NegationIs`, `ProductIs`, `SquareIs`, `Converted`, `IntegersAre` for those that go through GMP, `EngineIs` and `ExpIs` for `RawFr`. Comparisons are by sign around half (`SignedOrder`, `TruthsAre`). The bit operations rest on
`Logical`, that they stay below a power of two that bounds both operands, so that shorts stay shorts, and on `CutIs`, that the mask leaves less than two q; the shifts on `PlacesAre`, that a distance is read alike from a short, from its negation and from a long. `BinaryIs` and `UnaryIs` collect them for the steps.

Of the bit operations it is proved that, for operands in any form, the result is the bit by bit one of the integers they stand for, cut to the bits of the prime; GMP's functions are taken by their definition.

### The prover and its library

`FullProverProofs`, for one call of `Prover::prove` and for the library with any number of requests, for every prime, circuit, setup, key file,
witness file, number of faults and number of deferred tasks:

| Theorem | Statement |
|---|---|
| `TasksEndInTime` | `FullSpec => []NoUseAfterFree` |
| `TransformsDone` | `FullSpec => []TransformsAlone` |
| `NothingLeaks` | `FullSpec => []NothingHeld` |
| `MappingsOutlive` | `FullSpec => []NoDangling` |
| `TypesKept` | `FullSpec => []TypeOK` |
| `ProofsVerify` | `FullSpec => []ProofVerifies` |
| `PromisesKept` | `FullSpec => KeepsPromises` |

`NoUseAfterFreeOfCall`, `TransformsAloneInCall`, `TypesInCall` and `ProofsVerifyInCall` are the same for `Spec`, one call. The assumptions, beside those on the field and its
roots: `SizeAssumption` (the domain is a power of two, and the table of roots is made for twice its size, as `groth16.hpp` does), `MakingAssumption` (the circuit's matrices and the setup are over the field,
gamma and delta are not zero), `KeyOfCircuit` (the key is the one made from them), `WitnessAssumption` (the witnesses satisfy the circuit, as those that the witness generator computes do), `BoundsAssumption`, `FilesAssumption` (a witness file holds such a witness) and `KeysAssumption` (the numbers in a key file are natural).

*Lifetimes.* `Lifetimes` says at each statement which arrays are allocated (`Memory`, `Allocated`),
that no transform exists before they are filled (`NoneYet`), that one that runs has its array (`HasArray`), which have been waited for
(`JoinedSoFar`), and that nothing runs once the futures are destroyed (`Quiet`): the futures are declared after the arrays the transforms use, so
their destructors wait before the arrays are freed, on the way of an exception too. `FullInv` adds `HeldThere`, what is held at each point of the library (`HeldIn`), `RunWithin`,
that tasks run within a call only, and `Lent`. An exception leaves `HeldIn` of the place where it is caught, which is where `NothingLeaks` comes from.

*The proof verifies.* `Data` says what has been computed at each statement, whatever the order of the tasks: an array is the combination of the constraints until its transform
begins, then its interpolation, the shifted coefficients or its values at the odd points, as the state of its task says (`Arrays`, `Contents`); a multiexponentiation that is done has its result
(`Results`); what has not been launched has none (`Unlaunched`); r and s that have been accepted are elements (`Sampled`); the proof is made of these (`Proved`). `DataImply` needs
the algebra. A column of the key is a polynomial, by its values on the domain, taken at tau (`AtIs`, `ColumnIs`; `PolyByLagrange` and `Interpolation` are the two ways to say it).
Its combination with the witness is therefore the polynomial through the values that the constraints take (`WitnessColumns`). The product of the first two less the third is zero
on the domain, where the constraints hold, and the array after `Abc` has its values at the other points of the domain twice as large, the odd ones (`OddValues`). The points of H in the key are the Lagrange polynomials of these points at tau, over delta (`PointsOfH`), so that
delta times `pih` is that difference at tau (`OddHalf`, `QuotientsAtTau`). `Balance` is the rest: with `MsmOfAB` and `MsmOfC`, the
verification equation holds in the exponent for every r and s. For a tau that is itself a point of the doubled domain `Lag` is 1 at that point and 0 elsewhere, and the argument covers it.

From request to request `CallInv` is `Data` together with `Between`: the library calls `Prover::prove` with fresh locals and the witness of its file.

*The refinement.* `KeyRead` says what each point of the constructor has
found out about the key, so that a prover is made only from a file whose headers and list of sections are those of a key and "unsupported" is said of no such file (`KeyChecked` compares the checks of the code with `GoodKey`). `OwnAnswer`
says that a proof was computed only if the files hold what is read, and that the witness in memory is then that of the file of the request when it is returned, which holds since `Prover::prove` does not write to it (`WitnessKept`). With `ProofsVerify`, each step
maps to a step of `ProverLibrary` or to a stutter (`FullStep`); nothing is assumed about the proof.

### The fields of a JWT

`JwtFieldProofs`, for every payload without arrays that an issuer can write, whatever is in its strings, and all lengths of the circuit's arrays:

| Theorem | Statement |
|---|---|
| `Written` | `Spec => []IInv` |
| `TypeCorrect` | `Spec => []TypeOK` |
| `FieldsAreMembers` | `Spec => []AcceptedIsMember` |
| `ServiceSatisfiesCircuit` | `Spec => []PlainAccepted` |

The assumptions are `LengthsAssumption` (the arrays have lengths, a name or a value is no longer than a field), `JsonAssumption` (in names and strings a quote is escaped and no escape
is left open; a number has no blank, quote, backslash, comma, colon or bracket; spacing is white space), `KeyAssumption` (the key consists of lower-case letters, as iss, nonce, iat, aud, sub and email
do) and `TextAssumption` (the payload fits). The one on the key is needed: with a key such as `:`, the two quotes around a colon would be an occurrence of the key that no member has.

*The scan.* The circuit's hints are three recursive arrays: the parity of a run of backslashes, that of the quotes, and the sum of the brackets outside of strings. `Scan` says what these
do at one character (`ScanStep`, on `Escaped`, `Inside` and `Level`, what is known before the character), and `ScanOfPrefix` that they depend on the text before it. From there on a text is read
in pieces: characters that mean nothing (`IdleRun`), a string (`StringRun`, by `BodyRun`, where `WellFormed` is needed), white space, a name with its colon (`NameRun`), a value (`ValueRun`).

*The issuer.* `Issued` is the inductive invariant: the payload ends outside of strings and at the level of the objects that are open (`Ended`); each member is where it says, between its quotes, with its colon, its delimiter
and its level (`MembersPlaced`, `MemberAt`); and each quote at which the scan enters or leaves a string is one of a member or of the name of an object (`QuotesKnown`). `MemberIssued`, `OpenIssued` and `CloseIssued` are its steps.
`Made` says that signals are made of the whole payload, once.

*The circuit.* `AcceptedChecked` collects what the constraints give (`Checked`): the key with its quotes at i, outside of strings, white space up to the colon at c, the value, the delimiter.
The quote at i therefore opens a string (`OpensString`), by `QuotesKnown` one of a name or a value. It is no value's, since after a value's closing quote comes a delimiter, and no object's, since there a bracket comes after the
colon; the name is the key because both end at the first quote that is not escaped (`SameString`), and the key has no backslash. So it is a member's (`OpensMember`); white space leads to the same colon and the same value (`FirstNonBlank`),
whose end is where the string bodies end, or where the digits do (`ValueIs`). The nesting the circuit computes is the level less one (`DepthIs`).

*The service.* The other direction, from what the service derives to every constraint. Where the member that begins at the service's index is plain, the service reads it where the issuer wrote it (`ServiceReads`): its searches stop
at the same colon, the same end of the value and the same delimiter, and it skips spaces only, which is why `Plain` excludes other white space. From there `ShapeIs` says which character is where in the field, and that the
circuit sees the name and a quoted value, and nothing else of it, in string bodies. The service computes these by another rule, a recursion over two values back that asks for a single backslash; `CalcUnique` says that it has one solution and
`CalcIs` that this is what the circuit sees, since the only quotes of a plain field are the four around its name and value (`QuotesAt`) and none is after a backslash. `ServiceMakes` is the record of the signals with its padding.
Each group of constraints then has its lemma: `InPayloadMade` and `BodiesMade` (the substrings, and no nesting), `SharedMade`, `GapsMade`, `QuotedMade`, `UnquotedMade` and `DigitsMade`. The value is what the parser read or, of aud, what was decoded, which without an escape is the same text (`ValueRead`, `ValueAsRead`).
A selector asks that the end of its range is below a power of two (`min_num_bits`); `EnoughBits` and `CanSelect` say that this excludes no range that is not empty, which is where the empty value of a skipped aud fails.

### What is only model-checked

* All liveness: `Termination`, `HealthyRefreshed`, `Starts`, `LocalAnswered`. Fairness and ENABLED are outside what these provers do.
* The properties of `Curve`. `Curve` takes the field as a parameter of an instance, and the group law with zz and zzz is a set of identities between polynomials of degree up to
  ten in a field with division, which the SMT solver does not find.

## 6. Plan

In this order:

1. *Rest of the fields.* email_verified (`ParseEmailVerifiedField`, `EmailVerifiedCheck`), the extra field and the override of aud, on top of `FieldSignals`
   and `FieldCircuit`.
2. *Input padding and packing.* `sha.rs`, `bits.rs`, `encoding.rs`, `circuit_input_signals.rs` with the templates that undo them.
3. *Content of key sets*: kids that do not parse are dropped (`jwk_fetching.rs:75`).

Theorems to come: those of `Curve`, starting with what the formulas of `add`, `dbl` and the mixed addition give for points in general position, if the identities can be cut into steps that the solver
finds.

## 7. What is not modelled

* *The witness command, circom itself, the pairing library, TBB, tokio, hyper, `reqwest`*: external; modelled by what the code relies on.
* *The GPU device*: the library is not in the repository. What the adapter asks of it is.
* *Weak memory.* The spinlock uses acquire and release; the model is sequentially consistent between the accesses those order, and
  `NoDataRace` shows that no other accesses conflict, which is what makes that sound.
* *Formatting and parsing* of requests, proofs and keys; metrics and logging (the C++ logger is compiled out); the release helper, scripts and `vk-diff`: no behaviour of the service depends on them.
* *`pointparallelprocessor.hpp`, `BinFile::bit_cast_section_data`*: nothing calls them.
* *Of the fields*: conversions to and from text and byte strings; a result that is also an operand (each operation here has an object of its own for its result); the assembly, which computes the same.
* *Of key files*: `strdup` returning null. That the data in the sections of a key and of a witness file is the circuit's is assumed (`KeyOfCircuit`, `FilesAssumption`), where it is there.
* *Of the loops of `Prover::prove`*: their index is an `int`, the ranges they run over are `uint32` and `uint64` (`groth16.cpp:145, 163`); the two differ from 2^31 elements on only, and the model has one index.
* *Of the multiexponentiation*: `reduce` treats the bucket at `ndiv2` apart (`multiexp.cpp`, about line 182); `Recurse` takes it together with those above, of which it adds the same.
* *In the fields of a JWT*: email_verified, the extra field, the override of aud. Texts that are not JSON and arrays: the circuit gets signed payloads only, and the
  issuer here writes objects of strings, numbers and objects. Characters beyond ASCII: an escape of one is a single character once decoded, and so is each half of a surrogate pair, but no aud with an escape is plain.
  That the nonce equals the computed one (`keyless.circom:470`). Base64, SHA-2, RSA, Poseidon and packing around the fields.
* *The individual JWT checks* (`verification_logic.rs`): straight-line comparisons, one input bit `valid` here.
