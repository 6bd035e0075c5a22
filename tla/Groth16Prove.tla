----------------------------- MODULE Groth16Prove -----------------------------
(***************************************************************************)
(* Prover::prove (groth16.cpp).  The caller's thread launches four         *)
(* multiexponentiations with std::async, fills the arrays a, b and c,      *)
(* launches their transforms, waits for these, does the multiexponentiation*)
(* of H, samples r and s, waits for the first four and puts the proof      *)
(* together.  Whatever way the function is left, its futures and buffers   *)
(* are destroyed in the reverse order of their declaration, and the        *)
(* destructor of a future of std::async waits for the task.                *)
(*                                                                         *)
(* A task runs on a thread of its own or, when no thread can be had, is    *)
(* deferred until get().  It may throw (memory), and get() throws it again.*)
(*                                                                         *)
(* The groups are written additively, as multiples modulo Q of their       *)
(* generators, so that a pairing is a product.  The coefficient loop is one*)
(* step here (CoefAccumulation), so are a transform (Fft) and a            *)
(* multiexponentiation (Multiexp).                                         *)
(***************************************************************************)
EXTENDS ProvingKey, Sequences

CONSTANTS
  pointsA, pointsB, pointsC, pointsH,   \* the points of the key, and of the verifier
  IC,
  Witnesses,   \* the witnesses to check, which satisfy the circuit
  Draws,       \* what the random generator returns after masking
  MaxFaults, MaxDeferred   \* bounds on the throws and on the deferred tasks

\* The key was made for the circuit.
ASSUME KeyOfCircuit ==
  /\ pointsA = KeyA /\ pointsB = KeyB /\ pointsC = KeyC /\ pointsH = KeyH /\ IC = KeyIC

\* The values of the combinations of the wires that the constraints take.
Combination(w, M) == [c \in Domain |-> Total([v \in Wires |-> w[v] * M[c][v]])]

\* A witness gives each wire a value, and the constraints hold.
ASSUME WitnessAssumption ==
  \A w \in Witnesses :
    /\ w \in [Wires -> Field]
    /\ \A c \in Domain :
         Mul(Combination(w, QapA)[c], Combination(w, QapB)[c]) = Combination(w, QapC)[c]

ASSUME BoundsAssumption == Draws \subseteq Nat /\ MaxFaults \in Nat /\ MaxDeferred \in Nat

VARIABLES
  wtns, pc, task,   \* task: where each task is
  msm,              \* the results pi_a, pib1, pi_b, pi_c of the four, and pih
  buf,              \* the arrays a, b, c, while they are allocated
  r, s, proof, faults, deferred

vars == <<wtns, pc, task, msm, buf, r, s, proof, faults, deferred>>

Msms  == <<"pi_a", "pib1", "pi_b", "pi_c">>
Ffts  == <<"a", "b", "c">>
Tasks == {"pi_a", "pib1", "pi_b", "pi_c", "a", "b", "c"}
Unset == -1        \* an uninitialized point
Freed == <<>>

--------------------------------------------------------------------------------
\* The equation a verifier checks, with the pairing of x and y as Mul(x, y).
Verifies(p) ==
  Mul(p.A, p.B) =
    (Setup.alpha * Setup.beta
       + Setup.gamma * Total([v \in 0 .. nPublic |-> wtns[v] * IC[v]])
       + Setup.delta * p.C) % Q

--------------------------------------------------------------------------------
Init ==
  /\ wtns \in Witnesses
  /\ pc = <<"launch", 1>>
  /\ task = [t \in Tasks |-> "none"]
  /\ msm = [t \in {"pi_a", "pib1", "pi_b", "pi_c", "pih"} |-> Unset]
  /\ buf = [x \in {"a", "b", "c"} |-> Freed]
  /\ r = Unset /\ s = Unset /\ proof = <<>>
  /\ faults = 0 /\ deferred = 0

Goto(label) == pc' = label

\* std::async: of the k-th of the tasks ts, which begins in the state begin.
Launch(ts, k, begin) ==
  \/ task' = [task EXCEPT ![ts[k]] = begin] /\ UNCHANGED deferred
  \/ /\ deferred < MaxDeferred
     /\ task' = [task EXCEPT ![ts[k]] = "deferred"]
     /\ deferred' = deferred + 1

LaunchMsm(k) ==
  /\ pc = <<"launch", k>>
  /\ Launch(Msms, k, "msm")
  /\ Goto(IF k < 4 THEN <<"launch", k + 1>> ELSE <<"new", 1>>)
  /\ UNCHANGED <<wtns, msm, buf, r, s, proof, faults>>

\* new FrElement[domainSize]; the memory is what it was.
New(k) ==
  /\ pc = <<"new", k>>
  /\ \/ /\ buf' = [buf EXCEPT ![Ffts[k]] = [i \in Domain |-> Q - 1]]
        /\ Goto(IF k < 3 THEN <<"new", k + 1>> ELSE <<"coefs">>)
        /\ UNCHANGED faults
     \/ /\ faults < MaxFaults /\ faults' = faults + 1
        /\ Goto(<<"~futures">>)
        /\ UNCHANGED buf
  /\ UNCHANGED <<wtns, task, msm, r, s, proof, deferred>>

\* The three loops up to c = a * b.
Coefs ==
  /\ pc = <<"coefs">>
  /\ LET a == Combination(wtns, QapA)
         b == Combination(wtns, QapB)
     IN buf' = [a |-> a, b |-> b, c |-> [i \in Domain |-> Mul(a[i], b[i])]]
  /\ Goto(<<"transform", 1>>)
  /\ UNCHANGED <<wtns, task, msm, r, s, proof, faults, deferred>>

LaunchFft(k) ==
  /\ pc = <<"transform", k>>
  /\ Launch(Ffts, k, "ifft")
  /\ Goto(IF k < 3 THEN <<"transform", k + 1>> ELSE <<"join", 1>>)
  /\ UNCHANGED <<wtns, msm, buf, r, s, proof, faults>>

\* get(): runs a deferred task, waits for any other, and throws what it has thrown.
Get(t, begin, next) ==
  \/ /\ task[t] = "deferred"
     /\ task' = [task EXCEPT ![t] = begin]
     /\ UNCHANGED pc
  \/ /\ task[t] = "done" /\ Goto(next) /\ UNCHANGED task
  \/ /\ task[t] = "threw" /\ Goto(<<"~futures">>) /\ UNCHANGED task

\* Mutant of JoinFft: iFFT_C_future.get() is missing.
JoinFftAB(k) ==
  /\ pc = <<"join", k>>
  /\ Get(Ffts[k], "ifft", IF k < 2 THEN <<"join", k + 1>> ELSE <<"abc">>)
  /\ UNCHANGED <<wtns, msm, buf, r, s, proof, faults, deferred>>

JoinFft(k) ==
  /\ pc = <<"join", k>>
  /\ Get(Ffts[k], "ifft", IF k < 3 THEN <<"join", k + 1>> ELSE <<"abc">>)
  /\ UNCHANGED <<wtns, msm, buf, r, s, proof, faults, deferred>>

\* The loop a = a * b - c.
Abc ==
  /\ pc = <<"abc">>
  /\ buf' = [buf EXCEPT !.a =
               [i \in Domain |-> Sub(Mul(buf.a[i], buf.b[i]), buf.c[i])]]
  /\ Goto(<<"H">>)
  /\ UNCHANGED <<wtns, task, msm, r, s, proof, faults, deferred>>

MsmH ==
  /\ pc = <<"H">>
  /\ \/ /\ msm' = [msm EXCEPT !["pih"] = Total([i \in Domain |-> buf.a[i] * pointsH[i]])]
        /\ Goto(<<"sample_r">>) /\ UNCHANGED faults
     \/ /\ faults < MaxFaults /\ faults' = faults + 1
        /\ Goto(<<"~futures">>) /\ UNCHANGED msm
  /\ UNCHANGED <<wtns, task, buf, r, s, proof, deferred>>

\* An iteration of the sampling loops, which end with a field element.
\* Mutant of Accepted: any draw is taken.
AnyDraw(x)  == TRUE
Accepted(x) == x < Q

SampleR(x) ==
  /\ pc = <<"sample_r">> /\ r' = x
  /\ IF Accepted(x) THEN Goto(<<"sample_s">>) ELSE UNCHANGED pc
  /\ UNCHANGED <<wtns, task, msm, buf, s, proof, faults, deferred>>

SampleS(x) ==
  /\ pc = <<"sample_s">> /\ s' = x
  /\ IF Accepted(x) THEN Goto(<<"get", 1>>) ELSE UNCHANGED pc
  /\ UNCHANGED <<wtns, task, msm, buf, r, proof, faults, deferred>>

JoinMsm(k) ==
  /\ pc = <<"get", k>>
  /\ Get(Msms[k], "msm", IF k < 4 THEN <<"get", k + 1>> ELSE <<"assemble">>)
  /\ UNCHANGED <<wtns, msm, buf, r, s, proof, faults, deferred>>

Assemble ==
  /\ pc = <<"assemble">>
  /\ LET A  == (msm["pi_a"] + Setup.alpha + Setup.delta * r) % Q
         B  == (msm["pi_b"] + Setup.beta + Setup.delta * s) % Q
         B1 == (msm["pib1"] + Setup.beta + Setup.delta * s) % Q
     IN proof' = [A |-> A, B |-> B,
                  C |-> (msm["pi_c"] + msm["pih"] + A * s + B1 * r
                           - Setup.delta * Mul(r, s)) % Q]
  /\ Goto(<<"~futures">>)
  /\ UNCHANGED <<wtns, task, msm, buf, r, s, faults, deferred>>

Running(t) == task[t] \notin {"none", "deferred", "done", "threw"}
Range1(q)  == {q[k] : k \in DOMAIN q}

\* The end of the scope, after a proof or an exception: the futures of the
\* transforms, the buffers, the futures of the multiexponentiations.  A deferred
\* task is never run then.
\* Mutant of DestroyFutures: nothing waits.
FuturesDetached ==
  /\ pc = <<"~futures">> /\ Goto(<<"~buffers">>)
  /\ UNCHANGED <<wtns, task, msm, buf, r, s, proof, faults, deferred>>

DestroyFutures ==
  /\ pc = <<"~futures">> /\ \A t \in Range1(Ffts) : ~ Running(t)
  /\ Goto(<<"~buffers">>)
  /\ UNCHANGED <<wtns, task, msm, buf, r, s, proof, faults, deferred>>

Free ==
  /\ pc = <<"~buffers">> /\ buf' = [x \in {"a", "b", "c"} |-> Freed]
  /\ Goto(<<"~msms">>)
  /\ UNCHANGED <<wtns, task, msm, r, s, proof, faults, deferred>>

Leave ==
  /\ pc = <<"~msms">> /\ \A t \in Range1(Msms) : ~ Running(t)
  /\ Goto(<<"left">>)
  /\ UNCHANGED <<wtns, task, msm, buf, r, s, proof, faults, deferred>>

--------------------------------------------------------------------------------
\* The tasks.
Points(t) ==
  CASE t = "pi_a" -> <<pointsA, Wires>>
    [] t \in {"pib1", "pi_b"} -> <<pointsB, Wires>>
    [] OTHER -> <<pointsC, (nPublic + 1) .. (nVars - 1)>>

RunMsm(t) ==
  /\ task[t] = "msm"
  /\ msm' = [msm EXCEPT ![t] = Total([v \in Points(t)[2] |-> wtns[v] * Points(t)[1][v]])]
  /\ task' = [task EXCEPT ![t] = "done"]
  /\ UNCHANGED <<wtns, pc, buf, r, s, proof, faults, deferred>>

\* ifft, the shift to the odd half of the domain of twice the size, fft.
\* A write to a freed array goes nowhere.
\* Mutant of Shifted: the shift is left out.
NotShifted(y) == y
Shifted(y) == [i \in Domain |-> Mul(y[i], root(Log2(domainSize) + 1, i))]

RunFft(t) ==
  /\ task[t] \in {"ifft", "shift", "fft"}
  /\ buf' = IF buf[t] = Freed THEN buf ELSE [buf EXCEPT ![t] =
              CASE task[t] = "ifft"  -> InverseDFT(@)
                [] task[t] = "shift" -> Shifted(@)
                [] OTHER             -> DFT(@)]
  /\ task' = [task EXCEPT ![t] =
                CASE @ = "ifft" -> "shift" [] @ = "shift" -> "fft" [] OTHER -> "done"]
  /\ UNCHANGED <<wtns, pc, msm, r, s, proof, faults, deferred>>

Throw(t) ==
  /\ Running(t) /\ faults < MaxFaults
  /\ task' = [task EXCEPT ![t] = "threw"] /\ faults' = faults + 1
  /\ UNCHANGED <<wtns, pc, msm, buf, r, s, proof, deferred>>

Run(t) == (t \in Range1(Msms) /\ RunMsm(t)) \/ (t \in Range1(Ffts) /\ RunFft(t))

Main ==
  \/ \E k \in 1 .. 4 : LaunchMsm(k) \/ JoinMsm(k)
  \/ \E k \in 1 .. 3 : New(k) \/ LaunchFft(k) \/ JoinFft(k)
  \/ Coefs \/ Abc \/ MsmH \/ Assemble \/ DestroyFutures \/ Free \/ Leave

Sample == \E x \in Draws : SampleR(x) \/ SampleS(x)

Finished == pc = <<"left">> /\ UNCHANGED vars

Next == Main \/ Sample \/ Finished \/ \E t \in Tasks : Run(t) \/ Throw(t)

Spec == Init /\ [][Next]_vars

--------------------------------------------------------------------------------
\* Type invariant: an accepted r or s is a field element.
TypeOK ==
  /\ wtns \in Witnesses
  /\ task \in [Tasks -> {"none", "deferred", "msm", "ifft", "shift", "fft", "done", "threw"}]
  /\ \A t \in DOMAIN msm : msm[t] \in Field \cup {Unset}
  /\ \A x \in DOMAIN buf : buf[x] = Freed \/ buf[x] \in [Domain -> Field]
  /\ pc[1] \in {"get", "assemble"} => r \in Field /\ s \in Field
  /\ faults \in 0 .. MaxFaults /\ deferred \in 0 .. MaxDeferred

\* A proof that is returned verifies, whatever the order in which the tasks ran,
\* which of them were deferred, and whatever r and s are.
ProofVerifies == pc = <<"left">> /\ proof # <<>> => Verifies(proof)

\* No task outlives what it refers to: the arrays, which are freed at the end of
\* the scope, and the locals of the function; after an exception too.
NoUseAfterFree ==
  \A t \in Tasks : Running(t) =>
    /\ pc # <<"left">>
    /\ t \in Range1(Ffts) => buf[t] # Freed

\* While a transform works on an array, the function does not read or write it.
TransformsAlone ==
  pc[1] \in {"abc", "H", "sample_r", "sample_s", "get", "assemble"} =>
    \A t \in Range1(Ffts) : task[t] = "done"
================================================================================
