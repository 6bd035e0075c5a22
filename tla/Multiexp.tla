-------------------------------- MODULE Multiexp --------------------------------
(***************************************************************************)
(* ParallelMultiexp::multiexp (multiexp.cpp): the sum of scalars[i] times  *)
(* bases[i] by buckets.  Chunk after chunk of bits of the scalars, every   *)
(* thread adds bases into buckets of its own (processChunk), the buckets   *)
(* of the threads are packed into those of thread 0 (packThreads), and the *)
(* packed ones are folded in halves (reduce).  The loops over the points,  *)
(* the buckets and the upper half are parallel_fors: their bodies run in   *)
(* any order, on any thread.  A single scalar goes through Naf instead.    *)
(*                                                                         *)
(* The group is written additively, as the integers modulo Q: what the     *)
(* algorithm must get right is which multiple of which base it adds.       *)
(***************************************************************************)
EXTENDS Naf

CONSTANTS
  Threads,        \* of the tbb arena; a natural number
  WordBytes,      \* bytes of the word that getChunk reads at once
  MinBits, MaxBits,  \* PME2_MIN_CHUNK_SIZE_BITS, PME2_MAX_CHUNK_SIZE_BITS
  UseGpu,         \* built with USE_ICICLE_GPU
  Radix,          \* the radix of the Montgomery form
  Calls           \* the calls to check: records of bases and scalars

ASSUME SizesAssumption ==
  /\ Threads \in Nat \ {0} /\ ByteBits \in Nat \ {0}
  /\ ScalarBytes \in Nat /\ WordBytes \in 1 .. ScalarBytes
  /\ MinBits \in Nat \ {0} /\ MaxBits \in Nat /\ MinBits <= MaxBits
  /\ MaxBits + ByteBits - 1 <= WordBytes * ByteBits
  /\ Radix \in Nat /\ Radix % Q # 0

\* A scalar for every base, of no more bytes than scalarSize.
ASSUME CallsAssumption ==
  \A c \in Calls : /\ c.bases \in Seq(Field)
                   /\ c.scalars \in Seq(0 .. 2 ^ ScalarBits - 1)
                   /\ Len(c.scalars) = Len(c.bases)

VARIABLES
  call,       \* bases and scalars
  phase, chunk, bits,   \* bits: nBits of the current call of reduce
  todo,       \* the bodies of the current loop still to run
  accs,       \* the buckets of each thread
  sall,       \* reduce: the sum of what each thread has folded
  upper,      \* the multiples of 2^k set aside by the calls of reduce
  results,    \* chunkResults
  r, onGpu

vars == <<nafVars, call, phase, chunk, bits, todo, accs, sall, upper, results, r, onGpu>>

ThreadIds  == 0 .. Threads - 1
n          == Len(call.bases)
Points     == 1 .. n

\* aptos::log2, of 0 too.
log2(m) == IF m = 0 THEN 0 ELSE CHOOSE k \in 0 .. m : 2 ^ k <= m /\ m < 2 ^ (k + 1)

bitsPerChunk == Max({MinBits, Min({MaxBits, log2(n \div 2)})})
\* Mutant of nChunks: the last, shorter chunk is forgotten.
ChunksRoundedDown == ScalarBits \div bitsPerChunk

nChunks == ((ScalarBits - 1) \div bitsPerChunk) + 1
Buckets == 0 .. 2 ^ bitsPerChunk - 1

\* The bits of scalar sc in chunk c: of a word read at the byte where they start,
\* or at the last word of the scalar.
getChunk(sc, c) ==
  LET bitStart  == c * bitsPerChunk
      byteStart == Min({bitStart \div ByteBits, ScalarBytes - WordBytes})
      word      == (sc \div 2 ^ (byteStart * ByteBits)) % 2 ^ (WordBytes * ByteBits)
      efective  == Min({bitsPerChunk, ScalarBits - bitStart})
  IN (word \div 2 ^ (bitStart - byteStart * ByteBits)) % 2 ^ efective

Zeros == [t \in ThreadIds |-> [v \in Buckets |-> 0]]

Init ==
  /\ call \in Calls
  /\ phase = "start" /\ chunk = 0 /\ bits = 0 /\ todo = {}
  /\ accs = <<>> /\ sall = <<>> /\ upper = 0 /\ results = <<>>
  /\ r = 0 /\ onGpu = FALSE
  /\ NafIdle

\* msm_g1, msm_g2: scalars in Montgomery form (are_scalars_montgomery_form).
GpuMsm ==
  /\ phase = "start" /\ UseGpu
  /\ r' = Total([i \in Points |-> call.scalars[i] * Inv(Radix % Q) * call.bases[i]])
  /\ phase' = "done" /\ onGpu' = TRUE
  /\ UNCHANGED <<nafVars, call, chunk, bits, todo, accs, sall, upper, results>>

\* No GPU, or it fails: the special cases, or the first chunk.
Start ==
  /\ phase = "start"
  /\ \/ n = 0 /\ r' = 0 /\ phase' = "done" /\ UNCHANGED <<nafVars, todo, accs>>
     \/ n = 1 /\ NafStart(call.scalars[1]) /\ phase' = "naf" /\ UNCHANGED <<r, todo, accs>>
     \/ /\ n > 1 /\ accs' = Zeros
        /\ phase' = "process" /\ todo' = Points
        /\ UNCHANGED <<nafVars, r>>
  /\ UNCHANGED <<call, chunk, bits, sall, upper, results, onGpu>>

\* The body of g.mulByScalar.
BuildNaf ==
  /\ phase = "naf" /\ BuildByte(call.scalars[1])
  /\ UNCHANGED <<call, phase, chunk, bits, todo, accs, sall, upper, results, r, onGpu>>

MulByScalar ==
  /\ phase = "naf" /\ byte = ScalarBytes + 2
  /\ r' = nafMulByScalar(call.bases[1])
  /\ phase' = "done"
  /\ UNCHANGED <<nafVars, call, chunk, bits, todo, accs, sall, upper, results, onGpu>>

\* A body of processChunk, on thread t.
Process(i, t) ==
  /\ phase = "process" /\ i \in todo
  /\ LET v == getChunk(call.scalars[i], chunk) IN
     accs' = IF call.bases[i] = 0 \/ v = 0 THEN accs
             ELSE [accs EXCEPT ![t][v] = Add(@, call.bases[i])]
  /\ todo' = todo \ {i}
  /\ UNCHANGED <<nafVars, call, phase, chunk, bits, sall, upper, results, r, onGpu>>

\* packThreads: the bodies share no bucket, and one thread or many do the same.
Pack ==
  /\ phase = "process" /\ todo = {}
  /\ accs' = [Zeros EXCEPT ![0] =
                [v \in Buckets |-> Total([t \in ThreadIds |-> accs[t][v]])]]
  /\ phase' = "reduce" /\ bits' = bitsPerChunk
  /\ todo' = 0 .. 2 ^ (bitsPerChunk - 1) - 1
  /\ sall' = [t \in ThreadIds |-> 0] /\ upper' = 0
  /\ UNCHANGED <<nafVars, call, chunk, results, r, onGpu>>

\* A body of the loop of reduce: bucket ndiv2 + i is folded onto bucket i.
Fold(i, t) ==
  /\ phase = "reduce" /\ bits > 1 /\ i \in todo
  /\ LET high == 2 ^ (bits - 1) + i IN
     /\ accs' = [accs EXCEPT ![0][i] = Add(@, accs[0][high]), ![0][high] = 0]
     /\ sall' = [sall EXCEPT ![t] = Add(@, accs[0][high])]
  /\ todo' = todo \ {i}
  /\ UNCHANGED <<nafVars, call, phase, chunk, bits, upper, results, r, onGpu>>

\* The loop is over: bucket ndiv2 collects what was folded, to be doubled nBits-1
\* times once the inner call returns and cleared then; the inner call begins.
Recurse ==
  /\ phase = "reduce" /\ bits > 1 /\ todo = {}
  /\ upper' = Add(upper, Mul(2 ^ (bits - 1), Total(sall)))
  /\ bits' = bits - 1
  /\ todo' = 0 .. 2 ^ (bits - 2) - 1
  /\ sall' = [t \in ThreadIds |-> 0]
  /\ UNCHANGED <<nafVars, call, phase, chunk, accs, results, r, onGpu>>

\* The innermost call returns bucket 1, and clears it.  After the last chunk the
\* results are put together, the highest first.
\* Mutant of EndReduce: bucket 1 is not cleared.
BucketKept ==
  /\ phase = "reduce" /\ bits = 1
  /\ results' = Append(results, Add(accs[0][1], upper))
  /\ IF chunk + 1 < nChunks
     THEN phase' = "process" /\ chunk' = chunk + 1 /\ todo' = Points
     ELSE phase' = "horner" /\ todo' = {} /\ UNCHANGED chunk
  /\ UNCHANGED <<nafVars, call, accs, bits, sall, upper, r, onGpu>>

EndReduce ==
  /\ phase = "reduce" /\ bits = 1
  /\ results' = Append(results, Add(accs[0][1], upper))
  /\ accs' = [accs EXCEPT ![0][1] = 0]
  /\ IF chunk + 1 < nChunks
     THEN phase' = "process" /\ chunk' = chunk + 1 /\ todo' = Points
     ELSE phase' = "horner" /\ todo' = {} /\ UNCHANGED chunk
  /\ UNCHANGED <<nafVars, call, bits, sall, upper, r, onGpu>>

Horner ==
  /\ phase = "horner"
  /\ LET acc[j \in 1 .. nChunks] ==
           IF j = nChunks THEN results[j]
           ELSE Add(Mul(2 ^ bitsPerChunk, acc[j + 1]), results[j]) IN
     r' = acc[1]
  /\ phase' = "done"
  /\ UNCHANGED <<nafVars, call, chunk, bits, todo, accs, sall, upper, results, onGpu>>

Finished == phase = "done" /\ UNCHANGED vars

Next ==
  \/ GpuMsm \/ Start \/ BuildNaf \/ MulByScalar \/ Pack \/ Recurse \/ EndReduce \/ Horner \/ Finished
  \/ \E i \in todo, t \in ThreadIds : Process(i, t) \/ Fold(i, t)

Spec == Init /\ [][Next]_vars

--------------------------------------------------------------------------------
\* Type invariant.
TypeOK ==
  /\ NafTypeOK
  /\ call \in Calls
  /\ phase \in {"start", "naf", "process", "reduce", "horner", "done"}
  /\ chunk \in 0 .. nChunks - 1 /\ bits \in 0 .. bitsPerChunk
  /\ todo \subseteq Points \cup Buckets
  /\ accs = <<>> \/ accs \in [ThreadIds -> [Buckets -> Field]]
  /\ upper \in Field /\ r \in Field /\ onGpu \in BOOLEAN
  /\ results \in Seq(Field) /\ Len(results) <= nChunks

Expected == Total([i \in Points |-> call.scalars[i] * call.bases[i]])

\* While the points are processed, the buckets of a value hold between them the
\* bases processed that have this value in the chunk, and nothing of the chunks
\* before: every bucket but bucket 0 is clear when a chunk begins.
BucketSums ==
  phase = "process" =>
    \A v \in Buckets \ {0} :
      Total([t \in ThreadIds |-> accs[t][v]]) =
      Total([i \in {j \in Points \ todo : getChunk(call.scalars[j], chunk) = v} |->
               call.bases[i]])

\* The CPU kernel computes the sum, however its loops are scheduled.
CpuCorrect == phase = "done" /\ ~ onGpu => r = Expected

\* "Scalars and points are already in Montgomery form inside Rapidsnark"
\* (ICICLE_INTEGRATION.md:44), so that the sum is the same on the GPU.
SameOnGpu == phase = "done" => r = Expected
================================================================================
