---------------------------- MODULE FullProverProofs ----------------------------
(***************************************************************************)
(* The prover and the library around it, for every circuit, every witness  *)
(* of it, every setup, every key and witness file and every number of      *)
(* requests, faults and deferred tasks.                                    *)
(*                                                                         *)
(* First one call of Prover::prove: its lifetimes, that is when a task may *)
(* run, given where the function is, and what is allocated then; and the   *)
(* algebra of key and witness as polynomials at tau, with what the arrays  *)
(* and results hold at each statement: the proof verifies.                 *)
(*                                                                         *)
(* Then the library: what it holds at each point, that what was shown of   *)
(* one call holds from request to request, and that it implements          *)
(* ProverLibrary.                                                          *)
(***************************************************************************)
EXTENDS FullProver, FieldProofs


MsmTasks == {"pi_a", "pib1", "pi_b", "pi_c"}
FftTasks == {"a", "b", "c"}

States  == {"none", "deferred", "msm", "ifft", "shift", "fft", "done", "threw"}
Early   == {"launch", "new", "coefs"}
Joined  == {"abc", "H", "sample_r", "sample_s", "get", "assemble"}
Leaving == {"~buffers", "~msms", "left"}

\* An array that is allocated has an element for each point of the domain.
Memory ==
  /\ task \in [Tasks -> States]
  /\ DOMAIN buf = FftTasks
  /\ \A x \in FftTasks : buf[x] = Freed \/ DOMAIN buf[x] = Domain

\* No transform exists before the arrays are filled.
NoneYet == pc[1] \in Early => \A t \in FftTasks : task[t] = "none"

\* Where transforms are launched, or a deferred one is started, the arrays are there.
Allocated == pc[1] \in {"transform", "join"} => \A x \in FftTasks : buf[x] # Freed

\* A transform that runs has its array.
HasArray == \A t \in FftTasks : Running(t) => buf[t] # Freed

\* The transforms that have been waited for are done.
JoinedSoFar ==
  /\ pc[1] = "join" => \A j \in 1 .. 3 : j < pc[2] => task[Ffts[j]] = "done"
  /\ pc[1] \in Joined => \A t \in FftTasks : task[t] = "done"

\* Nothing runs any more where its futures are destroyed.
Quiet ==
  /\ pc[1] \in Leaving => \A t \in FftTasks : ~ Running(t)
  /\ pc[1] = "left" => \A t \in MsmTasks : ~ Running(t)

Lifetimes == Memory /\ NoneYet /\ Allocated /\ HasArray /\ JoinedSoFar /\ Quiet

--------------------------------------------------------------------------------
\* Tasks are told apart by their names.
LEMMA Names ==
  /\ Range1(Msms) = MsmTasks /\ Range1(Ffts) = FftTasks
  /\ MsmTasks \cup FftTasks = Tasks /\ MsmTasks \cap FftTasks = {}
  /\ \A k \in 1 .. 4 : Msms[k] \in MsmTasks
  /\ \A k \in 1 .. 3 : Ffts[k] \in FftTasks
  /\ \A t \in FftTasks : \E k \in 1 .. 3 : t = Ffts[k]
  /\ \A j, k \in 1 .. 3 : j # k => Ffts[j] # Ffts[k]
<1>1. Range1(Msms) = MsmTasks
  BY DEF Range1, Msms, MsmTasks
<1>2. Range1(Ffts) = FftTasks
  BY DEF Range1, Ffts, FftTasks
<1>3. MsmTasks \cup FftTasks = Tasks /\ MsmTasks \cap FftTasks = {}
  BY DEF MsmTasks, FftTasks, Tasks
<1>4. \A k \in 1 .. 4 : Msms[k] \in MsmTasks
  BY DEF Msms, MsmTasks
<1>5. /\ \A k \in 1 .. 3 : Ffts[k] \in FftTasks
      /\ \A t \in FftTasks : \E k \in 1 .. 3 : t = Ffts[k]
      /\ \A j, k \in 1 .. 3 : j # k => Ffts[j] # Ffts[k]
  BY DEF Ffts, FftTasks
<1> QED  BY <1>1, <1>2, <1>3, <1>4, <1>5

\* An array over the domain is not a null pointer.
LEMMA DomainNotFreed == \A f : DOMAIN f = Domain => f # Freed
BY SizeAssumption DEF Domain, Freed

\* No task exists before the call begins.
LEMMA InitLifetimes == Init => Lifetimes
<1> SUFFICES ASSUME Init PROVE Lifetimes
  OBVIOUS
<1>1. /\ pc = <<"launch", 1>> /\ \A t \in Tasks : task[t] = "none"
      /\ task = [t \in Tasks |-> "none"]
      /\ buf = [x \in FftTasks |-> Freed]
  BY DEF Init, FftTasks
<1>2. Memory
  BY <1>1 DEF Memory, States
<1>3. NoneYet /\ Allocated /\ HasArray /\ JoinedSoFar /\ Quiet
  BY <1>1, Names DEF NoneYet, Allocated, HasArray, JoinedSoFar, Quiet, Joined, Leaving, Running
<1> QED  BY <1>2, <1>3 DEF Lifetimes

\* A launch begins a multiexponentiation, or defers it.
LEMMA LaunchMsmLifetimes ==
  ASSUME Lifetimes, NEW k \in 1 .. 4, LaunchMsm(k) PROVE Lifetimes'
<1>1. PICK b \in {"msm", "deferred"} : task' = [task EXCEPT ![Msms[k]] = b]
  BY DEF LaunchMsm, Launch
<1>2. /\ pc = <<"launch", k>> /\ UNCHANGED buf
      /\ pc' = IF k < 4 THEN <<"launch", k + 1>> ELSE <<"new", 1>>
  BY DEF LaunchMsm, Goto
<1>3. pc[1] = "launch" /\ pc'[1] \in {"launch", "new"}
  BY <1>2
<1>4. \A t \in FftTasks : task'[t] = task[t] /\ task[t] = "none"
  BY <1>1, <1>3, Names DEF Lifetimes, Memory, NoneYet, Early
<1>5. Memory'
  BY <1>1, <1>2, Names DEF Lifetimes, Memory, States
<1>6. NoneYet' /\ HasArray' /\ Quiet' /\ Allocated'
  BY <1>2, <1>3, <1>4 DEF NoneYet, HasArray, Quiet, Allocated, Leaving, Running
<1>7. JoinedSoFar'
  BY <1>3 DEF JoinedSoFar, Joined
<1> QED  BY <1>5, <1>6, <1>7 DEF Lifetimes

\* An array is allocated, or there is no memory for it.
LEMMA NewLifetimes == ASSUME Lifetimes, NEW k \in 1 .. 3, New(k) PROVE Lifetimes'
<1>1. /\ pc = <<"new", k>> /\ UNCHANGED task
      /\ \/ /\ buf' = [buf EXCEPT ![Ffts[k]] = [i \in Domain |-> Q - 1]]
            /\ pc' = IF k < 3 THEN <<"new", k + 1>> ELSE <<"coefs">>
         \/ pc' = <<"~futures">> /\ UNCHANGED buf
  BY DEF New, Goto
<1>2. pc[1] = "new" /\ pc'[1] \in {"new", "coefs", "~futures"}
  BY <1>1
<1>3. \A t \in FftTasks : task'[t] = "none"
  BY <1>1, <1>2 DEF Lifetimes, NoneYet, Early
<1>4. Memory'
  BY <1>1, Names DEF Lifetimes, Memory
<1>5. NoneYet' /\ HasArray' /\ Quiet' /\ Allocated' /\ JoinedSoFar'
  BY <1>2, <1>3 DEF NoneYet, HasArray, Quiet, Allocated, JoinedSoFar, Leaving, Joined, Running
<1> QED  BY <1>4, <1>5 DEF Lifetimes

\* The arrays are filled: all of them are there.
LEMMA CoefsLifetimes == ASSUME Lifetimes, Coefs PROVE Lifetimes'
<1>1. /\ pc = <<"coefs">> /\ pc' = <<"transform", 1>> /\ UNCHANGED task
      /\ DOMAIN buf' = FftTasks /\ \A x \in FftTasks : DOMAIN buf'[x] = Domain
  <2>1. pc = <<"coefs">> /\ pc' = <<"transform", 1>> /\ UNCHANGED task
    BY DEF Coefs, Goto
  <2>2. DOMAIN buf' = {"a", "b", "c"}
    BY DEF Coefs
  <2>3. DOMAIN buf'["a"] = Domain
    BY DEF Coefs, Combination
  <2>4. DOMAIN buf'["b"] = Domain
    BY DEF Coefs, Combination
  <2>5. DOMAIN buf'["c"] = Domain
    BY DEF Coefs
  <2> QED  BY <2>1, <2>2, <2>3, <2>4, <2>5 DEF FftTasks
<1>2. pc[1] = "coefs" /\ pc'[1] = "transform"
  BY <1>1
<1>3. \A t \in FftTasks : task'[t] = "none" /\ buf'[t] # Freed
  BY <1>1, <1>2, DomainNotFreed DEF Lifetimes, NoneYet, Early
<1>4. Memory'
  BY <1>1 DEF Lifetimes, Memory
<1>5. NoneYet' /\ HasArray' /\ Quiet' /\ Allocated' /\ JoinedSoFar'
  BY <1>2, <1>3 DEF NoneYet, HasArray, Quiet, Allocated, JoinedSoFar, Leaving, Joined, Early
<1> QED  BY <1>4, <1>5 DEF Lifetimes

\* A transform is launched when its array is filled.
LEMMA LaunchFftLifetimes ==
  ASSUME Lifetimes, NEW k \in 1 .. 3, LaunchFft(k) PROVE Lifetimes'
<1>1. PICK b \in {"ifft", "deferred"} : task' = [task EXCEPT ![Ffts[k]] = b]
  BY DEF LaunchFft, Launch
<1>2. /\ pc = <<"transform", k>> /\ UNCHANGED buf
      /\ pc' = IF k < 3 THEN <<"transform", k + 1>> ELSE <<"join", 1>>
  BY DEF LaunchFft, Goto
<1>3. /\ pc[1] = "transform" /\ pc'[1] \in {"transform", "join"}
      /\ pc'[1] = "join" => pc'[2] = 1
  BY <1>2
<1>4. \A t \in FftTasks : buf'[t] # Freed
  BY <1>2, <1>3 DEF Lifetimes, Allocated
<1>5. Memory'
  BY <1>1, <1>2, Names DEF Lifetimes, Memory, States
<1>6. NoneYet' /\ HasArray' /\ Quiet' /\ Allocated'
  BY <1>3, <1>4 DEF NoneYet, HasArray, Quiet, Allocated, Leaving, Early
<1>7. JoinedSoFar'
  <2>1. \A j \in 1 .. 3 : ~ j < 1
    OBVIOUS
  <2>2. ASSUME NEW j \in 1 .. 3, pc'[1] = "join", j < pc'[2] PROVE FALSE
    <3>1. pc'[2] = 1
      BY <1>3, <2>2
    <3> QED  BY <2>1, <2>2, <3>1
  <2>3. pc'[1] \notin Joined
    BY <1>3 DEF Joined
  <2> QED  BY <2>2, <2>3 DEF JoinedSoFar
<1> QED  BY <1>5, <1>6, <1>7 DEF Lifetimes

\* A wait for a transform: it is started if it was deferred, and otherwise ended.
LEMMA JoinFftLifetimes ==
  ASSUME Lifetimes, NEW k \in 1 .. 3, JoinFft(k) PROVE Lifetimes'
<1> DEFINE t == Ffts[k]
<1>1. /\ pc = <<"join", k>> /\ UNCHANGED buf /\ pc[1] = "join" /\ pc[2] = k
      /\ Get(t, "ifft", IF k < 3 THEN <<"join", k + 1>> ELSE <<"abc">>)
  BY DEF JoinFft
<1>2. t \in FftTasks /\ t \in Tasks
  BY Names
<1>3. \A x \in FftTasks : buf'[x] # Freed
  BY <1>1 DEF Lifetimes, Allocated
<1>4. CASE task[t] = "deferred" /\ task' = [task EXCEPT ![t] = "ifft"] /\ UNCHANGED pc
  <2>1. Memory'
    BY <1>1, <1>2, <1>4 DEF Lifetimes, Memory, States
  <2>2. NoneYet' /\ HasArray' /\ Quiet' /\ Allocated'
    BY <1>1, <1>3, <1>4 DEF NoneYet, HasArray, Quiet, Allocated, Leaving, Early
  <2>3. JoinedSoFar'
    BY <1>1, <1>2, <1>4, Names DEF Lifetimes, Memory, JoinedSoFar, Joined
  <2> QED  BY <2>1, <2>2, <2>3 DEF Lifetimes
<1>5. CASE task[t] = "done" /\ UNCHANGED task
           /\ pc' = IF k < 3 THEN <<"join", k + 1>> ELSE <<"abc">>
  <2>1. /\ pc'[1] \in {"join", "abc"} /\ (pc'[1] = "join" => pc'[2] = k + 1)
        /\ pc'[1] = "abc" => k = 3
    BY <1>5
  <2>2. \A j \in 1 .. 3 : j < k + 1 => task[Ffts[j]] = "done"
    BY <1>1, <1>5 DEF Lifetimes, JoinedSoFar
  <2>3. k = 3 => \A x \in FftTasks : task[x] = "done"
    BY <2>2, Names
  <2>4. Memory' /\ NoneYet' /\ HasArray' /\ Quiet' /\ Allocated'
    BY <1>1, <1>3, <1>5, <2>1
       DEF Lifetimes, Memory, NoneYet, HasArray, Quiet, Allocated, Leaving, Early
  <2>5. JoinedSoFar'
    BY <1>5, <2>1, <2>2, <2>3 DEF JoinedSoFar, Joined
  <2> QED  BY <2>4, <2>5 DEF Lifetimes
<1>6. CASE task[t] = "threw" /\ pc' = <<"~futures">> /\ UNCHANGED task
  <2>1. pc'[1] = "~futures"
    BY <1>6
  <2> QED  BY <1>1, <1>3, <1>6, <2>1
       DEF Lifetimes, Memory, NoneYet, HasArray, Quiet, Allocated, JoinedSoFar, Leaving, Early,
           Joined
<1> QED  BY <1>1, <1>4, <1>5, <1>6 DEF Get, Goto

\* After the transforms, no step of the function starts one.
LEMMA AfterJoin ==
  ASSUME Lifetimes, Memory', pc[1] \in Joined, pc'[1] \in Joined \cup {"~futures"},
         \A t \in FftTasks : task'[t] = task[t]
  PROVE  Lifetimes'
<1>1. \A t \in FftTasks : task'[t] = "done"
  BY DEF Lifetimes, JoinedSoFar
<1>2. /\ pc'[1] \notin Early /\ pc'[1] \notin {"transform", "join"}
      /\ pc'[1] \notin Leaving /\ pc'[1] # "left" /\ pc'[1] # "join"
  BY DEF Joined, Early, Leaving
<1>3. NoneYet' /\ Allocated' /\ HasArray' /\ JoinedSoFar' /\ Quiet'
  BY <1>1, <1>2 DEF NoneYet, Allocated, HasArray, JoinedSoFar, Quiet, Running
<1> QED  BY <1>3 DEF Lifetimes

\* The steps between the joins leave tasks and arrays alone.
LEMMA AbcLifetimes == ASSUME Lifetimes, Abc PROVE Lifetimes'
<1>1. /\ pc = <<"abc">> /\ pc' = <<"H">> /\ UNCHANGED task
      /\ buf' = [buf EXCEPT !.a = [i \in Domain |-> Sub(Mul(buf.a[i], buf.b[i]), buf.c[i])]]
  BY DEF Abc, Goto
<1>2. pc[1] \in Joined /\ pc'[1] \in Joined
  BY <1>1 DEF Joined
<1>3. Memory'
  BY <1>1 DEF Lifetimes, Memory
<1> QED  BY <1>1, <1>2, <1>3, AfterJoin

LEMMA MsmHLifetimes == ASSUME Lifetimes, MsmH PROVE Lifetimes'
<1>1. /\ pc = <<"H">> /\ UNCHANGED <<task, buf>>
      /\ pc' = <<"sample_r">> \/ pc' = <<"~futures">>
  BY DEF MsmH, Goto
<1>2. pc[1] \in Joined /\ pc'[1] \in Joined \cup {"~futures"}
  BY <1>1 DEF Joined
<1>3. Memory'
  BY <1>1 DEF Lifetimes, Memory
<1> QED  BY <1>1, <1>2, <1>3, AfterJoin

LEMMA SampleLifetimes == ASSUME Lifetimes, Sample PROVE Lifetimes'
<1>1. /\ pc = <<"sample_r">> \/ pc = <<"sample_s">>
      /\ pc' = pc \/ pc' = <<"sample_s">> \/ pc' = <<"get", 1>>
      /\ UNCHANGED <<task, buf>>
  BY DEF Sample, SampleR, SampleS, Goto
<1>2. pc[1] \in Joined /\ pc'[1] \in Joined
  BY <1>1 DEF Joined
<1>3. Memory'
  BY <1>1 DEF Lifetimes, Memory
<1> QED  BY <1>1, <1>2, <1>3, AfterJoin

LEMMA AssembleLifetimes == ASSUME Lifetimes, Assemble PROVE Lifetimes'
<1>1. pc = <<"assemble">> /\ UNCHANGED <<task, buf>> /\ pc' = <<"~futures">>
  BY DEF Assemble, Goto
<1>2. pc[1] \in Joined /\ pc'[1] = "~futures"
  BY <1>1 DEF Joined
<1>3. Memory'
  BY <1>1 DEF Lifetimes, Memory
<1> QED  BY <1>1, <1>2, <1>3, AfterJoin

\* A multiexponentiation is waited for; what it throws ends the call.
LEMMA JoinMsmLifetimes ==
  ASSUME Lifetimes, NEW k \in 1 .. 4, JoinMsm(k) PROVE Lifetimes'
<1>1. /\ pc = <<"get", k>> /\ UNCHANGED buf
      /\ pc' = pc \/ pc' = <<"get", k + 1>> \/ pc' = <<"assemble">> \/ pc' = <<"~futures">>
      /\ task' \in {task, [task EXCEPT ![Msms[k]] = "msm"]}
  BY DEF JoinMsm, Get, Goto
<1>2. pc[1] \in Joined /\ pc'[1] \in Joined \cup {"~futures"}
  BY <1>1 DEF Joined
<1>3. Memory'
  BY <1>1, Names DEF Lifetimes, Memory, States
<1>4. \A t \in FftTasks : task'[t] = task[t]
  BY <1>1, Names DEF Lifetimes, Memory
<1> QED  BY <1>2, <1>3, <1>4, AfterJoin

\* The destructors of the futures wait.
LEMMA LeaveLifetimes ==
  ASSUME Lifetimes, DestroyFutures \/ Free \/ Leave PROVE Lifetimes'
<1>1. /\ UNCHANGED task /\ Memory'
      /\ pc'[1] \in Leaving /\ \A t \in FftTasks : ~ Running(t)
      /\ pc'[1] = "left" => \A t \in MsmTasks : ~ Running(t)
  <2>1. CASE DestroyFutures
    <3>1. pc' = <<"~buffers">> /\ UNCHANGED <<task, buf>>
      BY <2>1 DEF DestroyFutures, Goto
    <3>2. \A t \in FftTasks : ~ Running(t)
      BY <2>1, Names DEF DestroyFutures
    <3>3. Memory'
      BY <3>1 DEF Lifetimes, Memory
    <3> QED  BY <3>1, <3>2, <3>3 DEF Leaving
  <2>2. CASE Free
    <3>1. /\ pc = <<"~buffers">> /\ pc' = <<"~msms">> /\ UNCHANGED task
          /\ buf' = [x \in FftTasks |-> Freed]
      BY <2>2 DEF Free, Goto, FftTasks
    <3>2. \A t \in FftTasks : ~ Running(t)
      BY <3>1 DEF Lifetimes, Quiet, Leaving
    <3>3. Memory'
      BY <3>1 DEF Lifetimes, Memory
    <3> QED  BY <3>1, <3>2, <3>3 DEF Leaving
  <2>3. CASE Leave
    <3>1. pc = <<"~msms">> /\ pc' = <<"left">> /\ UNCHANGED <<task, buf>>
      BY <2>3 DEF Leave, Goto
    <3>2. \A t \in FftTasks : ~ Running(t)
      BY <3>1 DEF Lifetimes, Quiet, Leaving
    <3>3. \A t \in MsmTasks : ~ Running(t)
      BY <2>3, Names DEF Leave
    <3>4. Memory'
      BY <3>1 DEF Lifetimes, Memory
    <3> QED  BY <3>1, <3>2, <3>3, <3>4 DEF Leaving
  <2> QED  BY <2>1, <2>2, <2>3
<1>2. /\ pc'[1] \notin Early /\ pc'[1] \notin {"transform", "join"} /\ pc'[1] \notin Joined
      /\ pc'[1] # "join"
  BY <1>1 DEF Leaving, Early, Joined
<1>3. NoneYet' /\ Allocated' /\ HasArray' /\ JoinedSoFar' /\ Quiet'
  BY <1>1, <1>2 DEF NoneYet, Allocated, HasArray, JoinedSoFar, Quiet, Running
<1> QED  BY <1>1, <1>3 DEF Lifetimes

\* A multiexponentiation ends.
LEMMA RunMsmLifetimes == ASSUME Lifetimes, NEW t \in MsmTasks, RunMsm(t) PROVE Lifetimes'
<1>1. /\ task[t] = "msm" /\ task' = [task EXCEPT ![t] = "done"] /\ UNCHANGED <<pc, buf>>
  BY DEF RunMsm
<1>2. \A u \in FftTasks : task'[u] = task[u]
  BY <1>1, Names DEF Lifetimes, Memory
<1>3. t \in Tasks /\ pc[1] # "left"
  BY <1>1, Names DEF Lifetimes, Quiet, Running
<1>4. Memory'
  BY <1>1, <1>3 DEF Lifetimes, Memory, States
<1>5. NoneYet' /\ Allocated' /\ HasArray'
  BY <1>1, <1>2 DEF Lifetimes, NoneYet, Allocated, HasArray, Running
<1>6. JoinedSoFar'
  BY <1>1, <1>2, Names DEF Lifetimes, JoinedSoFar
<1>7. Quiet'
  BY <1>1, <1>2, <1>3 DEF Lifetimes, Quiet, Running
<1> QED  BY <1>4, <1>5, <1>6, <1>7 DEF Lifetimes

\* What runs is neither before its launch, nor waited for, nor past its destructor.
LEMMA RunningWhere ==
  ASSUME Lifetimes, NEW t \in FftTasks, Running(t)
  PROVE  /\ pc[1] \notin Early /\ pc[1] \notin Joined /\ pc[1] \notin Leaving
         /\ \A j \in 1 .. 3 : pc[1] = "join" /\ j < pc[2] => Ffts[j] # t
         /\ buf[t] # Freed
BY Names DEF Lifetimes, NoneYet, JoinedSoFar, Quiet, HasArray, Running

\* A step of a running transform keeps its array, whatever it becomes of the task.
LEMMA TransformLifetimes ==
  ASSUME Lifetimes, NEW t \in FftTasks, Running(t), Memory', UNCHANGED pc,
         \A u \in Tasks \ {t} : task'[u] = task[u],
         \A u \in FftTasks : buf[u] # Freed => buf'[u] # Freed
  PROVE  Lifetimes'
<1>1. /\ pc[1] \notin Early /\ pc[1] \notin Joined /\ pc[1] \notin Leaving
      /\ \A j \in 1 .. 3 : pc[1] = "join" /\ j < pc[2] => Ffts[j] # t
      /\ buf'[t] # Freed
  BY RunningWhere
<1>2. \A u \in FftTasks \ {t} : task'[u] = task[u]
  BY Names
<1>3. HasArray'
  <2> SUFFICES ASSUME NEW u \in FftTasks, Running(u)' PROVE buf'[u] # Freed
    BY DEF HasArray
  <2>1. CASE u = t
    BY <1>1, <2>1
  <2>2. CASE u # t
    BY <1>2, <2>2 DEF Lifetimes, HasArray, Running
  <2> QED  BY <2>1, <2>2
<1>4. JoinedSoFar'
  <2>1. ASSUME NEW j \in 1 .. 3, pc[1] = "join", j < pc[2]
        PROVE  task'[Ffts[j]] = "done"
    BY <1>1, <1>2, <2>1, Names DEF Lifetimes, JoinedSoFar
  <2> QED  BY <1>1, <2>1 DEF JoinedSoFar
<1>5. NoneYet' /\ Allocated' /\ Quiet'
  BY <1>1 DEF Lifetimes, NoneYet, Allocated, Quiet, Leaving
<1> QED  BY <1>3, <1>4, <1>5 DEF Lifetimes

\* A transform runs on its own array.
LEMMA RunFftLifetimes == ASSUME Lifetimes, NEW t \in FftTasks, RunFft(t) PROVE Lifetimes'
<1> DEFINE new == CASE task[t] = "ifft"  -> InverseDFT(buf[t])
                    [] task[t] = "shift" -> Shifted(buf[t])
                    [] OTHER             -> DFT(buf[t])
<1>1. /\ task[t] \in {"ifft", "shift", "fft"} /\ UNCHANGED pc
      /\ buf' = IF buf[t] = Freed THEN buf ELSE [buf EXCEPT ![t] = new]
  BY DEF RunFft
<1>2. PICK b \in {"shift", "fft", "done"} : task' = [task EXCEPT ![t] = b]
  BY DEF RunFft
<1>3. Running(t) /\ t \in Tasks
  BY <1>1, Names DEF Running
<1>4. buf[t] # Freed /\ DOMAIN buf[t] = Domain
  BY <1>3, RunningWhere DEF Lifetimes, Memory
<1>5. DOMAIN new = Domain
  <2>1. Domain = 0 .. Cardinality(Domain) - 1
    <3>1. domainSize - 1 \in Int /\ 0 \in Int /\ 0 <= domainSize - 1
      BY SizeAssumption
    <3>2. Cardinality(Domain) = domainSize
      BY <3>1, FS_Interval, SizeAssumption DEF Domain
    <3> QED  BY <3>2 DEF Domain
  <2>2. DOMAIN InverseDFT(buf[t]) = 0 .. Cardinality(DOMAIN buf[t]) - 1
    BY DEF InverseDFT
  <2>3. DOMAIN DFT(buf[t]) = 0 .. Cardinality(DOMAIN buf[t]) - 1
    BY DEF DFT
  <2>4. DOMAIN Shifted(buf[t]) = Domain
    BY DEF Shifted
  <2> QED  BY <1>4, <2>1, <2>2, <2>3, <2>4
<1> HIDE DEF new
<1>6. Memory'
  BY <1>1, <1>2, <1>3, <1>4, <1>5 DEF Lifetimes, Memory, States
<1>7. \A u \in FftTasks : buf[u] # Freed => buf'[u] # Freed
  BY <1>1, <1>4, <1>5, DomainNotFreed DEF Lifetimes, Memory
<1>8. \A u \in Tasks \ {t} : task'[u] = task[u]
  BY <1>2 DEF Lifetimes, Memory
<1> QED  BY <1>1, <1>3, <1>6, <1>7, <1>8, TransformLifetimes

\* A task that throws ends as one that is done does.
LEMMA ThrowLifetimes == ASSUME Lifetimes, NEW t \in Tasks, Throw(t) PROVE Lifetimes'
<1>1. Running(t) /\ task' = [task EXCEPT ![t] = "threw"] /\ UNCHANGED <<pc, buf>>
  BY DEF Throw
<1>2. Memory'
  BY <1>1 DEF Lifetimes, Memory, States
<1>3. \A u \in Tasks \ {t} : task'[u] = task[u]
  BY <1>1 DEF Lifetimes, Memory
<1>4. CASE t \in FftTasks
  BY <1>1, <1>2, <1>3, <1>4, TransformLifetimes
<1>5. CASE t \in MsmTasks
  <2>1. \A u \in FftTasks : task'[u] = task[u]
    BY <1>3, <1>5, Names
  <2>2. pc[1] # "left"
    BY <1>1, <1>5 DEF Lifetimes, Quiet
  <2>3. NoneYet' /\ Allocated' /\ HasArray'
    BY <1>1, <2>1 DEF Lifetimes, NoneYet, Allocated, HasArray, Running
  <2>4. JoinedSoFar'
    BY <1>1, <2>1, Names DEF Lifetimes, JoinedSoFar
  <2>5. Quiet'
    BY <1>1, <2>1, <2>2 DEF Lifetimes, Quiet, Running
  <2> QED  BY <1>2, <2>3, <2>4, <2>5 DEF Lifetimes
<1> QED  BY <1>4, <1>5, Names

\* Steps that change nothing.
LEMMA StutterLifetimes == ASSUME Lifetimes, UNCHANGED vars PROVE Lifetimes'
BY DEF vars, Lifetimes, Memory, NoneYet, Allocated, HasArray, JoinedSoFar, Quiet, Running

\* Every step keeps the lifetimes.
LEMMA NextLifetimes == ASSUME Lifetimes, [Next]_vars PROVE Lifetimes'
<1>1. CASE Main
  <2>1. ASSUME NEW k \in 1 .. 4, LaunchMsm(k) \/ JoinMsm(k) PROVE Lifetimes'
    BY <2>1, LaunchMsmLifetimes, JoinMsmLifetimes
  <2>2. ASSUME NEW k \in 1 .. 3, New(k) \/ LaunchFft(k) \/ JoinFft(k) PROVE Lifetimes'
    BY <2>2, NewLifetimes, LaunchFftLifetimes, JoinFftLifetimes
  <2>3. CASE Coefs \/ Abc \/ MsmH \/ Assemble
    BY <2>3, CoefsLifetimes, AbcLifetimes, MsmHLifetimes, AssembleLifetimes
  <2>4. CASE DestroyFutures \/ Free \/ Leave
    BY <2>4, LeaveLifetimes
  <2> QED  BY <1>1, <2>1, <2>2, <2>3, <2>4 DEF Main
<1>2. CASE Sample
  BY <1>2, SampleLifetimes
<1>3. ASSUME NEW t \in Tasks, Run(t) \/ Throw(t) PROVE Lifetimes'
  BY <1>3, Names, RunMsmLifetimes, RunFftLifetimes, ThrowLifetimes DEF Run
<1>4. CASE UNCHANGED vars
  BY <1>4, StutterLifetimes
<1> QED  BY <1>1, <1>2, <1>3, <1>4 DEF Next, Finished

\* The properties follow.
LEMMA LifetimesImply == ASSUME Lifetimes PROVE NoUseAfterFree /\ TransformsAlone
<1>1. NoUseAfterFree
  <2> SUFFICES ASSUME NEW t \in Tasks, Running(t)
               PROVE  pc # <<"left">> /\ (t \in Range1(Ffts) => buf[t] # Freed)
    BY DEF NoUseAfterFree
  <2>1. pc # <<"left">>
    <3>1. ASSUME pc = <<"left">> PROVE ~ Running(t)
      <4>1. pc[1] = "left" /\ pc[1] \in Leaving
        BY <3>1 DEF Leaving
      <4> QED  BY <4>1, Names DEF Lifetimes, Quiet
    <3> QED  BY <3>1
  <2>2. t \in Range1(Ffts) => buf[t] # Freed
    BY Names DEF Lifetimes, HasArray
  <2> QED  BY <2>1, <2>2
<1>2. TransformsAlone
  BY Names DEF Lifetimes, JoinedSoFar, Joined, TransformsAlone
<1> QED  BY <1>1, <1>2

\* The lifetimes are invariant in one call.
LEMMA Invariance == Spec => []Lifetimes
<1>1. Init => Lifetimes
  BY InitLifetimes
<1>2. Lifetimes /\ [Next]_vars => Lifetimes'
  BY NextLifetimes
<1> QED  BY <1>1, <1>2, PTL DEF Spec

\* One call of Prover::prove: no task outlives the arrays and locals it refers to,
\* after an exception too.
THEOREM NoUseAfterFreeOfCall == Spec => []NoUseAfterFree
<1>1. Lifetimes => NoUseAfterFree
  BY LifetimesImply
<1> QED  BY <1>1, Invariance, PTL

\* One call of Prover::prove: the function is at an array, or past it, only when the
\* transform that writes it is done.
THEOREM TransformsAloneInCall == Spec => []TransformsAlone
<1>1. Lifetimes => TransformsAlone
  BY LifetimesImply
<1> QED  BY <1>1, Invariance, PTL

--------------------------------------------------------------------------------
\* The algebra: what the key and the witness amount to, as polynomials at tau.
dLog == Log2(domainSize)

\* The domain of the circuit, and twice the domain, have their roots.
LEMMA Dimensions ==
  /\ dLog \in Nat /\ dLog + 1 <= logRoots /\ dLog <= logRoots /\ domainSize = 2 ^ dLog
  /\ Domain = 0 .. 2 ^ dLog - 1 /\ 0 .. 2 * domainSize - 1 = 0 .. 2 ^ (dLog + 1) - 1
  /\ IsFiniteSet(Domain) /\ IsFiniteSet(Wires) /\ Domain \subseteq Nat
<1>1. PICK d \in 0 .. domainSize : domainSize = 2 ^ d
  BY SizeAssumption
<1>2. d \in Nat /\ dLog = d
  <2>1. d \in Nat
    BY SizeAssumption
  <2>2. Log2(2 ^ d) = d
    BY <2>1, Log2Power
  <2> QED  BY <1>1, <2>1, <2>2 DEF dLog
<1>3. 2 ^ (d + 1) = 2 ^ d + 2 ^ d /\ 2 ^ d \in Nat
  BY <1>2, TwoExp
<1>4. MaxDomainSize = 2 ^ (d + 1)
  BY <1>1, <1>3, SizeAssumption
<1>5. Log2(2 ^ (d + 1)) = d + 1
  BY <1>2, Log2Power
<1>6. d + 1 <= logRoots /\ logRoots \in Nat
  BY <1>4, <1>5, LogRoots
<1>7. d <= logRoots
  BY <1>2, <1>6
<1>8. IsFiniteSet(Domain) /\ IsFiniteSet(Wires) /\ Domain \subseteq Nat
  BY FS_Interval, SizeAssumption DEF Domain, Wires
<1>9. Domain = 0 .. 2 ^ d - 1 /\ 0 .. 2 * domainSize - 1 = 0 .. 2 ^ (d + 1) - 1
  BY <1>1, <1>3 DEF Domain
<1> QED  BY <1>1, <1>2, <1>6, <1>7, <1>8, <1>9

\* The parts of the key are field elements.
LEMMA SetupFacts ==
  /\ Setup.tau \in Field /\ Setup.alpha \in Field /\ Setup.beta \in Field
  /\ Setup.gamma \in Field \ {0} /\ Setup.delta \in Field \ {0}
  /\ Setup.tau \in Int /\ Setup.alpha \in Int /\ Setup.beta \in Int
  /\ Setup.gamma \in Int /\ Setup.delta \in Int
BY MakingAssumption, FieldResidue

\* What At evaluates is the polynomial.
LEMMA AtIs ==
  ASSUME NEW x, NEW d, NEW y, DOMAIN y = 0 .. 2 ^ d - 1
  PROVE  At(y, x) = Poly(d, y, x)
BY DEF At, Poly

\* The coefficients of a matrix of the circuit, for one wire.
QapColumn(M, v) == [c \in Domain |-> M[c][v]]

\* A column of the circuit at tau, by its coefficients.
LEMMA ColumnIs ==
  ASSUME NEW M \in [Domain -> [Wires -> Field]], NEW v \in Wires
  PROVE  /\ QapColumn(M, v) \in [Domain -> Field]
         /\ Column(M, v) = Poly(dLog, QapColumn(M, v), Setup.tau)
         /\ Column(M, v) \in Field /\ Column(M, v) \in Int
<1>1. QapColumn(M, v) \in [Domain -> Field]
  BY DEF QapColumn
<1>2. Column(M, v) = At(QapColumn(M, v), Setup.tau)
  BY DEF Column, QapColumn
<1>3. At(QapColumn(M, v), Setup.tau) = Poly(dLog, QapColumn(M, v), Setup.tau)
  <2>1. DOMAIN QapColumn(M, v) = 0 .. 2 ^ dLog - 1
    BY Dimensions DEF QapColumn
  <2> QED  BY <2>1, AtIs
<1>4. Poly(dLog, QapColumn(M, v), Setup.tau) \in Field
  <2>1. QapColumn(M, v) \in [0 .. 2 ^ dLog - 1 -> Field]
    BY <1>1, Dimensions
  <2> QED  BY <2>1, Dimensions, SetupFacts, PolyIs
<1> QED  BY <1>1, <1>2, <1>3, <1>4, FieldResidue

\* The combination of a witness, as a polynomial at tau.
AtTau(w, M) == Poly(dLog, Combination(w, M), Setup.tau)

\* A witness is summed with the points of the key to the combination at tau.
LEMMA WitnessColumns ==
  ASSUME NEW M \in [Domain -> [Wires -> Field]], NEW w \in [Wires -> Field]
  PROVE  /\ Combination(w, M) \in [Domain -> Field]
         /\ AtTau(w, M) \in Field /\ AtTau(w, M) \in Int
         /\ Total([v \in Wires |-> w[v] * Column(M, v)]) = AtTau(w, M)
<1>1. \A v \in Wires : w[v] \in Int
  BY FieldResidue
<1>2. \A c \in Domain : \A v \in Wires : M[c][v] \in Field
  OBVIOUS
<1>3. Combination(w, M) \in [Domain -> Field]
  <2> SUFFICES ASSUME NEW c \in Domain PROVE Total([v \in Wires |-> w[v] * M[c][v]]) \in Field
    BY DEF Combination
  <2> DEFINE f == [v \in Wires |-> w[v] * M[c][v]]
  <2>1. \A v \in Wires : f[v] \in Int
    <3> SUFFICES ASSUME NEW v \in Wires PROVE w[v] * M[c][v] \in Int
      OBVIOUS
    <3>1. w[v] \in Int /\ M[c][v] \in Int
      BY <1>1, <1>2, FieldResidue
    <3> QED  BY <3>1
  <2>2. DOMAIN f = Wires
    OBVIOUS
  <2> HIDE DEF f
  <2>3. Total(f) \in Field
    BY <2>1, <2>2, Dimensions, TotalIs
  <2> QED  BY <2>3 DEF f
<1>4. AtTau(w, M) \in Field /\ AtTau(w, M) \in Int
  <2>1. Combination(w, M) \in [0 .. 2 ^ dLog - 1 -> Field]
    BY <1>3, Dimensions
  <2> QED  BY <2>1, Dimensions, SetupFacts, PolyIs DEF AtTau
<1>5. [v \in Wires |-> w[v] * Column(M, v)]
        = [v \in Wires |-> w[v] * Poly(dLog, [c \in 0 .. 2 ^ dLog - 1 |-> M[c][v]], Setup.tau)]
  BY ColumnIs, Dimensions DEF QapColumn
<1>6. Total([v \in Wires |-> w[v] * Poly(dLog, [c \in 0 .. 2 ^ dLog - 1 |-> M[c][v]], Setup.tau)])
        = Poly(dLog, [c \in 0 .. 2 ^ dLog - 1 |-> Total([v \in Wires |-> w[v] * M[c][v]])], Setup.tau)
  <2>1. \A c \in 0 .. 2 ^ dLog - 1 : \A v \in Wires : M[c][v] \in Field
    BY <1>2, Dimensions
  <2> DEFINE x == Setup.tau
             W == Wires
             d == dLog
  <2>2. d \in Nat /\ d <= logRoots /\ x \in Int /\ IsFiniteSet(W)
    BY Dimensions, SetupFacts
  <2>3. Combinable(d, W, w, M)
    BY <1>1, <2>1 DEF Combinable
  <2> HIDE DEF x, W, d
  <2>4. Total(ColumnsAt(d, W, w, M, x)) = Poly(d, RowsOf(d, W, w, M), x)
    BY <2>2, <2>3, PolyOfRows
  <2> QED  BY <2>4 DEF x, W, d, ColumnsAt, RowsOf
<1>7. Combination(w, M) = [c \in 0 .. 2 ^ dLog - 1 |-> Total([v \in Wires |-> w[v] * M[c][v]])]
  BY Dimensions DEF Combination
<1> QED  BY <1>3, <1>4, <1>5, <1>6, <1>7 DEF AtTau

\* The points p are the elements c divided by k.
Divided(S, w, c, k, p) ==
  /\ IsFiniteSet(S) /\ k \in Field \ {0}
  /\ \A v \in S : w[v] \in Int /\ c[v] \in Field /\ p[v] = Mul(c[v], Inv(k))

\* Their combination, in the field, and that of the elements, as an integer.
Combine(S, w, p)  == Total([v \in S |-> w[v] * p[v]])
Elements(S, w, c) == Sum([v \in S |-> w[v] * c[v]], S)

\* The one, times k, is the other.
LEMMA Undivided ==
  ASSUME NEW S, NEW w, NEW c, NEW k, NEW p, Divided(S, w, c, k, p)
  PROVE  /\ Combine(S, w, p) \in Field /\ Combine(S, w, p) \in Int
         /\ Cong(k * Combine(S, w, p), Elements(S, w, c))
<1> DEFINE f == [v \in S |-> w[v] * p[v]]
           g == [v \in S |-> w[v] * c[v]]
           h == [v \in S |-> k * f[v]]
           i == Inv(k)
<1>1. IsFiniteSet(S) /\ k \in Field \ {0} /\ k \in Int
  BY FieldResidue DEF Divided
<1>2. \A v \in S : w[v] \in Int /\ c[v] \in Int /\ p[v] = Mul(c[v], i)
  BY FieldResidue DEF Divided
<1>3. i \in Int /\ Cong(k * i, 1)
  <2>1. i \in Field /\ Mul(k, i) = 1
    BY <1>1, UnitInverse DEF Field
  <2>2. i \in Int /\ Cong(Mul(k, i), k * i)
    BY <1>1, <2>1, FieldResidue, MulCong
  <2> QED  BY <2>1, <2>2 DEF Cong
<1> HIDE DEF i
<1>4. \A v \in S : f[v] \in Int /\ g[v] \in Int /\ h[v] \in Int /\ Cong(h[v], g[v])
  <2> SUFFICES ASSUME NEW v \in S
               PROVE  f[v] \in Int /\ g[v] \in Int /\ h[v] \in Int /\ Cong(h[v], g[v])
    OBVIOUS
  <2> DEFINE x == w[v]
             y == c[v]
             z == p[v]
  <2>1. x \in Int /\ y \in Int /\ z = Mul(y, i)
    BY <1>2
  <2>2. f[v] = x * z /\ g[v] = x * y /\ h[v] = k * (x * z)
    OBVIOUS
  <2> HIDE DEF x, y, z, f, g, h
  <2>3. z \in Int /\ Cong(z, y * i)
    BY <1>3, <2>1, MulType, MulCong
  <2>4. /\ x * z \in Int /\ x * y \in Int /\ k * (x * z) \in Int /\ k * i \in Int
        /\ (k * x) * z = k * (x * z) /\ k * x \in Int /\ y * i \in Int
    BY <1>1, <1>3, <2>1, <2>3
  <2>5. Cong((k * x) * z, (k * x) * (y * i))
    BY <2>3, <2>4, CongTimes
  <2>6. Cong((x * y) * (k * i), (x * y) * 1)
    <3>1. 1 \in Int
      OBVIOUS
    <3> QED  BY <1>3, <2>4, <3>1, CongTimes, Zenon
  <2>7. (k * x) * (y * i) = (x * y) * (k * i) /\ (x * y) * 1 = x * y
    BY <1>1, <1>3, <2>1
  <2> QED  BY <2>2, <2>4, <2>5, <2>6, <2>7, Zenon DEF Cong
<1>5. DOMAIN f = S
  OBVIOUS
<1>6. \A v \in S : f[v] \in Int
  BY <1>4
<1>7. Total(f) \in Field /\ Total(f) \in Int /\ Cong(Total(f), Sum(f, S)) /\ Sum(f, S) \in Int
  <2> HIDE DEF f
  <2> QED  BY <1>1, <1>5, <1>6, TotalIs
<1>8. Sum(h, S) = k * Sum(f, S)
  <2> HIDE DEF f
  <2> QED  BY <1>1, <1>6, SumTimes
<1> HIDE DEF f, g, h
<1>9. Cong(Sum(h, S), Sum(g, S))
  BY <1>1, <1>4, SumCong
<1>10. Cong(k * Total(f), k * Sum(f, S))
  BY <1>1, <1>7, CongTimes
<1>11. Cong(k * Total(f), Sum(g, S))
  BY <1>8, <1>9, <1>10 DEF Cong
<1> QED  BY <1>7, <1>11 DEF f, g, Combine, Elements

\* The combination of the elements that C and IC are made from.
LEMMA CombinedSum ==
  ASSUME NEW w \in [Wires -> Field]
  PROVE  /\ \A v \in Wires : Combined[v] \in Field /\ Combined[v] \in Int /\ w[v] \in Int
         /\ Cong(Sum([v \in Wires |-> w[v] * Combined[v]], Wires),
                 (Setup.beta * AtTau(w, QapA) + Setup.alpha * AtTau(w, QapB)) + AtTau(w, QapC))
<1> DEFINE be == Setup.beta
           al == Setup.alpha
           X(v) == Column(QapA, v)
           Y(v) == Column(QapB, v)
           Z(v) == Column(QapC, v)
           f1 == [v \in Wires |-> w[v] * X(v)]
           f2 == [v \in Wires |-> w[v] * Y(v)]
           f3 == [v \in Wires |-> w[v] * Z(v)]
           h1 == [v \in Wires |-> be * f1[v]]
           h2 == [v \in Wires |-> al * f2[v]]
           h4 == [v \in Wires |-> h1[v] + h2[v]]
           e == [v \in Wires |-> h4[v] + f3[v]]
           g == [v \in Wires |-> w[v] * Combined[v]]
<1>1. be \in Int /\ al \in Int
  BY SetupFacts
<1>2. \A v \in Wires : X(v) \in Int /\ Y(v) \in Int /\ Z(v) \in Int /\ w[v] \in Int
  BY ColumnIs, MakingAssumption, FieldResidue
<1>3. \A v \in Wires : Combined[v] = ((be * X(v) + al * Y(v)) + Z(v)) % Q
  BY DEF Combined, KeyA, KeyB
<1> HIDE DEF X, Y, Z, be, al
<1>4. \A v \in Wires : Combined[v] \in Field /\ Combined[v] \in Int
                       /\ Cong(Combined[v], (be * X(v) + al * Y(v)) + Z(v))
  <2> SUFFICES ASSUME NEW v \in Wires
               PROVE  /\ Combined[v] \in Field /\ Combined[v] \in Int
                      /\ Cong(Combined[v], (be * X(v) + al * Y(v)) + Z(v))
    OBVIOUS
  <2> DEFINE t == (be * X(v) + al * Y(v)) + Z(v)
  <2>1. t \in Int
    BY <1>1, <1>2
  <2>2. Combined[v] = t % Q
    BY <1>3
  <2> HIDE DEF t
  <2>3. Combined[v] \in Field /\ Combined[v] \in Int /\ Cong(Combined[v], t)
    BY <2>1, <2>2, ResidueType, CongResidue
  <2> QED  BY <2>3 DEF t
<1>5. \A v \in Wires :
        /\ f1[v] \in Int /\ f2[v] \in Int /\ f3[v] \in Int /\ h1[v] \in Int /\ h2[v] \in Int
        /\ h4[v] \in Int /\ e[v] \in Int /\ g[v] \in Int /\ Cong(g[v], e[v])
  <2> SUFFICES ASSUME NEW v \in Wires
               PROVE  /\ f1[v] \in Int /\ f2[v] \in Int /\ f3[v] \in Int /\ h1[v] \in Int
                      /\ h2[v] \in Int /\ h4[v] \in Int /\ e[v] \in Int /\ g[v] \in Int
                      /\ Cong(g[v], e[v])
    OBVIOUS
  <2> DEFINE t == w[v]
             x == X(v)
             y == Y(v)
             z == Z(v)
             c == Combined[v]
  <2>1. t \in Int /\ x \in Int /\ y \in Int /\ z \in Int /\ c \in Int
        /\ Cong(c, (be * x + al * y) + z)
    BY <1>2, <1>4
  <2>2. /\ f1[v] = t * x /\ f2[v] = t * y /\ f3[v] = t * z /\ h1[v] = be * (t * x)
        /\ h2[v] = al * (t * y) /\ h4[v] = be * (t * x) + al * (t * y)
        /\ e[v] = (be * (t * x) + al * (t * y)) + t * z /\ g[v] = t * c
    OBVIOUS
  <2> HIDE DEF t, x, y, z, c, f1, f2, f3, h1, h2, h4, e, g
  <2>3. /\ t * x \in Int /\ t * y \in Int /\ t * z \in Int /\ t * c \in Int
        /\ be * (t * x) \in Int /\ al * (t * y) \in Int
        /\ be * (t * x) + al * (t * y) \in Int
        /\ (be * (t * x) + al * (t * y)) + t * z \in Int
        /\ (be * x + al * y) + z \in Int
    BY <1>1, <2>1
  <2>4. Cong(t * c, t * ((be * x + al * y) + z))
    BY <2>1, <2>3, CongTimes
  <2>5. t * ((be * x + al * y) + z) = (be * (t * x) + al * (t * y)) + t * z
    BY <1>1, <2>1
  <2> QED  BY <2>2, <2>3, <2>4, <2>5, Zenon
<1>6. IsFiniteSet(Wires)
  BY Dimensions
<1>7. DOMAIN f1 = Wires /\ DOMAIN f2 = Wires /\ DOMAIN f3 = Wires
  OBVIOUS
<1>8. Total(f1) = AtTau(w, QapA) /\ Total(f2) = AtTau(w, QapB) /\ Total(f3) = AtTau(w, QapC)
  BY WitnessColumns, MakingAssumption DEF X, Y, Z
<1>9. \A v \in Wires : f1[v] \in Int /\ f2[v] \in Int /\ f3[v] \in Int
  BY <1>5
<1>10. \A v \in Wires : h1[v] \in Int /\ h2[v] \in Int
  BY <1>5
<1>11. \A v \in Wires : h4[v] \in Int /\ f3[v] \in Int
  BY <1>5
<1>12. Sum(h1, Wires) = be * Sum(f1, Wires)
  <2> HIDE DEF f1
  <2> QED  BY <1>1, <1>6, <1>9, SumTimes
<1>13. Sum(h2, Wires) = al * Sum(f2, Wires)
  <2> HIDE DEF f2
  <2> QED  BY <1>1, <1>6, <1>9, SumTimes
<1>14. Sum(h4, Wires) = Sum(h1, Wires) + Sum(h2, Wires)
  <2> HIDE DEF h1, h2
  <2> QED  BY <1>6, <1>10, SumPlus
<1>15. Sum(e, Wires) = Sum(h4, Wires) + Sum(f3, Wires)
  <2> HIDE DEF h4, f3
  <2> QED  BY <1>6, <1>11, SumPlus
<1>16. \A v \in Wires : g[v] \in Int /\ e[v] \in Int /\ Cong(g[v], e[v])
  BY <1>5
<1> HIDE DEF f1, f2, f3, h1, h2, h4, e
<1>17. Cong(Sum(g, Wires), Sum(e, Wires))
  <2> HIDE DEF g
  <2> QED  BY <1>6, <1>16, SumCong
<1> DEFINE s1 == Sum(f1, Wires)
           s2 == Sum(f2, Wires)
           s3 == Sum(f3, Wires)
           t1 == AtTau(w, QapA)
           t2 == AtTau(w, QapB)
           t3 == AtTau(w, QapC)
<1>18. /\ s1 \in Int /\ s2 \in Int /\ s3 \in Int /\ t1 \in Int /\ t2 \in Int /\ t3 \in Int
       /\ Cong(t1, s1) /\ Cong(t2, s2) /\ Cong(t3, s3)
  <2>1. s1 \in Int /\ Total(f1) \in Int /\ Cong(Total(f1), s1)
    BY <1>6, <1>7, <1>9, TotalIs
  <2>2. s2 \in Int /\ Total(f2) \in Int /\ Cong(Total(f2), s2)
    BY <1>6, <1>7, <1>9, TotalIs
  <2>3. s3 \in Int /\ Total(f3) \in Int /\ Cong(Total(f3), s3)
    BY <1>6, <1>7, <1>9, TotalIs
  <2> QED  BY <1>8, <2>1, <2>2, <2>3
<1>19. Sum(e, Wires) = (be * s1 + al * s2) + s3
  BY <1>12, <1>13, <1>14, <1>15
<1> HIDE DEF s1, s2, s3, t1, t2, t3
<1>20. Cong((be * t1 + al * t2) + t3, (be * s1 + al * s2) + s3)
  <2>1. Cong(be * t1, be * s1) /\ Cong(al * t2, al * s2)
    BY <1>1, <1>18, CongTimes
  <2>2. /\ be * t1 \in Int /\ be * s1 \in Int /\ al * t2 \in Int /\ al * s2 \in Int
        /\ be * t1 + al * t2 \in Int /\ be * s1 + al * s2 \in Int
    BY <1>1, <1>18
  <2>3. Cong(be * t1 + al * t2, be * s1 + al * s2)
    BY <2>1, <2>2, CongSums
  <2> QED  BY <1>18, <2>2, <2>3, CongSums
<1>21. Cong(Sum(g, Wires), (be * t1 + al * t2) + t3)
  BY <1>17, <1>19, <1>20 DEF Cong
<1> QED  BY <1>2, <1>4, <1>21 DEF g, t1, t2, t3, be, al

\* What the parts of a proof are, modulo Q.
Balanced(a, b, c, al, be, de, r1, s1, m, gi, pc1, ph, A, B, B1, C) ==
  /\ a \in Int /\ b \in Int /\ c \in Int /\ al \in Int /\ be \in Int /\ de \in Int
  /\ r1 \in Int /\ s1 \in Int /\ m \in Int /\ gi \in Int /\ pc1 \in Int /\ ph \in Int
  /\ A \in Int /\ B \in Int /\ B1 \in Int /\ C \in Int
  /\ Cong(A, (a + al) + de * r1) /\ Cong(B, (b + be) + de * s1) /\ Cong(B1, (b + be) + de * s1)
  /\ Cong(m, r1 * s1) /\ Cong(C, ((pc1 + ph) + (A * s1 + B1 * r1)) - de * m)
  /\ Cong(gi + de * pc1, (be * a + al * b) + c) /\ Cong(de * ph, a * b - c)

\* The equation that a verifier checks follows.
LEMMA Balance ==
  ASSUME NEW a, NEW b, NEW c, NEW al, NEW be, NEW de, NEW r1, NEW s1, NEW m, NEW gi,
         NEW pc1, NEW ph, NEW A, NEW B, NEW B1, NEW C,
         Balanced(a, b, c, al, be, de, r1, s1, m, gi, pc1, ph, A, B, B1, C)
  PROVE  Cong(A * B, (al * be + gi) + de * C)
<1> DEFINE A0 == (a + al) + de * r1
           B0 == (b + be) + de * s1
           rs == r1 * s1
           u  == (A0 * s1 + B0 * r1) - de * rs
           d0 == a * b - c
           e0 == (be * a + al * b) + c
<1>0. /\ a \in Int /\ b \in Int /\ c \in Int /\ al \in Int /\ be \in Int /\ de \in Int
      /\ r1 \in Int /\ s1 \in Int /\ m \in Int /\ gi \in Int /\ pc1 \in Int /\ ph \in Int
      /\ A \in Int /\ B \in Int /\ B1 \in Int /\ C \in Int
  BY DEF Balanced
<1>1. A0 \in Int /\ B0 \in Int /\ rs \in Int /\ u \in Int /\ d0 \in Int /\ e0 \in Int
  BY <1>0
<1>2. A0 * B0 = ((al * be + e0) + d0) + de * u
  BY <1>0
<1>3. Cong(A, A0) /\ Cong(B, B0) /\ Cong(B1, B0) /\ Cong(m, rs) /\ Cong(gi + de * pc1, e0)
      /\ Cong(de * ph, d0)
  BY DEF Balanced
<1>17. Cong(C, ((pc1 + ph) + (A * s1 + B1 * r1)) - de * m)
  BY DEF Balanced
<1>4. u = (A0 * s1 + B0 * r1) - de * rs
  OBVIOUS
<1> HIDE DEF A0, B0, rs, u, d0, e0
<1>5. Cong((A * s1 + B1 * r1) - de * m, u)
  <2>1. Cong(A * s1, A0 * s1) /\ Cong(B1 * r1, B0 * r1) /\ Cong(de * m, de * rs)
    BY <1>0, <1>1, <1>3, CongTimes
  <2>2. /\ A * s1 \in Int /\ A0 * s1 \in Int /\ B1 * r1 \in Int /\ B0 * r1 \in Int
        /\ de * m \in Int /\ de * rs \in Int
        /\ A * s1 + B1 * r1 \in Int /\ A0 * s1 + B0 * r1 \in Int
    BY <1>0, <1>1
  <2>3. Cong(A * s1 + B1 * r1, A0 * s1 + B0 * r1)
    BY <2>1, <2>2, CongSums
  <2> QED  BY <1>4, <2>1, <2>2, <2>3, CongSums
<1> DEFINE v == (A * s1 + B1 * r1) - de * m
<1>6. v \in Int /\ ((pc1 + ph) + (A * s1 + B1 * r1)) - de * m = (pc1 + ph) + v
  BY <1>0
<1> HIDE DEF v
<1>7. Cong(C, (pc1 + ph) + u)
  <2>1. Cong(v, u) /\ Cong(C, (pc1 + ph) + v)
    BY <1>5, <1>6, <1>17 DEF v
  <2>2. pc1 + ph \in Int /\ Cong(pc1 + ph, pc1 + ph) /\ (pc1 + ph) + v \in Int
    BY <1>0, <1>6 DEF Cong
  <2>3. Cong((pc1 + ph) + v, (pc1 + ph) + u)
    BY <1>1, <1>6, <2>1, <2>2, CongSums
  <2> QED  BY <2>1, <2>3 DEF Cong
<1>8. Cong(de * C, ((de * pc1) + (de * ph)) + de * u)
  <2>1. (pc1 + ph) + u \in Int /\ de * ((pc1 + ph) + u) = ((de * pc1) + (de * ph)) + de * u
    BY <1>0, <1>1
  <2>2. Cong(de * C, de * ((pc1 + ph) + u))
    BY <1>0, <1>7, <2>1, CongTimes
  <2> QED  BY <2>1, <2>2
<1> DEFINE p == de * pc1
           h == de * ph
           w == de * u
           k == al * be
           l == de * C
<1>9. p \in Int /\ h \in Int /\ w \in Int /\ k \in Int /\ l \in Int
  BY <1>0, <1>1
<1>10. Cong(l, (p + h) + w) /\ Cong(gi + p, e0) /\ Cong(h, d0)
  BY <1>3, <1>8
<1>11. A0 * B0 = ((k + e0) + d0) + w
  BY <1>2
<1>12. Cong(A * B, A0 * B0)
  BY <1>0, <1>1, <1>3, CongSums
<1> HIDE DEF p, h, w, k, l
<1>13. Cong((k + gi) + l, (k + gi) + ((p + h) + w))
  <2>1. k + gi \in Int /\ Cong(k + gi, k + gi) /\ (p + h) + w \in Int
    BY <1>0, <1>9 DEF Cong
  <2> QED  BY <1>9, <1>10, <2>1, CongSums
<1>14. (k + gi) + ((p + h) + w) = ((k + (gi + p)) + h) + w
  BY <1>0, <1>9
<1>15. Cong(((k + (gi + p)) + h) + w, ((k + e0) + d0) + w)
  <2>1. Cong(k, k) /\ Cong(w, w) /\ gi + p \in Int
    BY <1>0, <1>9 DEF Cong
  <2>2. Cong(k + (gi + p), k + e0) /\ k + (gi + p) \in Int /\ k + e0 \in Int
    BY <1>0, <1>1, <1>9, <1>10, <2>1, CongSums
  <2>3. Cong((k + (gi + p)) + h, (k + e0) + d0)
    BY <1>1, <1>9, <1>10, <2>2, CongSums
  <2>4. (k + (gi + p)) + h \in Int /\ (k + e0) + d0 \in Int
    BY <1>0, <1>1, <1>9
  <2> QED  BY <1>9, <2>1, <2>3, <2>4, CongSums
<1>16. Cong(A * B, (k + gi) + l)
  BY <1>11, <1>12, <1>13, <1>14, <1>15 DEF Cong
<1> QED  BY <1>16 DEF k, l

--------------------------------------------------------------------------------
\* What the tasks compute.
MsmOf(t, w) == Total([v \in Points(t)[2] |-> w[v] * Points(t)[1][v]])

\* The arrays when they are filled, after the transforms, and a * b - c.
Filled(t, w) ==
  CASE t = "a" -> Combination(w, QapA)
    [] t = "b" -> Combination(w, QapB)
    [] OTHER   -> Combination(w, QapC)
Odd(t, w) == DFT(Shifted(InverseDFT(Filled(t, w))))
Quotients(w) == [i \in Domain |-> Sub(Mul(Odd("a", w)[i], Odd("b", w)[i]), Odd("c", w)[i])]
HOf(w) == Total([i \in Domain |-> Quotients(w)[i] * pointsH[i]])

\* The multiexponentiations of the first two arrays are the combinations at tau.
LEMMA MsmOfAB ==
  ASSUME NEW w \in [Wires -> Field]
  PROVE  /\ MsmOf("pi_a", w) = AtTau(w, QapA) /\ MsmOf("pi_b", w) = AtTau(w, QapB)
         /\ MsmOf("pib1", w) = AtTau(w, QapB)
         /\ AtTau(w, QapA) \in Field /\ AtTau(w, QapB) \in Field /\ AtTau(w, QapC) \in Field
<1>1. /\ AtTau(w, QapA) \in Field /\ Total([v \in Wires |-> w[v] * Column(QapA, v)]) = AtTau(w, QapA)
      /\ AtTau(w, QapB) \in Field /\ Total([v \in Wires |-> w[v] * Column(QapB, v)]) = AtTau(w, QapB)
      /\ AtTau(w, QapC) \in Field
  BY WitnessColumns, MakingAssumption
<1>2. /\ Points("pi_a")[1] = KeyA /\ Points("pi_a")[2] = Wires
      /\ Points("pi_b")[1] = KeyB /\ Points("pi_b")[2] = Wires
      /\ Points("pib1")[1] = KeyB /\ Points("pib1")[2] = Wires
  BY KeyOfCircuit DEF Points
<1>3. /\ [v \in Wires |-> w[v] * KeyA[v]] = [v \in Wires |-> w[v] * Column(QapA, v)]
      /\ [v \in Wires |-> w[v] * KeyB[v]] = [v \in Wires |-> w[v] * Column(QapB, v)]
  BY DEF KeyA, KeyB
<1>4. MsmOf("pi_a", w) = AtTau(w, QapA)
  BY <1>1, <1>2, <1>3 DEF MsmOf
<1>5. MsmOf("pi_b", w) = AtTau(w, QapB)
  BY <1>1, <1>2, <1>3 DEF MsmOf
<1>6. MsmOf("pib1", w) = AtTau(w, QapB)
  BY <1>1, <1>2, <1>3 DEF MsmOf
<1> QED  BY <1>1, <1>4, <1>5, <1>6

\* The public wires and the others are all of them, so that what the verifier adds up from
\* IC and the prover from the third array are the combination, times gamma and delta.
PublicTotal(w) == Total([v \in 0 .. nPublic |-> w[v] * IC[v]])

\* The points of C and the public terms: together the cross terms of the equation.
LEMMA MsmOfC ==
  ASSUME NEW w \in [Wires -> Field]
  PROVE  /\ MsmOf("pi_c", w) \in Field /\ PublicTotal(w) \in Field
         /\ MsmOf("pi_c", w) \in Int /\ PublicTotal(w) \in Int
         /\ Cong(Setup.gamma * PublicTotal(w) + Setup.delta * MsmOf("pi_c", w),
                 (Setup.beta * AtTau(w, QapA) + Setup.alpha * AtTau(w, QapB)) + AtTau(w, QapC))
<1> DEFINE S == 0 .. nPublic
           R == (nPublic + 1) .. (nVars - 1)
           g == [v \in Wires |-> w[v] * Combined[v]]
           gs == [v \in S |-> w[v] * Combined[v]]
           gr == [v \in R |-> w[v] * Combined[v]]
           ga == Setup.gamma
           de == Setup.delta
           p == PublicTotal(w)
           q == MsmOf("pi_c", w)
<1>1. Wires = S \cup R /\ S \cap R = {} /\ IsFiniteSet(S) /\ IsFiniteSet(R)
  <2>1. nVars \in Nat /\ nPublic \in Nat /\ nPublic < nVars
    BY SizeAssumption
  <2>2. Wires = S \cup R
    BY <2>1 DEF Wires
  <2>3. S \cap R = {}
    BY <2>1
  <2>4. 0 \in Int /\ nPublic \in Int /\ nPublic + 1 \in Int /\ nVars - 1 \in Int
    BY <2>1
  <2>5. IsFiniteSet(S) /\ IsFiniteSet(R)
    BY <2>4, FS_Interval
  <2> QED  BY <2>2, <2>3, <2>5
<1>2. \A v \in Wires : Combined[v] \in Field /\ Combined[v] \in Int /\ w[v] \in Int
  BY CombinedSum
<1>3. ga \in Field \ {0} /\ de \in Field \ {0} /\ ga \in Int /\ de \in Int
  BY SetupFacts
<1>4. p \in Field /\ p \in Int /\ Cong(ga * p, Sum(gs, S))
  <2>1. Divided(S, w, Combined, ga, IC)
    BY <1>1, <1>2, <1>3, KeyOfCircuit DEF Divided, KeyIC
  <2> QED  BY <2>1, Undivided DEF PublicTotal, Combine, Elements
<1>5. q \in Field /\ q \in Int /\ Cong(de * q, Sum(gr, R))
  <2>1. Divided(R, w, Combined, de, pointsC)
    BY <1>1, <1>2, <1>3, KeyOfCircuit DEF Divided, KeyC
  <2>2. Points("pi_c")[1] = pointsC /\ Points("pi_c")[2] = R
    BY DEF Points
  <2>3. q = Total([v \in R |-> w[v] * pointsC[v]])
    BY <2>2 DEF MsmOf
  <2> HIDE DEF R, de, q
  <2>4. /\ Combine(R, w, pointsC) \in Field /\ Combine(R, w, pointsC) \in Int
        /\ Cong(de * Combine(R, w, pointsC), Elements(R, w, Combined))
    BY <2>1, Undivided
  <2> QED  BY <2>3, <2>4 DEF Combine, Elements
<1>6. \A v \in Wires : g[v] \in Int
  <2> SUFFICES ASSUME NEW v \in Wires PROVE w[v] * Combined[v] \in Int
    OBVIOUS
  <2> QED  BY <1>2
<1>7. (\A v \in S : gs[v] = g[v]) /\ (\A v \in R : gr[v] = g[v])
  BY <1>1
<1> HIDE DEF g, gs, gr, S, R, ga, de, p, q
<1>8. Sum(g, Wires) = Sum(g, S) + Sum(g, R)
  BY <1>1, <1>6, SumUnion
<1>9. Sum(gs, S) = Sum(g, S) /\ Sum(gr, R) = Sum(g, R)
  BY <1>1, <1>7, SumEqual
<1>10. Sum(g, S) \in Int /\ Sum(g, R) \in Int
  BY <1>1, <1>6, SumType
<1>11. ga * p \in Int /\ de * q \in Int
  BY <1>3, <1>4, <1>5
<1>12. Cong(ga * p + de * q, Sum(g, Wires))
  BY <1>4, <1>5, <1>8, <1>9, <1>10, <1>11, CongSums
<1>13. Cong(Sum(g, Wires),
            (Setup.beta * AtTau(w, QapA) + Setup.alpha * AtTau(w, QapB)) + AtTau(w, QapC))
  BY CombinedSum DEF g
<1> QED  BY <1>4, <1>5, <1>12, <1>13 DEF Cong, ga, de, p, q

\* The transformed arrays are the values on the odd half of the larger domain.
LEMMA OddIs ==
  ASSUME NEW w \in [Wires -> Field], NEW t \in FftTasks
  PROVE  /\ Filled(t, w) \in [Domain -> Field]
         /\ InverseDFT(Filled(t, w)) \in [Domain -> Field]
         /\ Shifted(InverseDFT(Filled(t, w))) \in [Domain -> Field]
         /\ Odd(t, w) \in [Domain -> Field]
         /\ \A i \in Domain :
              Odd(t, w)[i] = Poly(dLog, Filled(t, w), Pow(Gen(dLog + 1), (2 * i) + 1))
<1> DEFINE y == Filled(t, w)
           z == Shifted(InverseDFT(y))
<1>1. y \in [Domain -> Field]
  <2>1. /\ Combination(w, QapA) \in [Domain -> Field] /\ Combination(w, QapB) \in [Domain -> Field]
        /\ Combination(w, QapC) \in [Domain -> Field]
    BY WitnessColumns, MakingAssumption
  <2> QED  BY <2>1 DEF Filled, FftTasks
<1> HIDE DEF y
<1>2. y \in [0 .. 2 ^ dLog - 1 -> Field]
  BY <1>1, Dimensions
<1>3. InverseDFT(y) \in [Domain -> Field]
  BY <1>2, Dimensions, TransformTypes
<1>4. z = [i \in 0 .. 2 ^ dLog - 1 |-> Mul(InverseDFT(y)[i], root(dLog + 1, i))]
  BY Dimensions DEF Shifted, dLog
<1> HIDE DEF z
<1>5. ASSUME NEW k \in 0 .. 2 ^ dLog - 1
      PROVE  /\ z \in [0 .. 2 ^ dLog - 1 -> Field]
             /\ DFT(z)[k] = Poly(dLog, y, Pow(Gen(dLog + 1), (2 * k) + 1))
  BY <1>2, <1>4, Dimensions, OddValues
<1>6. z \in [0 .. 2 ^ dLog - 1 -> Field]
  <2>1. 0 \in 0 .. 2 ^ dLog - 1
    BY Dimensions, TwoExp
  <2> QED  BY <1>5, <2>1
<1>7. DFT(z) \in [Domain -> Field]
  BY <1>6, Dimensions, TransformTypes
<1>8. Odd(t, w) = DFT(z)
  BY DEF Odd, y, z
<1>9. z \in [Domain -> Field]
  BY <1>6, Dimensions
<1>10. \A i \in Domain : DFT(z)[i] = Poly(dLog, y, Pow(Gen(dLog + 1), (2 * i) + 1))
  BY <1>5, Dimensions
<1> QED  BY <1>1, <1>3, <1>7, <1>8, <1>9, <1>10 DEF y, z

\* The points of H are the polynomials of the odd half, at tau, divided by delta.
HalfLag(i) == Lag(dLog + 1, (2 * i) + 1, Setup.tau)
HalfLags == [i \in Domain |-> HalfLag(i)]

\* The points of H are the multiples of a Lagrange polynomial at tau.
LEMMA PointsOfH ==
  ASSUME NEW i \in Domain
  PROVE  /\ HalfLags[i] \in Field /\ HalfLags[i] \in Int
         /\ pointsH[i] = Mul(HalfLags[i], Inv(Setup.delta))
<1> DEFINE D == 0 .. 2 * domainSize - 1
           m == (2 * i) + 1
           x == Setup.tau
           e == dLog + 1
<1>1. domainSize \in Nat /\ i \in 0 .. domainSize - 1
  BY SizeAssumption DEF Domain
<1>2. m \in D
  BY <1>1
<1>3. D = 0 .. 2 ^ e - 1 /\ e \in Nat /\ e <= logRoots /\ x \in Int
  BY Dimensions, SetupFacts
<1>4. pointsH[i] = Mul(At([j \in D |-> IF j = m THEN 1 ELSE 0], x), Inv(Setup.delta))
  BY KeyOfCircuit DEF KeyH
<1>5. [j \in D |-> IF j = m THEN 1 ELSE 0] = At1(D, m)
  BY DEF At1
<1> HIDE DEF D, m, x, e
<1>6. At(At1(D, m), x) = Poly(e, At1(D, m), x)
  <2>1. DOMAIN At1(D, m) = 0 .. 2 ^ e - 1
    BY <1>3 DEF At1
  <2> QED  BY <2>1, AtIs
<1>7. Poly(e, At1(D, m), x) = Lag(e, m, x)
  BY <1>2, <1>3, PolyOfDelta
<1>8. Lag(e, m, x) \in Field /\ Lag(e, m, x) \in Int
  BY <1>2, <1>3, LagIs
<1>9. HalfLags[i] = Lag(e, m, x)
  BY DEF HalfLags, HalfLag, e, m, x
<1> QED  BY <1>4, <1>5, <1>6, <1>7, <1>8, <1>9

\* The quotients are field elements.
LEMMA QuotientsType ==
  ASSUME NEW w \in [Wires -> Field]
  PROVE  Quotients(w) \in [Domain -> Field]
<1> SUFFICES ASSUME NEW i \in Domain
             PROVE  Sub(Mul(Odd("a", w)[i], Odd("b", w)[i]), Odd("c", w)[i]) \in Field
  BY DEF Quotients
<1>1. Odd("a", w)[i] \in Field /\ Odd("b", w)[i] \in Field /\ Odd("c", w)[i] \in Field
  BY OddIs DEF FftTasks
<1> DEFINE a == Odd("a", w)[i]
           b == Odd("b", w)[i]
           c == Odd("c", w)[i]
<1>2. a \in Int /\ b \in Int /\ c \in Int
  BY <1>1, FieldResidue
<1> HIDE DEF a, b, c
<1>3. Mul(a, b) \in Int
  BY <1>2, MulType
<1>4. Mul(a, b) - c \in Int
  BY <1>2, <1>3
<1>5. Sub(Mul(a, b), c) \in Field
  BY <1>4, ResidueType DEF Sub
<1> QED  BY <1>5 DEF a, b, c

\* The values of the quotients on the odd half, by the polynomials for it, are the product of
\* the two combinations less the third, at tau.
OddTerms(w) == [i \in Domain |-> Mul(Quotients(w)[i], HalfLags[i])]

\* The quotient polynomial at tau, from its values at the shifted points.
LEMMA QuotientsAtTau ==
  ASSUME NEW w \in [Wires -> Field],
         \A c \in Domain :
           Mul(Combination(w, QapA)[c], Combination(w, QapB)[c]) = Combination(w, QapC)[c]
  PROVE  Total(OddTerms(w)) = Sub(Mul(AtTau(w, QapA), AtTau(w, QapB)), AtTau(w, QapC))
<1> DEFINE d == dLog
           x == Setup.tau
           a == Combination(w, QapA)
           b == Combination(w, QapB)
           c == Combination(w, QapC)
           R(i) == Pow(Gen(d + 1), (2 * i) + 1)
           odd == [i \in 0 .. 2 ^ d - 1 |->
                     Mul(Sub(Mul(Poly(d, a, R(i)), Poly(d, b, R(i))), Poly(d, c, R(i))),
                         Lag(d + 1, (2 * i) + 1, x))]
<1>1. Domain = 0 .. 2 ^ d - 1 /\ d \in Nat /\ d + 1 <= logRoots /\ x \in Int
  BY Dimensions, SetupFacts
<1>2. /\ a \in [Domain -> Field] /\ b \in [Domain -> Field] /\ c \in [Domain -> Field]
  BY WitnessColumns, MakingAssumption
<1>3. /\ a \in [0 .. 2 ^ d - 1 -> Field] /\ b \in [0 .. 2 ^ d - 1 -> Field]
      /\ c \in [0 .. 2 ^ d - 1 -> Field]
  BY <1>1, <1>2
<1>4. \A i \in 0 .. 2 ^ d - 1 : c[i] = Mul(a[i], b[i])
  BY <1>1
<1>5. \A i \in Domain : /\ Odd("a", w)[i] = Poly(d, a, R(i)) /\ Odd("b", w)[i] = Poly(d, b, R(i))
                        /\ Odd("c", w)[i] = Poly(d, c, R(i))
  <2>1. "a" \in FftTasks /\ "b" \in FftTasks /\ "c" \in FftTasks
    BY DEF FftTasks
  <2>2. Filled("a", w) = a /\ Filled("b", w) = b /\ Filled("c", w) = c
    BY DEF Filled
  <2>3. \A i \in Domain : Odd("a", w)[i] = Poly(d, Filled("a", w), R(i))
    BY <2>1, OddIs
  <2>4. \A i \in Domain : Odd("b", w)[i] = Poly(d, Filled("b", w), R(i))
    BY <2>1, OddIs
  <2>5. \A i \in Domain : Odd("c", w)[i] = Poly(d, Filled("c", w), R(i))
    BY <2>1, OddIs
  <2> HIDE DEF a, b, c, R, d
  <2> QED  BY <2>2, <2>3, <2>4, <2>5
<1>6. OddTerms(w) = odd
  <2>1. \A i \in Domain : HalfLags[i] = Lag(d + 1, (2 * i) + 1, x)
    BY DEF HalfLags, HalfLag
  <2>2. \A i \in Domain :
          Quotients(w)[i] = Sub(Mul(Odd("a", w)[i], Odd("b", w)[i]), Odd("c", w)[i])
    BY DEF Quotients
  <2>3. odd = [i \in Domain |->
                 Mul(Sub(Mul(Poly(d, a, R(i)), Poly(d, b, R(i))), Poly(d, c, R(i))),
                     Lag(d + 1, (2 * i) + 1, x))]
    BY <1>1
  <2> HIDE DEF a, b, c, R, d, x, odd
  <2>4. \A i \in Domain :
          Mul(Quotients(w)[i], HalfLags[i])
            = Mul(Sub(Mul(Poly(d, a, R(i)), Poly(d, b, R(i))), Poly(d, c, R(i))),
                  Lag(d + 1, (2 * i) + 1, x))
    BY <1>5, <2>1, <2>2
  <2> QED  BY <2>3, <2>4 DEF OddTerms
<1>7. odd = OddProducts(d, a, b, c, x)
  BY DEF OddProducts
<1> HIDE DEF a, b, c, d, x, odd, R
<1>8. Total(OddProducts(d, a, b, c, x)) = Sub(Mul(Poly(d, a, x), Poly(d, b, x)), Poly(d, c, x))
  BY <1>1, <1>3, <1>4, OddHalf
<1> QED  BY <1>6, <1>7, <1>8 DEF AtTau, a, b, c, d, x

\* The multiexponentiation of H, times delta, is that too.
LEMMA HValue ==
  ASSUME NEW w \in Witnesses
  PROVE  /\ HOf(w) \in Field /\ HOf(w) \in Int
         /\ Cong(Setup.delta * HOf(w), AtTau(w, QapA) * AtTau(w, QapB) - AtTau(w, QapC))
<1> DEFINE de == Setup.delta
           f == Quotients(w)
           g == [i \in Domain |-> f[i] * HalfLags[i]]
           h == OddTerms(w)
           a == AtTau(w, QapA)
           b == AtTau(w, QapB)
           c == AtTau(w, QapC)
<1>1. w \in [Wires -> Field]
  BY WitnessAssumption
<1>2. f \in [Domain -> Field] /\ \A i \in Domain : f[i] \in Int
  BY <1>1, QuotientsType, FieldResidue
<1>3. IsFiniteSet(Domain)
  BY Dimensions
<1>4. de \in Field \ {0} /\ de \in Int
  BY SetupFacts
<1>5. a \in Int /\ b \in Int /\ c \in Int
  BY <1>1, WitnessColumns, MakingAssumption
<1>6. Total(h) = Sub(Mul(a, b), c)
  BY <1>1, WitnessAssumption, QuotientsAtTau
<1>7. HOf(w) = Combine(Domain, f, pointsH) /\ Elements(Domain, f, HalfLags) = Sum(g, Domain)
  BY DEF HOf, Combine, Elements
<1>8. \A i \in Domain : h[i] = Mul(f[i], HalfLags[i])
  BY DEF OddTerms
<1>9. DOMAIN h = Domain /\ \A i \in Domain : HalfLags[i] \in Int
  BY PointsOfH DEF OddTerms
<1>10. \A i \in Domain : g[i] = f[i] * HalfLags[i]
  OBVIOUS
<1> HIDE DEF f, g, h, de, a, b, c
<1>11. \A i \in Domain : h[i] \in Int /\ g[i] \in Int /\ Cong(h[i], g[i])
  <2> SUFFICES ASSUME NEW i \in Domain PROVE h[i] \in Int /\ g[i] \in Int /\ Cong(h[i], g[i])
    OBVIOUS
  <2> DEFINE x == f[i]
             y == HalfLags[i]
  <2>1. x \in Int /\ y \in Int /\ h[i] = Mul(x, y) /\ g[i] = x * y
    BY <1>2, <1>8, <1>9, <1>10
  <2> HIDE DEF x, y
  <2>2. x * y \in Int
    BY <2>1
  <2> QED  BY <2>1, <2>2, MulType, MulCong
<1>12. Cong(Total(h), Sum(g, Domain)) /\ Total(h) \in Int /\ Sum(g, Domain) \in Int
  <2>1. Cong(Sum(h, Domain), Sum(g, Domain))
    BY <1>3, <1>11, SumCong
  <2>2. Total(h) \in Int /\ Cong(Total(h), Sum(h, Domain))
    BY <1>3, <1>9, <1>11, TotalIs
  <2>3. Sum(g, Domain) \in Int
    BY <1>3, <1>11, SumType
  <2> QED  BY <2>1, <2>2, <2>3 DEF Cong
<1>13. Divided(Domain, f, HalfLags, de, pointsH)
  <2>1. \A i \in Domain : f[i] \in Int /\ HalfLags[i] \in Field
                          /\ pointsH[i] = Mul(HalfLags[i], Inv(de))
    BY <1>2, PointsOfH DEF de
  <2> QED  BY <1>3, <1>4, <2>1 DEF Divided
<1>14. HOf(w) \in Field /\ HOf(w) \in Int /\ Cong(de * HOf(w), Sum(g, Domain))
  BY <1>7, <1>13, Undivided
<1>15. Mul(a, b) \in Int /\ Cong(Mul(a, b), a * b) /\ a * b \in Int
  BY <1>5, MulType, MulCong
<1>16. Cong(Sub(Mul(a, b), c), a * b - c)
  <2>1. Cong(Mul(a, b) - c, a * b - c)
    <3>1. Cong(c, c)
      BY DEF Cong
    <3> QED  BY <1>5, <1>15, <3>1, CongSums
  <2>2. Mul(a, b) - c \in Int
    BY <1>5, <1>15
  <2>3. Cong(Sub(Mul(a, b), c), Mul(a, b) - c)
    BY <2>2, CongResidue DEF Sub
  <2> QED  BY <2>1, <2>3 DEF Cong
<1>17. Cong(de * HOf(w), a * b - c)
  BY <1>6, <1>12, <1>14, <1>16 DEF Cong
<1> QED  BY <1>14, <1>17 DEF de, a, b, c

\* A proof that is put together from these, with any field elements r and s, verifies.
LEMMA Verified ==
  ASSUME NEW w \in Witnesses, NEW r1 \in Field, NEW s1 \in Field, NEW A, NEW B, NEW B1, NEW C,
         A  = (MsmOf("pi_a", w) + Setup.alpha + Setup.delta * r1) % Q,
         B  = (MsmOf("pi_b", w) + Setup.beta + Setup.delta * s1) % Q,
         B1 = (MsmOf("pib1", w) + Setup.beta + Setup.delta * s1) % Q,
         C  = (MsmOf("pi_c", w) + HOf(w) + A * s1 + B1 * r1 - Setup.delta * Mul(r1, s1)) % Q
  PROVE  Mul(A, B) =
           (Setup.alpha * Setup.beta + Setup.gamma * PublicTotal(w) + Setup.delta * C) % Q
<1> DEFINE al == Setup.alpha
           be == Setup.beta
           ga == Setup.gamma
           de == Setup.delta
           a == AtTau(w, QapA)
           b == AtTau(w, QapB)
           c == AtTau(w, QapC)
           p == MsmOf("pi_c", w)
           h == HOf(w)
           t == PublicTotal(w)
           m == Mul(r1, s1)
           gi == ga * t
           A0 == (a + al) + de * r1
           B0 == (b + be) + de * s1
           C0 == ((p + h) + (A * s1 + B1 * r1)) - de * m
<1>1. w \in [Wires -> Field]
  BY WitnessAssumption
<1>2. al \in Int /\ be \in Int /\ ga \in Int /\ de \in Int /\ r1 \in Int /\ s1 \in Int
  BY SetupFacts, FieldResidue
<1>3. /\ MsmOf("pi_a", w) = a /\ MsmOf("pi_b", w) = b /\ MsmOf("pib1", w) = b
      /\ a \in Int /\ b \in Int /\ c \in Int
  BY <1>1, MsmOfAB, WitnessColumns, MakingAssumption
<1>4. /\ p \in Int /\ t \in Int /\ Cong(ga * t + de * p, (be * a + al * b) + c)
  BY <1>1, MsmOfC
<1>5. h \in Int /\ Cong(de * h, a * b - c)
  BY HValue
<1>6. /\ A = (a + al + de * r1) % Q /\ B = (b + be + de * s1) % Q /\ B1 = (b + be + de * s1) % Q
      /\ C = (p + h + A * s1 + B1 * r1 - de * m) % Q
  BY <1>3
<1> HIDE DEF al, be, ga, de, a, b, c, p, h, t
<1>7. m \in Int /\ Cong(m, r1 * s1)
  BY <1>2, MulType, MulCong
<1> HIDE DEF m
<1>8. A0 \in Int /\ B0 \in Int /\ gi \in Int
  BY <1>2, <1>3, <1>4
<1>9. A = A0 % Q /\ B = B0 % Q /\ B1 = B0 % Q
  BY <1>6
<1>10. /\ A \in Int /\ B \in Int /\ B1 \in Int
       /\ Cong(A, A0) /\ Cong(B, B0) /\ Cong(B1, B0)
  <2> HIDE DEF A0, B0
  <2> QED  BY <1>8, <1>9, ResidueType, CongResidue
<1>11. C0 \in Int
  BY <1>2, <1>4, <1>5, <1>7, <1>10
<1>12. C = C0 % Q
  <2> DEFINE u == A * s1
             v == B1 * r1
             z == de * m
  <2>1. u \in Int /\ v \in Int /\ z \in Int
    BY <1>2, <1>7, <1>10
  <2>2. C = (p + h + u + v - z) % Q /\ C0 = ((p + h) + (u + v)) - z
    BY <1>6
  <2> HIDE DEF u, v, z, C0
  <2>3. p + h + u + v - z = ((p + h) + (u + v)) - z
    BY <1>4, <1>5, <2>1
  <2> QED  BY <2>2, <2>3
<1>13. C \in Int /\ Cong(C, C0)
  <2> HIDE DEF C0
  <2> QED  BY <1>11, <1>12, ResidueType, CongResidue
<1>14. Cong(gi + de * p, (be * a + al * b) + c)
  BY <1>4
<1> HIDE DEF gi
<1>15. Cong(A * B, (al * be + gi) + de * C)
  <2>1. Cong(A, (a + al) + de * r1) /\ Cong(B, (b + be) + de * s1) /\ Cong(B1, (b + be) + de * s1)
    BY <1>10
  <2>2. Cong(C, ((p + h) + (A * s1 + B1 * r1)) - de * m)
    BY <1>13
  <2> HIDE DEF A0, B0, C0
  <2>3. Balanced(a, b, c, al, be, de, r1, s1, m, gi, p, h, A, B, B1, C)
    BY <1>2, <1>3, <1>4, <1>5, <1>7, <1>8, <1>10, <1>13, <1>14, <2>1, <2>2, Zenon DEF Balanced
  <2> QED  BY <2>3, Balance
<1>16. Mul(A, B) = (al * be + gi + de * C) % Q
  BY <1>15 DEF Cong, Mul
<1> QED  BY <1>16 DEF al, be, ga, de, t, gi

--------------------------------------------------------------------------------
\* The data of a call: what a transform's array holds, by the state of the transform, when
\* nothing has thrown.
Content(st, t, w) ==
  CASE st = "shift" -> InverseDFT(Filled(t, w))
    [] st = "fft"   -> Shifted(InverseDFT(Filled(t, w)))
    [] st = "done"  -> Odd(t, w)
    [] OTHER        -> Filled(t, w)

InArrays == {"transform", "join", "abc"}
AfterH   == {"sample_r", "sample_s", "get", "assemble"}

Types ==
  /\ wtns \in Witnesses
  /\ msm \in [MsmTasks \cup {"pih"} -> Field \cup {Unset}]
  /\ faults \in 0 .. MaxFaults /\ deferred \in 0 .. MaxDeferred

Arrays == \A x \in FftTasks : buf[x] = Freed \/ buf[x] \in [Domain -> Field]

\* From the filling of the arrays to their use, they hold what the transforms have done.
Contents ==
  /\ pc[1] \in InArrays =>
       \A t \in FftTasks : task[t] # "threw" => buf[t] = Content(task[t], t, wtns)
  /\ pc[1] = "H" => buf["a"] = Quotients(wtns)

\* A transform that is to be launched has not been.
Unlaunched ==
  pc[1] = "transform" => \A j \in 1 .. 3 : j >= pc[2] => task[Ffts[j]] = "none"

\* The results are there where they are used.
Results ==
  /\ \A t \in MsmTasks : task[t] = "done" => msm[t] = MsmOf(t, wtns)
  /\ pc[1] = "get" => \A j \in 1 .. 4 : j < pc[2] => task[Msms[j]] = "done"
  /\ pc[1] = "assemble" => \A t \in MsmTasks : task[t] = "done"
  /\ pc[1] \in AfterH => msm["pih"] = HOf(wtns)

Sampled ==
  /\ pc[1] \in {"sample_s", "get", "assemble"} => r \in Field
  /\ pc[1] \in {"get", "assemble"} => s \in Field

Proved == proof # <<>> => Verifies(proof)

Data == Types /\ Arrays /\ Contents /\ Unlaunched /\ Results /\ Sampled /\ Proved

--------------------------------------------------------------------------------
\* A transform keeps the type of an array.
LEMMA ArrayTransforms ==
  ASSUME NEW y \in [Domain -> Field]
  PROVE  /\ DFT(y) \in [Domain -> Field] /\ InverseDFT(y) \in [Domain -> Field]
         /\ Shifted(y) \in [Domain -> Field]
<1>1. y \in [0 .. 2 ^ dLog - 1 -> Field] /\ dLog \in Nat /\ dLog <= logRoots
  BY Dimensions
<1>2. DFT(y) \in [0 .. 2 ^ dLog - 1 -> Field] /\ InverseDFT(y) \in [0 .. 2 ^ dLog - 1 -> Field]
  BY <1>1, TransformTypes
<1>3. DFT(y) \in [Domain -> Field] /\ InverseDFT(y) \in [Domain -> Field]
  BY <1>2, Dimensions
<1>4. Shifted(y) \in [Domain -> Field]
  <2> SUFFICES ASSUME NEW i \in Domain PROVE Mul(y[i], root(dLog + 1, i)) \in Field
    BY DEF Shifted, dLog
  <2>1. root(dLog + 1, i) \in Int
    <3> DEFINE e == dLog + 1
    <3>1. e \in Nat /\ e <= logRoots /\ i \in 0 .. 2 ^ e - 1
      <4>1. e \in Nat /\ e <= logRoots /\ Domain = 0 .. domainSize - 1
        BY Dimensions DEF Domain
      <4>2. 0 .. 2 * domainSize - 1 = 0 .. 2 ^ e - 1
        BY Dimensions
      <4>3. i \in 0 .. 2 * domainSize - 1
        BY <4>1, SizeAssumption
      <4> QED  BY <4>1, <4>2, <4>3
    <3> HIDE DEF e
    <3>2. root(e, i) = Pow(Gen(e), i)
      BY <3>1, RootIs
    <3>3. Gen(e) \in Int
      BY <3>1, GenFacts
    <3>4. i \in Nat
      BY <3>1
    <3>5. Pow(Gen(e), i) \in Int
      BY <3>3, <3>4, PowFacts
    <3> QED  BY <3>2, <3>5 DEF e
  <2>2. y[i] \in Int
    BY FieldResidue
  <2> QED  BY <2>1, <2>2, MulType
<1> QED  BY <1>3, <1>4

\* What the tasks leave, and the product of the first two arrays.
LEMMA WitnessTypes ==
  ASSUME NEW w \in Witnesses
  PROVE  /\ w \in [Wires -> Field]
         /\ \A t \in FftTasks : Filled(t, w) \in [Domain -> Field]
         /\ \A t \in MsmTasks : MsmOf(t, w) \in Field
         /\ HOf(w) \in Field /\ Quotients(w) \in [Domain -> Field]
         /\ [i \in Domain |-> Mul(Combination(w, QapA)[i], Combination(w, QapB)[i])]
              = Combination(w, QapC)
<1>1. w \in [Wires -> Field]
  BY WitnessAssumption
<1>2. \A t \in FftTasks : Filled(t, w) \in [Domain -> Field]
  BY <1>1, OddIs
<1>3. \A t \in MsmTasks : MsmOf(t, w) \in Field
  <2>1. MsmOf("pi_a", w) \in Field /\ MsmOf("pi_b", w) \in Field /\ MsmOf("pib1", w) \in Field
    BY <1>1, MsmOfAB
  <2>2. MsmOf("pi_c", w) \in Field
    BY <1>1, MsmOfC
  <2> QED  BY <2>1, <2>2 DEF MsmTasks
<1>4. HOf(w) \in Field /\ Quotients(w) \in [Domain -> Field]
  BY <1>1, HValue, QuotientsType
<1>5. [i \in Domain |-> Mul(Combination(w, QapA)[i], Combination(w, QapB)[i])] = Combination(w, QapC)
  <2>1. Combination(w, QapC) \in [Domain -> Field]
    BY <1>1, WitnessColumns, MakingAssumption
  <2> DEFINE c == Combination(w, QapC)
             a == Combination(w, QapA)
             b == Combination(w, QapB)
  <2>2. \A i \in Domain : Mul(a[i], b[i]) = c[i]
    BY WitnessAssumption
  <2> HIDE DEF a, b, c
  <2>3. [i \in Domain |-> Mul(a[i], b[i])] = [i \in Domain |-> c[i]]
    BY <2>2
  <2>4. c = [i \in Domain |-> c[i]]
    BY <2>1 DEF c
  <2> QED  BY <2>3, <2>4 DEF a, b, c
<1> QED  BY <1>1, <1>2, <1>3, <1>4, <1>5

--------------------------------------------------------------------------------
\* A call begins with this: nothing has been computed.
Fresh ==
  /\ pc = <<"launch", 1>> /\ task = [t \in Tasks |-> "none"] /\ proof = <<>>
  /\ msm = [t \in MsmTasks \cup {"pih"} |-> Unset] /\ buf = [x \in FftTasks |-> Freed]
  /\ wtns \in Witnesses /\ faults \in 0 .. MaxFaults /\ deferred \in 0 .. MaxDeferred

\* What a call finds when it begins.
LEMMA FreshData == Fresh => Data
<1> SUFFICES ASSUME Fresh PROVE Data
  OBVIOUS
<1>1. pc[1] = "launch" /\ pc = <<"launch", 1>>
  BY DEF Fresh
<1>2. \A t \in MsmTasks : task[t] # "done"
  BY Names DEF Fresh
<1>3. Types /\ Arrays /\ Proved
  BY DEF Fresh, Types, Arrays, Proved
<1>4. Contents
  BY <1>1 DEF Contents, InArrays
<1>7. Unlaunched
  BY <1>1 DEF Unlaunched
<1>5. Results
  BY <1>1, <1>2 DEF Results, AfterH
<1>6. Sampled
  BY <1>1 DEF Sampled
<1> QED  BY <1>3, <1>4, <1>5, <1>6, <1>7 DEF Data

\* The first state.
LEMMA InitData == Init => Data
<1>1. Init => Fresh
  <2> SUFFICES ASSUME Init PROVE Fresh
    OBVIOUS
  <2>1. MsmTasks \cup {"pih"} = {"pi_a", "pib1", "pi_b", "pi_c", "pih"} /\ FftTasks = {"a", "b", "c"}
    BY DEF MsmTasks, FftTasks
  <2>2. 0 \in 0 .. MaxFaults /\ 0 \in 0 .. MaxDeferred
    BY BoundsAssumption
  <2> QED  BY <2>1, <2>2 DEF Init, Fresh
<1> QED  BY <1>1, FreshData

\* A launch counts what it defers, and undoes no result.
LEMMA LaunchEffect ==
  ASSUME NEW ts, NEW k, NEW begin, Launch(ts, k, begin), deferred \in 0 .. MaxDeferred
  PROVE  /\ deferred' \in 0 .. MaxDeferred
         /\ \E st \in {begin, "deferred"} : task' = [task EXCEPT ![ts[k]] = st]
<1>1. CASE task' = [task EXCEPT ![ts[k]] = begin] /\ UNCHANGED deferred
  BY <1>1
<1>2. CASE /\ deferred < MaxDeferred
           /\ task' = [task EXCEPT ![ts[k]] = "deferred"]
           /\ deferred' = deferred + 1
  <2>1. deferred' \in 0 .. MaxDeferred
    BY <1>2, BoundsAssumption
  <2> QED  BY <1>2, <2>1
<1> QED  BY <1>1, <1>2 DEF Launch

\* A proof stays what it is.
LEMMA SameProof == ASSUME Proved, UNCHANGED <<wtns, proof>> PROVE Proved'
BY DEF Proved, Verifies

\* The steps of the call keep what the data are, one by one.
LEMMA LaunchMsmData ==
  ASSUME Lifetimes, Data, NEW k \in 1 .. 4, LaunchMsm(k) PROVE Data'
<1>1. /\ pc = <<"launch", k>> /\ UNCHANGED <<wtns, msm, buf, r, s, proof, faults>>
      /\ pc' = IF k < 4 THEN <<"launch", k + 1>> ELSE <<"new", 1>>
      /\ Launch(Msms, k, "msm")
  BY DEF LaunchMsm, Goto
<1>2. pc'[1] \in {"launch", "new"}
  BY <1>1
<1>3. PICK st \in {"msm", "deferred"} : task' = [task EXCEPT ![Msms[k]] = st]
  BY <1>1, LaunchEffect DEF Data, Types
<1>4. Types'
  BY <1>1, LaunchEffect DEF Data, Types
<1>5. Arrays' /\ Proved'
  BY <1>1, SameProof DEF Data, Arrays
<1>6. Contents' /\ Unlaunched' /\ Sampled'
  BY <1>2 DEF Contents, Unlaunched, InArrays, Sampled
<1>7. \A t \in MsmTasks : task'[t] = "done" => task[t] = "done"
  BY <1>3, Names DEF Lifetimes, Memory
<1>8. Results'
  BY <1>1, <1>2, <1>7 DEF Data, Results, AfterH
<1> QED  BY <1>4, <1>5, <1>6, <1>8 DEF Data

LEMMA NewData == ASSUME Lifetimes, Data, NEW k \in 1 .. 3, New(k) PROVE Data'
<1>1. /\ UNCHANGED <<wtns, task, msm, r, s, proof, deferred>>
      /\ \/ /\ buf' = [buf EXCEPT ![Ffts[k]] = [i \in Domain |-> Q - 1]] /\ UNCHANGED faults
            /\ pc' = IF k < 3 THEN <<"new", k + 1>> ELSE <<"coefs">>
         \/ /\ faults < MaxFaults /\ faults' = faults + 1
            /\ pc' = <<"~futures">> /\ UNCHANGED buf
  BY DEF New, Goto
<1>2. pc'[1] \in {"new", "coefs", "~futures"}
  BY <1>1
<1>3. Types'
  <2>1. faults' \in 0 .. MaxFaults
    BY <1>1, BoundsAssumption DEF Data, Types
  <2> QED  BY <1>1, <2>1 DEF Data, Types
<1>4. Arrays'
  <2>1. Q - 1 \in Field
    BY FieldAssumption DEF Field
  <2>2. [i \in Domain |-> Q - 1] \in [Domain -> Field]
    BY <2>1
  <2> QED  BY <1>1, <2>2, Names DEF Data, Arrays, Lifetimes, Memory
<1>5. Contents' /\ Unlaunched' /\ Sampled'
  BY <1>2 DEF Contents, Unlaunched, InArrays, Sampled
<1>6. Results' /\ Proved'
  BY <1>1, <1>2, SameProof DEF Data, Results, AfterH
<1> QED  BY <1>3, <1>4, <1>5, <1>6 DEF Data

\* The third array is the product of the first two, which is the third combination.
LEMMA CoefsData == ASSUME Lifetimes, Data, Coefs PROVE Data'
<1>1. /\ pc = <<"coefs">> /\ pc' = <<"transform", 1>>
      /\ UNCHANGED <<wtns, task, msm, r, s, proof, faults, deferred>>
      /\ wtns \in Witnesses
  BY DEF Coefs, Goto, Data, Types
<1>2. pc'[1] = "transform" /\ pc[1] \in Early
  BY <1>1 DEF Early
<1>3. \A t \in FftTasks : buf'[t] = Filled(t, wtns)
  <2>1. buf'["a"] = Combination(wtns, QapA)
    BY DEF Coefs
  <2>2. buf'["b"] = Combination(wtns, QapB)
    BY DEF Coefs
  <2>3. buf'["c"] = [i \in Domain |-> Mul(Combination(wtns, QapA)[i], Combination(wtns, QapB)[i])]
    BY DEF Coefs
  <2>4. buf'["c"] = Combination(wtns, QapC)
    BY <1>1, <2>3, WitnessTypes
  <2> QED  BY <2>1, <2>2, <2>4 DEF Filled, FftTasks
<1>4. Arrays'
  BY <1>1, <1>3, WitnessTypes DEF Arrays
<1>5. \A t \in FftTasks : task[t] = "none"
  BY <1>2 DEF Lifetimes, NoneYet
<1>6. Contents'
  <2>1. \A t \in FftTasks : Content("none", t, wtns) = Filled(t, wtns)
    BY DEF Content
  <2> QED  BY <1>1, <1>2, <1>3, <1>5, <2>1 DEF Contents
<1>9. Unlaunched'
  BY <1>1, <1>5, Names DEF Unlaunched
<1>7. Types' /\ Proved'
  BY <1>1, SameProof DEF Data, Types
<1>8. Results' /\ Sampled'
  BY <1>1, <1>2 DEF Data, Results, Sampled, AfterH
<1> QED  BY <1>4, <1>6, <1>7, <1>8, <1>9 DEF Data

LEMMA LaunchFftData ==
  ASSUME Lifetimes, Data, NEW k \in 1 .. 3, LaunchFft(k) PROVE Data'
<1>1. /\ pc = <<"transform", k>> /\ UNCHANGED <<wtns, msm, buf, r, s, proof, faults>>
      /\ pc' = IF k < 3 THEN <<"transform", k + 1>> ELSE <<"join", 1>>
      /\ Launch(Ffts, k, "ifft")
  BY DEF LaunchFft, Goto
<1>2. pc[1] = "transform" /\ pc'[1] \in {"transform", "join"}
  BY <1>1
<1>3. PICK st \in {"ifft", "deferred"} : task' = [task EXCEPT ![Ffts[k]] = st]
  BY <1>1, LaunchEffect DEF Data, Types
<1>4. Types'
  BY <1>1, LaunchEffect DEF Data, Types
<1>5. Arrays' /\ Proved'
  BY <1>1, SameProof DEF Data, Arrays
<1>6. \A t \in MsmTasks : task'[t] = task[t]
  BY <1>3, Names DEF Lifetimes, Memory
<1>7. Results' /\ Sampled'
  BY <1>1, <1>2, <1>6 DEF Data, Results, Sampled, AfterH
<1>8. Contents'
  <2> SUFFICES ASSUME NEW t \in FftTasks, task'[t] # "threw"
               PROVE  buf'[t] = Content(task'[t], t, wtns)
    BY <1>1, <1>2 DEF Contents
  <2>1. CASE t = Ffts[k]
    <3>1. task[t] = "none" /\ buf[t] = Content("none", t, wtns)
      BY <1>1, <1>2, <2>1 DEF Data, Contents, Unlaunched, InArrays
    <3>2. task'[t] = st
      BY <1>3, <2>1, Names DEF Lifetimes, Memory
    <3>3. Content(st, t, wtns) = Content("none", t, wtns)
      BY DEF Content
    <3> QED  BY <1>1, <3>1, <3>2, <3>3
  <2>2. CASE t # Ffts[k]
    BY <1>1, <1>2, <1>3, <2>2, Names DEF Data, Contents, InArrays, Lifetimes, Memory
  <2> QED  BY <2>1, <2>2
<1>9. Unlaunched'
  <2> SUFFICES ASSUME pc'[1] = "transform", NEW j \in 1 .. 3, j >= pc'[2]
               PROVE  task'[Ffts[j]] = "none"
    BY DEF Unlaunched
  <2>1. pc' = <<"transform", k + 1>> /\ j >= k + 1
    BY <1>1
  <2>2. Ffts[j] # Ffts[k] /\ j >= k
    BY <2>1, Names
  <2>3. task[Ffts[j]] = "none"
    BY <1>1, <1>2, <2>2 DEF Data, Unlaunched
  <2> QED  BY <1>3, <2>2, <2>3, Names DEF Lifetimes, Memory
<1> QED  BY <1>4, <1>5, <1>7, <1>8, <1>9 DEF Data

\* A wait that goes on starts the task, if it was deferred, or finds it done.
LEMMA JoinFftData ==
  ASSUME Lifetimes, Data, NEW k \in 1 .. 3, JoinFft(k) PROVE Data'
<1> DEFINE t == Ffts[k]
<1>1. /\ pc = <<"join", k>> /\ UNCHANGED <<wtns, msm, buf, r, s, proof, faults, deferred>>
      /\ Get(t, "ifft", IF k < 3 THEN <<"join", k + 1>> ELSE <<"abc">>)
  BY DEF JoinFft
<1>2. t \in FftTasks /\ t \in Tasks /\ pc[1] = "join"
  BY <1>1, Names
<1>3. \/ task[t] = "deferred" /\ task' = [task EXCEPT ![t] = "ifft"] /\ UNCHANGED pc
      \/ UNCHANGED task /\ pc'[1] \in {"join", "abc", "~futures"}
  BY <1>1 DEF Get, Goto
<1>4. pc'[1] \in {"join", "abc", "~futures"}
  BY <1>2, <1>3
<1>5. Types' /\ Arrays' /\ Proved' /\ Sampled' /\ Unlaunched'
  BY <1>1, <1>4, SameProof DEF Data, Types, Arrays, Sampled, Unlaunched
<1>6. \A u \in MsmTasks : task'[u] = task[u]
  BY <1>2, <1>3, Names DEF Lifetimes, Memory
<1>7. Results'
  BY <1>1, <1>4, <1>6 DEF Data, Results, AfterH
<1>8. Contents'
  <2> SUFFICES ASSUME NEW u \in FftTasks, task'[u] # "threw"
               PROVE  buf[u] = Content(task'[u], u, wtns)
    BY <1>1, <1>4 DEF Contents
  <2>1. task[u] # "threw" => buf[u] = Content(task[u], u, wtns)
    BY <1>2 DEF Data, Contents, InArrays
  <2>2. CASE UNCHANGED task
    BY <2>1, <2>2
  <2>3. CASE task[t] = "deferred" /\ task' = [task EXCEPT ![t] = "ifft"]
    <3>1. CASE u = t
      <4>1. task[u] = "deferred" /\ task'[u] = "ifft"
        BY <1>2, <2>3, <3>1 DEF Lifetimes, Memory
      <4>2. Content("ifft", u, wtns) = Content("deferred", u, wtns)
        BY DEF Content
      <4> QED  BY <2>1, <4>1, <4>2
    <3>2. CASE u # t
      <4>1. task'[u] = task[u]
        BY <1>2, <2>3, <3>2, Names DEF Lifetimes, Memory
      <4> QED  BY <2>1, <4>1
    <3> QED  BY <3>1, <3>2
  <2> QED  BY <1>3, <2>2, <2>3
<1> QED  BY <1>5, <1>7, <1>8 DEF Data

LEMMA AbcData == ASSUME Lifetimes, Data, Abc PROVE Data'
<1>1. /\ pc = <<"abc">> /\ pc' = <<"H">>
      /\ UNCHANGED <<wtns, task, msm, r, s, proof, faults, deferred>>
      /\ buf' = [buf EXCEPT !["a"] = [i \in Domain |-> Sub(Mul(buf["a"][i], buf["b"][i]), buf["c"][i])]]
  BY DEF Abc, Goto
<1>2. pc[1] = "abc" /\ pc'[1] = "H" /\ wtns \in Witnesses
  BY <1>1 DEF Data, Types
<1>3. \A t \in FftTasks : buf[t] = Odd(t, wtns)
  <2>1. \A t \in FftTasks : task[t] = "done"
    BY <1>2 DEF Lifetimes, JoinedSoFar, Joined
  <2>2. \A t \in FftTasks : buf[t] = Content("done", t, wtns)
    BY <1>2, <2>1 DEF Data, Contents, InArrays
  <2> QED  BY <2>2 DEF Content
<1>4. buf["a"] = Odd("a", wtns) /\ buf["b"] = Odd("b", wtns) /\ buf["c"] = Odd("c", wtns)
  BY <1>3 DEF FftTasks
<1>5. [i \in Domain |-> Sub(Mul(buf["a"][i], buf["b"][i]), buf["c"][i])] = Quotients(wtns)
  BY <1>4 DEF Quotients
<1>6. buf' = [buf EXCEPT !["a"] = Quotients(wtns)] /\ "a" \in FftTasks /\ DOMAIN buf = FftTasks
  BY <1>1, <1>5 DEF FftTasks, Lifetimes, Memory
<1>7. Arrays'
  BY <1>2, <1>6, WitnessTypes DEF Data, Arrays
<1>8. Contents'
  BY <1>1, <1>2, <1>6 DEF Contents, InArrays
<1>9. Types' /\ Proved' /\ Sampled' /\ Unlaunched' /\ Results'
  BY <1>1, <1>2, SameProof DEF Data, Types, Sampled, Unlaunched, Results, AfterH
<1> QED  BY <1>7, <1>8, <1>9 DEF Data

LEMMA MsmHData == ASSUME Lifetimes, Data, MsmH PROVE Data'
<1>1. /\ pc = <<"H">> /\ UNCHANGED <<wtns, task, buf, r, s, proof, deferred>>
      /\ \/ /\ msm' = [msm EXCEPT !["pih"] = Total([i \in Domain |-> buf["a"][i] * pointsH[i]])]
            /\ pc' = <<"sample_r">> /\ UNCHANGED faults
         \/ /\ faults < MaxFaults /\ faults' = faults + 1
            /\ pc' = <<"~futures">> /\ UNCHANGED msm
  BY DEF MsmH, Goto
<1>2. pc[1] = "H" /\ pc'[1] \in {"sample_r", "~futures"} /\ wtns \in Witnesses
  BY <1>1 DEF Data, Types
<1>3. Total([i \in Domain |-> buf["a"][i] * pointsH[i]]) = HOf(wtns)
  BY <1>2 DEF Data, Contents, HOf
<1>4. /\ msm' = msm \/ msm' = [msm EXCEPT !["pih"] = HOf(wtns)]
      /\ pc'[1] = "sample_r" => msm' = [msm EXCEPT !["pih"] = HOf(wtns)]
  BY <1>1, <1>3
<1>5. HOf(wtns) \in Field
  BY <1>2, WitnessTypes
<1>6. Types'
  <2>1. faults' \in 0 .. MaxFaults
    BY <1>1, BoundsAssumption DEF Data, Types
  <2>2. msm' \in [MsmTasks \cup {"pih"} -> Field \cup {Unset}]
    BY <1>4, <1>5 DEF Data, Types
  <2> QED  BY <1>1, <2>1, <2>2 DEF Data, Types
<1>7. Arrays' /\ Proved'
  BY <1>1, SameProof DEF Data, Arrays
<1>8. Contents' /\ Unlaunched' /\ Sampled'
  BY <1>2 DEF Contents, Unlaunched, Sampled, InArrays
<1>9. Results'
  <2>1. \A t \in MsmTasks : msm'[t] = msm[t]
    BY <1>4 DEF Data, Types, MsmTasks
  <2>2. pc'[1] = "sample_r" => msm'["pih"] = HOf(wtns)
    BY <1>4 DEF Data, Types
  <2> QED  BY <1>1, <1>2, <2>1, <2>2 DEF Data, Results, AfterH
<1> QED  BY <1>6, <1>7, <1>8, <1>9 DEF Data

\* What is accepted is a field element.
LEMMA AcceptedIs == \A x \in Draws : Accepted(x) => x \in Field
BY BoundsAssumption, FieldAssumption DEF Accepted, Field

LEMMA SampleRData == ASSUME Lifetimes, Data, NEW x \in Draws, SampleR(x) PROVE Data'
<1>1. /\ pc = <<"sample_r">> /\ r' = x
      /\ IF Accepted(x) THEN pc' = <<"sample_s">> ELSE UNCHANGED pc
      /\ UNCHANGED <<wtns, task, msm, buf, s, proof, faults, deferred>>
  BY DEF SampleR, Goto
<1>2. /\ pc[1] = "sample_r" /\ pc'[1] \in {"sample_r", "sample_s"}
      /\ pc'[1] = "sample_s" => r' \in Field
  BY <1>1, AcceptedIs
<1>3. Types' /\ Arrays' /\ Proved'
  BY <1>1, SameProof DEF Data, Types, Arrays
<1>4. Contents' /\ Unlaunched'
  BY <1>2 DEF Contents, Unlaunched, InArrays
<1>5. Results'
  BY <1>1, <1>2 DEF Data, Results, AfterH
<1>6. Sampled'
  BY <1>2 DEF Sampled
<1> QED  BY <1>3, <1>4, <1>5, <1>6 DEF Data

LEMMA SampleSData == ASSUME Lifetimes, Data, NEW x \in Draws, SampleS(x) PROVE Data'
<1>1. /\ pc = <<"sample_s">> /\ s' = x
      /\ IF Accepted(x) THEN pc' = <<"get", 1>> ELSE UNCHANGED pc
      /\ UNCHANGED <<wtns, task, msm, buf, r, proof, faults, deferred>>
  BY DEF SampleS, Goto
<1>2. /\ pc[1] = "sample_s" /\ pc'[1] \in {"sample_s", "get"}
      /\ pc'[1] = "get" => s' \in Field /\ pc'[2] = 1
  BY <1>1, AcceptedIs
<1>3. Types' /\ Arrays' /\ Proved'
  BY <1>1, SameProof DEF Data, Types, Arrays
<1>4. Contents' /\ Unlaunched'
  BY <1>2 DEF Contents, Unlaunched, InArrays
<1>5. Results'
  <2>1. \A j \in 1 .. 4 : ~ j < 1
    OBVIOUS
  <2>2. pc'[1] = "get" => \A j \in 1 .. 4 : j < pc'[2] => task'[Msms[j]] = "done"
    BY <1>2, <2>1
  <2> QED  BY <1>1, <1>2, <2>2 DEF Data, Results, AfterH
<1>6. Sampled'
  BY <1>1, <1>2 DEF Data, Sampled
<1> QED  BY <1>3, <1>4, <1>5, <1>6 DEF Data

LEMMA JoinMsmData ==
  ASSUME Lifetimes, Data, NEW k \in 1 .. 4, JoinMsm(k) PROVE Data'
<1> DEFINE t == Msms[k]
<1>1. /\ pc = <<"get", k>> /\ UNCHANGED <<wtns, msm, buf, r, s, proof, faults, deferred>>
      /\ Get(t, "msm", IF k < 4 THEN <<"get", k + 1>> ELSE <<"assemble">>)
  BY DEF JoinMsm
<1>2. t \in MsmTasks /\ t \in Tasks /\ pc[1] = "get" /\ pc[2] = k
  BY <1>1, Names
<1>3. \/ task[t] = "deferred" /\ task' = [task EXCEPT ![t] = "msm"] /\ UNCHANGED pc
      \/ /\ task[t] = "done" /\ UNCHANGED task
         /\ pc' = IF k < 4 THEN <<"get", k + 1>> ELSE <<"assemble">>
      \/ pc' = <<"~futures">> /\ UNCHANGED task
  BY <1>1 DEF Get, Goto
<1>4. pc'[1] \in {"get", "assemble", "~futures"}
  BY <1>2, <1>3
<1>5. Types' /\ Arrays' /\ Proved'
  BY <1>1, SameProof DEF Data, Types, Arrays
<1>6. Contents' /\ Unlaunched'
  BY <1>4 DEF Contents, Unlaunched, InArrays
<1>7. Sampled'
  BY <1>1, <1>2, <1>4 DEF Data, Sampled
<1>8. Results'
  <2>1. \A j \in 1 .. 4 : j < k => task[Msms[j]] = "done"
    BY <1>2 DEF Data, Results
  <2>2. CASE task[t] = "deferred" /\ task' = [task EXCEPT ![t] = "msm"] /\ UNCHANGED pc
    <3>1. \A u \in MsmTasks : task'[u] = "done" <=> task[u] = "done"
      BY <1>2, <2>2, Names DEF Lifetimes, Memory
    <3> QED  BY <1>1, <1>2, <2>2, <3>1, Names DEF Data, Results, AfterH
  <2>3. CASE /\ task[t] = "done" /\ UNCHANGED task
             /\ pc' = IF k < 4 THEN <<"get", k + 1>> ELSE <<"assemble">>
    <3>1. \A j \in 1 .. 4 : j < k + 1 => task[Msms[j]] = "done"
      BY <2>1, <2>3
    <3>2. /\ pc'[1] \in {"get", "assemble"} /\ (pc'[1] = "get" => pc'[2] = k + 1)
          /\ pc'[1] = "assemble" => k = 4
      BY <2>3
    <3>3. k = 4 => \A u \in MsmTasks : task[u] = "done"
      <4> SUFFICES ASSUME k = 4, NEW u \in MsmTasks PROVE task[u] = "done"
        OBVIOUS
      <4>1. PICK j \in 1 .. 4 : u = Msms[j]
        BY DEF MsmTasks, Msms
      <4> QED  BY <3>1, <4>1
    <3> QED  BY <1>1, <1>2, <2>3, <3>1, <3>2, <3>3 DEF Data, Results, AfterH
  <2>4. CASE pc' = <<"~futures">> /\ UNCHANGED task
    <3>1. pc'[1] = "~futures"
      BY <2>4
    <3> QED  BY <1>1, <2>4, <3>1 DEF Data, Results, AfterH
  <2> QED  BY <1>3, <2>2, <2>3, <2>4
<1> QED  BY <1>5, <1>6, <1>7, <1>8 DEF Data

\* The parts are what Verified takes.
LEMMA AssembleData == ASSUME Lifetimes, Data, Assemble PROVE Data'
<1>1. /\ pc = <<"assemble">> /\ pc' = <<"~futures">>
      /\ UNCHANGED <<wtns, task, msm, buf, r, s, faults, deferred>>
  BY DEF Assemble, Goto
<1>2. pc[1] = "assemble" /\ pc'[1] = "~futures" /\ wtns \in Witnesses
  BY <1>1 DEF Data, Types
<1>3. /\ msm["pi_a"] = MsmOf("pi_a", wtns) /\ msm["pi_b"] = MsmOf("pi_b", wtns)
      /\ msm["pib1"] = MsmOf("pib1", wtns) /\ msm["pi_c"] = MsmOf("pi_c", wtns)
      /\ msm["pih"] = HOf(wtns) /\ r \in Field /\ s \in Field
  BY <1>2 DEF Data, Results, Sampled, AfterH, MsmTasks
<1>4. Proved'
  <2> DEFINE A  == (msm["pi_a"] + Setup.alpha + Setup.delta * r) % Q
             B  == (msm["pi_b"] + Setup.beta + Setup.delta * s) % Q
             B1 == (msm["pib1"] + Setup.beta + Setup.delta * s) % Q
             C  == (msm["pi_c"] + msm["pih"] + A * s + B1 * r - Setup.delta * Mul(r, s)) % Q
  <2>1. proof' = [A |-> A, B |-> B, C |-> C]
    BY DEF Assemble
  <2>2. /\ A = (MsmOf("pi_a", wtns) + Setup.alpha + Setup.delta * r) % Q
        /\ B = (MsmOf("pi_b", wtns) + Setup.beta + Setup.delta * s) % Q
        /\ B1 = (MsmOf("pib1", wtns) + Setup.beta + Setup.delta * s) % Q
        /\ C = (MsmOf("pi_c", wtns) + HOf(wtns) + A * s + B1 * r - Setup.delta * Mul(r, s)) % Q
    BY <1>3
  <2> HIDE DEF A, B, B1, C
  <2>3. Mul(A, B) =
          (Setup.alpha * Setup.beta + Setup.gamma * PublicTotal(wtns) + Setup.delta * C) % Q
    BY <1>2, <1>3, <2>2, Verified
  <2>4. PublicTotal(wtns) = Total([v \in 0 .. nPublic |-> wtns[v] * IC[v]])
    BY DEF PublicTotal
  <2>5. proof'.A = A /\ proof'.B = B /\ proof'.C = C
    BY <2>1
  <2>6. Verifies(proof)'
    BY <1>1, <2>3, <2>4, <2>5, Zenon DEF Verifies
  <2> QED  BY <2>6 DEF Proved
<1>5. Types' /\ Arrays'
  BY <1>1 DEF Data, Types, Arrays
<1>6. Contents' /\ Unlaunched' /\ Sampled'
  BY <1>2 DEF Contents, Unlaunched, Sampled, InArrays
<1>7. Results'
  BY <1>1, <1>2 DEF Data, Results, AfterH
<1> QED  BY <1>4, <1>5, <1>6, <1>7 DEF Data

\* The end of the function keeps the proof.
LEMMA LeaveData ==
  ASSUME Lifetimes, Data, DestroyFutures \/ Free \/ Leave PROVE Data'
<1>1. /\ UNCHANGED <<wtns, task, msm, r, s, proof, faults, deferred>>
      /\ pc'[1] \in {"~buffers", "~msms", "left"}
      /\ buf' = buf \/ buf' = [x \in {"a", "b", "c"} |-> Freed]
  <2>1. CASE DestroyFutures
    BY <2>1 DEF DestroyFutures, Goto
  <2>2. CASE Free
    BY <2>2 DEF Free, Goto
  <2>3. CASE Leave
    BY <2>3 DEF Leave, Goto
  <2> QED  BY <2>1, <2>2, <2>3
<1>2. Types' /\ Proved'
  BY <1>1, SameProof DEF Data, Types
<1>3. Arrays'
  BY <1>1 DEF Data, Arrays, FftTasks
<1>4. Contents' /\ Unlaunched' /\ Sampled'
  BY <1>1 DEF Contents, Unlaunched, Sampled, InArrays
<1>5. Results'
  BY <1>1 DEF Data, Results, AfterH
<1> QED  BY <1>2, <1>3, <1>4, <1>5 DEF Data

LEMMA RunMsmData == ASSUME Lifetimes, Data, NEW t \in MsmTasks, RunMsm(t) PROVE Data'
<1>1. /\ task[t] = "msm" /\ task' = [task EXCEPT ![t] = "done"]
      /\ msm' = [msm EXCEPT ![t] = MsmOf(t, wtns)]
      /\ UNCHANGED <<wtns, pc, buf, r, s, proof, faults, deferred>>
  BY DEF RunMsm, MsmOf
<1>2. t \in Tasks /\ wtns \in Witnesses /\ t # "pih"
  BY Names DEF Data, Types, MsmTasks
<1>3. MsmOf(t, wtns) \in Field
  BY <1>2, WitnessTypes
<1>4. Types'
  BY <1>1, <1>2, <1>3 DEF Data, Types
<1>5. \A u \in FftTasks : task'[u] = task[u]
  BY <1>1, Names DEF Lifetimes, Memory
<1>6. Arrays' /\ Contents' /\ Sampled' /\ Proved'
  BY <1>1, <1>5, SameProof DEF Data, Arrays, Contents, Sampled
<1>7. Unlaunched'
  BY <1>1, <1>5, Names DEF Data, Unlaunched
<1>8. Results'
  <2>1. \A u \in MsmTasks : task[u] = "done" => task'[u] = "done" /\ u # t
    BY <1>1, <1>2, Names DEF Lifetimes, Memory
  <2>2. ASSUME NEW u \in MsmTasks, task'[u] = "done" PROVE msm'[u] = MsmOf(u, wtns)
    <3>1. CASE u = t
      BY <1>1, <3>1 DEF Data, Types
    <3>2. CASE u # t
      <4>1. task'[u] = task[u] /\ msm'[u] = msm[u]
        BY <1>1, <3>2, Names DEF Lifetimes, Memory, Data, Types
      <4> QED  BY <2>2, <4>1 DEF Data, Results
    <3> QED  BY <3>1, <3>2
  <2>3. msm'["pih"] = msm["pih"]
    BY <1>1, <1>2 DEF Data, Types
  <2>4. pc[1] = "get" => \A j \in 1 .. 4 : j < pc[2] => task'[Msms[j]] = "done"
    BY <2>1, Names DEF Data, Results
  <2>5. pc[1] = "assemble" => \A u \in MsmTasks : task'[u] = "done"
    BY <2>1 DEF Data, Results
  <2> QED  BY <1>1, <2>2, <2>3, <2>4, <2>5 DEF Data, Results
<1> QED  BY <1>4, <1>6, <1>7, <1>8 DEF Data

\* A step of a transform takes its array from one content to the next.
LEMMA RunFftData == ASSUME Lifetimes, Data, NEW t \in FftTasks, RunFft(t) PROVE Data'
<1> DEFINE y == buf[t]
           z == CASE task[t] = "ifft"  -> InverseDFT(y)
                  [] task[t] = "shift" -> Shifted(y)
                  [] OTHER             -> DFT(y)
           st == CASE task[t] = "ifft" -> "shift" [] task[t] = "shift" -> "fft" [] OTHER -> "done"
<1>1. /\ task[t] \in {"ifft", "shift", "fft"}
      /\ buf' = IF y = Freed THEN buf ELSE [buf EXCEPT ![t] = z]
      /\ task' = [task EXCEPT ![t] = st]
      /\ UNCHANGED <<wtns, pc, msm, r, s, proof, faults, deferred>>
  BY DEF RunFft
<1>2. Running(t) /\ t \in Tasks /\ t \notin MsmTasks
  BY <1>1, Names DEF Running
<1>3. y # Freed /\ y \in [Domain -> Field] /\ DOMAIN buf = FftTasks
      /\ pc[1] \notin Joined
  BY <1>2, RunningWhere DEF Data, Arrays, Lifetimes, Memory
<1>4. z \in [Domain -> Field]
  <2>1. DFT(y) \in [Domain -> Field] /\ InverseDFT(y) \in [Domain -> Field]
        /\ Shifted(y) \in [Domain -> Field]
    BY <1>3, ArrayTransforms
  <2> QED  BY <2>1
<1>5. buf' = [buf EXCEPT ![t] = z]
  BY <1>1, <1>3
<1>6. \A u \in MsmTasks : task'[u] = task[u]
  BY <1>1, <1>2, Names DEF Lifetimes, Memory
<1>7. task'[t] = st /\ \A u \in FftTasks \ {t} : task'[u] = task[u] /\ buf'[u] = buf[u]
  BY <1>1, <1>2, <1>3, <1>5, Names DEF Lifetimes, Memory
<1>8. buf'[t] = z
  BY <1>3, <1>5
<1>9. ASSUME y = Content(task[t], t, wtns) PROVE z = Content(st, t, wtns)
  BY <1>1, <1>9 DEF Content, Odd
<1>10. Arrays'
  <2> HIDE DEF z
  <2> QED  BY <1>4, <1>7, <1>8 DEF Data, Arrays
<1>11. Contents'
  <2>1. pc[1] \in InArrays => \A u \in FftTasks : task[u] # "threw" => buf[u] = Content(task[u], u, wtns)
    BY DEF Data, Contents
  <2>2. task[t] # "threw" /\ pc[1] # "H"
    BY <1>1, <1>3 DEF Joined
  <2> HIDE DEF z, st
  <2>3. ASSUME pc[1] \in InArrays, NEW u \in FftTasks, task'[u] # "threw"
        PROVE  buf'[u] = Content(task'[u], u, wtns)
    <3>1. CASE u = t
      BY <1>7, <1>8, <1>9, <2>1, <2>2, <2>3, <3>1
    <3>2. CASE u # t
      BY <1>7, <2>1, <2>3, <3>2
    <3> QED  BY <3>1, <3>2
  <2> QED  BY <1>1, <2>2, <2>3 DEF Contents
<1> HIDE DEF z, st
<1>12. Types' /\ Sampled' /\ Proved'
  BY <1>1, SameProof DEF Data, Types, Sampled
<1>13. Unlaunched'
  BY <1>1, <1>7, Names DEF Data, Unlaunched
<1>14. Results'
  BY <1>1, <1>6, Names DEF Data, Results
<1> QED  BY <1>10, <1>11, <1>12, <1>13, <1>14 DEF Data

LEMMA ThrowData == ASSUME Lifetimes, Data, NEW t \in Tasks, Throw(t) PROVE Data'
<1>1. /\ Running(t) /\ faults < MaxFaults
      /\ task' = [task EXCEPT ![t] = "threw"] /\ faults' = faults + 1
      /\ UNCHANGED <<wtns, pc, msm, buf, r, s, proof, deferred>>
  BY DEF Throw
<1>2. Types'
  <2>1. faults' \in 0 .. MaxFaults
    BY <1>1, BoundsAssumption DEF Data, Types
  <2> QED  BY <1>1, <2>1 DEF Data, Types
<1>3. \A u \in Tasks : task'[u] = task[u] \/ (task'[u] = "threw" /\ Running(u))
  BY <1>1 DEF Lifetimes, Memory
<1>4. task[t] # "none" /\ task[t] # "done"
  BY <1>1 DEF Running
<1>5. \A u \in Tasks : /\ task[u] \in {"none", "done"} => task'[u] = task[u]
                       /\ task'[u] = "done" => task[u] = "done"
                       /\ task'[u] # "threw" => task'[u] = task[u]
  BY <1>3 DEF Running
<1>6. Arrays' /\ Sampled' /\ Proved'
  BY <1>1, SameProof DEF Data, Arrays, Sampled
<1>7. Contents'
  BY <1>1, <1>5, Names DEF Data, Contents
<1>8. Unlaunched'
  BY <1>1, <1>5, Names DEF Data, Unlaunched
<1>9. Results'
  BY <1>1, <1>5, Names DEF Data, Results
<1> QED  BY <1>2, <1>6, <1>7, <1>8, <1>9 DEF Data

LEMMA StutterData == ASSUME Data, UNCHANGED vars PROVE Data'
<1>1. UNCHANGED <<wtns, pc, task, msm, buf, r, s, proof, faults, deferred>>
  BY DEF vars
<1>2. Types' /\ Arrays' /\ Contents' /\ Unlaunched' /\ Sampled' /\ Proved'
  BY <1>1, SameProof DEF Data, Types, Arrays, Contents, Unlaunched, Sampled
<1>3. Results'
  BY <1>1 DEF Data, Results
<1> QED  BY <1>2, <1>3 DEF Data

\* Every step keeps what the data are.
LEMMA NextData == ASSUME Lifetimes, Data, [Next]_vars PROVE Data'
<1>1. CASE Main
  <2>1. ASSUME NEW k \in 1 .. 4, LaunchMsm(k) \/ JoinMsm(k) PROVE Data'
    BY <2>1, LaunchMsmData, JoinMsmData
  <2>2. ASSUME NEW k \in 1 .. 3, New(k) \/ LaunchFft(k) \/ JoinFft(k) PROVE Data'
    BY <2>2, NewData, LaunchFftData, JoinFftData
  <2>3. CASE Coefs \/ Abc \/ MsmH \/ Assemble
    BY <2>3, CoefsData, AbcData, MsmHData, AssembleData
  <2>4. CASE DestroyFutures \/ Free \/ Leave
    BY <2>4, LeaveData
  <2> QED  BY <1>1, <2>1, <2>2, <2>3, <2>4 DEF Main
<1>2. CASE Sample
  BY <1>2, SampleRData, SampleSData DEF Sample
<1>3. ASSUME NEW t \in Tasks, Run(t) \/ Throw(t) PROVE Data'
  BY <1>3, Names, RunMsmData, RunFftData, ThrowData DEF Run
<1>4. CASE UNCHANGED vars
  BY <1>4, StutterData
<1> QED  BY <1>1, <1>2, <1>3, <1>4 DEF Next, Finished

\* The properties follow.
LEMMA DataImply == ASSUME Lifetimes, Data PROVE TypeOK /\ ProofVerifies
<1>1. TypeOK
  <2>1. wtns \in Witnesses /\ faults \in 0 .. MaxFaults /\ deferred \in 0 .. MaxDeferred
        /\ \A t \in DOMAIN msm : msm[t] \in Field \cup {Unset}
    BY DEF Data, Types
  <2>2. task \in [Tasks -> {"none", "deferred", "msm", "ifft", "shift", "fft", "done", "threw"}]
    BY DEF Lifetimes, Memory, States
  <2>3. \A x \in DOMAIN buf : buf[x] = Freed \/ buf[x] \in [Domain -> Field]
    BY DEF Lifetimes, Memory, Data, Arrays
  <2>4. pc[1] \in {"get", "assemble"} => r \in Field /\ s \in Field
    BY DEF Data, Sampled
  <2> QED  BY <2>1, <2>2, <2>3, <2>4 DEF TypeOK
<1>2. ProofVerifies
  BY DEF Data, Proved, ProofVerifies
<1> QED  BY <1>1, <1>2

\* Lifetimes and data are invariant in one call.
LEMMA DataInvariance == Spec => [](Lifetimes /\ Data)
<1>1. Init => Lifetimes /\ Data
  BY InitLifetimes, InitData
<1>2. Lifetimes /\ Data /\ [Next]_vars => Lifetimes' /\ Data'
  BY NextLifetimes, NextData
<1> QED  BY <1>1, <1>2, PTL DEF Spec

\* One call of Prover::prove: what it computes has its type, and r and s are field elements
\* where they are used.
THEOREM TypesInCall == Spec => []TypeOK
<1>1. Lifetimes /\ Data => TypeOK
  BY DataImply
<1> QED  BY <1>1, DataInvariance, PTL

\* One call of Prover::prove: the proof that it returns verifies, for every circuit, key and
\* witness that satisfies it, whatever r and s are, in whatever order the tasks run and
\* whichever of them are deferred or throw.
THEOREM ProofsVerifyInCall == Spec => []ProofVerifies
<1>1. Lifetimes /\ Data => ProofVerifies
  BY DataImply
<1> QED  BY <1>1, DataInvariance, PTL

--------------------------------------------------------------------------------
(***************************************************************************)
(* The library.                                                            *)
(***************************************************************************)
Made == {altBbn128r, Loader("zkey"), Header("zkey"), prover}

\* What is held before a file is loaded, and at each point of the library.
Base(x) == IF x = "zkey" THEN {altBbn128r} ELSE Made

HeldIn(at, x) ==
  CASE at \in {"new", "failed", "dropped"} -> {}
    [] at = "open"                  -> Base(x)
    [] at = "map"                   -> Base(x) \cup {Fd(x)}
    [] at \in {"parse", "header"}   -> Base(x) \cup {Loader(x)}
    [] at = "curve"                 -> Base(x) \cup {Loader(x), Header(x)}
    [] at = "proving"               -> Made \cup {Loader("wtns"), Header("wtns")}
    [] OTHER                        -> Made

HeldThere == mode[1] # "terminated" => held = HeldIn(mode[1], mode[2])

\* Tasks run within a call of Prover::prove only.
RunWithin == mode # <<"proving">> => \A t \in Tasks : ~ Running(t)

\* The string of an answer has been allocated.
Lent == borrowed # 0 => borrowed \in strings

FullInv == Lifetimes /\ HeldThere /\ RunWithin /\ Lent

--------------------------------------------------------------------------------
\* No two of the things that are held are the same.
LEMMA Distinct ==
  /\ \A x, y \in {"zkey", "wtns"} : Fd(x) # Loader(y) /\ Fd(x) # Header(y) /\ Loader(x) # Header(y)
  /\ Fd("zkey") # Fd("wtns") /\ Loader("zkey") # Loader("wtns")
  /\ Header("zkey") # Header("wtns")
  /\ \A x \in {"zkey", "wtns"} :
       \A y \in {altBbn128r, prover} : y # Fd(x) /\ y # Loader(x) /\ y # Header(x)
  /\ altBbn128r # prover
<1>1. ASSUME NEW x \in {"zkey", "wtns"}, NEW y \in {"zkey", "wtns"}
      PROVE  Fd(x) # Loader(y) /\ Fd(x) # Header(y) /\ Loader(x) # Header(y)
  BY DEF Fd, Loader, Header
<1>2. /\ Fd("zkey") # Fd("wtns") /\ Loader("zkey") # Loader("wtns")
      /\ Header("zkey") # Header("wtns")
  BY DEF Fd, Loader, Header
<1>3. ASSUME NEW x \in {"zkey", "wtns"}
      PROVE  /\ altBbn128r # Fd(x) /\ altBbn128r # Loader(x) /\ altBbn128r # Header(x)
             /\ prover # Fd(x) /\ prover # Loader(x) /\ prover # Header(x)
  BY DEF Fd, Loader, Header, altBbn128r, prover
<1>4. altBbn128r # prover
  BY DEF altBbn128r, prover
<1> QED  BY <1>1, <1>2, <1>3, <1>4

\* Nothing is held before the library is called.
LEMMA InitFull == FullInit => FullInv
<1> SUFFICES ASSUME FullInit PROVE FullInv
  OBVIOUS
<1>1. Lifetimes
  BY InitLifetimes DEF FullInit
<1>2. HeldThere
  BY DEF FullInit, HeldThere, HeldIn
<1>3. RunWithin
  BY DEF FullInit, Init, RunWithin, Running
<1>4. Lent
  BY DEF FullInit, Lent
<1> QED  BY <1>1, <1>2, <1>3, <1>4 DEF FullInv

\* A step of the library at which the prover does nothing.
LEMMA IdleInv ==
  ASSUME FullInv, Groth16Idle \/ Fault, mode # <<"proving">>
  PROVE  Lifetimes' /\ RunWithin'
<1>1. UNCHANGED <<pc, task, buf>>
  BY DEF Groth16Idle, vars, Fault
<1>2. Lifetimes'
  BY <1>1 DEF FullInv, Lifetimes, Memory, NoneYet, Allocated, HasArray, JoinedSoFar, Quiet,
              Running
<1>3. RunWithin'
  BY <1>1 DEF FullInv, RunWithin, Running
<1> QED  BY <1>2, <1>3

\* The steps of the library, one by one.
LEMMA New1Inv == ASSUME FullInv, New1 PROVE FullInv'
<1>1. mode = <<"new">> /\ held' = {altBbn128r} /\ mode' = <<"open", "zkey">> /\ Keep
  BY DEF New1, Enter
<1>2. Lifetimes' /\ RunWithin'
  BY <1>1, IdleInv DEF New1
<1>3. HeldThere'
  BY <1>1 DEF HeldThere, HeldIn, Base
<1>4. Lent'
  BY <1>1 DEF Keep, FullInv, Lent
<1> QED  BY <1>2, <1>3, <1>4 DEF FullInv

\* An exception: the constructor has let go of all it held; a request ends it all.
LEMMA RaiseInv ==
  ASSUME FullInv, NEW x \in {"zkey", "wtns"}, NEW e, NEW h, Raise(x, e, h),
         x = "zkey" => Fd("zkey") \notin h
  PROVE  HeldThere' /\ Lent'
<1>1. Lent'
  BY DEF Raise, Keep, FullInv, Lent
<1>2. CASE x = "zkey" /\ e \in {"invalid_argument", "system_error"}
  <2>1. mode' = <<"failed">> /\ held' = {}
    BY <1>2 DEF Raise, Enter, Caught
  <2> QED  BY <1>1, <2>1 DEF HeldThere, HeldIn
<1>3. CASE ~ (x = "zkey" /\ e \in {"invalid_argument", "system_error"})
  <2>1. mode' = <<"terminated">>
    BY <1>3 DEF Raise, Enter
  <2> QED  BY <1>1, <2>1 DEF HeldThere
<1> QED  BY <1>2, <1>3

LEMMA LoadInv ==
  ASSUME FullInv, NEW x \in {"zkey", "wtns"}, Open(x) \/ Map(x) \/ Parse(x) \/ ReadHeader(x)
  PROVE  FullInv'
<1>1. CASE Open(x)
  <2>1. mode = <<"open", x>> /\ mode[1] = "open" /\ mode[2] = x
    BY <1>1 DEF Open
  <2>2. held = Base(x)
    BY <2>1 DEF FullInv, HeldThere, HeldIn
  <2>3. CASE Raise(x, "system_error", held)
    <3>1. x = "zkey" => Fd("zkey") \notin held
      BY <2>2, Distinct DEF Base
    <3> QED  BY <2>3, <3>1, RaiseInv, <1>1, <2>1, IdleInv DEF Open, FullInv
  <2>4. CASE held' = held \cup {Fd(x)} /\ Enter(<<"map", x>>) /\ Keep
    <3>1. HeldThere'
      BY <2>2, <2>4 DEF Enter, HeldThere, HeldIn
    <3>2. Lent'
      BY <2>4 DEF Keep, FullInv, Lent
    <3> QED  BY <3>1, <3>2, <1>1, <2>1, IdleInv DEF Open, FullInv
  <2> QED  BY <1>1, <2>3, <2>4 DEF Open
<1>2. CASE Map(x)
  <2>1. mode = <<"map", x>> /\ mode[1] = "map" /\ mode[2] = x
    BY <1>2 DEF Map
  <2>2. held = Base(x) \cup {Fd(x)} /\ Fd(x) \notin Base(x)
    BY <2>1, Distinct DEF FullInv, HeldThere, HeldIn, Base, Made
  <2>3. CASE Raise(x, "system_error", held \ {Fd(x)}) /\ (Groth16Idle \/ Fault)
    BY <2>3, RaiseInv, <2>1, IdleInv DEF FullInv
  <2>4. CASE /\ held' = (held \ {Fd(x)}) \cup {Loader(x)} /\ Enter(<<"parse", x>>)
             /\ Keep /\ Groth16Idle
    <3>1. held' = Base(x) \cup {Loader(x)}
      BY <2>2, <2>4
    <3>2. HeldThere'
      BY <3>1, <2>4 DEF Enter, HeldThere, HeldIn
    <3>3. Lent'
      BY <2>4 DEF Keep, FullInv, Lent
    <3> QED  BY <3>2, <3>3, <2>1, <2>4, IdleInv DEF FullInv
  <2> QED  BY <1>2, <2>3, <2>4 DEF Map
<1>3. CASE Parse(x)
  <2>1. mode = <<"parse", x>> /\ mode[1] = "parse" /\ mode[2] = x /\ Groth16Idle
    BY <1>3 DEF Parse
  <2>2. held = Base(x) \cup {Loader(x)}
    BY <2>1 DEF FullInv, HeldThere, HeldIn
  <2>3. ASSUME NEW e, Raise(x, e, held) PROVE FullInv'
    <3>1. x = "zkey" => Fd("zkey") \notin held
      BY <2>2, Distinct DEF Base
    <3> QED  BY <2>3, <3>1, RaiseInv, <2>1, IdleInv DEF FullInv
  <2>4. CASE Enter(<<"header", x>>) /\ UNCHANGED held /\ Keep
    <3>1. HeldThere'
      BY <2>2, <2>4 DEF Enter, HeldThere, HeldIn
    <3>2. Lent'
      BY <2>4 DEF Keep, FullInv, Lent
    <3> QED  BY <3>1, <3>2, <2>1, IdleInv DEF FullInv
  <2> QED  BY <1>3, <2>3, <2>4 DEF Parse
<1>4. CASE ReadHeader(x)
  <2>1. mode = <<"header", x>> /\ mode[1] = "header" /\ mode[2] = x /\ Groth16Idle
    BY <1>4 DEF ReadHeader
  <2>2. held = Base(x) \cup {Loader(x)}
    BY <2>1 DEF FullInv, HeldThere, HeldIn
  <2>3. ASSUME NEW e, Raise(x, e, held) PROVE FullInv'
    <3>1. x = "zkey" => Fd("zkey") \notin held
      BY <2>2, Distinct DEF Base
    <3> QED  BY <2>3, <3>1, RaiseInv, <2>1, IdleInv DEF FullInv
  <2>4. CASE held' = held \cup {Header(x)} /\ Enter(<<"curve", x>>) /\ Keep
    <3>1. held' = Base(x) \cup {Loader(x), Header(x)}
      BY <2>2, <2>4
    <3>2. HeldThere'
      BY <3>1, <2>4 DEF Enter, HeldThere, HeldIn
    <3>3. Lent'
      BY <2>4 DEF Keep, FullInv, Lent
    <3> QED  BY <3>2, <3>3, <2>1, IdleInv DEF FullInv
  <2> QED  BY <1>4, <2>3, <2>4 DEF ReadHeader
<1> QED  BY <1>1, <1>2, <1>3, <1>4

LEMMA MakeProverInv == ASSUME FullInv, MakeProver PROVE FullInv'
<1>1. /\ mode = <<"curve", "zkey">> /\ mode[1] = "curve" /\ mode[2] = "zkey"
      /\ Groth16Idle \/ Fault
      /\ \/ \E e \in {"invalid_argument", "range_error", "bad_alloc"} : Raise("zkey", e, held)
         \/ /\ held' = held \cup {prover} /\ Enter(<<"ready">>)
            /\ UNCHANGED <<borrowed, strings>>
  BY DEF MakeProver
<1>2. held = {altBbn128r} \cup {Loader("zkey"), Header("zkey")}
  BY <1>1 DEF FullInv, HeldThere, HeldIn, Base
<1>3. Lifetimes' /\ RunWithin'
  BY <1>1, IdleInv
<1>4. ASSUME NEW e, Raise("zkey", e, held) PROVE HeldThere' /\ Lent'
  BY <1>2, <1>4, RaiseInv, Distinct
<1>5. CASE held' = held \cup {prover} /\ Enter(<<"ready">>) /\ UNCHANGED <<borrowed, strings>>
  <2>1. held' = Made
    BY <1>2, <1>5 DEF Made
  <2>2. HeldThere'
    BY <1>5, <2>1 DEF Enter, HeldThere, HeldIn
  <2> QED  BY <1>3, <1>5, <2>2 DEF FullInv, Lent
<1> QED  BY <1>1, <1>3, <1>4, <1>5 DEF FullInv

LEMMA AskInv == ASSUME FullInv, NEW f, Ask(f) PROVE FullInv'
<1>1. /\ mode = <<"ready">> /\ mode[1] = "ready" /\ mode' = <<"open", "wtns">>
      /\ UNCHANGED <<held, borrowed, strings>> /\ Groth16Idle
  BY DEF Ask, Enter
<1>2. held = Made
  BY <1>1 DEF FullInv, HeldThere, HeldIn
<1>3. HeldThere'
  BY <1>1, <1>2 DEF HeldThere, HeldIn, Base
<1>4. Lent'
  BY <1>1 DEF FullInv, Lent
<1> QED  BY <1>1, <1>3, <1>4, IdleInv DEF FullInv

\* The return from prove: what the request held is gone, and nothing else.
LEMMA ReturnHeld ==
  ASSUME NEW answer, Return(answer), held = Made \cup {Loader("wtns"), Header("wtns")}
  PROVE  HeldThere'
<1>1. held' = Made /\ mode' = <<"answered">>
  BY Distinct DEF Return, Enter, Made
<1> QED  BY <1>1 DEF HeldThere, HeldIn

LEMMA CallProverInv == ASSUME FullInv, CallProver PROVE FullInv'
<1>1. mode = <<"curve", "wtns">> /\ mode[1] = "curve" /\ mode[2] = "wtns"
  BY DEF CallProver
<1>2. held = Made \cup {Loader("wtns"), Header("wtns")}
  BY <1>1 DEF FullInv, HeldThere, HeldIn, Base
<1>3. CASE /\ Return("WITNESS_GENERATION_INVALID_CURVE") /\ UNCHANGED <<borrowed, strings>>
           /\ Groth16Idle
  <2>1. HeldThere' /\ Lent'
    BY <1>2, <1>3, ReturnHeld DEF FullInv, Lent
  <2> QED  BY <1>1, <1>3, <2>1, IdleInv DEF FullInv
<1>4. CASE Raise("wtns", "range_error", held) /\ Groth16Idle
  <2>1. Lifetimes' /\ RunWithin'
    BY <1>1, <1>4, IdleInv DEF FullInv
  <2> QED  BY <1>4, <2>1, RaiseInv DEF FullInv
<1>5. CASE /\ mode' = <<"proving">> /\ UNCHANGED held /\ Keep
           /\ UNCHANGED <<pc, task, buf>>
  <2>1. HeldThere'
    BY <1>2, <1>5 DEF HeldThere, HeldIn
  <2>2. Lent'
    BY <1>5 DEF Keep, FullInv, Lent
  <2>3. Lifetimes' /\ RunWithin'
    BY <1>5 DEF FullInv, Lifetimes, Memory, NoneYet, Allocated, HasArray, JoinedSoFar, Quiet,
                Running, RunWithin
  <2> QED  BY <2>1, <2>2, <2>3 DEF FullInv
<1> QED  BY <1>3, <1>4, <1>5 DEF CallProver, Enter

LEMMA OverrunInv == ASSUME FullInv, Overrun PROVE FullInv'
<1>1. mode = <<"curve", "wtns">> /\ mode[1] = "curve" /\ mode[2] = "wtns" /\ Groth16Idle
  BY DEF Overrun
<1>2. held = Made \cup {Loader("wtns"), Header("wtns")}
  BY <1>1 DEF FullInv, HeldThere, HeldIn, Base
<1>3. CASE mode' = <<"terminated">> /\ Keep
  <2>1. HeldThere' /\ Lent'
    BY <1>3 DEF Keep, FullInv, HeldThere, Lent
  <2> QED  BY <1>1, <2>1, IdleInv DEF FullInv
<1>4. CASE Return("SUCCESS") /\ strings' = strings \cup {requests} /\ borrowed' = requests
  <2>1. HeldThere' /\ Lent'
    BY <1>2, <1>4, ReturnHeld DEF Lent
  <2> QED  BY <1>1, <2>1, IdleInv DEF FullInv
<1> QED  BY <1>3, <1>4 DEF Overrun, Enter

LEMMA ProvingInv == ASSUME FullInv, Proving PROVE FullInv'
<1>1. mode = <<"proving">> /\ Next /\ UNCHANGED own
  BY DEF Proving
<1>2. Lifetimes'
  BY <1>1, NextLifetimes DEF FullInv
<1> QED  BY <1>1, <1>2 DEF own, FullInv, HeldThere, RunWithin, Lent

\* The end of Prover::prove: nothing runs any more.
LEMMA LeftQuiet == ASSUME FullInv, pc = <<"left">> PROVE \A t \in Tasks : ~ Running(t)
<1>1. pc[1] = "left" /\ pc[1] \in Leaving
  BY DEF Leaving
<1> QED  BY <1>1, Names DEF FullInv, Lifetimes, Quiet

LEMMA RespondInv == ASSUME FullInv, Respond \/ ProverThrew PROVE FullInv'
<1>1. mode = <<"proving">> /\ mode[1] = "proving" /\ pc = <<"left">> /\ Groth16Idle
  BY DEF Respond, ProverThrew
<1>2. \A t \in Tasks : ~ Running(t)
  BY <1>1, LeftQuiet
<1>3. Lifetimes' /\ RunWithin'
  BY <1>1, <1>2 DEF Groth16Idle, vars, FullInv, Lifetimes, Memory, NoneYet, Allocated, HasArray,
                    JoinedSoFar, Quiet, Running, RunWithin
<1>4. CASE Respond
  <2>1. Return("SUCCESS") /\ strings' = strings \cup {requests} /\ borrowed' = requests
    BY <1>4 DEF Respond
  <2>2. HeldThere'
    BY <1>1, <2>1, ReturnHeld DEF FullInv, HeldThere, HeldIn
  <2>3. Lent'
    BY <2>1 DEF Lent
  <2> QED  BY <1>3, <2>2, <2>3 DEF FullInv
<1>5. CASE ProverThrew
  BY <1>3, <1>5, RaiseInv DEF ProverThrew, FullInv
<1> QED  BY <1>4, <1>5

\* The next call of Prover::prove begins as the first did.
LEMMA ReadInv == ASSUME FullInv, Read PROVE FullInv'
<1>1. /\ mode = <<"answered">> /\ mode[1] = "answered" /\ mode' = <<"ready">>
      /\ borrowed' = 0 /\ UNCHANGED held
      /\ pc' = <<"launch", 1>> /\ pc'[1] = "launch"
      /\ task' = [t \in Tasks |-> "none"]
      /\ buf' = [x \in DOMAIN buf |-> Freed]
  BY DEF Read, Enter
<1>2. held = Made
  BY <1>1 DEF FullInv, HeldThere, HeldIn
<1>3. HeldThere' /\ Lent'
  BY <1>1, <1>2 DEF HeldThere, HeldIn, Lent
<1>4. \A t \in Tasks : task'[t] = "none" /\ ~ Running(t)'
  BY <1>1 DEF Running
<1>5. Memory'
  BY <1>1 DEF FullInv, Lifetimes, Memory, States
<1>6. NoneYet' /\ Allocated' /\ HasArray' /\ JoinedSoFar' /\ Quiet'
  BY <1>1, <1>4, Names DEF NoneYet, Allocated, HasArray, JoinedSoFar, Quiet, Joined, Leaving
<1>7. RunWithin'
  BY <1>4 DEF RunWithin
<1> QED  BY <1>3, <1>5, <1>6, <1>7 DEF FullInv, Lifetimes

LEMMA DropInv == ASSUME FullInv, Drop PROVE FullInv'
<1>1. /\ mode = <<"ready">> \/ mode = <<"failed">>
      /\ mode' = <<"dropped">> /\ held' = held \ Made /\ Keep /\ Groth16Idle
  BY DEF Drop, Enter, Made
<1>2. held = Made \/ held = {}
  <2>1. mode[1] \in {"ready", "failed"}
    BY <1>1
  <2> QED  BY <2>1 DEF FullInv, HeldThere, HeldIn
<1>3. HeldThere' /\ Lent'
  BY <1>1, <1>2 DEF HeldThere, HeldIn, Keep, FullInv, Lent
<1>4. mode # <<"proving">>
  BY <1>1
<1> QED  BY <1>1, <1>3, <1>4, IdleInv DEF FullInv

LEMMA StutterFull == ASSUME FullInv, UNCHANGED all PROVE FullInv'
<1>1. UNCHANGED vars /\ UNCHANGED own
  BY DEF all
<1>2. Lifetimes'
  BY <1>1, StutterLifetimes DEF FullInv
<1> QED  BY <1>1, <1>2 DEF vars, own, FullInv, HeldThere, RunWithin, Lent, Running

LEMMA FullNextInv == ASSUME FullInv, [FullNext]_all PROVE FullInv'
<1>1. CASE New1 \/ Load \/ MakeProver
  BY <1>1, New1Inv, LoadInv, MakeProverInv DEF Load
<1>2. CASE Request
  BY <1>2, AskInv, CallProverInv, OverrunInv, ProvingInv, RespondInv DEF Request
<1>3. CASE Read \/ Drop
  BY <1>3, ReadInv, DropInv
<1>4. CASE UNCHANGED all
  BY <1>4, StutterFull
<1> QED  BY <1>1, <1>2, <1>3, <1>4 DEF FullNext, Over

\* What the library holds is invariant.
LEMMA FullInvariance == FullSpec => []FullInv
<1>1. FullInit => FullInv
  BY InitFull
<1>2. FullInv /\ [FullNext]_all => FullInv'
  BY FullNextInv
<1> QED  BY <1>1, <1>2, PTL DEF FullSpec

--------------------------------------------------------------------------------
\* In every request, no task of Prover::prove outlives the arrays and the locals it
\* refers to, after an exception too.
THEOREM TasksEndInTime == FullSpec => []NoUseAfterFree
<1>1. FullInv => NoUseAfterFree
  BY LifetimesImply DEF FullInv
<1> QED  BY <1>1, FullInvariance, PTL

\* In every request, the function reads or writes an array only when the transform
\* that works on it is done.
THEOREM TransformsDone == FullSpec => []TransformsAlone
<1>1. FullInv => TransformsAlone
  BY LifetimesImply DEF FullInv
<1> QED  BY <1>1, FullInvariance, PTL

\* What a constructor that fails has acquired is released, wherever it fails, and
\* what a request has acquired is released before the next.
THEOREM NothingLeaks == FullSpec => []NothingHeld
<1>1. ASSUME FullInv PROVE NothingHeld
  <2> USE <1>1 DEF FullInv, HeldThere, HeldIn
  <2>1. ASSUME mode = <<"failed">> \/ mode = <<"dropped">> PROVE held = {}
    <3>1. mode[1] \in {"failed", "dropped"}
      BY <2>1
    <3> QED  BY <3>1
  <2>2. ASSUME mode = <<"ready">> PROVE held = Made
    <3>1. mode[1] = "ready"
      BY <2>2
    <3> QED  BY <3>1
  <2> QED  BY <2>1, <2>2 DEF NothingHeld, Made
<1> QED  BY <1>1, FullInvariance, PTL

\* The mappings of the key and of the witness outlive the tasks that read them, and
\* the string of an answer is there while Rust reads it.
THEOREM MappingsOutlive == FullSpec => []NoDangling
<1>1. ASSUME FullInv PROVE NoDangling
  <2>1. ASSUME NEW t \in Tasks, Running(t) PROVE mode = <<"proving">>
    BY <1>1, <2>1 DEF FullInv, RunWithin
  <2>2. ASSUME mode = <<"proving">>
        PROVE  held = Made \cup {Loader("wtns"), Header("wtns")}
    <3>1. mode[1] = "proving"
      BY <2>2
    <3> QED  BY <1>1, <3>1 DEF FullInv, HeldThere, HeldIn
  <2>3. borrowed # 0 => borrowed \in strings
    BY <1>1 DEF FullInv, Lent
  <2> QED  BY <2>1, <2>2, <2>3 DEF NoDangling, Made
<1> QED  BY <1>1, FullInvariance, PTL

--------------------------------------------------------------------------------
\* The promises of ProverLibrary.
Steps == {"open", "map", "parse", "header", "curve"}
Constructing == mode[1] = "new" \/ (mode[1] \in Steps /\ mode[2] = "zkey")
Using == mode[1] = "ready" \/ Requested

Sorry == "WITNESS_GENERATION_INVALID_CURVE"

\* What is known of the key at each point of the constructor, and after it.
KeyRead ==
  /\ key \in Keys
  /\ Constructing =>
       /\ state = "none"
       /\ mode[1] \in Steps \ {"open"} => key.exists
       /\ mode[1] \in {"header", "curve"} => BinFile(key, "zkey", 1) = "ok"
       /\ mode[1] = "curve" => ZKeyHeader(key) = "ok"
  /\ Using => state = "OK" /\ GoodKey(key)
  /\ mode[1] = "failed" => state \in {"UNSUPPORTED_ZKEY_CURVE", "ZKEY_FILE_LOAD_ERROR"}
  /\ state = "UNSUPPORTED_ZKEY_CURVE" => ~ GoodKey(key)

\* The proof that an answer carries was made from the file of the request, or the files
\* did not hold what it was made from.
OwnAnswer ==
  /\ mode[1] # "answered" => response = "none"
  /\ mode[1] = "answered" => response \in {"SUCCESS", Sorry}
  /\ mode[1] = "proving" => wtns = file.data /\ Readable
  /\ response = "SUCCESS" =>
       IF proof = <<>> THEN ~ Readable ELSE Readable /\ wtns = file.data /\ pc = <<"left">>

LibInv == KeyRead /\ OwnAnswer

\* A step of the library, or none.
LibStep == Library!Next \/ UNCHANGED Library!vars

--------------------------------------------------------------------------------
\* Files: a key is good just when the constructor finds nothing wrong with it.
LEMMA SectionFacts ==
  \A f, id, len :
    /\ Section(f, id, len) \in {"ok", "range_error", "assert"}
    /\ Section(f, id, len) = "ok" => has(f, id) /\ getSectionSize(f, id) = len
BY DEF Section

Checked(f) ==
  /\ f.exists /\ BinFile(f, "zkey", 1) = "ok" /\ ZKeyHeader(f) = "ok"
  /\ f.curve = "bn128" /\ \A id \in 4 .. 9 : has(f, id)

\* The checks of the constructor are those of a good key.
LEMMA KeyChecked ==
  ASSUME NEW f \in Keys
  PROVE  /\ BinFile(f, "zkey", 1) = "invalid_argument" => ~ GoodKey(f)
         /\ ZKeyHeader(f) = "invalid_argument" => ~ GoodKey(f)
         /\ Checked(f) => GoodKey(f)
<1>1. f.version \in Nat /\ f.n8q \in Nat /\ f.n8r \in Nat
  BY KeysAssumption
<1> DEFINE first  == Section(f, 1, U32)
           second == Section(f, 2, U32 + f.n8q + U32 + f.n8r + 3 * U32 + 18 * f.n8q)
<1>2. /\ first \in {"ok", "range_error", "assert"}
      /\ second \in {"ok", "range_error", "assert"}
      /\ first = "ok" => has(f, 1) /\ getSectionSize(f, 1) = 1
      /\ second = "ok" => has(f, 2) /\ getSectionSize(f, 2) = 5 + f.n8q + f.n8r + 18 * f.n8q
  BY <1>1, SectionFacts DEF U32
<1>3. ZKeyHeader(f) =
        IF has(f, 1) /\ first # "assert" /\ f.protocol # 1 THEN "invalid_argument"
        ELSE IF first # "ok" THEN first
        ELSE IF second # "ok" THEN second
        ELSE IF has(f, 4) THEN "ok" ELSE "range_error"
  BY DEF ZKeyHeader
<1> HIDE DEF first, second
<1>4. BinFile(f, "zkey", 1) = "invalid_argument" => ~ GoodKey(f)
  BY <1>1 DEF BinFile, GoodKey
<1>5. ZKeyHeader(f) = "invalid_argument" => f.protocol # 1
  BY <1>2, <1>3
<1>6. BinFile(f, "zkey", 1) = "ok" => f.type = "zkey" /\ f.version <= 1
  BY <1>1 DEF BinFile
<1>7. ZKeyHeader(f) = "ok" => f.protocol = 1 /\ first = "ok" /\ second = "ok"
  BY <1>2, <1>3
<1>8. \A id \in {1, 2} \cup 4 .. 9 : id = 1 \/ id = 2 \/ id \in 4 .. 9
  OBVIOUS
<1>9. ASSUME Checked(f) PROVE GoodKey(f)
  <2>1. \A id \in {1, 2} \cup 4 .. 9 : has(f, id)
    BY <1>2, <1>7, <1>8, <1>9 DEF Checked
  <2> QED  BY <1>2, <1>6, <1>7, <1>9, <2>1 DEF GoodKey, Checked
<1>10. ZKeyHeader(f) = "invalid_argument" => ~ GoodKey(f)
  BY <1>5 DEF GoodKey
<1> QED  BY <1>4, <1>9, <1>10

--------------------------------------------------------------------------------
\* What the caller sees of a point in the library.
StatusOf(m, st) ==
  IF m = <<"dropped">> THEN "dropped"
  ELSE IF m = <<"terminated">> THEN "ended" ELSE Result[st]

\* The status of the abstract library, at both ends of a step.
LEMMA StatusIs == Status = StatusOf(mode, state) /\ Status' = StatusOf(mode', state')
BY DEF Status, StatusOf

\* What the status says of the point where the library is.
LEMMA StatusFacts ==
  /\ \A m : m[1] \notin {"dropped", "terminated"} =>
       /\ StatusOf(m, "none") = "loading"
       /\ StatusOf(m, "OK") = "ready"
       /\ StatusOf(m, "ZKEY_FILE_LOAD_ERROR") = "ZKeyFileLoadError"
       /\ StatusOf(m, "UNSUPPORTED_ZKEY_CURVE") = "UnsupportedZKeyCurve"
  /\ \A st : StatusOf(<<"dropped">>, st) = "dropped"
  /\ \A st : StatusOf(<<"terminated">>, st) = "ended"
<1>1. <<"dropped">>[1] = "dropped" /\ <<"terminated">>[1] = "terminated"
  OBVIOUS
<1>2. <<"dropped">> # <<"terminated">>
  BY <1>1
<1>3. /\ Result["none"] = "loading" /\ Result["OK"] = "ready"
      /\ Result["ZKEY_FILE_LOAD_ERROR"] = "ZKeyFileLoadError"
      /\ Result["UNSUPPORTED_ZKEY_CURVE"] = "UnsupportedZKeyCurve"
  BY DEF Result
<1>4. ASSUME NEW m, m[1] \notin {"dropped", "terminated"}
      PROVE  \A st : StatusOf(m, st) = Result[st]
  <2>1. m # <<"dropped">> /\ m # <<"terminated">>
    BY <1>1, <1>4
  <2> QED  BY <2>1 DEF StatusOf
<1>5. \A st : StatusOf(<<"dropped">>, st) = "dropped"
  BY DEF StatusOf
<1>6. \A st : StatusOf(<<"terminated">>, st) = "ended"
  BY <1>2 DEF StatusOf
<1> HIDE DEF Result
<1> QED  BY <1>3, <1>4, <1>5, <1>6

\* What the abstract answer is at each point.
LEMMA AnswerFacts ==
  /\ response = "none" => Answered = "none"
  /\ response = Sorry => Answered = Sorry
  /\ response' = "none" => Answered' = "none"
  /\ response' = Sorry => Answered' = Sorry
BY DEF Answered, Sorry

\* Whether a key is good depends on the key alone.
LEMMA SameKey == key' = key => GoodKey(key)' = GoodKey(key)
BY DEF GoodKey, has, getSectionSize, nth

\* Whether all that is read is in the files depends on the files alone.
LEMMA SameFiles == UNCHANGED <<key, file>> => Readable' = Readable
BY DEF Readable

\* The request the caller has made, where the library is.
LEMMA AskingFacts ==
  /\ Asking = IF ~ Requested THEN "none" ELSE IF Readable THEN "whole" ELSE "cut"
  /\ Asking' = IF ~ Requested' THEN "none" ELSE IF Readable' THEN "whole" ELSE "cut"
  /\ Constructing \/ mode[1] \in {"ready", "failed", "dropped", "terminated"} => ~ Requested
  /\ (Constructing \/ mode[1] \in {"ready", "failed", "dropped", "terminated"} => ~ Requested)'
BY DEF Asking, Constructing, Requested, Steps

\* A step of the constructor or of a request that the caller does not see.
LEMMA Unseen ==
  ASSUME LibInv, UNCHANGED <<key, file, state, response>>,
         (Constructing /\ Constructing') \/ (Requested /\ Requested'), mode[1] # "answered"
  PROVE  UNCHANGED Library!vars
<1>1. response = "none" /\ response' = "none"
  BY DEF LibInv, OwnAnswer
<1>2. Answered' = Answered
  BY <1>1, AnswerFacts
<1>3. Status' = Status
  <2>1. state \in {"none", "OK"} /\ state' = state
    BY DEF LibInv, KeyRead, Using
  <2>2. mode[1] \notin {"dropped", "terminated"} /\ mode'[1] \notin {"dropped", "terminated"}
    BY DEF Constructing, Using, Requested, Steps
  <2> QED  BY <2>1, <2>2, StatusIs, StatusFacts
<1>4. Asking' = Asking
  BY AskingFacts, SameFiles
<1> QED  BY <1>2, <1>3, <1>4, SameKey DEF Library!vars

\* A step from one point before an answer to another.
LEMMA Moves ==
  ASSUME LibInv, UNCHANGED <<key, file, state, response>>,
         (Constructing /\ Constructing') \/ (Requested /\ Requested'),
         {mode[1], mode'[1]} \cap {"answered", "proving"} = {},
         Constructing' =>
           /\ mode'[1] \in Steps \ {"open"} => key.exists
           /\ mode'[1] \in {"header", "curve"} => BinFile(key, "zkey", 1) = "ok"
           /\ mode'[1] = "curve" => ZKeyHeader(key) = "ok"
  PROVE  LibInv' /\ LibStep
<1>1. ~ (Constructing /\ Using) /\ ~ (Constructing' /\ Using')
  BY DEF Constructing, Using, Requested, Steps
<1>2. GoodKey(key)' = GoodKey(key) /\ key' = key
  BY SameKey
<1>3. BinFile(key, "zkey", 1)' = BinFile(key, "zkey", 1) /\ ZKeyHeader(key)' = ZKeyHeader(key)
  BY <1>2
<1>4. mode'[1] # "failed"
  BY DEF Constructing, Using, Requested, Steps
<1>5. KeyRead'
  BY <1>1, <1>2, <1>3, <1>4 DEF LibInv, KeyRead, Using
<1>6. OwnAnswer'
  BY DEF LibInv, OwnAnswer
<1> QED  BY <1>5, <1>6, Unseen DEF LibInv, LibStep

\* An exception: the caller is told the reason, or the process ends.
LEMMA Raised ==
  ASSUME LibInv, NEW x \in {"zkey", "wtns"}, NEW e, NEW h, Raise(x, e, h),
         IF x = "zkey" THEN Constructing ELSE Using /\ mode[1] # "answered",
         x = "zkey" /\ e = "invalid_argument" => ~ GoodKey(key)
  PROVE  LibInv' /\ LibStep
<1>1. /\ response = "none" /\ response' = "none" /\ Answered = "none" /\ Answered' = "none"
      /\ key' = key /\ GoodKey(key)' = GoodKey(key)
  <2>1. response = "none" /\ response' = "none" /\ key' = key
    BY DEF Raise, Keep, LibInv, OwnAnswer, Constructing, Steps
  <2> QED  BY <2>1, AnswerFacts, SameKey
<1>2. x = "zkey" => Asking = "none"
  BY AskingFacts
<1>3. mode'[1] \in {"failed", "terminated"} /\ Asking' = "none"
  <2>1. mode' = <<"failed">> \/ mode' = <<"terminated">>
    BY DEF Raise, Enter
  <2>2. mode'[1] \in {"failed", "terminated"}
    BY <2>1
  <2> QED  BY <2>2, AskingFacts
<1>4. Status = IF x = "zkey" THEN "loading" ELSE "ready"
  <2>1. mode[1] \notin {"dropped", "terminated"}
    BY DEF Constructing, Using, Requested, Steps
  <2>2. state = IF x = "zkey" THEN "none" ELSE "OK"
    BY DEF LibInv, KeyRead
  <2> QED  BY <2>1, <2>2, StatusIs, StatusFacts
<1>5. CASE x = "zkey" /\ e \in {"invalid_argument", "system_error"}
  <2>1. /\ mode' = <<"failed">> /\ mode'[1] = "failed"
        /\ state' = IF e = "invalid_argument" THEN "UNSUPPORTED_ZKEY_CURVE"
                    ELSE "ZKEY_FILE_LOAD_ERROR"
    BY <1>5 DEF Raise, Enter
  <2>2. ~ Constructing' /\ ~ Using'
    BY <2>1 DEF Constructing, Using, Requested, Steps
  <2>3. LibInv'
    BY <1>1, <1>5, <2>1, <2>2 DEF LibInv, KeyRead, OwnAnswer
  <2>4. Status' = IF e = "invalid_argument" THEN "UnsupportedZKeyCurve"
                  ELSE "ZKeyFileLoadError"
    BY <2>1, StatusIs, StatusFacts
  <2> QED  BY <1>1, <1>2, <1>3, <1>4, <1>5, <2>3, <2>4
       DEF LibStep, Library!Next, Library!Refused
<1>6. CASE ~ (x = "zkey" /\ e \in {"invalid_argument", "system_error"})
  <2>1. mode' = <<"terminated">> /\ mode'[1] = "terminated" /\ state' = state
    BY <1>6 DEF Raise, Enter, Keep
  <2>2. ~ Constructing' /\ ~ Using'
    BY <2>1 DEF Constructing, Using, Requested, Steps
  <2>3. state # "UNSUPPORTED_ZKEY_CURVE"
    BY DEF LibInv, KeyRead
  <2>4. LibInv'
    BY <1>1, <2>1, <2>2, <2>3 DEF LibInv, KeyRead, OwnAnswer
  <2>5. Status' = "ended"
    BY <2>1, StatusIs, StatusFacts
  <2> QED  BY <1>1, <1>3, <1>4, <2>4, <2>5 DEF LibStep, Library!Next, Library!Ended
<1> QED  BY <1>5, <1>6

--------------------------------------------------------------------------------
\* The steps of the library map to steps of ProverLibrary or stutter, one by one.
LEMMA New1Step == ASSUME LibInv, New1 PROVE LibInv' /\ LibStep
<1>1. /\ mode[1] = "new" /\ mode'[1] = "open" /\ mode'[2] = "zkey"
      /\ UNCHANGED <<key, file, state, response>>
  BY DEF New1, Enter, Keep
<1>2. Constructing /\ Constructing'
  BY <1>1 DEF Constructing, Steps
<1> QED  BY <1>1, <1>2, Moves

LEMMA LoadStep ==
  ASSUME LibInv, NEW x \in {"zkey", "wtns"}, Open(x) \/ Map(x) \/ Parse(x) \/ ReadHeader(x)
  PROVE  LibInv' /\ LibStep
<1>1. /\ mode[1] \in Steps \ {"curve"} /\ mode[2] = x /\ mode[1] # "answered"
      /\ IF x = "zkey" THEN Constructing ELSE Using /\ mode[1] # "answered"
  BY DEF Open, Map, Parse, ReadHeader, Constructing, Using, Requested, Steps
<1>2. ASSUME NEW to \in Steps, mode' = <<to, x>>, Keep,
             x = "zkey" => /\ to # "open" => key.exists
                           /\ to \in {"header", "curve"} => BinFile(key, "zkey", 1) = "ok"
                           /\ to = "curve" => ZKeyHeader(key) = "ok"
      PROVE  LibInv' /\ LibStep
  <2>1. mode'[1] = to /\ mode'[2] = x
    BY <1>2
  <2>2. (Constructing /\ Constructing') \/ (Requested /\ Requested')
    BY <1>1, <1>2, <2>1 DEF Constructing, Requested, Steps
  <2>3. Constructing' => x = "zkey"
    BY <1>2, <2>1 DEF Constructing, Steps
  <2>4. {mode[1], mode'[1]} \cap {"answered", "proving"} = {}
    BY <1>1, <1>2, <2>1 DEF Steps
  <2> QED  BY <1>2, <2>1, <2>2, <2>3, <2>4, Moves DEF Keep
<1>3. x = "zkey" => /\ mode[1] # "open" => key.exists
                    /\ mode[1] = "header" => BinFile(key, "zkey", 1) = "ok"
  BY <1>1 DEF LibInv, KeyRead
<1>4. CASE Open(x)
  <2>1. CASE The(x).exists
    BY <1>2, <1>4, <2>1 DEF Open, Enter, The, Steps
  <2>2. CASE ~ The(x).exists
    BY <1>1, <1>4, <2>2, Raised DEF Open
  <2> QED  BY <2>1, <2>2
<1>5. CASE Map(x)
  <2>1. mode[1] = "map"
    BY <1>5 DEF Map
  <2>2. CASE Enter(<<"parse", x>>) /\ Keep
    BY <1>2, <1>3, <2>1, <2>2 DEF Enter, Steps
  <2>3. CASE Raise(x, "system_error", held \ {Fd(x)})
    BY <1>1, <2>3, Raised
  <2> QED  BY <1>5, <2>2, <2>3 DEF Map
<1>6. CASE Parse(x)
  <2> DEFINE e == IF x = "zkey" THEN BinFile(key, "zkey", 1) ELSE BinFile(file, "wtns", 2)
  <2>1. mode[1] = "parse"
    BY <1>6 DEF Parse
  <2>2. IF e = "ok" THEN Enter(<<"header", x>>) /\ Keep ELSE Raise(x, e, held)
    BY <1>6 DEF Parse
  <2>3. x = "zkey" => e = BinFile(key, "zkey", 1)
    OBVIOUS
  <2> HIDE DEF e
  <2>4. CASE e = "ok"
    BY <1>2, <1>3, <2>1, <2>2, <2>3, <2>4 DEF Enter, Steps
  <2>5. CASE e # "ok"
    <3>1. x = "zkey" /\ e = "invalid_argument" => ~ GoodKey(key)
      BY <2>3, KeyChecked DEF LibInv, KeyRead
    <3> QED  BY <1>1, <2>2, <2>5, <3>1, Raised
  <2> QED  BY <2>4, <2>5
<1>7. CASE ReadHeader(x)
  <2> DEFINE e == IF x = "zkey" THEN ZKeyHeader(key) ELSE WtnsHeader(file)
  <2>1. mode[1] = "header"
    BY <1>7 DEF ReadHeader
  <2>2. IF e = "ok" THEN Enter(<<"curve", x>>) /\ Keep ELSE Raise(x, e, held)
    BY <1>7 DEF ReadHeader
  <2>3. x = "zkey" => e = ZKeyHeader(key)
    OBVIOUS
  <2> HIDE DEF e
  <2>4. CASE e = "ok"
    BY <1>2, <1>3, <2>1, <2>2, <2>3, <2>4 DEF Enter, Steps
  <2>5. CASE e # "ok"
    <3>1. x = "zkey" /\ e = "invalid_argument" => ~ GoodKey(key)
      BY <2>3, KeyChecked DEF LibInv, KeyRead
    <3> QED  BY <1>1, <2>2, <2>5, <3>1, Raised
  <2> QED  BY <2>4, <2>5
<1> QED  BY <1>4, <1>5, <1>6, <1>7

LEMMA MakeProverStep == ASSUME LibInv, MakeProver PROVE LibInv' /\ LibStep
<1> DEFINE bad == \E id \in 4 .. 9 : ~has(key, id)
<1>1. mode[1] = "curve" /\ mode[2] = "zkey"
  BY DEF MakeProver
<1>2. Constructing /\ ~ Using /\ state = "none" /\ key \in Keys
  BY <1>1 DEF Constructing, Using, Requested, Steps, LibInv, KeyRead
<1>3. \/ key.curve # "bn128" /\ Raise("zkey", "invalid_argument", held)
      \/ \E e \in {"range_error", "bad_alloc"} : Raise("zkey", e, held)
      \/ /\ key.curve = "bn128" /\ ~bad
         /\ Enter(<<"ready">>) /\ state' = "OK" /\ UNCHANGED <<key, file, response>>
  BY DEF MakeProver
<1>4. CASE key.curve # "bn128" /\ Raise("zkey", "invalid_argument", held)
  <2>1. ~ GoodKey(key)
    BY <1>4 DEF GoodKey
  <2> QED  BY <1>2, <1>4, <2>1, Raised
<1>5. CASE \E e \in {"range_error", "bad_alloc"} : Raise("zkey", e, held)
  BY <1>2, <1>5, Raised
<1>6. CASE /\ key.curve = "bn128" /\ ~bad
           /\ Enter(<<"ready">>) /\ state' = "OK" /\ UNCHANGED <<key, file, response>>
  <2>1. GoodKey(key) /\ GoodKey(key)' = GoodKey(key)
    <3>1. Checked(key)
      BY <1>1, <1>2, <1>6 DEF Checked, LibInv, KeyRead, Steps
    <3> QED  BY <1>2, <1>6, <3>1, KeyChecked, SameKey
  <2>2. mode' = <<"ready">> /\ mode'[1] = "ready"
    BY <1>6 DEF Enter
  <2>3. ~ Constructing'
    BY <2>2 DEF Constructing, Steps
  <2>4. response = "none" /\ response' = "none" /\ Answered = "none" /\ Answered' = "none"
    BY <1>1, <1>6, AnswerFacts DEF LibInv, OwnAnswer
  <2>5. LibInv'
    BY <1>2, <1>6, <2>1, <2>2, <2>3, <2>4 DEF LibInv, KeyRead, OwnAnswer
  <2>6. Status = "loading" /\ Status' = "ready"
    BY <1>1, <1>2, <1>6, <2>2, StatusIs, StatusFacts
  <2>7. Asking = "none" /\ Asking' = "none"
    BY <1>2, <2>2, AskingFacts
  <2> QED  BY <2>1, <2>4, <2>5, <2>6, <2>7 DEF LibStep, Library!Next, Library!Made
<1> QED  BY <1>3, <1>4, <1>5, <1>6

\* Where a request is, the prover is ready, and has no answer before "answered".
LEMMA InRequest ==
  ASSUME LibInv, Using
  PROVE  /\ Status = "ready" /\ ~ Constructing /\ GoodKey(key)
         /\ mode[1] # "answered" => response = "none" /\ Answered = "none"
<1>1. state = "OK" /\ ~ Constructing /\ mode[1] \notin {"dropped", "terminated"}
  BY DEF LibInv, KeyRead, Constructing, Using, Requested, Steps
<1> QED  BY <1>1, StatusIs, StatusFacts, AnswerFacts DEF LibInv, KeyRead, OwnAnswer

LEMMA AskStep == ASSUME LibInv, NEW f, Ask(f) PROVE LibInv' /\ LibStep
<1>1. /\ mode = <<"ready">> /\ mode[1] = "ready" /\ mode'[1] = "open" /\ mode'[2] = "wtns"
      /\ UNCHANGED <<key, state, response>>
  BY DEF Ask, Enter
<1>2. Using /\ Using' /\ ~ Constructing' /\ Requested'
  BY <1>1 DEF Using, Requested, Constructing, Steps
<1>3. /\ Status = "ready" /\ GoodKey(key) /\ state = "OK" /\ key \in Keys
      /\ response = "none" /\ Answered = "none" /\ Answered' = "none"
  BY <1>1, <1>2, InRequest, AnswerFacts DEF LibInv, KeyRead
<1>4. LibInv'
  BY <1>1, <1>2, <1>3, SameKey DEF LibInv, KeyRead, OwnAnswer
<1>5. Status' = "ready"
  BY <1>1, <1>3, StatusIs, StatusFacts
<1>6. Asking = "none" /\ Asking' \in {"whole", "cut"}
  BY <1>1, <1>2, AskingFacts
<1> QED  BY <1>1, <1>3, <1>4, <1>5, <1>6, SameKey DEF LibStep, Library!Next, Library!Asked

\* An answer to a request for files that are as the abstract answer says.
LEMMA Answers ==
  ASSUME LibInv, Requested, mode[1] # "answered", mode' = <<"answered">>, Answered' # "none",
         UNCHANGED <<key, file, state>>,
         Answered' = Sorry \/ Answered' = IF Readable THEN "verified" ELSE "unspecified"
  PROVE  KeyRead' /\ LibStep
<1>1. mode'[1] = "answered" /\ Using
  BY DEF Using
<1>2. Requested' /\ Using' /\ ~ Constructing'
  BY <1>1 DEF Using, Requested, Constructing, Steps
<1>3. /\ Status = "ready" /\ GoodKey(key) /\ state = "OK" /\ key \in Keys /\ Answered = "none"
  BY <1>1, InRequest DEF LibInv, KeyRead
<1>4. KeyRead'
  BY <1>1, <1>2, <1>3, SameKey DEF KeyRead
<1>5. Status' = "ready"
  BY <1>1, <1>3, StatusIs, StatusFacts
<1>6. Asking = (IF Readable THEN "whole" ELSE "cut") /\ Asking' = Asking
  BY <1>2, AskingFacts, SameFiles
<1>7. Library!Answer
  BY <1>3, <1>5, <1>6 DEF Library!Answer, Sorry
<1> QED  BY <1>3, <1>4, <1>7, SameKey DEF LibStep, Library!Next

LEMMA CallProverStep == ASSUME LibInv, CallProver PROVE LibInv' /\ LibStep
<1>1. mode[1] = "curve" /\ Using /\ Requested /\ mode[1] # "answered"
  BY DEF CallProver, Using, Requested
<1>2. /\ Status = "ready" /\ GoodKey(key) /\ state = "OK" /\ key \in Keys
      /\ response = "none" /\ Answered = "none"
  BY <1>1, InRequest DEF LibInv, KeyRead
<1>3. CASE Return("WITNESS_GENERATION_INVALID_CURVE")
           /\ UNCHANGED <<borrowed, strings>> /\ Groth16Idle
  <2>1. /\ mode' = <<"answered">> /\ mode'[1] = "answered" /\ response' = Sorry
        /\ UNCHANGED <<key, state, file>>
    BY <1>3 DEF Return, Enter, Sorry
  <2>2. OwnAnswer'
    BY <2>1 DEF OwnAnswer, Sorry
  <2>3. Answered' = Sorry /\ Answered' # "none"
    BY <2>1, AnswerFacts DEF Sorry
  <2> QED  BY <1>1, <2>1, <2>2, <2>3, Answers DEF LibInv
<1>4. CASE Raise("wtns", "range_error", held)
  BY <1>1, <1>4, Raised
<1>5. CASE Readable /\ Enter(<<"proving">>) /\ Keep /\ wtns' = file.data
  <2>1. /\ mode' = <<"proving">> /\ mode'[1] = "proving" /\ wtns' = file.data
        /\ UNCHANGED <<key, state, file, response>>
    BY <1>5 DEF Enter, Keep
  <2>2. Using' /\ Requested' /\ ~ Constructing'
    BY <2>1 DEF Using, Requested, Constructing, Steps
  <2>3. LibInv'
    BY <1>2, <1>5, <2>1, <2>2, SameKey, SameFiles DEF LibInv, KeyRead, OwnAnswer
  <2> QED  BY <1>1, <2>1, <2>2, <2>3, Unseen DEF LibStep
<1> QED  BY <1>3, <1>4, <1>5 DEF CallProver

\* A proof that is made of data that are not in the files is none that the library promises.
LEMMA OverrunStep == ASSUME LibInv, proof = <<>>, Overrun PROVE LibInv' /\ LibStep
<1>1. mode[1] = "curve" /\ Using /\ Requested /\ mode[1] # "answered"
  BY DEF Overrun, Using, Requested
<1>2. ~ Readable /\ proof' = <<>>
  BY DEF Overrun, Groth16Idle, vars
<1>3. CASE Enter(<<"terminated">>) /\ UNCHANGED held /\ Keep
  <2>1. Raise("wtns", "range_error", held)
    BY <1>3 DEF Raise
  <2> QED  BY <1>1, <2>1, Raised
<1>4. CASE Return("SUCCESS")
  <2>1. /\ mode' = <<"answered">> /\ mode'[1] = "answered" /\ response' = "SUCCESS"
        /\ UNCHANGED <<key, state, file>>
    BY <1>4 DEF Return, Enter
  <2>2. OwnAnswer'
    BY <1>2, <2>1, SameFiles DEF OwnAnswer
  <2>3. Answered' = "unspecified"
    BY <1>2, <2>1 DEF Answered
  <2> QED  BY <1>1, <1>2, <2>1, <2>2, <2>3, Answers DEF LibInv
<1> QED  BY <1>3, <1>4 DEF Overrun

\* Prover::prove reads the witness, and does not change it.
LEMMA WitnessKept == Next => wtns' = wtns
<1> SUFFICES ASSUME Next PROVE wtns' = wtns
  OBVIOUS
<1>1. CASE Main
  BY <1>1 DEF Main, LaunchMsm, JoinMsm, New, LaunchFft, JoinFft, Coefs, Abc, MsmH, Assemble,
              DestroyFutures, Free, Leave
<1>2. CASE Sample
  BY <1>2 DEF Sample, SampleR, SampleS
<1>3. CASE Finished
  BY <1>3 DEF Finished, vars
<1>4. CASE \E t \in Tasks : Run(t) \/ Throw(t)
  BY <1>4 DEF Run, RunMsm, RunFft, Throw
<1> QED  BY <1>1, <1>2, <1>3, <1>4 DEF Next

LEMMA ProvingStep == ASSUME LibInv, Proving PROVE LibInv' /\ LibStep
<1>1. mode[1] = "proving" /\ UNCHANGED <<key, file, mode, state, response>> /\ wtns' = wtns
  BY WitnessKept DEF Proving, own
<1>2. Using /\ Using' /\ Requested /\ Requested' /\ ~ Constructing'
  BY <1>1 DEF Using, Requested, Constructing, Steps
<1>3. LibInv'
  BY <1>1, <1>2, SameKey, SameFiles DEF LibInv, KeyRead, OwnAnswer
<1> QED  BY <1>1, <1>2, <1>3, Unseen DEF LibStep

\* The proof is the caller's answer, and it is for the witness of this request.
LEMMA RespondStep == ASSUME LibInv, Respond, ProofVerifies' PROVE LibInv' /\ LibStep
<1>1. /\ mode[1] = "proving" /\ pc = <<"left">> /\ proof # <<>> /\ response' = "SUCCESS"
      /\ mode' = <<"answered">> /\ mode'[1] = "answered"
      /\ UNCHANGED <<key, state, file, wtns, pc, proof>>
  BY DEF Respond, Return, Enter, Groth16Idle, vars
<1>2. Requested /\ Readable /\ Readable' /\ wtns = file.data
  BY <1>1, SameFiles DEF Requested, LibInv, OwnAnswer
<1>3. OwnAnswer'
  BY <1>1, <1>2 DEF OwnAnswer
<1>4. Answered' = "verified"
  BY <1>1, <1>2 DEF Answered, ProofVerifies
<1> QED  BY <1>1, <1>2, <1>3, <1>4, Answers DEF LibInv

LEMMA ProverThrewStep == ASSUME LibInv, ProverThrew PROVE LibInv' /\ LibStep
<1>1. mode[1] = "proving" /\ Raise("wtns", "bad_alloc", held)
  BY DEF ProverThrew
<1>2. Using
  BY <1>1 DEF Using, Requested
<1> QED  BY <1>1, <1>2, Raised

LEMMA ReadStep == ASSUME LibInv, Read PROVE LibInv' /\ LibStep
<1>1. /\ mode[1] = "answered" /\ mode' = <<"ready">> /\ mode'[1] = "ready"
      /\ response' = "none" /\ UNCHANGED <<key, state>>
  BY DEF Read, Enter
<1>2. Using /\ Using' /\ ~ Constructing'
  BY <1>1 DEF Using, Requested, Constructing, Steps
<1>3. Status = "ready" /\ GoodKey(key) /\ state = "OK" /\ key \in Keys
  BY <1>2, InRequest DEF LibInv, KeyRead
<1>4. LibInv'
  BY <1>1, <1>2, <1>3, SameKey DEF LibInv, KeyRead, OwnAnswer
<1>5. Answered # "none" /\ Answered' = "none"
  BY <1>1, AnswerFacts DEF LibInv, OwnAnswer, Answered, Sorry
<1>6. Status' = "ready" /\ Asking' = "none"
  BY <1>1, <1>3, StatusIs, StatusFacts, AskingFacts
<1> QED  BY <1>1, <1>3, <1>4, <1>5, <1>6, SameKey DEF LibStep, Library!Next, Library!Taken

LEMMA DropStep == ASSUME LibInv, Drop PROVE LibInv' /\ LibStep
<1>1. /\ mode[1] \in {"ready", "failed"} /\ mode' = <<"dropped">> /\ mode'[1] = "dropped"
      /\ UNCHANGED <<key, state, response>>
  BY DEF Drop, Enter, Keep
<1>2. ~ Using' /\ ~ Constructing'
  BY <1>1 DEF Using, Requested, Constructing, Steps
<1>3. response = "none" /\ Answered = "none" /\ Answered' = "none"
  BY <1>1, AnswerFacts DEF LibInv, OwnAnswer
<1>4. LibInv'
  BY <1>1, <1>2, <1>3, SameKey DEF LibInv, KeyRead, OwnAnswer
<1>5. Status \notin {"loading", "dropped", "ended"}
  <2>1. state \in {"OK", "UNSUPPORTED_ZKEY_CURVE", "ZKEY_FILE_LOAD_ERROR"}
    BY <1>1 DEF LibInv, KeyRead, Using, Requested
  <2> QED  BY <1>1, <2>1, StatusIs, StatusFacts
<1>6. Status' = "dropped" /\ Asking = "none" /\ Asking' = "none"
  BY <1>1, StatusIs, StatusFacts, AskingFacts
<1> QED  BY <1>1, <1>3, <1>4, <1>5, <1>6, SameKey DEF LibStep, Library!Next, Library!Dropped

LEMMA StutterStep ==
  ASSUME LibInv, ProofVerifies, ProofVerifies', UNCHANGED all PROVE LibInv' /\ LibStep
<1>1. UNCHANGED <<key, file, mode, state, response, wtns, pc, proof>>
  BY DEF all, own, vars
<1>2. /\ Constructing' = Constructing /\ Using' = Using
      /\ Readable' = Readable /\ Asking' = Asking
  BY <1>1, SameFiles DEF Constructing, Using, Requested, Asking
<1>3. LibInv'
  BY <1>1, <1>2, SameKey DEF LibInv, KeyRead, OwnAnswer
<1>4. Status' = Status
  BY <1>1, StatusIs
<1>5. Answered' = Answered
  <2>1. response \in {"none", "SUCCESS", Sorry}
    BY DEF LibInv, OwnAnswer
  <2>2. CASE response = "SUCCESS"
    <3>1. Answered = IF proof = <<>> THEN "unspecified" ELSE "verified"
      BY <2>2 DEF Answered, LibInv, OwnAnswer, ProofVerifies
    <3>2. Answered' = IF proof = <<>> THEN "unspecified" ELSE "verified"
      BY <1>1, <2>2 DEF Answered, LibInv, OwnAnswer, ProofVerifies
    <3> QED  BY <3>1, <3>2
  <2> QED  BY <1>1, <2>1, <2>2, AnswerFacts
<1> QED  BY <1>1, <1>2, <1>3, <1>4, <1>5, SameKey DEF LibStep, Library!vars

\* The first state maps to the first state.
LEMMA FirstState == FullInit => LibInv /\ Library!Init
<1> SUFFICES ASSUME FullInit PROVE LibInv /\ Library!Init
  OBVIOUS
<1>1. mode[1] = "new" /\ state = "none" /\ response = "none" /\ key \in Keys
  BY DEF FullInit
<1>2. ~ Using
  BY <1>1 DEF Using, Requested, Steps
<1>3. Status = "loading" /\ Answered = "none" /\ Asking = "none"
  BY <1>1, StatusIs, StatusFacts, AnswerFacts, AskingFacts DEF Constructing
<1>4. GoodKey(key) \in BOOLEAN
  BY DEF GoodKey
<1> QED  BY <1>1, <1>2, <1>3, <1>4 DEF LibInv, KeyRead, OwnAnswer, Library!Init, Steps

--------------------------------------------------------------------------------
\* Between the requests, and where one is loaded, Prover::prove is about to begin; its file
\* is one of those that can be asked for.
Busy == {"proving", "answered", "terminated"}
Loading == mode[1] \in Steps /\ mode[2] = "wtns"

Between ==
  /\ mode[1] \notin Busy => Fresh
  /\ Loading => file \in WitnessFiles

CallInv == Data /\ Between

\* Where a call begins nothing has been computed, after a step too.
LEMMA FreshNext == Fresh' => Data'
<1>1. Fresh => Data
  BY FreshData
<1> QED  BY <1>1, PTL

\* A step of the library at which the prover does nothing.
LEMMA IdleCall ==
  ASSUME CallInv, Groth16Idle \/ Fault, mode[1] \notin Busy, file' = file, Loading' => Loading
  PROVE  CallInv'
<1>1. Fresh'
  <2>1. UNCHANGED <<wtns, pc, task, msm, buf, proof, deferred>> /\ faults' \in 0 .. MaxFaults
    <3>1. CASE Groth16Idle
      BY <3>1 DEF Groth16Idle, vars, CallInv, Between, Fresh
    <3>2. CASE Fault
      <4>1. faults \in 0 .. MaxFaults /\ faults < MaxFaults /\ faults' = faults + 1
        BY <3>2 DEF Fault, CallInv, Between, Fresh
      <4>2. faults' \in 0 .. MaxFaults
        BY <4>1, BoundsAssumption
      <4> QED  BY <3>2, <4>2 DEF Fault
    <3> QED  BY <3>1, <3>2
  <2> QED  BY <2>1 DEF CallInv, Between, Fresh
<1> QED  BY <1>1, FreshNext DEF CallInv, Between

\* The steps of the library keep what holds within a call, one by one.
LEMMA RaiseCall ==
  ASSUME CallInv, NEW x, NEW e, NEW h, Raise(x, e, h), Groth16Idle \/ Fault, mode[1] \notin Busy
  PROVE  CallInv'
<1>1. file' = file
  BY DEF Raise, Keep
<1>2. mode' = <<"failed">> \/ mode' = <<"terminated">>
  BY DEF Raise, Enter
<1>3. ~ Loading'
  BY <1>2 DEF Loading, Steps
<1> QED  BY <1>1, <1>3, IdleCall

LEMMA LoadCall ==
  ASSUME CallInv, NEW x \in {"zkey", "wtns"}, Open(x) \/ Map(x) \/ Parse(x) \/ ReadHeader(x)
  PROVE  CallInv'
<1>1. mode[1] \in Steps /\ mode[2] = x /\ mode[1] \notin Busy
  BY DEF Open, Map, Parse, ReadHeader, Steps, Busy
<1>2. ASSUME NEW to \in Steps, mode' = <<to, x>>, Keep, Groth16Idle PROVE CallInv'
  <2>1. file' = file /\ (Loading' => Loading)
    BY <1>1, <1>2 DEF Keep, Loading
  <2> QED  BY <1>1, <1>2, <2>1, IdleCall
<1>3. ASSUME NEW e, NEW h, Raise(x, e, h), Groth16Idle \/ Fault PROVE CallInv'
  BY <1>1, <1>3, RaiseCall
<1>4. CASE Open(x)
  BY <1>2, <1>3, <1>4 DEF Open, Enter, Steps
<1>5. CASE Map(x)
  BY <1>2, <1>3, <1>5 DEF Map, Enter, Steps
<1>6. CASE Parse(x)
  <2> DEFINE e == IF x = "zkey" THEN BinFile(key, "zkey", 1) ELSE BinFile(file, "wtns", 2)
  <2>1. Groth16Idle /\ IF e = "ok" THEN mode' = <<"header", x>> /\ Keep ELSE Raise(x, e, held)
    BY <1>6 DEF Parse, Enter
  <2> HIDE DEF e
  <2> QED  BY <1>2, <1>3, <2>1 DEF Steps
<1>7. CASE ReadHeader(x)
  <2> DEFINE e == IF x = "zkey" THEN ZKeyHeader(key) ELSE WtnsHeader(file)
  <2>1. Groth16Idle /\ IF e = "ok" THEN mode' = <<"curve", x>> /\ Keep ELSE Raise(x, e, held)
    BY <1>7 DEF ReadHeader, Enter
  <2> HIDE DEF e
  <2> QED  BY <1>2, <1>3, <2>1 DEF Steps
<1> QED  BY <1>4, <1>5, <1>6, <1>7

\* The other steps of the constructor, the end of the library, and a request that comes.
LEMMA OtherCall ==
  ASSUME CallInv, New1 \/ MakeProver \/ Drop \/ (\E f \in WitnessFiles : Ask(f)) PROVE CallInv'
<1>1. CASE New1
  <2>1. /\ mode[1] = "new" /\ mode'[1] = "open" /\ mode'[2] = "zkey" /\ file' = file /\ Groth16Idle
    BY <1>1 DEF New1, Enter, Keep
  <2> QED  BY <2>1, IdleCall DEF Busy, Loading
<1>2. CASE MakeProver
  <2>1. mode[1] \notin Busy
    BY <1>2 DEF MakeProver, Busy
  <2>2. \/ \E e : Raise("zkey", e, held) /\ (Groth16Idle \/ Fault)
        \/ Enter(<<"ready">>) /\ file' = file /\ Groth16Idle
    BY <1>2 DEF MakeProver
  <2>3. CASE Enter(<<"ready">>) /\ file' = file /\ Groth16Idle
    <3>1. ~ Loading'
      BY <2>3 DEF Enter, Loading, Steps
    <3> QED  BY <2>1, <2>3, <3>1, IdleCall
  <2> QED  BY <2>1, <2>2, <2>3, RaiseCall
<1>3. CASE Drop
  <2>1. /\ mode[1] \in {"ready", "failed"} /\ mode'[1] = "dropped" /\ file' = file /\ Groth16Idle
    BY <1>3 DEF Drop, Enter, Keep
  <2> QED  BY <2>1, IdleCall DEF Busy, Loading, Steps
<1>4. CASE \E f \in WitnessFiles : Ask(f)
  <2>1. mode[1] = "ready" /\ Groth16Idle /\ file' \in WitnessFiles
    BY <1>4 DEF Ask
  <2>2. Fresh'
    BY <2>1 DEF Groth16Idle, vars, CallInv, Between, Busy, Fresh
  <2> QED  BY <2>1, <2>2, FreshNext DEF CallInv, Between
<1> QED  BY <1>1, <1>2, <1>3, <1>4

\* The witness that is proved for is that of the file.
LEMMA CallProverCall == ASSUME CallInv, CallProver PROVE CallInv'
<1>1. mode[1] = "curve" /\ mode[2] = "wtns" /\ mode[1] \notin Busy /\ Loading
  BY DEF CallProver, Busy, Loading, Steps
<1>2. CASE /\ Return("WITNESS_GENERATION_INVALID_CURVE") /\ Groth16Idle
  <2>1. mode'[1] = "answered" /\ file' = file
    BY <1>2 DEF Return, Enter
  <2> QED  BY <1>1, <1>2, <2>1, IdleCall DEF Loading, Steps
<1>3. CASE Raise("wtns", "range_error", held) /\ Groth16Idle
  BY <1>1, <1>3, RaiseCall
<1>4. CASE /\ Enter(<<"proving">>) /\ wtns' = file.data
           /\ UNCHANGED <<pc, task, msm, buf, r, s, proof, faults, deferred>>
  <2>1. file.data \in Witnesses
    BY <1>1, FilesAssumption DEF CallInv, Between
  <2>2. Fresh'
    BY <1>1, <1>4, <2>1 DEF CallInv, Between, Fresh
  <2>3. mode'[1] = "proving"
    BY <1>4 DEF Enter
  <2> QED  BY <2>2, <2>3, FreshNext DEF CallInv, Between, Busy, Loading, Steps
<1> QED  BY <1>2, <1>3, <1>4 DEF CallProver

LEMMA OverrunCall == ASSUME CallInv, Overrun PROVE CallInv'
<1>1. mode[1] = "curve" /\ mode[1] \notin Busy /\ Groth16Idle /\ file' = file
  BY DEF Overrun, Return, Keep, Busy
<1>2. mode' = <<"terminated">> \/ mode' = <<"answered">>
  BY DEF Overrun, Return, Enter
<1>3. ~ Loading'
  BY <1>2 DEF Loading, Steps
<1> QED  BY <1>1, <1>3, IdleCall

LEMMA ProvingCall == ASSUME Lifetimes, CallInv, Proving PROVE CallInv'
<1>1. mode[1] = "proving" /\ Next /\ mode' = mode
  BY DEF Proving, own
<1>2. Data'
  BY <1>1, NextData DEF CallInv
<1> QED  BY <1>1, <1>2 DEF CallInv, Between, Busy, Loading, Steps

LEMMA AnswerCall == ASSUME CallInv, Respond \/ ProverThrew PROVE CallInv'
<1>1. Groth16Idle
  BY DEF Respond, ProverThrew
<1>2. Data'
  BY <1>1, StutterData DEF Groth16Idle, CallInv
<1>3. mode'[1] \in {"answered", "terminated"}
  <2>1. CASE Respond
    BY <2>1 DEF Respond, Return, Enter
  <2>2. CASE ProverThrew
    BY <2>2 DEF ProverThrew, Raise, Enter
  <2> QED  BY <2>1, <2>2
<1> QED  BY <1>2, <1>3 DEF CallInv, Between, Busy, Loading, Steps

LEMMA ReadCall == ASSUME Lifetimes, CallInv, Read PROVE CallInv'
<1>1. /\ mode'[1] = "ready" /\ pc' = <<"launch", 1>> /\ proof' = <<>>
      /\ task' = [t \in Tasks |-> "none"] /\ wtns' = CHOOSE w \in Witnesses : TRUE
      /\ msm' = [t \in DOMAIN msm |-> Unset] /\ buf' = [x \in DOMAIN buf |-> Freed]
      /\ deferred' = 0 /\ faults' = faults
  BY DEF Read, Enter
<1>2. DOMAIN msm = MsmTasks \cup {"pih"} /\ DOMAIN buf = FftTasks /\ faults \in 0 .. MaxFaults
  BY DEF CallInv, Data, Types, Lifetimes, Memory
<1>3. wtns' \in Witnesses
  <2>1. \E w : w \in Witnesses
    BY FilesAssumption
  <2> QED  BY <1>1, <2>1
<1>4. deferred' \in 0 .. MaxDeferred
  BY <1>1, BoundsAssumption
<1>5. Fresh'
  BY <1>1, <1>2, <1>3, <1>4 DEF Fresh
<1> QED  BY <1>1, <1>5, FreshNext DEF CallInv, Between, Loading, Steps

\* Every step keeps what holds within a call.
LEMMA CallNext == ASSUME Lifetimes, CallInv, [FullNext]_all PROVE CallInv'
<1>1. CASE New1 \/ Load \/ MakeProver
  BY <1>1, LoadCall, OtherCall DEF Load
<1>2. CASE Request
  BY <1>2, OtherCall, CallProverCall, OverrunCall, ProvingCall, AnswerCall DEF Request
<1>3. CASE Read \/ Drop
  BY <1>3, ReadCall, OtherCall
<1>4. CASE UNCHANGED all
  <2>1. UNCHANGED vars /\ UNCHANGED own
    BY <1>4 DEF all
  <2>2. Data'
    BY <2>1, StutterData DEF CallInv
  <2> QED  BY <2>1, <2>2 DEF vars, own, CallInv, Between, Fresh, Loading
<1> QED  BY <1>1, <1>2, <1>3, <1>4 DEF FullNext, Over

\* Before the first call.
LEMMA InitCall == FullInit => CallInv
<1> SUFFICES ASSUME FullInit PROVE CallInv
  OBVIOUS
<1>1. Init /\ mode = <<"new">>
  BY DEF FullInit
<1>2. MsmTasks \cup {"pih"} = {"pi_a", "pib1", "pi_b", "pi_c", "pih"} /\ FftTasks = {"a", "b", "c"}
  BY DEF MsmTasks, FftTasks
<1>3. 0 \in 0 .. MaxFaults /\ 0 \in 0 .. MaxDeferred
  BY BoundsAssumption
<1>4. Fresh
  BY <1>1, <1>2, <1>3 DEF Init, Fresh
<1> QED  BY <1>1, <1>4, FreshData DEF CallInv, Between, Loading, Steps

\* What holds within each call of Prover::prove is invariant in the library.
LEMMA CallInvariance == FullSpec => [](FullInv /\ CallInv)
<1>1. FullInit => FullInv /\ CallInv
  BY InitFull, InitCall
<1>2. FullInv /\ CallInv /\ [FullNext]_all => FullInv' /\ CallInv'
  BY FullNextInv, CallNext DEF FullInv
<1> QED  BY <1>1, <1>2, PTL DEF FullSpec

\* In every request, what Prover::prove computes has its type, and r and s are field elements
\* where they are used.
THEOREM TypesKept == FullSpec => []TypeOK
<1>1. FullInv /\ CallInv => TypeOK
  BY DataImply DEF FullInv, CallInv
<1> QED  BY <1>1, CallInvariance, PTL

\* In every request, a proof that Prover::prove returns verifies for the witness it was given.
THEOREM ProofsVerify == FullSpec => []ProofVerifies
<1>1. FullInv /\ CallInv => ProofVerifies
  BY DataImply DEF FullInv, CallInv
<1> QED  BY <1>1, CallInvariance, PTL

--------------------------------------------------------------------------------
\* Every step maps to a step or a stutter.
LEMMA FullStep ==
  ASSUME LibInv, CallInv, ProofVerifies, ProofVerifies', [FullNext]_all PROVE LibInv' /\ LibStep
<1>1. CASE New1 \/ Load \/ MakeProver
  BY <1>1, New1Step, LoadStep, MakeProverStep DEF Load
<1>2. ASSUME Overrun PROVE proof = <<>>
  BY <1>2 DEF Overrun, CallInv, Between, Busy, Fresh
<1>3. CASE Request
  BY <1>2, <1>3, AskStep, CallProverStep, OverrunStep, ProvingStep, RespondStep,
     ProverThrewStep DEF Request
<1>4. CASE Read \/ Drop
  BY <1>4, ReadStep, DropStep
<1>5. CASE UNCHANGED all
  BY <1>5, StutterStep
<1> QED  BY <1>1, <1>3, <1>4, <1>5 DEF FullNext, Over

\* The library implements ProverLibrary, whatever the files, requests and faults: a prover is
\* made only from a file that is a key by its headers and its list of sections, and a request
\* is answered with the error or with a proof, which verifies for the witness of the request
\* if key and witness file hold all that is read of them.
THEOREM PromisesKept == FullSpec => KeepsPromises
<1>1. LibInv /\ CallInv /\ ProofVerifies /\ ProofVerifies' /\ [FullNext]_all => LibInv'
  BY FullStep
<1>2. LibInv /\ CallInv /\ ProofVerifies /\ ProofVerifies' /\ [FullNext]_all
        => [Library!Next]_(Library!vars)
  BY FullStep DEF LibStep
<1> QED  BY <1>1, <1>2, FirstState, CallInvariance, ProofsVerify, PTL
     DEF FullSpec, KeepsPromises, Library!Spec
================================================================================
