--------------------------- MODULE ThreadsProofs ----------------------------
(***************************************************************************)
(* Proofs about Threads, for any number of threads, processors, resources  *)
(* and hash chains.  First the linked lists, for every length: what        *)
(* scheduler_add_to_ready_list and the removal of a first or a middle      *)
(* element do to the queue that a list stands for, and which variables     *)
(* each part of the inductive invariant depends on.  Then the steps of     *)
(* sleepq_add, those of sleepq_wake and sleepq_wake_all, and those of      *)
(* thread.c and the scheduler: each keeps the invariant.  The theorems on  *)
(* the system follow from it.                                              *)
(***************************************************************************)
EXTENDS Threads, TLAPS

(* Zenon proves the leaves, but those with arithmetic or sequences.        *)
USE ZenonT(30)

(* The invariant under a name that the lemmas state and never expand.      *)
Sound == IInv

(* The conjuncts of the invariant, one by one.                             *)
LEMMA Typed == ASSUME Sound PROVE TypeOK
BY DEF Sound, IInv
(* The same for ReadyListIsQueue. *)
LEMMA ReadyQueue == ASSUME Sound PROVE ReadyListIsQueue
BY DEF Sound, IInv
(* The same for SleepChainsAreQueues. *)
LEMMA SleepChains == ASSUME Sound PROVE SleepChainsAreQueues
BY DEF Sound, IInv
(* The same for RunsOnOneCPU. *)
LEMMA OneCPU == ASSUME Sound PROVE RunsOnOneCPU
BY DEF Sound, IInv
(* The same for StateSaysWhere. *)
LEMMA Whereabouts == ASSUME Sound PROVE StateSaysWhere
BY DEF Sound, IInv
(* The same for NoSleeperLost. *)
LEMMA Sleepers == ASSUME Sound PROVE NoSleeperLost
BY DEF Sound, IInv
(* The same for LockHeld. *)
LEMMA LockHolder == ASSUME Sound PROVE LockHeld
BY DEF Sound, IInv
(* The same for CurrentFacts. *)
LEMMA CurrentThread == ASSUME Sound PROVE CurrentFacts
BY DEF Sound, IInv
(* The same for SleepFacts. *)
LEMMA Sleeping == ASSUME Sound PROVE SleepFacts
BY DEF Sound, IInv
(* The same for AddFacts. *)
LEMMA Adding == ASSUME Sound PROVE AddFacts
BY DEF Sound, IInv
(* The same for FindFacts. *)
LEMMA Finding == ASSUME Sound PROVE FindFacts
BY DEF Sound, IInv
(* The same for WokenFacts. *)
LEMMA Woken == ASSUME Sound PROVE WokenFacts
BY DEF Sound, IInv
(* The same for CreateFacts. *)
LEMMA Creating == ASSUME Sound PROVE CreateFacts
BY DEF Sound, IInv

Lists == [head : TIDs \cup {NONE}, tail : TIDs \cup {NONE},
          next : [TIDs -> TIDs \cup {NONE}]]

(* Thread ids are numbers and the idle thread is one of them. *)
LEMMA TIDFacts == IDLE \in TIDs /\ TIDs \subseteq Nat /\ NONE \notin TIDs /\ NonIdle \subseteq TIDs /\ 1 \in NonIdle
BY MaxThreadsAssumption, SMTT(30) DEF TIDs, IDLE, NONE, NonIdle

(* Every thread but the idle one is in the table. *)
LEMMA NonIdleTIDs == \A t \in NonIdle : t \in TIDs
BY DEF NonIdle

(* The elements of a sequence of threads are threads, ... *)
LEMMA ElemsAreTIDs ==
  ASSUME NEW s \in Seq(TIDs)
  PROVE  \A x \in Elems(s) : x \in TIDs
<1> DEFINE T == TIDs
<1>1. s \in Seq(T)
  OBVIOUS
<1> HIDE DEF T
<1>2. \A i \in 1 .. Len(s) : s[i] \in T
  BY ONLY <1>1, SMTT(30)
<1> QED
  BY <1>2 DEF Elems, T

(* ... and so are those of the ready list. *)
LEMMA ReadyTIDs ==
  ASSUME Sound
  PROVE  \A x \in Elems(rq) : x \in TIDs
<1>1. rq \in Seq(TIDs)
  BY Typed DEF TypeOK
<1> QED
  BY <1>1, ElemsAreTIDs

(* What Append adds to the elements of a sequence. *)
LEMMA AppendElems ==
  ASSUME NEW s \in Seq(TIDs), NEW t \in TIDs
  PROVE  Elems(Append(s, t)) = Elems(s) \cup {t}
BY SMTT(30) DEF Elems

(* scheduler_add_to_ready_list puts the thread at the end of the list. *)
LEMMA AddReadyCorrect ==
  ASSUME NEW l \in Lists, NEW s \in Seq(TIDs), NEW t \in NonIdle,
         Represents(l, s), t \notin Elems(s)
  PROVE  LET m == scheduler_add_to_ready_list(l, t)
         IN /\ m \in Lists
            /\ Represents(m, Append(s, t))
            /\ \A u \in TIDs : u \notin Elems(s) /\ u # t => m.next[u] = l.next[u]
<1> DEFINE m == scheduler_add_to_ready_list(l, t)
<1>0. t \in TIDs /\ IDLE \in TIDs /\ TIDs \subseteq Nat /\ NONE \notin TIDs
  BY TIDFacts
<1>1. m \in Lists
  BY <1>0 DEF Lists, scheduler_add_to_ready_list
<1>2. Represents(m, Append(s, t))
  <2>1. CASE Len(s) = 0
    BY <1>0, <2>1, SMTT(30) DEF Lists, scheduler_add_to_ready_list, Represents, Distinct, LinkedBy, NONE, Elems
  <2>2. CASE Len(s) # 0
    <3>1. l.tail = s[Len(s)] /\ l.tail \in Nat /\ Len(s) \in Nat \ {0} /\ s[Len(s)] # t
      <4>1. Len(s) \in Nat \ {0} /\ Len(s) \in 1 .. Len(s)
        BY <2>2, SMTT(30)
      <4>2. s[Len(s)] \in TIDs
        BY <4>1, SMTT(30)
      <4>3. s[Len(s)] # t
        BY <4>1 DEF Elems
      <4>4. l.tail = s[Len(s)]
        BY <2>2 DEF Represents
      <4> QED
        BY <4>1, <4>2, <4>3, <4>4, <1>0
    <3>2. m = [head |-> l.head, tail |-> t,
               next |-> [l.next EXCEPT ![l.tail] = t, ![t] = NONE]]
      BY <3>1, SMTT(30) DEF scheduler_add_to_ready_list
    <3>3. Distinct(Append(s, t))
      BY <1>0, SMTT(30) DEF Represents, Distinct, Elems
    <3>4. LinkedBy(m.next, Append(s, t))
      BY <1>0, <3>1, <3>2, <2>2, SMTT(30) DEF Lists, Represents, Distinct, LinkedBy, NONE, Elems
    <3> QED
      BY <3>1, <3>2, <3>3, <3>4, <2>2, <1>0, SMTT(30) DEF Represents
  <2> QED
    BY <2>1, <2>2
<1>3. \A u \in TIDs : u \notin Elems(s) /\ u # t => m.next[u] = l.next[u]
  BY <1>0, SMTT(30) DEF Lists, scheduler_add_to_ready_list, Represents, Elems, NONE
<1> QED
  BY <1>1, <1>2, <1>3

(* What Tail takes from a sequence without repetitions. *)
LEMMA TailElems ==
  ASSUME NEW s \in Seq(TIDs), Distinct(s), Len(s) # 0
  PROVE  /\ Tail(s) \in Seq(TIDs) /\ Distinct(Tail(s))
         /\ s[1] \in Elems(s) /\ Elems(Tail(s)) = Elems(s) \ {s[1]}
<1>1. Len(s) \in Nat \ {0} /\ Tail(s) \in Seq(TIDs) /\ Len(Tail(s)) = Len(s) - 1
  BY SMTT(30)
<1>2. \A i \in 1 .. Len(s) - 1 : Tail(s)[i] = s[i + 1] /\ i + 1 \in 1 .. Len(s)
  BY <1>1, SMTT(30)
<1>3. Distinct(Tail(s))
  BY <1>1, <1>2, SMTT(30) DEF Distinct
<1>4. s[1] \in Elems(s)
  BY <1>1, SMTT(30) DEF Elems
<1>5. Elems(Tail(s)) \subseteq Elems(s) \ {s[1]}
  BY <1>1, <1>2, SMTT(30) DEF Elems, Distinct
<1>6. ASSUME NEW x \in Elems(s) \ {s[1]} PROVE x \in Elems(Tail(s))
  <2>1. PICK i \in 1 .. Len(s) : x = s[i]
    BY DEF Elems
  <2>2. i - 1 \in 1 .. Len(s) - 1 /\ Tail(s)[i - 1] = x
    BY <1>1, <1>2, <2>1, SMTT(30)
  <2> QED
    BY <1>1, <2>2 DEF Elems
<1> QED
  BY <1>1, <1>3, <1>4, <1>5, <1>6

(* scheduler_remove_first_ready returns the first thread of the queue and  *)
(* leaves the others, in their order.                                      *)
LEMMA RemoveFirstCorrect ==
  ASSUME NEW l \in Lists, NEW s \in Seq(TIDs), Represents(l, s), Len(s) # 0
  PROVE  /\ RemoveFirstReady(l) \in Lists /\ FirstReady(l) = s[1]
         /\ Represents(RemoveFirstReady(l), Tail(s))
         /\ RemoveFirstReady(l).next = l.next
<1>1. Len(s) \in Nat \ {0} /\ 1 \in 1 .. Len(s) /\ Len(s) \in 1 .. Len(s)
  BY SMTT(30)
<1>2. l.head = s[1] /\ s[1] \in TIDs /\ ~ (s[1] < 0)
  <2>1. l.head = s[1]
    BY <1>1 DEF Represents
  <2>2. s[1] \in TIDs
    BY <1>1, SMTT(30)
  <2>3. \A t \in TIDs : ~ (t < 0)
    BY SMTT(30) DEF TIDs
  <2> QED
    BY <2>1, <2>2, <2>3
<1>3. RemoveFirstReady(l) =
        [head |-> l.next[s[1]],
         tail |-> IF l.tail = s[1] THEN NONE ELSE l.tail, next |-> l.next]
  BY <1>2 DEF RemoveFirstReady
<1>4. Tail(s) \in Seq(TIDs) /\ Distinct(Tail(s)) /\ Len(Tail(s)) = Len(s) - 1
      /\ \A i \in 1 .. Len(s) - 1 : Tail(s)[i] = s[i + 1]
  BY <1>1, TailElems, SMTT(30) DEF Represents
<1>5. LinkedBy(l.next, Tail(s))
  BY <1>1, <1>4, SMTT(30) DEF Represents, LinkedBy
<1>6. l.next[s[1]] = IF Len(Tail(s)) = 0 THEN NONE ELSE Tail(s)[1]
  BY <1>1, <1>4, SMTT(30) DEF Represents, LinkedBy
<1>7. (IF l.tail = s[1] THEN NONE ELSE l.tail) =
        IF Len(Tail(s)) = 0 THEN NONE ELSE Tail(s)[Len(Tail(s))]
  <2>1. l.tail = s[Len(s)]
    BY <1>1 DEF Represents
  <2>2. CASE Len(s) = 1
    BY <2>1, <2>2, <1>4, SMTT(30)
  <2>3. CASE Len(s) # 1
    BY <2>1, <2>3, <1>1, <1>4, SMTT(30) DEF Represents, Distinct
  <2> QED
    BY <2>2, <2>3
<1>8. RemoveFirstReady(l) \in Lists
  BY <1>2, <1>3, SMTT(30) DEF Lists
<1> QED
  BY <1>2, <1>3, <1>4, <1>5, <1>6, <1>7, <1>8, SMTT(30) DEF Represents, FirstReady

(* Taking one thread out of a chain keeps the others, in their order.      *)
LEMMA UnchainFacts ==
  ASSUME NEW s \in Seq(TIDs), Distinct(s), NEW k \in 1 .. Len(s)
  PROVE  LET u == Unchain(s, s[k])
         IN /\ u \in Seq(TIDs) /\ Len(u) = Len(s) - 1
            /\ \A i \in 1 .. Len(s) - 1 : u[i] = IF i < k THEN s[i] ELSE s[i + 1]
            /\ Distinct(u) /\ Elems(u) = Elems(s) \ {s[k]}
<1> DEFINE u == Unchain(s, s[k])
<1>0. Len(s) \in Nat /\ k \in Nat /\ \A i \in 1 .. Len(s) : s[i] \in TIDs
  BY SMTT(30)
<1>1. (CHOOSE i \in 1 .. Len(s) : s[i] = s[k]) = k
  BY DEF Distinct
<1>2. u = [i \in 1 .. Len(s) - 1 |-> IF i < k THEN s[i] ELSE s[i + 1]]
  BY <1>1 DEF Unchain
<1>3. \A i \in 1 .. Len(s) - 1 :
        u[i] = (IF i < k THEN s[i] ELSE s[i + 1]) /\ u[i] \in TIDs
  BY <1>0, <1>2, SMTT(30)
<1>4. Len(s) - 1 \in Nat
  BY <1>0, SMTT(30)
<1>5. u \in Seq(TIDs) /\ Len(u) = Len(s) - 1
  <2>1. u \in [1 .. Len(s) - 1 -> TIDs]
    BY <1>2, <1>3
  <2> HIDE DEF u
  <2> QED
    BY <2>1, <1>4, SMTT(30)
<1> HIDE DEF u
<1>6. Distinct(u)
  BY <1>0, <1>3, <1>5, SMTT(30) DEF Distinct
<1>7. Elems(u) \subseteq Elems(s) \ {s[k]}
  BY <1>0, <1>3, <1>5, SMTT(30) DEF Distinct, Elems
<1>8. ASSUME NEW x \in Elems(s) \ {s[k]} PROVE x \in Elems(u)
  <2>1. PICK i \in 1 .. Len(s) : x = s[i] /\ i # k
    BY DEF Elems
  <2>2. CASE i < k
    BY <2>1, <2>2, <1>0, <1>3, <1>5, SMTT(30) DEF Elems
  <2>3. CASE i > k
    <3>1. i - 1 \in 1 .. Len(s) - 1 /\ u[i - 1] = x
      BY <2>1, <2>3, <1>0, <1>3, SMTT(30)
    <3> QED
      BY <3>1, <1>5 DEF Elems
  <2> QED
    BY <2>1, <2>2, <2>3, <1>0, SMTT(30)
<1> QED
  BY <1>3, <1>5, <1>6, <1>7, <1>8 DEF u

(* SLEEPQ_HASH always gives an index of the table. *)
LEMMA HashBucket == \A r \in Resources \cup {0} : Hash(r) \in Buckets
BY ResourcesAssumption, HashSizeAssumption, SMTT(30) DEF Hash, Buckets

(* The threads of a chain, and their links.                                *)
LEMMA ChainFacts ==
  ASSUME Sound, NEW h \in Buckets
  PROVE  /\ cq[h] \in Seq(TIDs) /\ Len(cq[h]) \in Nat
         /\ Elems(cq[h]) \subseteq NonIdle
         /\ \A i \in 1 .. Len(cq[h]) :
              /\ cq[h][i] \in NonIdle /\ cq[h][i] > 0
              /\ cq[h][i] \in Elems(cq[h])
              /\ next[cq[h][i]] = IF i < Len(cq[h]) THEN cq[h][i + 1] ELSE NONE
              /\ sleeps_on[cq[h][i]] # 0 /\ Hash(sleeps_on[cq[h][i]]) = h
<1> IInv
  BY DEF Sound
<1>1. cq[h] \in Seq(TIDs) /\ Len(cq[h]) \in Nat
  BY SMTT(30) DEF IInv, TypeOK
<1>2. \A i \in 1 .. Len(cq[h]) : cq[h][i] \in TIDs /\ cq[h][i] \in Elems(cq[h])
  BY <1>1, SMTT(30) DEF Elems
<1>3. \A i \in 1 .. Len(cq[h]) :
        sleeps_on[cq[h][i]] # 0 /\ Hash(sleeps_on[cq[h][i]]) = h
  BY <1>2 DEF IInv, SleepChainsAreQueues
<1>4. \A i \in 1 .. Len(cq[h]) : cq[h][i] \in NonIdle /\ cq[h][i] > 0
  BY <1>2, <1>3, SMTT(30) DEF IInv, SleepFacts, NonIdle, TIDs, IDLE
<1>5. LinkedBy(next, cq[h])
  BY DEF IInv, SleepChainsAreQueues
<1>6. Elems(cq[h]) \subseteq NonIdle
  BY <1>4 DEF Elems
<1> QED
  BY <1>1, <1>2, <1>3, <1>4, <1>5, <1>6 DEF LinkedBy

(* Only one processor is inside the sections under sleepq_slock.           *)
LEMMA OneHolder ==
  ASSUME Sound, NEW c \in CPUs, NEW d \in CPUs,
         pc[c] \in {"walk", "find", "ready"}, pc[d] \in {"walk", "find", "ready"}
  PROVE  c = d
BY DEF Sound, IInv, LockHeld

(* What a step that leaves the thread table and the lists alone preserves. *)
LEMMA ListsFrame ==
  ASSUME Sound, UNCHANGED <<table, ready, hashtable, cq>>
  PROVE  /\ ReadyListIsQueue' /\ SleepChainsAreQueues' /\ SleepFacts'
         /\ \A t \in TIDs : InSomeChain(t)' <=> InSomeChain(t)
<1> IInv
  BY DEF Sound
<1> USE DEF IInv, table, ready
<1>1. ReadyListIsQueue'
  BY DEF ReadyListIsQueue, ReadyList
<1>2. SleepChainsAreQueues'
  BY DEF SleepChainsAreQueues
<1>3. SleepFacts'
  BY DEF SleepFacts
<1>4. \A t \in TIDs : InSomeChain(t)' <=> InSomeChain(t)
  BY DEF InSomeChain
<1> QED
  BY <1>1, <1>2, <1>3, <1>4

(* The facts on current threads depend on four variables only. *)
LEMMA RunningFrame ==
  ASSUME Sound, UNCHANGED <<state, rq>>, \A d \in CPUs : Running(d)' = Running(d)
  PROVE  RunsOnOneCPU' /\ StateSaysWhere'
<1> IInv
  BY DEF Sound
<1>1. RunsOnOneCPU'
  BY DEF IInv, RunsOnOneCPU
<1>2. StateSaysWhere'
  BY DEF IInv, StateSaysWhere
<1> QED
  BY <1>1, <1>2

(* The facts on rows being created depend on these variables only. *)
LEMMA CreateFrame ==
  ASSUME Sound, UNCHANGED <<state, creation>>
  PROVE  CreateFacts'
BY DEF Sound, IInv, CreateFacts, creation

(* The facts on sleepers depend on these variables only. *)
LEMMA LostFrame ==
  ASSUME Sound, UNCHANGED <<state, sleeps_on>>,
         \A t \in TIDs : InSomeChain(t) => InSomeChain(t)',
         \A t \in TIDs : BeingWoken(t) => BeingWoken(t)',
         \A t \in TIDs : BeingAdded(t) => BeingAdded(t)'
  PROVE  NoSleeperLost'
BY DEF Sound, IInv, NoSleeperLost

(* A thread in a chain is on no other list.                                *)
LEMMA ChainedApart ==
  ASSUME Sound, NEW t \in TIDs, InSomeChain(t)
  PROVE  /\ t \in NonIdle /\ t \notin Elems(rq)
         /\ sleeps_on[t] # 0 /\ state[t] \in {"RUNNING", "SLEEPING"}
<1> IInv
  BY DEF Sound
<1>1. sleeps_on[t] # 0
  BY DEF IInv, InSomeChain, SleepChainsAreQueues
<1>2. state[t] \in {"RUNNING", "SLEEPING"} /\ t # IDLE
  BY <1>1 DEF IInv, SleepFacts
<1> QED
  BY <1>1, <1>2 DEF IInv, StateSaysWhere, NonIdle

(* The chains depend on the heads and the links of their threads only. *)
LEMMA ChainsFrame ==
  ASSUME Sound, UNCHANGED <<hashtable, cq>>,
         \A t \in TIDs : InSomeChain(t) =>
           next'[t] = next[t] /\ sleeps_on'[t] = sleeps_on[t]
  PROVE  /\ SleepChainsAreQueues'
         /\ \A t \in TIDs : InSomeChain(t)' <=> InSomeChain(t)
<1> IInv
  BY DEF Sound
<1>1. ASSUME NEW h \in Buckets, NEW i \in 1 .. Len(cq[h])
      PROVE  /\ cq[h][i] \in TIDs /\ InSomeChain(cq[h][i])
             /\ next'[cq[h][i]] = next[cq[h][i]]
             /\ sleeps_on'[cq[h][i]] = sleeps_on[cq[h][i]]
  BY ChainFacts, TIDFacts DEF InSomeChain
<1>2. \A h \in Buckets : LinkedBy(next', cq'[h])
  BY <1>1 DEF IInv, SleepChainsAreQueues, LinkedBy
<1>3. \A h \in Buckets : \A t \in Elems(cq[h]) : sleeps_on'[t] = sleeps_on[t]
  BY <1>1 DEF Elems
<1>4. SleepChainsAreQueues'
  BY <1>2, <1>3 DEF IInv, SleepChainsAreQueues
<1>5. \A t \in TIDs : InSomeChain(t)' <=> InSomeChain(t)
  BY DEF InSomeChain
<1> QED
  BY <1>4, <1>5

(* The ready list depends on its ends and its links only. *)
LEMMA ReadyFrame ==
  ASSUME Sound, UNCHANGED ready, next' \in [TIDs -> TIDs \cup {NONE}],
         \A t \in Elems(rq) : next'[t] = next[t]
  PROVE  ReadyListIsQueue'
<1> IInv
  BY DEF Sound
<1>1. LinkedBy(next', rq)
  BY DEF IInv, ReadyListIsQueue, ReadyList, Represents, LinkedBy, Elems
<1> QED
  BY <1>1 DEF IInv, ReadyListIsQueue, ReadyList, Represents, ready

(* A thread that calls into the kernel is running and waits for nothing.   *)
LEMMA CallerFacts ==
  ASSUME Sound, NEW c \in CPUs, Calls(c)
  PROVE  /\ current[c] \in NonIdle /\ Running(c) = current[c] /\ pc[c] = "run"
         /\ state[current[c]] = "RUNNING" /\ sleeps_on[current[c]] = 0
<1>1. current[c] \in NonIdle /\ Running(c) = current[c] /\ pc[c] = "run"
  BY Typed DEF Calls, TypeOK, Running, NonIdle
<1>2. state[current[c]] = "RUNNING" /\ sleeps_on[current[c]] = 0
  BY <1>1, CurrentThread DEF CurrentFacts, Executing, NonIdle
<1> QED
  BY <1>1, <1>2

(* The thread a waker has unlinked depends on these variables only. *)
LEMMA WokenFrame ==
  ASSUME Sound,
         \A d \in CPUs : pc'[d] = "ready" => pc[d] = "ready" /\ wake'[d] = wake[d],
         \A d \in CPUs : pc'[d] \in {"add", "walk"} =>
           pc[d] \in {"add", "walk"} /\ current'[d] = current[d],
         \A t \in TIDs : sleeps_on[t] # 0 => sleeps_on'[t] # 0,
         \A t \in TIDs : InSomeChain(t)' => InSomeChain(t)
  PROVE  WokenFacts'
<1>1. \A t \in TIDs : BeingAdded(t)' => BeingAdded(t)
  BY DEF BeingAdded
<1> QED
  BY <1>1, Woken, NonIdleTIDs DEF WokenFacts

(* A waker finds what it found before if the chains are the same. *)
LEMMA FindFrame ==
  ASSUME Sound, UNCHANGED cq,
         \A d \in CPUs : pc'[d] \in {"wake", "find", "ready"} =>
           /\ pc'[d] = pc[d] /\ res'[d] = res[d]
           /\ first'[d] = first[d] /\ prev'[d] = prev[d],
         \A t \in TIDs : InSomeChain(t) => sleeps_on'[t] = sleeps_on[t]
  PROVE  FindFacts'
<1> IInv
  BY DEF Sound
<1>1. \A h \in Buckets : \A i \in 1 .. Len(cq[h]) :
        sleeps_on'[cq[h][i]] = sleeps_on[cq[h][i]]
  BY ChainFacts, TIDFacts DEF InSomeChain
<1>2. ASSUME NEW d \in CPUs, pc'[d] \in {"find", "ready"}, first'[d] # NONE
      PROVE  (\E k \in 1 .. Len(cq[Hash(res[d])]) : At(d, k))'
  <2>1. /\ pc'[d] = pc[d] /\ res'[d] = res[d] /\ Hash(res[d]) \in Buckets
        /\ first'[d] = first[d] /\ prev'[d] = prev[d]
    BY <1>2, HashBucket DEF IInv, TypeOK
  <2>2. PICK k \in 1 .. Len(cq[Hash(res[d])]) : At(d, k)
    BY <1>2, <2>1 DEF IInv, FindFacts
  <2>3. Len(cq[Hash(res[d])]) \in Nat
    BY <2>1, ChainFacts
  <2>4. \A j \in 1 .. k - 1 : j \in 1 .. Len(cq[Hash(res[d])])
    BY <2>3, SMTT(30)
  <2>5. At(d, k)'
    BY <2>1, <2>2, <2>4, <1>1, SMTT(30) DEF At
  <2> QED
    BY <2>1, <2>5
<1> QED
  BY <1>2 DEF IInv, FindFacts

(* Appending a thread that is on no list to the ready list leaves the      *)
(* chains alone.                                                           *)
LEMMA AddReadyStep ==
  ASSUME Sound, NEW t \in NonIdle, t \notin Elems(rq), ~ InSomeChain(t),
         SetReadyList(scheduler_add_to_ready_list(ReadyList, t)),
         rq' = Append(rq, t), UNCHANGED <<hashtable, cq>>,
         \A u \in TIDs : InSomeChain(u) => sleeps_on'[u] = sleeps_on[u]
  PROVE  /\ ReadyListIsQueue' /\ SleepChainsAreQueues'
         /\ head' \in TIDs \cup {NONE} /\ tail' \in TIDs \cup {NONE}
         /\ next' \in [TIDs -> TIDs \cup {NONE}]
         /\ rq' \in Seq(TIDs) /\ Elems(rq') = Elems(rq) \cup {t}
         /\ \A u \in TIDs : InSomeChain(u)' <=> InSomeChain(u)
         /\ \A u \in TIDs : u \notin Elems(rq) /\ u # t => next'[u] = next[u]
<1> IInv
  BY DEF Sound
<1> DEFINE m == scheduler_add_to_ready_list(ReadyList, t)
<1>1. ReadyList \in Lists /\ rq \in Seq(TIDs) /\ t \in TIDs
  BY TIDFacts DEF IInv, TypeOK, ReadyList, Lists
<1>2. /\ m \in Lists /\ Represents(m, Append(rq, t))
      /\ \A u \in TIDs : u \notin Elems(rq) /\ u # t => m.next[u] = ReadyList.next[u]
  BY <1>1, AddReadyCorrect DEF IInv, ReadyListIsQueue
<1>3. head' = m.head /\ tail' = m.tail /\ next' = m.next
  BY DEF SetReadyList
<1> HIDE DEF m
<1>4. \A u \in TIDs : u \notin Elems(rq) /\ u # t => next'[u] = next[u]
  BY <1>2, <1>3 DEF ReadyList
<1>5. ReadyListIsQueue'
  BY <1>2, <1>3 DEF ReadyListIsQueue, ReadyList, Represents
<1>6. /\ SleepChainsAreQueues'
      /\ \A u \in TIDs : InSomeChain(u)' <=> InSomeChain(u)
  BY <1>4, ChainedApart, ChainsFrame
<1> QED
  BY <1>1, <1>2, <1>3, <1>4, <1>5, <1>6, AppendElems, SMTT(30) DEF Lists

(* Appending the thread that runs on c, with an empty next field, to the   *)
(* chain h.                                                                *)
LEMMA ChainAppend ==
  ASSUME Sound, NEW h \in Buckets, NEW t \in TIDs,
         ~ InSomeChain(t), sleeps_on[t] # 0, Hash(sleeps_on[t]) = h,
         UNCHANGED sleeps_on,
         cq' = [cq EXCEPT ![h] = Append(@, t)],
         next'[t] = NONE,
         \A u \in TIDs : InSomeChain(u) =>
           \/ next'[u] = next[u]
           \/ Len(cq[h]) # 0 /\ u = cq[h][Len(cq[h])] /\ next'[u] = t,
         Len(cq[h]) # 0 => next'[cq[h][Len(cq[h])]] = t,
         hashtable' = IF Len(cq[h]) = 0 THEN [hashtable EXCEPT ![h] = t]
                                        ELSE hashtable
  PROVE  /\ SleepChainsAreQueues' /\ cq' \in [Buckets -> Seq(TIDs)]
         /\ \A u \in TIDs : InSomeChain(u)' <=> InSomeChain(u) \/ u = t
<1> IInv
  BY DEF Sound
<1>0. cq \in [Buckets -> Seq(TIDs)] /\ hashtable \in [Buckets -> TIDs \cup {NONE}]
  BY DEF IInv, TypeOK
<1>1. cq' \in [Buckets -> Seq(TIDs)]
  <2> HIDE DEF Buckets, TIDs
  <2>1. Append(cq[h], t) \in Seq(TIDs)
    BY <1>0, SMTT(30)
  <2>2. cq' = [cq EXCEPT ![h] = Append(cq[h], t)]
    OBVIOUS
  <2> QED
    BY ONLY <1>0, <2>1, <2>2, h \in Buckets
<1>2. /\ cq'[h] = Append(cq[h], t) /\ Elems(cq'[h]) = Elems(cq[h]) \cup {t}
      /\ \A g \in Buckets : g # h => cq'[g] = cq[g]
  BY <1>0, AppendElems
<1>3. \A u \in TIDs : InSomeChain(u)' <=> InSomeChain(u) \/ u = t
  BY <1>2, SMTT(30) DEF InSomeChain
<1>4. ASSUME NEW g \in Buckets, g # h
      PROVE  /\ Distinct(cq'[g]) /\ LinkedBy(next', cq'[g])
             /\ hashtable'[g] = IF Len(cq'[g]) = 0 THEN NONE ELSE cq'[g][1]
             /\ \A u \in Elems(cq'[g]) : sleeps_on'[u] # 0 /\ Hash(sleeps_on'[u]) = g
  <2>1. \A i \in 1 .. Len(cq[g]) : next'[cq[g][i]] = next[cq[g][i]]
    <3> SUFFICES ASSUME NEW i \in 1 .. Len(cq[g])
                 PROVE  next'[cq[g][i]] = next[cq[g][i]]
      OBVIOUS
    <3>1. /\ cq[g][i] \in TIDs /\ InSomeChain(cq[g][i])
          /\ Hash(sleeps_on[cq[g][i]]) = g
      BY ChainFacts, TIDFacts DEF InSomeChain
    <3>2. Len(cq[h]) # 0 => Hash(sleeps_on[cq[h][Len(cq[h])]]) = h
      BY ChainFacts, SMTT(30)
    <3> QED
      BY <3>1, <3>2, <1>4
  <2>2. LinkedBy(next', cq'[g])
    BY <2>1, <1>2, <1>4, SMTT(30) DEF LinkedBy, IInv, SleepChainsAreQueues
  <2> QED
    BY <2>2, <1>0, <1>2, <1>4 DEF IInv, SleepChainsAreQueues
<1>5. /\ Distinct(cq'[h]) /\ LinkedBy(next', cq'[h])
      /\ hashtable'[h] = IF Len(cq'[h]) = 0 THEN NONE ELSE cq'[h][1]
      /\ \A u \in Elems(cq'[h]) : sleeps_on'[u] # 0 /\ Hash(sleeps_on'[u]) = h
  <2> DEFINE s == cq[h]
  <2>1. /\ s \in Seq(TIDs) /\ Len(s) \in Nat /\ Distinct(s) /\ LinkedBy(next, s)
        /\ hashtable[h] = IF Len(s) = 0 THEN NONE ELSE s[1]
    BY ChainFacts DEF IInv, SleepChainsAreQueues
  <2>2. \A i \in 1 .. Len(s) : s[i] \in TIDs /\ s[i] # t /\ InSomeChain(s[i])
    BY ChainFacts, TIDFacts, SMTT(30) DEF InSomeChain
  <2>3. Len(Append(s, t)) = Len(s) + 1 /\ Append(s, t)[Len(s) + 1] = t
        /\ \A i \in 1 .. Len(s) : Append(s, t)[i] = s[i]
    BY <2>1, SMTT(30)
  <2>4. Distinct(Append(s, t))
    BY <2>1, <2>2, <2>3, SMTT(30) DEF Distinct
  <2>5. \A i \in 1 .. Len(s) : i # Len(s) => next'[s[i]] = s[i + 1]
    <3> SUFFICES ASSUME NEW i \in 1 .. Len(s), i # Len(s)
                 PROVE  next'[s[i]] = s[i + 1]
      OBVIOUS
    <3>1. s[i] # s[Len(s)]
      BY <2>1, SMTT(30) DEF Distinct
    <3>2. next[s[i]] = s[i + 1]
      BY <2>1, SMTT(30) DEF LinkedBy
    <3> QED
      BY <3>1, <3>2, <2>2
  <2>6. LinkedBy(next', Append(s, t))
    <3> SUFFICES ASSUME NEW i \in 1 .. Len(s) + 1
                 PROVE  next'[Append(s, t)[i]] =
                          IF i < Len(s) + 1 THEN Append(s, t)[i + 1] ELSE NONE
      BY <2>3 DEF LinkedBy
    <3>1. CASE i = Len(s) + 1
      BY <2>1, <2>3, <3>1, SMTT(30)
    <3>2. CASE i = Len(s) /\ i # 0
      BY <2>1, <2>3, <3>2, SMTT(30)
    <3>3. CASE i < Len(s)
      BY <2>1, <2>3, <2>5, <3>3, SMTT(30)
    <3> QED
      BY <2>1, <3>1, <3>2, <3>3, SMTT(30)
  <2>7. hashtable'[h] = Append(s, t)[1]
    BY <1>0, <2>1, <2>3, SMTT(30)
  <2>8. \A u \in Elems(s) : sleeps_on[u] # 0 /\ Hash(sleeps_on[u]) = h
    BY DEF IInv, SleepChainsAreQueues
  <2> HIDE DEF s
  <2>9. cq'[h] = Append(s, t) /\ Elems(cq'[h]) = Elems(s) \cup {t}
    BY <1>2 DEF s
  <2>10. Distinct(cq'[h]) /\ LinkedBy(next', cq'[h])
    BY <2>4, <2>6, <2>9
  <2>11. hashtable'[h] = IF Len(cq'[h]) = 0 THEN NONE ELSE cq'[h][1]
    BY <2>1, <2>3, <2>7, <2>9, SMTT(30)
  <2>12. \A u \in Elems(cq'[h]) : sleeps_on'[u] # 0 /\ Hash(sleeps_on'[u]) = h
    BY <2>8, <2>9
  <2> QED
    BY <2>10, <2>11, <2>12
<1> QED
  BY <1>1, <1>3, <1>4, <1>5 DEF SleepChainsAreQueues

-----------------------------------------------------------------------------
(* sleepq_add: the call, the lock, the walk along the chain and the link   *)
(* at its end.                                                             *)

(* The call of sleepq_add keeps the invariant. *)
LEMMA SleepqAddInv ==
  ASSUME Sound, NEW c \in CPUs, NEW r \in Resources, sleepq_add(c, r)
  PROVE  Sound'
<1> USE DEF table, ready, sleepq, locals, creation
<1> DEFINE me == current[c]
<1>0. /\ me \in NonIdle /\ Running(c) = me /\ pc[c] = "run"
      /\ state[me] = "RUNNING" /\ sleeps_on[me] = 0 /\ r # 0
  <2>1. r # 0
    BY ResourcesAssumption
  <2> QED
    BY <2>1, CallerFacts DEF sleepq_add
<1>a. me \notin Elems(rq) /\ ~ InSomeChain(me)
  BY <1>0, ChainedApart, NonIdleTIDs, Whereabouts DEF StateSaysWhere
<1>b. \A d \in CPUs : d # c => Running(d) # me
  BY <1>0, OneCPU DEF RunsOnOneCPU, NonIdle
<1>1. TypeOK'
  BY <1>0, TIDFacts, Typed DEF TypeOK, sleepq_add, PCs
<1>2. ReadyListIsQueue'
  <2>1. next \in [TIDs -> TIDs \cup {NONE}] /\ next' \in [TIDs -> TIDs \cup {NONE}]
    BY <1>1, Typed DEF TypeOK
  <2>2. \A x \in Elems(rq) : next'[x] = next[x]
    BY <1>a, <2>1, ReadyTIDs DEF sleepq_add
  <2> QED
    BY <2>1, <2>2, ReadyFrame DEF sleepq_add
<1>3. /\ SleepChainsAreQueues'
      /\ \A u \in TIDs : InSomeChain(u)' <=> InSomeChain(u)
  BY <1>a, ChainsFrame, Typed DEF sleepq_add, TypeOK
<1>4. \A d \in CPUs : Running(d)' = Running(d)
  BY <1>0, Typed DEF sleepq_add, Running, TypeOK
<1>5. RunsOnOneCPU' /\ StateSaysWhere'
  BY <1>4, RunningFrame DEF sleepq_add
<1>6. NoSleeperLost'
  <2>1. \A u \in TIDs : BeingWoken(u) => BeingWoken(u)'
    BY <1>0, Typed DEF BeingWoken, sleepq_add, TypeOK
  <2>2. \A u \in TIDs : BeingAdded(u) => BeingAdded(u)'
    BY <1>0, Typed DEF BeingAdded, sleepq_add, TypeOK
  <2>3. BeingAdded(me)'
    BY Typed DEF BeingAdded, sleepq_add, TypeOK
  <2> QED
    BY <1>0, <1>3, <2>1, <2>2, <2>3, Sleepers, Typed DEF NoSleeperLost,
       sleepq_add, TypeOK
<1>7. LockHeld'
  BY <1>0, LockHolder, Typed DEF LockHeld, sleepq_add, TypeOK
<1>8. CurrentFacts'
  BY <1>0, <1>b, <1>4, CurrentThread, Typed, SMTT(30) DEF CurrentFacts, sleepq_add,
     Executing, TypeOK
<1>9. SleepFacts'
  BY <1>0, TIDFacts, Sleeping, Typed DEF SleepFacts, sleepq_add, TypeOK,
     NonIdle
<1>10. AddFacts'
  <2> SUFFICES ASSUME NEW d \in CPUs, pc'[d] \in {"add", "walk"}
               PROVE  /\ res'[d] \in Resources /\ sleeps_on'[current[d]] = res'[d]
                      /\ state[current[d]] = "RUNNING" /\ next'[current[d]] = NONE
                      /\ ~ InSomeChain(current[d])
                      /\ pc'[d] = "walk" => prev[d] \in Elems(cq[Hash(res'[d])])
    BY <1>3, Adding, Typed DEF AddFacts, sleepq_add, TypeOK
  <2>1. CASE d = c
    BY <1>0, <1>a, <2>1, Typed DEF sleepq_add, TypeOK
  <2>2. CASE d # c
    <3>1. pc'[d] = pc[d] /\ res'[d] = res[d] /\ current[d] # me
      BY <1>b, <2>2, Typed DEF sleepq_add, TypeOK, Running
    <3> QED
      BY <3>1, Typed, Adding DEF sleepq_add, TypeOK, AddFacts
  <2> QED
    BY <2>1, <2>2
<1>11. FindFacts'
  <2>1. \A u \in TIDs : InSomeChain(u) => sleeps_on'[u] = sleeps_on[u]
    BY <1>a, Typed DEF sleepq_add, TypeOK
  <2> QED
    BY <1>0, <2>1, FindFrame, Typed DEF sleepq_add, TypeOK
<1>12. WokenFacts'
  <2>1. \A d \in CPUs : pc[d] = "ready" => wake[d] # me
    BY <1>0, Woken DEF WokenFacts
  <2>2. \A u \in TIDs : u # me => (BeingAdded(u)' => BeingAdded(u))
    BY <1>0, Typed DEF BeingAdded, sleepq_add, TypeOK
  <2>3. \A d \in CPUs : pc'[d] = "ready" => pc[d] = "ready" /\ wake'[d] = wake[d]
    BY <1>0, Typed DEF sleepq_add, TypeOK
  <2>4. \A u \in TIDs : u # me => sleeps_on'[u] = sleeps_on[u]
    BY Typed DEF sleepq_add, TypeOK
  <2> QED
    BY <1>3, <2>1, <2>2, <2>3, <2>4, NonIdleTIDs, Woken DEF WokenFacts
<1>13. CreateFacts'
  BY CreateFrame DEF sleepq_add
<1> QED
  BY <1>1, <1>2, <1>3, <1>5, <1>6, <1>7, <1>8, <1>9, <1>10, <1>11, <1>12,
     <1>13 DEF Sound, IInv

(* The walk of sleepq_add along its chain keeps the invariant. *)
LEMMA AddWalkInv ==
  ASSUME Sound, NEW c \in CPUs, AddWalk(c)
  PROVE  Sound'
<1> USE DEF table, ready, sleepq, locals, creation
<1>1. TypeOK'
  <2>1. prev[c] \in TIDs
    <3>1. Hash(res[c]) \in Buckets
      BY HashBucket, Adding DEF AddFacts, AddWalk
    <3> QED
      BY <3>1, ChainFacts, NonIdleTIDs, Adding DEF AddFacts, AddWalk
  <2> QED
    BY <2>1, Typed DEF TypeOK, AddWalk, PCs
<1>2. /\ ReadyListIsQueue' /\ SleepChainsAreQueues' /\ SleepFacts'
      /\ \A t \in TIDs : InSomeChain(t)' <=> InSomeChain(t)
  BY ListsFrame DEF AddWalk
<1>3. \A d \in CPUs : Running(d)' = Running(d)
  BY Typed, CurrentThread DEF AddWalk, Running, TypeOK, CurrentFacts
<1>4. RunsOnOneCPU' /\ StateSaysWhere'
  BY <1>3, RunningFrame DEF AddWalk
<1>5. NoSleeperLost'
  <2>1. \A t \in TIDs : BeingWoken(t) => BeingWoken(t)'
    BY Typed DEF BeingWoken, AddWalk, TypeOK
  <2>2. \A t \in TIDs : BeingAdded(t) => BeingAdded(t)'
    BY Typed DEF BeingAdded, AddWalk, TypeOK
  <2> QED
    BY <1>2, <2>1, <2>2, LostFrame DEF AddWalk
<1>6. LockHeld'
  BY CPUsAssumption, LockHolder, Typed DEF LockHeld, AddWalk, TypeOK
<1>7. CurrentFacts'
  BY <1>3, CurrentThread, Typed DEF CurrentFacts, AddWalk, Executing, TypeOK,
     Running
<1>8. AddFacts'
  <2> DEFINE q == cq[Hash(res[c])]
  <2>1. Hash(res[c]) \in Buckets /\ prev[c] \in Elems(q)
    BY HashBucket, Adding DEF AddFacts, AddWalk
  <2>2. PICK k \in 1 .. Len(q) : prev[c] = q[k]
    BY <2>1 DEF Elems
  <2>3. /\ Len(q) \in Nat
        /\ next[q[k]] = IF k < Len(q) THEN q[k + 1] ELSE NONE
    BY <2>1, ChainFacts
  <2>4. k < Len(q) /\ prev'[c] = q[k + 1]
    BY <2>2, <2>3, Typed, SMTT(30) DEF AddWalk, TypeOK, NONE
  <2>5. prev'[c] \in Elems(q)
    BY <2>3, <2>4, SMTT(30) DEF Elems
  <2> QED
    BY <1>2, <2>5, Adding, Typed DEF AddFacts, AddWalk, TypeOK
<1>9. FindFacts'
  BY FindFrame, Typed DEF AddWalk, TypeOK
<1>10. WokenFacts'
  BY <1>2, WokenFrame, Typed DEF AddWalk, TypeOK
<1>11. CreateFacts'
  BY CreateFrame DEF AddWalk
<1> QED
  BY <1>1, <1>2, <1>4, <1>5, <1>6, <1>7, <1>8, <1>9, <1>10, <1>11 DEF Sound, IInv

(* Steps that change the thread table or the lists.                        *)

(* The two steps that complete sleepq_add share everything but the links.  *)
LEMMA AddedInv ==
  ASSUME Sound, NEW c \in CPUs, pc[c] \in {"add", "walk"},
         pc[c] = "add" => sleepq_slock = "nobody",
         sleepq_slock' = "nobody",
         pc' = [pc EXCEPT ![c] = "yield"],
         UNCHANGED <<state, sleeps_on, ready, current, all, first, wake, back,
                     chosen, creation>>,
         res' = [res EXCEPT ![c] = 0],
         prev' \in [CPUs -> TIDs \cup {NONE}],
         \A d \in CPUs : d # c => prev'[d] = prev[d],
         next' \in [TIDs -> TIDs \cup {NONE}],
         hashtable' \in [Buckets -> TIDs \cup {NONE}],
         cq' \in [Buckets -> Seq(TIDs)], SleepChainsAreQueues',
         \A u \in TIDs : InSomeChain(u)' <=> InSomeChain(u) \/ u = current[c],
         \A u \in TIDs : ~ InSomeChain(u) => next'[u] = next[u]
  PROVE  Sound'
<1> USE DEF ready, creation
<1>0. /\ \A d \in CPUs : d # c => pc[d] \notin {"walk", "find", "ready"}
      /\ \A d \in CPUs : d # c => pc'[d] = pc[d] /\ res'[d] = res[d]
      /\ pc'[c] = "yield"
  BY CPUsAssumption, LockHolder, Typed, SMTT(30) DEF LockHeld, TypeOK
<1>a. /\ current[c] \in NonIdle /\ sleeps_on[current[c]] # 0
      /\ Running(c) = current[c]
  BY ResourcesAssumption, Adding, Sleeping, Typed, SMTT(30) DEF AddFacts, SleepFacts,
     TypeOK, Running, NonIdle
<1>1. TypeOK'
  BY <1>0, Typed DEF TypeOK, PCs
<1>2. ReadyListIsQueue'
  <2>1. \A t \in Elems(rq) : t \in TIDs /\ next'[t] = next[t]
    BY ChainedApart, ReadyTIDs
  <2> QED
    BY <2>1, ReadyFrame
<1>3. \A d \in CPUs : Running(d)' = Running(d)
  BY <1>0, Typed DEF Running, TypeOK
<1>4. RunsOnOneCPU' /\ StateSaysWhere'
  BY <1>3, RunningFrame
<1>5. NoSleeperLost'
  <2>1. \A u \in TIDs : BeingWoken(u) => BeingWoken(u)'
    BY <1>0 DEF BeingWoken
  <2>2. \A u \in TIDs : BeingAdded(u) => BeingAdded(u)' \/ u = current[c]
    BY <1>0 DEF BeingAdded
  <2> QED
    BY <2>1, <2>2, Sleepers DEF NoSleeperLost
<1>6. LockHeld'
  BY <1>0, CPUsAssumption, LockHolder DEF LockHeld
<1>7. CurrentFacts'
  BY <1>0, <1>3, CurrentThread, SMTT(30) DEF CurrentFacts, Executing
<1>8. SleepFacts'
  BY Sleeping DEF SleepFacts
<1>9. AddFacts'
  <2>0. \A d \in CPUs : pc'[d] \in {"add", "walk"} =>
          d # c /\ pc[d] = "add" /\ pc'[d] = "add" /\ res'[d] = res[d]
    BY <1>0
  <2> SUFFICES ASSUME NEW d \in CPUs, d # c, pc[d] = "add"
               PROVE  /\ res[d] \in Resources /\ sleeps_on[current[d]] = res[d]
                      /\ state[current[d]] = "RUNNING"
                      /\ next'[current[d]] = NONE
                      /\ ~ InSomeChain(current[d])'
    BY <2>0 DEF AddFacts
  <2>1. /\ current[d] \in TIDs /\ Running(d) = current[d]
        /\ ~ InSomeChain(current[d])
    BY Adding, Typed DEF AddFacts, TypeOK, Running
  <2>2. current[d] # current[c]
    BY <1>a, <2>1, OneCPU DEF RunsOnOneCPU, NonIdle
  <2> QED
    BY <2>1, <2>2, Adding DEF AddFacts
<1>10. FindFacts'
  BY <1>0, Finding DEF FindFacts
<1>11. WokenFacts'
  BY <1>0, Woken DEF WokenFacts
<1>12. CreateFacts'
  BY CreateFrame
<1> QED
  BY <1>1, <1>2, <1>4, <1>5, <1>6, <1>7, <1>8, <1>9, <1>10, <1>11, <1>12 DEF Sound, IInv

(* The thread that is being added is on no list, its next field is empty.  *)
LEMMA AddingFacts ==
  ASSUME Sound, NEW c \in CPUs, pc[c] \in {"add", "walk"}
  PROVE  /\ current[c] \in NonIdle /\ current[c] \in TIDs
         /\ res[c] # 0 /\ sleeps_on[current[c]] = res[c]
         /\ Hash(res[c]) \in Buckets
         /\ ~ InSomeChain(current[c]) /\ next[current[c]] = NONE
         /\ pc[c] = "walk" => prev[c] \in Elems(cq[Hash(res[c])])
<1>1. res[c] \in Resources /\ res[c] # 0 /\ sleeps_on[current[c]] = res[c]
  BY ResourcesAssumption, Adding DEF AddFacts
<1>2. current[c] \in TIDs /\ current[c] # IDLE
  BY <1>1, Typed, Sleeping DEF TypeOK, SleepFacts
<1> QED
  BY <1>1, <1>2, HashBucket, Adding DEF AddFacts, NonIdle

(* sleepq_add on an empty chain, or the start of its walk. *)
LEMMA AddLockInv ==
  ASSUME Sound, NEW c \in CPUs, AddLock(c)
  PROVE  Sound'
<1> USE DEF table, ready, sleepq, locals, creation
<1> DEFINE h == Hash(res[c])
           me == current[c]
<1>0. /\ me \in NonIdle /\ me \in TIDs /\ sleeps_on[me] = res[c] /\ res[c] # 0
      /\ h \in Buckets /\ ~ InSomeChain(me) /\ next[me] = NONE
      /\ Hash(sleeps_on[me]) = h
  BY AddingFacts DEF AddLock
<1>a. /\ cq[h] \in Seq(TIDs) /\ Len(cq[h]) \in Nat
      /\ hashtable[h] = IF Len(cq[h]) = 0 THEN NONE ELSE cq[h][1]
      /\ Len(cq[h]) # 0 => cq[h][1] > 0 /\ cq[h][1] \in Elems(cq[h])
                           /\ cq[h][1] \in TIDs
  BY <1>0, ChainFacts, TIDFacts, SleepChains, SMTT(30) DEF SleepChainsAreQueues
<1>1. CASE hashtable[h] <= 0
  <2>1. Len(cq[h]) = 0
    <3>1. \A t \in TIDs : t > 0 => ~ (t <= 0)
      BY SMTT(30) DEF TIDs
    <3> QED
      BY <1>a, <1>1, <3>1
  <2>2. /\ hashtable' = [hashtable EXCEPT ![h] = me]
        /\ cq' = [cq EXCEPT ![h] = Append(@, me)]
        /\ sleepq_slock = "nobody" /\ sleepq_slock' = "nobody" /\ prev' = prev
        /\ pc[c] = "add" /\ UNCHANGED <<table, ready, current, all, first, wake,
                                        back, chosen, creation>>
        /\ pc' = [pc EXCEPT ![c] = "yield"] /\ res' = [res EXCEPT ![c] = 0]
    BY <1>1 DEF AddLock
  <2>3. /\ SleepChainsAreQueues' /\ cq' \in [Buckets -> Seq(TIDs)]
        /\ \A u \in TIDs : InSomeChain(u)' <=> InSomeChain(u) \/ u = me
    <3>1. UNCHANGED <<sleeps_on, next>> /\ next'[me] = NONE
      BY <1>0, <2>2
    <3> HIDE DEF h, me
    <3> QED
      BY <1>0, <2>1, <2>2, <3>1, ChainAppend
  <2>4. /\ hashtable' \in [Buckets -> TIDs \cup {NONE}]
        /\ next' \in [TIDs -> TIDs \cup {NONE}]
        /\ prev' \in [CPUs -> TIDs \cup {NONE}]
    BY <1>0, <2>2, Typed DEF TypeOK
  <2> QED
    BY <2>2, <2>3, <2>4, AddedInv
<1>2. CASE ~ (hashtable[h] <= 0)
  <2>0. /\ UNCHANGED <<table, ready, hashtable, cq, res, current, all, first,
                       wake, back, chosen, creation>>
        /\ sleepq_slock = "nobody" /\ sleepq_slock' = c
        /\ prev' = [prev EXCEPT ![c] = hashtable[h]]
        /\ pc[c] = "add" /\ pc' = [pc EXCEPT ![c] = "walk"]
    BY <1>2 DEF AddLock
  <2>a. /\ \A d \in CPUs : pc[d] \notin {"walk", "find", "ready"}
        /\ \A d \in CPUs : d # c => pc'[d] = pc[d] /\ prev'[d] = prev[d]
        /\ pc'[c] = "walk" /\ prev'[c] = hashtable[h]
    BY <2>0, CPUsAssumption, LockHolder, Typed DEF LockHeld, TypeOK
  <2>b. hashtable[h] \in Elems(cq[h]) /\ hashtable[h] \in TIDs
    BY <1>a, <1>2, SMTT(30) DEF NONE
  <2>1. TypeOK'
    BY <2>0, <2>b, Typed DEF TypeOK, PCs
  <2>2. /\ ReadyListIsQueue' /\ SleepChainsAreQueues' /\ SleepFacts'
        /\ \A t \in TIDs : InSomeChain(t)' <=> InSomeChain(t)
    BY <2>0, ListsFrame
  <2>3. \A d \in CPUs : Running(d)' = Running(d)
    BY <2>0, <2>a, Typed DEF Running, TypeOK
  <2>4. RunsOnOneCPU' /\ StateSaysWhere'
    BY <2>0, <2>3, RunningFrame
  <2>5. NoSleeperLost'
    <3>1. \A u \in TIDs : BeingWoken(u) => BeingWoken(u)'
      BY <2>a DEF BeingWoken
    <3>2. \A u \in TIDs : BeingAdded(u) => BeingAdded(u)'
      BY <2>0, <2>a DEF BeingAdded
    <3> QED
      BY <2>0, <2>2, <3>1, <3>2, LostFrame
  <2>6. LockHeld'
    BY <2>0, <2>a, CPUsAssumption, LockHolder DEF LockHeld
  <2>7. CurrentFacts'
    BY <2>0, <2>a, <2>3, CurrentThread, SMTT(30) DEF CurrentFacts, Executing
  <2>8. AddFacts'
    BY <2>0, <2>a, <2>b, <2>2, Adding, Typed, SMTT(30) DEF AddFacts, TypeOK
  <2>9. FindFacts'
    BY <2>0, <2>a, Finding DEF FindFacts
  <2>10. WokenFacts'
    BY <2>0, <2>a, Woken DEF WokenFacts
  <2>11. CreateFacts'
    BY <2>0, CreateFrame
  <2> QED
    BY <2>1, <2>2, <2>4, <2>5, <2>6, <2>7, <2>8, <2>9, <2>10, <2>11 DEF Sound, IInv
<1> QED
  BY <1>1, <1>2

(* sleepq_add at the end of a chain keeps the invariant. *)
LEMMA AddLinkInv ==
  ASSUME Sound, NEW c \in CPUs, AddLink(c)
  PROVE  Sound'
<1> USE DEF table, ready, sleepq, locals, creation
<1> DEFINE h == Hash(res[c])
           me == current[c]
<1>0. /\ me \in NonIdle /\ me \in TIDs /\ sleeps_on[me] = res[c] /\ res[c] # 0
      /\ h \in Buckets /\ ~ InSomeChain(me) /\ next[me] = NONE
      /\ prev[c] \in Elems(cq[h]) /\ Hash(sleeps_on[me]) = h
  BY AddingFacts DEF AddLink
<1>1. PICK k \in 1 .. Len(cq[h]) : prev[c] = cq[h][k]
  BY <1>0 DEF Elems
<1>2. /\ Len(cq[h]) \in Nat /\ prev[c] \in TIDs /\ InSomeChain(prev[c])
      /\ next[prev[c]] = IF k < Len(cq[h]) THEN cq[h][k + 1] ELSE NONE
      /\ k < Len(cq[h]) => cq[h][k + 1] > 0
  <2>1. prev[c] \in TIDs /\ InSomeChain(prev[c])
    BY <1>0, ChainFacts, NonIdleTIDs DEF InSomeChain
  <2> QED
    BY <1>0, <1>1, <2>1, ChainFacts, SMTT(30)
<1>3. k = Len(cq[h])
  <2>1. ~ (next[prev[c]] > 0)
    <3>1. next[prev[c]] \in Int
      BY <1>2, Typed, SMTT(30) DEF TypeOK, TIDs, NONE
    <3>2. next[prev[c]] <= 0
      BY DEF AddLink
    <3> QED
      BY <3>1, <3>2, SMTT(30)
  <2> QED
    BY <1>2, <2>1, SMTT(30)
<1>4. next' = [next EXCEPT ![prev[c]] = me] /\ me # prev[c]
  BY <1>0, <1>2 DEF AddLink
<1>5. /\ next'[me] = NONE /\ next'[cq[h][Len(cq[h])]] = me /\ Len(cq[h]) # 0
      /\ \A u \in TIDs : \/ next'[u] = next[u]
                         \/ u = cq[h][Len(cq[h])] /\ next'[u] = me
  <2>1. prev[c] = cq[h][Len(cq[h])] /\ Len(cq[h]) # 0
    BY <1>1, <1>2, <1>3, SMTT(30)
  <2>2. \A u \in TIDs : next'[u] = IF u = prev[c] THEN me ELSE next[u]
    BY <1>4, Typed DEF TypeOK
  <2> DEFINE last == cq[h][Len(cq[h])]
  <2>3. next'[me] = NONE
    BY <1>0, <1>4, <2>2
  <2>4. next'[last] = me
    BY <1>2, <2>1, <2>2
  <2>5. \A u \in TIDs : next'[u] = next[u] \/ (u = last /\ next'[u] = me)
    <3> SUFFICES ASSUME NEW u \in TIDs
                 PROVE  next'[u] = next[u] \/ (u = last /\ next'[u] = me)
      OBVIOUS
    <3>1. CASE u = prev[c]
      BY <2>1, <2>2, <3>1
    <3>2. CASE u # prev[c]
      BY <2>2, <3>2
    <3> QED
      BY <3>1, <3>2
  <2> QED
    BY <2>1, <2>3, <2>4, <2>5
<1>6. /\ SleepChainsAreQueues' /\ cq' \in [Buckets -> Seq(TIDs)]
      /\ \A u \in TIDs : InSomeChain(u)' <=> InSomeChain(u) \/ u = me
  <2>1. /\ cq' = [cq EXCEPT ![h] = Append(@, me)]
        /\ UNCHANGED <<sleeps_on, hashtable>>
    BY DEF AddLink
  <2>2. \A u \in TIDs : InSomeChain(u) =>
          \/ next'[u] = next[u]
          \/ Len(cq[h]) # 0 /\ u = cq[h][Len(cq[h])] /\ next'[u] = me
    BY <1>5
  <2> HIDE DEF h, me
  <2> QED
    BY <1>0, <1>5, <2>1, <2>2, ChainAppend
<1>7. \A u \in TIDs : ~ InSomeChain(u) => next'[u] = next[u]
  BY <1>2, <1>4, Typed DEF TypeOK
<1>8. /\ hashtable' \in [Buckets -> TIDs \cup {NONE}]
      /\ next' \in [TIDs -> TIDs \cup {NONE}]
      /\ prev' \in [CPUs -> TIDs \cup {NONE}]
      /\ \A d \in CPUs : d # c => prev'[d] = prev[d]
  <2>1. hashtable' = hashtable /\ prev' = [prev EXCEPT ![c] = NONE]
    BY DEF AddLink
  <2>2. /\ next \in [TIDs -> TIDs \cup {NONE}]
        /\ hashtable \in [Buckets -> TIDs \cup {NONE}]
        /\ prev \in [CPUs -> TIDs \cup {NONE}]
    BY Typed DEF TypeOK
  <2> QED
    BY <1>0, <1>4, <2>1, <2>2
<1> QED
  BY <1>6, <1>7, <1>8, AddedInv DEF AddLink

-----------------------------------------------------------------------------
(* The wakes: the call, the lock, the search along the chain, taking a     *)
(* thread out of it, putting it on the ready list, and the return.         *)

(* The call of sleepq_wake or sleepq_wake_all keeps the invariant. *)
LEMMA SleepqWakeInv ==
  ASSUME Sound, NEW c \in CPUs, NEW r \in Resources, NEW a \in BOOLEAN, sleepq_wake(c, r, a)
  PROVE  Sound'
<1> USE DEF table, ready, sleepq, locals, creation
<1>1. TypeOK'
  BY TIDFacts, Typed, CurrentThread DEF TypeOK, sleepq_wake, PCs, CurrentFacts
<1>2. /\ ReadyListIsQueue' /\ SleepChainsAreQueues' /\ SleepFacts'
      /\ \A t \in TIDs : InSomeChain(t)' <=> InSomeChain(t)
  BY ListsFrame DEF sleepq_wake
<1>3. \A d \in CPUs : Running(d)' = Running(d)
  BY Typed, CurrentThread DEF sleepq_wake, Running, TypeOK, CurrentFacts
<1>4. RunsOnOneCPU' /\ StateSaysWhere'
  BY <1>3, RunningFrame DEF sleepq_wake
<1>5. NoSleeperLost'
  <2>1. \A t \in TIDs : BeingWoken(t) => BeingWoken(t)'
    BY Typed DEF BeingWoken, sleepq_wake, TypeOK
  <2>2. \A t \in TIDs : BeingAdded(t) => BeingAdded(t)'
    BY Typed DEF BeingAdded, sleepq_wake, TypeOK
  <2> QED
    BY <1>2, <2>1, <2>2, LostFrame DEF sleepq_wake
<1>6. LockHeld'
  BY CPUsAssumption, LockHolder, Typed DEF LockHeld, sleepq_wake, TypeOK
<1>7. CurrentFacts'
  BY <1>3, CurrentThread, Typed DEF CurrentFacts, sleepq_wake, Executing,
     TypeOK, Running
<1>8. AddFacts'
  BY <1>2, Adding, Typed DEF AddFacts, sleepq_wake, TypeOK
<1>9. FindFacts'
  <2>1. /\ UNCHANGED <<cq, sleeps_on, first, prev>>
        /\ pc'[c] = "wake" /\ res'[c] = r
        /\ \A d \in CPUs : d # c => pc'[d] = pc[d] /\ res'[d] = res[d]
    BY Typed DEF sleepq_wake, TypeOK
  <2> SUFFICES ASSUME NEW d \in CPUs, d # c,
                      pc[d] \in {"find", "ready"}, first[d] # NONE
               PROVE  \E k \in 1 .. Len(cq[Hash(res[d])]) : At(d, k)'
    BY <2>1, Finding DEF FindFacts
  <2>2. PICK k \in 1 .. Len(cq[Hash(res[d])]) : At(d, k)
    BY Finding DEF FindFacts
  <2>3. At(d, k)'
    BY <2>1, <2>2 DEF At
  <2> QED
    BY <2>3
<1>10. WokenFacts'
  <2>1. /\ UNCHANGED <<sleeps_on, wake, current>>
        /\ pc'[c] = "wake" /\ pc[c] \notin {"add", "walk"}
        /\ \A d \in CPUs : d # c => pc'[d] = pc[d]
    BY Typed DEF sleepq_wake, TypeOK
  <2>2. \A t \in TIDs : BeingAdded(t)' => BeingAdded(t)
    BY <2>1 DEF BeingAdded
  <2>3. \A d \in CPUs : pc'[d] = "ready" => pc[d] = "ready" /\ wake[d] \in TIDs
    BY <2>1, NonIdleTIDs, Woken DEF WokenFacts
  <2>4. \A d \in CPUs : pc'[d] = "ready" =>
          /\ wake'[d] = wake[d]
          /\ ~ InSomeChain(wake[d])' /\ ~ BeingAdded(wake[d])'
    BY <1>2, <2>1, <2>2, <2>3, Woken DEF WokenFacts
  <2> QED
    BY <2>1, <2>3, <2>4, Woken DEF WokenFacts
<1>11. CreateFacts'
  BY CreateFrame DEF sleepq_wake
<1> QED
  BY <1>1, <1>2, <1>4, <1>5, <1>6, <1>7, <1>8, <1>9, <1>10, <1>11 DEF Sound, IInv

(* Taking sleepq_slock for a wake keeps the invariant. *)
LEMMA WakeLockInv ==
  ASSUME Sound, NEW c \in CPUs, WakeLock(c)
  PROVE  Sound'
<1> USE DEF table, ready, sleepq, locals, creation
<1>1. TypeOK'
  BY TIDFacts, HashBucket, Typed DEF TypeOK, WakeLock, PCs
<1>2. /\ ReadyListIsQueue' /\ SleepChainsAreQueues' /\ SleepFacts'
      /\ \A t \in TIDs : InSomeChain(t)' <=> InSomeChain(t)
  BY ListsFrame DEF WakeLock
<1>3. \A d \in CPUs : Running(d)' = Running(d)
  BY Typed, CurrentThread DEF WakeLock, Running, TypeOK, CurrentFacts
<1>4. RunsOnOneCPU' /\ StateSaysWhere'
  BY <1>3, RunningFrame DEF WakeLock
<1>5. NoSleeperLost'
  <2>1. \A t \in TIDs : BeingWoken(t) => BeingWoken(t)'
    BY Typed DEF BeingWoken, WakeLock, TypeOK
  <2>2. \A t \in TIDs : BeingAdded(t) => BeingAdded(t)'
    BY Typed DEF BeingAdded, WakeLock, TypeOK
  <2> QED
    BY <1>2, <2>1, <2>2, LostFrame DEF WakeLock
<1>6. LockHeld'
  BY CPUsAssumption, LockHolder, Typed DEF LockHeld, WakeLock, TypeOK
<1>7. CurrentFacts'
  BY <1>3, CurrentThread, Typed DEF CurrentFacts, WakeLock, Executing, TypeOK,
     Running
<1>8. AddFacts'
  BY <1>2, Adding, Typed DEF AddFacts, WakeLock, TypeOK
<1>9. FindFacts'
  <2> DEFINE q == cq[Hash(res[c])]
  <2>1. \A d \in CPUs : d # c => pc[d] \notin {"find", "ready"}
    BY CPUsAssumption, LockHolder DEF WakeLock, LockHeld
  <2>2. res[c] \in Resources /\ Hash(res[c]) \in Buckets
    BY HashBucket, Finding DEF WakeLock, FindFacts
  <2>3. q \in Seq(TIDs) /\ Len(q) \in Nat
    BY <2>2, ChainFacts
  <2>4. first'[c] = IF Len(q) = 0 THEN NONE ELSE q[1]
    BY <2>2, Typed, SleepChains DEF WakeLock, TypeOK, SleepChainsAreQueues
  <2>5. first'[c] # NONE => 1 \in 1 .. Len(q) /\ At(c, 1)'
    BY <2>3, <2>4, Typed, SMTT(30) DEF WakeLock, At, TypeOK
  <2> QED
    BY <2>1, <2>2, <2>5, Finding, Typed DEF FindFacts, WakeLock, TypeOK
<1>10. WokenFacts'
  BY <1>2, WokenFrame, Typed DEF WakeLock, TypeOK
<1>11. CreateFacts'
  BY CreateFrame DEF WakeLock
<1> QED
  BY <1>1, <1>2, <1>4, <1>5, <1>6, <1>7, <1>8, <1>9, <1>10, <1>11 DEF Sound, IInv

(* Passing over the sleeper of another resource keeps the invariant. *)
LEMMA WakeSkipInv ==
  ASSUME Sound, NEW c \in CPUs, WakeSkip(c)
  PROVE  Sound'
<1> USE DEF table, ready, sleepq, locals, creation
<1>1. TypeOK'
  <2>1. first[c] \in TIDs
    BY Typed, SMTT(30) DEF TypeOK, WakeSkip, NONE
  <2> QED
    BY <2>1, Typed DEF TypeOK, WakeSkip, PCs
<1>2. /\ ReadyListIsQueue' /\ SleepChainsAreQueues' /\ SleepFacts'
      /\ \A t \in TIDs : InSomeChain(t)' <=> InSomeChain(t)
  BY ListsFrame DEF WakeSkip
<1>3. \A d \in CPUs : Running(d)' = Running(d)
  BY Typed, CurrentThread DEF WakeSkip, Running, TypeOK, CurrentFacts
<1>4. RunsOnOneCPU' /\ StateSaysWhere'
  BY <1>3, RunningFrame DEF WakeSkip
<1>5. NoSleeperLost'
  <2>1. \A t \in TIDs : BeingWoken(t) => BeingWoken(t)'
    BY Typed DEF BeingWoken, WakeSkip, TypeOK
  <2>2. \A t \in TIDs : BeingAdded(t) => BeingAdded(t)'
    BY Typed DEF BeingAdded, WakeSkip, TypeOK
  <2> QED
    BY <1>2, <2>1, <2>2, LostFrame DEF WakeSkip
<1>6. LockHeld'
  BY CPUsAssumption, LockHolder, Typed DEF LockHeld, WakeSkip, TypeOK
<1>7. CurrentFacts'
  BY <1>3, CurrentThread, Typed DEF CurrentFacts, WakeSkip, Executing, TypeOK,
     Running
<1>8. AddFacts'
  BY <1>2, Adding, Typed DEF AddFacts, WakeSkip, TypeOK
<1>9. FindFacts'
  <2> DEFINE q == cq[Hash(res[c])]
  <2>1. \A d \in CPUs : d # c => pc[d] \notin {"find", "ready"}
    BY OneHolder DEF WakeSkip
  <2>2. res[c] \in Resources /\ Hash(res[c]) \in Buckets
    BY HashBucket, Finding DEF WakeSkip, FindFacts
  <2>3. PICK k \in 1 .. Len(q) : At(c, k)
    BY Finding, SMTT(30) DEF WakeSkip, FindFacts, NONE
  <2>4. /\ Len(q) \in Nat /\ \A i \in 1 .. Len(q) : q[i] # NONE
        /\ next[q[k]] = IF k < Len(q) THEN q[k + 1] ELSE NONE
    BY <2>2, ChainFacts, TIDFacts
  <2>5. first'[c] = next[q[k]] /\ prev'[c] = q[k]
    BY <2>3, Typed DEF At, WakeSkip, TypeOK
  <2>6. first'[c] # NONE => k + 1 \in 1 .. Len(q) /\ At(c, k + 1)'
    BY <2>3, <2>4, <2>5, SMTT(30) DEF At, WakeSkip
  <2> QED
    BY <2>1, <2>2, <2>6, Finding, Typed DEF FindFacts, WakeSkip, TypeOK
<1>10. WokenFacts'
  BY <1>2, WokenFrame, Typed DEF WakeSkip, TypeOK
<1>11. CreateFacts'
  BY CreateFrame DEF WakeSkip
<1> QED
  BY <1>1, <1>2, <1>4, <1>5, <1>6, <1>7, <1>8, <1>9, <1>10, <1>11 DEF Sound, IInv

(* The end of a wake keeps the invariant. *)
LEMMA WakeDoneInv ==
  ASSUME Sound, NEW c \in CPUs, WakeDone(c)
  PROVE  Sound'
<1> USE DEF table, ready, sleepq, locals, creation
<1>1. TypeOK'
  BY TIDFacts, Typed, CurrentThread DEF TypeOK, WakeDone, PCs, CurrentFacts
<1>2. /\ ReadyListIsQueue' /\ SleepChainsAreQueues' /\ SleepFacts'
      /\ \A t \in TIDs : InSomeChain(t)' <=> InSomeChain(t)
  BY ListsFrame DEF WakeDone
<1>0. pc'[c] \in {"run", "yield", "idle_irq"} /\ \A d \in CPUs : d # c => pc'[d] = pc[d]
  BY Typed DEF WakeDone, TypeOK
<1>3. \A d \in CPUs : Running(d)' = Running(d)
  BY <1>0 DEF WakeDone, Running
<1>4. RunsOnOneCPU' /\ StateSaysWhere'
  BY <1>3, RunningFrame DEF WakeDone
<1>5. NoSleeperLost'
  <2>1. \A t \in TIDs : BeingWoken(t) => BeingWoken(t)'
    BY Typed DEF BeingWoken, WakeDone, TypeOK
  <2>2. \A t \in TIDs : BeingAdded(t) => BeingAdded(t)'
    BY Typed DEF BeingAdded, WakeDone, TypeOK
  <2> QED
    BY <1>2, <2>1, <2>2, LostFrame DEF WakeDone
<1>6. LockHeld'
  BY CPUsAssumption, LockHolder, Typed DEF LockHeld, WakeDone, TypeOK
<1>7. CurrentFacts'
  BY <1>3, CurrentThread, Typed DEF CurrentFacts, WakeDone, Executing, TypeOK,
     Running
<1>8. AddFacts'
  BY <1>2, Adding, Typed DEF AddFacts, WakeDone, TypeOK
<1>9. FindFacts'
  <2>1. \A d \in CPUs : d # c => pc[d] \notin {"find", "ready"}
    BY OneHolder DEF WakeDone
  <2> QED
    BY <1>0, <2>1, Finding, Typed DEF FindFacts, WakeDone, TypeOK
<1>10. WokenFacts'
  BY <1>0, <1>2, WokenFrame DEF WakeDone
<1>11. CreateFacts'
  BY CreateFrame DEF WakeDone
<1> QED
  BY <1>1, <1>2, <1>4, <1>5, <1>6, <1>7, <1>8, <1>9, <1>10, <1>11 DEF Sound, IInv

(* Every step takes the threads of a resource off their chain in the order *)
(* in which they came.                                                     *)
LEMMA WakeOrderKept == ASSUME Sound, Next PROVE WakeOrderStep
<1>1. PICK c \in CPUs :
        \/ scheduler_schedule(c)
        \/ KernelStep(c)
        \/ thread_create(c) \/ InitThread(c) \/ thread_run(c)
        \/ thread_switch(c) \/ thread_finish(c)
        \/ \E r \in Resources : sleepq_add(c, r)
        \/ \E r \in Resources, a \in BOOLEAN : sleepq_wake(c, r, a)
  BY DEF Next
<1>2. CASE AddLock(c) \/ AddLink(c)
  <2>1. PICK h \in Buckets : cq' = cq \/ cq' = [cq EXCEPT ![h] = Append(@, current[c])]
    <3>1. pc[c] \in {"add", "walk"}
      BY <1>2 DEF AddLock, AddLink
    <3>2. Hash(res[c]) \in Buckets
      BY <3>1, AddingFacts
    <3> QED
      BY <1>2, <3>2 DEF AddLock, AddLink
  <2>2. ASSUME NEW g \in Buckets
        PROVE  Elems(cq[g]) \subseteq Elems(cq'[g])
    <3>1. cq[g] \in Seq(TIDs) /\ current[c] \in TIDs /\ cq \in [Buckets -> Seq(TIDs)]
      BY Typed DEF TypeOK
    <3>2. cq'[g] = cq[g] \/ cq'[g] = Append(cq[g], current[c])
      BY <2>1, <3>1
    <3>3. CASE cq'[g] = cq[g]
      BY <3>3 DEF Elems
    <3>4. CASE cq'[g] = Append(cq[g], current[c])
      BY <3>1, <3>4, AppendElems
    <3> QED
      BY <3>2, <3>3, <3>4
  <2> QED
    BY <2>2 DEF WakeOrderStep, Elems
<1>3. CASE WakeUnlink(c)
  <2> DEFINE h == Hash(res[c])
             q == cq[h]
  <2>1. /\ pc[c] = "find" /\ first[c] > 0 /\ h \in Buckets
        /\ sleeps_on[first[c]] = res[c]
    BY <1>3, HashBucket, Finding DEF WakeUnlink, FindFacts
  <2>2. PICK k \in 1 .. Len(q) : At(c, k)
    BY <2>1, Finding, SMTT(30) DEF FindFacts, NONE
  <2>3. /\ first[c] = q[k] /\ q \in Seq(TIDs) /\ Distinct(q)
        /\ \A j \in 1 .. k - 1 : sleeps_on[q[j]] # sleeps_on[q[k]]
    BY <2>1, <2>2, ChainFacts, SleepChains DEF At,
       SleepChainsAreQueues
  <2>4. cq' = [cq EXCEPT ![h] = Unchain(q, q[k])]
    BY <1>3, <2>3 DEF WakeUnlink
  <2>5. Elems(Unchain(q, q[k])) = Elems(q) \ {q[k]}
    <3> HIDE DEF q
    <3> QED
      BY <2>3, UnchainFacts
  <2>6. ASSUME NEW g \in Buckets, NEW i \in 1 .. Len(cq[g]),
               cq[g][i] \notin Elems(cq'[g])
        PROVE  g = h /\ i = k
    <3>1. cq[g][i] \in Elems(cq[g])
      BY ChainFacts
    <3>2. g = h
      BY <2>4, <2>6, <3>1, Typed DEF TypeOK
    <3>3. q[i] = q[k]
      BY <2>1, <2>4, <2>5, <2>6, <3>1, <3>2, Typed DEF TypeOK
    <3> QED
      BY <2>3, <3>2, <3>3 DEF Distinct
  <2> QED
    BY <2>3, <2>6 DEF WakeOrderStep
<1>4. CASE UNCHANGED cq
  BY <1>4 DEF WakeOrderStep, Elems
<1>5. CASE \/ thread_create(c) \/ InitThread(c) \/ thread_run(c)
           \/ thread_switch(c) \/ thread_finish(c) \/ scheduler_schedule(c)
           \/ \E r \in Resources : sleepq_add(c, r)
           \/ \E r \in Resources, a \in BOOLEAN : sleepq_wake(c, r, a)
  BY <1>4, <1>5 DEF thread_create, InitThread, thread_run, thread_switch,
     thread_finish, scheduler_schedule, sleepq_add, sleepq_wake, sleepq
<1>6. CASE \/ SetCurrent(c) \/ AddWalk(c) \/ WakeLock(c) \/ WakeSkip(c)
           \/ WakeReady(c) \/ WakeDone(c)
  BY <1>4, <1>6 DEF SetCurrent, AddWalk, WakeLock, WakeSkip, WakeReady,
     WakeDone, sleepq
<1> QED
  BY <1>1, <1>2, <1>3, <1>5, <1>6 DEF KernelStep

(* Taking a sleeper out of its chain keeps the invariant. *)
LEMMA WakeUnlinkInv ==
  ASSUME Sound, NEW c \in CPUs, WakeUnlink(c)
  PROVE  Sound'
<1> USE DEF table, ready, sleepq, locals, creation
<1> DEFINE h == Hash(res[c])
           q == cq[h]
           u == Unchain(q, first[c])
<1>0. /\ pc[c] = "find" /\ first[c] > 0 /\ sleeps_on[first[c]] = res[c]
      /\ res[c] \in Resources /\ res[c] # 0 /\ h \in Buckets
  BY ResourcesAssumption, HashBucket, Finding DEF WakeUnlink, FindFacts
<1>1. PICK k \in 1 .. Len(q) : At(c, k)
  BY <1>0, Finding, SMTT(30) DEF FindFacts, NONE
<1>2. /\ first[c] = q[k] /\ prev[c] = IF k = 1 THEN NONE ELSE q[k - 1]
      /\ \A j \in 1 .. k - 1 : sleeps_on[q[j]] # res[c]
  BY <1>1 DEF At
<1>3. /\ q \in Seq(TIDs) /\ Len(q) \in Nat /\ Distinct(q)
      /\ hashtable[h] = q[1]
      /\ \A i \in 1 .. Len(q) :
           /\ q[i] \in NonIdle /\ q[i] \in TIDs /\ q[i] > 0 /\ InSomeChain(q[i])
           /\ next[q[i]] = IF i < Len(q) THEN q[i + 1] ELSE NONE
           /\ sleeps_on[q[i]] # 0 /\ Hash(sleeps_on[q[i]]) = h
  BY <1>0, ChainFacts, TIDFacts, SleepChains, SMTT(30) DEF SleepChainsAreQueues,
     InSomeChain
<1>4. /\ u \in Seq(TIDs) /\ Len(u) = Len(q) - 1
      /\ \A i \in 1 .. Len(q) - 1 : u[i] = IF i < k THEN q[i] ELSE q[i + 1]
      /\ Distinct(u) /\ Elems(u) = Elems(q) \ {q[k]}
  <2>1. u = Unchain(q, q[k]) /\ q \in Seq(TIDs) /\ Distinct(q) /\ k \in 1 .. Len(q)
    BY <1>2, <1>3
  <2> HIDE DEF q, u
  <2> QED
    BY <2>1, UnchainFacts
<1>5. /\ cq' = [cq EXCEPT ![h] = u] /\ cq'[h] = u
      /\ \A g \in Buckets : g # h => cq'[g] = cq[g]
  BY <1>0, Typed DEF WakeUnlink, TypeOK
<1>6. \A t \in TIDs : InSomeChain(t)' <=> InSomeChain(t) /\ t # q[k]
  <2>1. \A g \in Buckets : g # h => q[k] \notin Elems(cq[g])
    BY <1>3, SleepChains, SMTT(30) DEF SleepChainsAreQueues
  <2> QED
    BY <1>0, <1>4, <1>5, <2>1 DEF InSomeChain
<1>t. PICK t \in TIDs : t = q[k]
  BY <1>3
<1>q. q = cq[h] /\ h = Hash(res[c])
  OBVIOUS
<1> HIDE DEF u, q, h
<1>7. /\ k = 1 => next' = next /\ hashtable' = [hashtable EXCEPT ![h] = next[q[1]]]
      /\ k # 1 => /\ next' = [next EXCEPT ![q[k - 1]] = next[q[k]]]
                  /\ hashtable' = hashtable
  <2>1. CASE k = 1
    BY <1>2, <1>q, <2>1, SMTT(30) DEF WakeUnlink, NONE
  <2>2. CASE k # 1
    <3>1. k - 1 \in 1 .. Len(q) /\ prev[c] = q[k - 1]
      BY <1>2, <1>3, <2>2, SMTT(30)
    <3>2. q[k - 1] > 0 /\ q[k - 1] \in TIDs
      BY <3>1, <1>3
    <3>3. ~ (prev[c] <= 0)
      BY <3>1, <3>2, SMTT(30) DEF TIDs
    <3> QED
      BY <1>2, <1>q, <2>2, <3>1, <3>3 DEF WakeUnlink
  <2> QED
    BY <2>1, <2>2
<1>8. /\ next' \in [TIDs -> TIDs \cup {NONE}]
      /\ hashtable' \in [Buckets -> TIDs \cup {NONE}]
      /\ \A x \in TIDs : next'[x] # next[x] => k # 1 /\ x = q[k - 1]
      /\ \A g \in Buckets : g # h => hashtable'[g] = hashtable[g]
  <2>1. q[k] \in TIDs /\ q[1] \in TIDs /\ (k # 1 => q[k - 1] \in TIDs)
    BY <1>3, SMTT(30)
  <2>2. /\ next \in [TIDs -> TIDs \cup {NONE}]
        /\ hashtable \in [Buckets -> TIDs \cup {NONE}]
    BY Typed DEF TypeOK
  <2> QED
    BY <1>0, <1>7, <2>1, <2>2
<1>9. LinkedBy(next', u)
  <2> SUFFICES ASSUME NEW i \in 1 .. Len(q) - 1
               PROVE  next'[u[i]] = IF i < Len(q) - 1 THEN u[i + 1] ELSE NONE
    BY <1>4 DEF LinkedBy
  <2>0. i \in Nat /\ k \in Nat /\ i \in 1 .. Len(q) /\ i + 1 \in 1 .. Len(q)
    BY <1>3, SMTT(30)
  <2>1. CASE i = k - 1
    <3>1. u[i] = q[k - 1] /\ q[k - 1] \in TIDs /\ k # 1
      BY <1>3, <1>4, <2>0, <2>1, SMTT(30)
    <3>2. next'[q[k - 1]] = next[q[k]]
      BY <1>7, <3>1, Typed DEF TypeOK
    <3>3. next[q[k]] = IF i < Len(q) - 1 THEN u[i + 1] ELSE NONE
      BY <1>3, <1>4, <2>0, <2>1, SMTT(30)
    <3> QED
      BY <3>1, <3>2, <3>3
  <2>2. CASE i < k - 1
    <3>1. /\ u[i] = q[i] /\ q[i] \in TIDs /\ q[i] # q[k - 1]
          /\ i < Len(q) - 1 /\ u[i + 1] = q[i + 1]
      BY <1>3, <1>4, <2>0, <2>2, SMTT(30) DEF Distinct
    <3>2. next'[q[i]] = next[q[i]]
      BY <1>8, <3>1
    <3> QED
      BY <1>3, <2>0, <3>1, <3>2, SMTT(30)
  <2>3. CASE i >= k
    <3>1. /\ u[i] = q[i + 1] /\ q[i + 1] \in TIDs
          /\ k # 1 => q[i + 1] # q[k - 1]
          /\ i < Len(q) - 1 => u[i + 1] = q[i + 2]
      BY <1>3, <1>4, <2>0, <2>3, SMTT(30) DEF Distinct
    <3>2. next'[q[i + 1]] = next[q[i + 1]]
      BY <1>8, <3>1
    <3>3. next[q[i + 1]] = IF i + 1 < Len(q) THEN q[i + 2] ELSE NONE
      BY <1>3, <2>0, SMTT(30)
    <3> QED
      BY <1>3, <2>0, <3>1, <3>2, <3>3, SMTT(30)
  <2> QED
    BY <2>0, <2>1, <2>2, <2>3, SMTT(30)
<1>10. hashtable'[h] = IF Len(u) = 0 THEN NONE ELSE u[1]
  <2>1. CASE k = 1
    <3>1. hashtable'[h] = next[q[1]]
      BY <1>0, <1>7, <2>1, Typed DEF TypeOK
    <3>2. next[q[1]] = IF Len(u) = 0 THEN NONE ELSE u[1]
      BY <1>3, <1>4, <2>1, SMTT(30)
    <3> QED
      BY <3>1, <3>2
  <2>2. CASE k # 1
    BY <1>3, <1>4, <1>7, <2>2, SMTT(30)
  <2> QED
    BY <2>1, <2>2
<1>11. SleepChainsAreQueues'
  <2>1. \A x \in Elems(u) : sleeps_on[x] # 0 /\ Hash(sleeps_on[x]) = h
    BY <1>0, <1>4, <1>q, SleepChains DEF SleepChainsAreQueues
  <2>2. \A g \in Buckets : g # h => LinkedBy(next', cq[g])
    <3> SUFFICES ASSUME NEW g \in Buckets, g # h, NEW i \in 1 .. Len(cq[g])
                 PROVE  next'[cq[g][i]] =
                          IF i < Len(cq[g]) THEN cq[g][i + 1] ELSE NONE
      BY DEF LinkedBy
    <3>1. /\ cq[g][i] \in TIDs /\ Hash(sleeps_on[cq[g][i]]) = g
          /\ next[cq[g][i]] = IF i < Len(cq[g]) THEN cq[g][i + 1] ELSE NONE
      BY ChainFacts, TIDFacts
    <3>2. k # 1 => Hash(sleeps_on[q[k - 1]]) = h
      BY <1>3, SMTT(30)
    <3> QED
      BY <1>8, <3>1, <3>2
  <2>3. UNCHANGED sleeps_on
    BY DEF WakeUnlink
  <2>4. ASSUME NEW g \in Buckets
        PROVE  /\ Distinct(cq'[g]) /\ LinkedBy(next', cq'[g])
               /\ hashtable'[g] = IF Len(cq'[g]) = 0 THEN NONE ELSE cq'[g][1]
               /\ \A x \in Elems(cq'[g]) :
                    sleeps_on'[x] # 0 /\ Hash(sleeps_on'[x]) = g
    <3>1. CASE g = h
      BY <1>4, <1>5, <1>9, <1>10, <2>1, <2>3, <3>1
    <3>2. CASE g # h
      BY <1>5, <1>8, <2>2, <2>3, <3>2, SleepChains DEF SleepChainsAreQueues
    <3> QED
      BY <3>1, <3>2
  <2> QED
    BY <2>4, SleepChains DEF SleepChainsAreQueues
<1>12. ReadyListIsQueue'
  <2>1. \A x \in Elems(rq) : x \in TIDs /\ next'[x] = next[x]
    <3>1. k # 1 => q[k - 1] \in TIDs /\ InSomeChain(q[k - 1])
      BY <1>3, SMTT(30)
    <3>2. \A x \in Elems(rq) : x \in TIDs
      BY ReadyTIDs
    <3> QED
      BY <1>8, <3>1, <3>2, ChainedApart
  <2> QED
    BY <1>8, <2>1, ReadyFrame DEF WakeUnlink
<1>13. TypeOK'
  <2>1. next[first[c]] \in TIDs \cup {NONE} /\ first[c] \in TIDs
    BY <1>2, <1>3, Typed DEF TypeOK
  <2>2. cq' \in [Buckets -> Seq(TIDs)]
    BY <1>0, <1>4, <1>5, Typed DEF TypeOK
  <2> QED
    BY <1>8, <2>1, <2>2, Typed DEF TypeOK, WakeUnlink, PCs
<1>14. /\ \A d \in CPUs : d # c => pc[d] \notin {"walk", "find", "ready"}
       /\ \A d \in CPUs : d # c => pc'[d] = pc[d]
       /\ pc'[c] = "ready" /\ wake'[c] = q[k] /\ first'[c] = next[q[k]]
       /\ UNCHANGED <<state, sleeps_on, rq, current, res, prev, back, chosen,
                      tpc, child, next_tid, sleepq_slock>>
  BY <1>0, <1>2, OneHolder, Typed DEF WakeUnlink, TypeOK
<1>15. \A d \in CPUs : Running(d)' = Running(d)
  BY <1>0, <1>14 DEF Running
<1>16. RunsOnOneCPU' /\ StateSaysWhere'
  BY <1>14, <1>15, RunningFrame
<1>17. NoSleeperLost'
  <2>1. BeingWoken(t)'
    BY <1>14, <1>t DEF BeingWoken
  <2>2. \A x \in TIDs : BeingWoken(x) => BeingWoken(x)'
    BY <1>0, <1>14 DEF BeingWoken
  <2>3. \A x \in TIDs : BeingAdded(x) => BeingAdded(x)'
    BY <1>0, <1>14 DEF BeingAdded
  <2> QED
    BY <1>6, <1>14, <1>t, <2>1, <2>2, <2>3, Sleepers DEF NoSleeperLost
<1>18. LockHeld'
  BY <1>0, <1>14, LockHolder DEF LockHeld
<1>19. CurrentFacts'
  BY <1>0, <1>14, <1>15, CurrentThread DEF CurrentFacts, Executing
<1>20. SleepFacts'
  BY <1>14, Sleeping DEF SleepFacts
<1>21. AddFacts'
  <2> SUFFICES ASSUME NEW d \in CPUs, d # c, pc[d] = "add"
               PROVE  /\ res[d] \in Resources /\ sleeps_on[current[d]] = res[d]
                      /\ state[current[d]] = "RUNNING"
                      /\ next'[current[d]] = NONE
                      /\ ~ InSomeChain(current[d])'
    BY <1>14, Adding DEF AddFacts
  <2>1. current[d] \in TIDs /\ ~ InSomeChain(current[d]) /\ next[current[d]] = NONE
    BY Adding, Typed DEF AddFacts, TypeOK
  <2>2. k # 1 => InSomeChain(q[k - 1])
    BY <1>3, SMTT(30)
  <2>3. next'[current[d]] = next[current[d]]
    BY <1>8, <2>1, <2>2
  <2> QED
    BY <1>6, <1>14, <2>1, <2>3, Adding DEF AddFacts
<1>22. FindFacts'
  <2> SUFFICES ASSUME next[q[k]] # NONE
               PROVE  \E j \in 1 .. Len(u) : At(c, j)'
    BY <1>0, <1>5, <1>14, <1>q, Finding DEF FindFacts
  <2>1. k < Len(q) /\ k \in Nat /\ next[q[k]] = q[k + 1] /\ k \in 1 .. Len(u)
    BY <1>3, <1>4, SMTT(30)
  <2>2. u[k] = q[k + 1] /\ (k # 1 => u[k - 1] = q[k - 1])
    BY <1>3, <1>4, <2>1, SMTT(30)
  <2>3. \A j \in 1 .. k - 1 : u[j] = q[j]
    BY <1>3, <1>4, <2>1, SMTT(30)
  <2>4. At(c, k)'
    BY <1>2, <1>5, <1>14, <1>q, <2>1, <2>2, <2>3, SMTT(30) DEF At
  <2> QED
    BY <2>1, <2>4
<1>23. WokenFacts'
  <2>1. t \in NonIdle /\ sleeps_on[t] # 0 /\ InSomeChain(t)
    BY <1>3, <1>t
  <2>2. ~ BeingAdded(t)
    BY <2>1, Adding DEF BeingAdded, AddFacts
  <2>3. ~ BeingAdded(t)'
    BY <1>0, <1>14, <2>2 DEF BeingAdded
  <2>4. ~ InSomeChain(t)'
    BY <1>6, <1>t, <2>1
  <2> QED
    BY <1>14, <1>t, <2>1, <2>3, <2>4, Woken DEF WokenFacts
<1>24. CreateFacts'
  BY <1>14, CreateFrame
<1> QED
  BY <1>11, <1>12, <1>13, <1>16, <1>17, <1>18, <1>19, <1>20, <1>21, <1>22,
     <1>23, <1>24 DEF Sound, IInv

(* Making the sleeper ready keeps the invariant. *)
LEMMA WakeReadyInv ==
  ASSUME Sound, NEW c \in CPUs, WakeReady(c)
  PROVE  Sound'
<1> USE DEF table, sleepq, locals, creation
<1>t. PICK t \in TIDs : t = wake[c]
  BY TIDFacts, Woken DEF WakeReady, WokenFacts
<1>0. /\ pc[c] = "ready" /\ t \in NonIdle /\ sleeps_on[t] # 0
      /\ state[t] \in {"RUNNING", "SLEEPING"}
      /\ ~ InSomeChain(t) /\ ~ BeingAdded(t) /\ t \notin Elems(rq)
  BY <1>t, Woken, Sleeping, Whereabouts DEF WakeReady, WokenFacts, SleepFacts,
     StateSaysWhere
<1> DEFINE nx == [next EXCEPT ![t] = NONE]
           l == [head |-> head, tail |-> tail, next |-> nx]
<1>1. /\ sleeps_on' = [sleeps_on EXCEPT ![t] = 0]
      /\ wake' = [wake EXCEPT ![c] = NONE]
      /\ first' = [first EXCEPT ![c] = IF all[c] THEN @ ELSE NONE]
      /\ pc' = [pc EXCEPT ![c] = "find"]
      /\ UNCHANGED <<sleepq, current, res, all, prev, back, chosen, creation>>
      /\ IF state[t] = "SLEEPING"
           THEN /\ state' = [state EXCEPT ![t] = "READY"]
                /\ SetReadyList(scheduler_add_to_ready_list(l, t))
                /\ rq' = Append(rq, t)
           ELSE SetReadyList(l) /\ UNCHANGED <<state, rq>>
  BY <1>t DEF WakeReady
<1>2. /\ \A d \in CPUs : d # c => pc[d] \notin {"walk", "find", "ready"}
      /\ \A d \in CPUs : d # c => pc'[d] = pc[d] /\ first'[d] = first[d]
      /\ pc'[c] = "find" /\ (first'[c] # NONE => first'[c] = first[c])
      /\ \A x \in TIDs : x # t => sleeps_on'[x] = sleeps_on[x]
      /\ sleeps_on'[t] = 0
  BY <1>0, <1>1, OneHolder, Typed DEF TypeOK
<1>3. /\ ReadyListIsQueue'
      /\ head' \in TIDs \cup {NONE} /\ tail' \in TIDs \cup {NONE}
      /\ next' \in [TIDs -> TIDs \cup {NONE}] /\ rq' \in Seq(TIDs)
      /\ Elems(rq') = IF state[t] = "SLEEPING" THEN Elems(rq) \cup {t} ELSE Elems(rq)
      /\ \A x \in TIDs : x \notin Elems(rq) /\ x # t => next'[x] = next[x]
  <2>1. l \in Lists /\ rq \in Seq(TIDs) /\ nx \in [TIDs -> TIDs \cup {NONE}]
    BY Typed DEF Lists, TypeOK
  <2>2. \A x \in TIDs : x # t => nx[x] = next[x]
    BY Typed DEF TypeOK
  <2>3. Represents(l, rq)
    <3>1. \A i \in 1 .. Len(rq) : rq[i] \in TIDs /\ rq[i] # t
      BY <1>0, <2>1, SMTT(30) DEF Elems
    <3>2. LinkedBy(nx, rq)
      BY <2>2, <3>1, ReadyQueue DEF ReadyListIsQueue, ReadyList, Represents,
         LinkedBy
    <3> QED
      BY <3>2, ReadyQueue DEF ReadyListIsQueue, ReadyList, Represents
  <2>4. CASE state[t] = "SLEEPING"
    <3> DEFINE m == scheduler_add_to_ready_list(l, t)
    <3> HIDE DEF l
    <3>1. /\ m \in Lists /\ Represents(m, Append(rq, t))
          /\ \A x \in TIDs : x \notin Elems(rq) /\ x # t => m.next[x] = l.next[x]
      BY <1>0, <2>1, <2>3, AddReadyCorrect
    <3>2. /\ head' = m.head /\ tail' = m.tail /\ next' = m.next
          /\ rq' = Append(rq, t)
      BY <1>1, <2>4 DEF SetReadyList
    <3>3. l.next = nx
      BY DEF l
    <3> HIDE DEF m, nx
    <3>4. ReadyListIsQueue'
      BY <3>1, <3>2, ReadyQueue DEF ReadyListIsQueue, ReadyList, Represents
    <3> QED
      BY <2>1, <2>2, <2>4, <3>1, <3>2, <3>3, <3>4, AppendElems, SMTT(30) DEF Lists
  <2>5. CASE state[t] # "SLEEPING"
    <3>1. head' = head /\ tail' = tail /\ next' = nx /\ rq' = rq
      BY <1>1, <2>5 DEF SetReadyList
    <3>2. ReadyListIsQueue'
      BY <2>3, <3>1, ReadyQueue DEF ReadyListIsQueue, ReadyList, Represents
    <3> QED
      BY <2>1, <2>2, <2>5, <3>1, <3>2, Typed DEF TypeOK
  <2> QED
    BY <2>4, <2>5
<1>4. /\ SleepChainsAreQueues'
      /\ \A x \in TIDs : InSomeChain(x)' <=> InSomeChain(x)
  BY <1>0, <1>1, <1>2, <1>3, ChainedApart, ChainsFrame
<1>5. /\ state' \in [TIDs -> States]
      /\ \A x \in TIDs : x # t => state'[x] = state[x]
      /\ state'[t] = IF state[t] = "SLEEPING" THEN "READY" ELSE "RUNNING"
  <2>1. state \in [TIDs -> States] /\ {"READY", "RUNNING", "SLEEPING"} \subseteq States
    BY Typed DEF TypeOK, States
  <2> QED
    BY <1>0, <1>1, <2>1
<1> HIDE DEF l, nx
<1>6. TypeOK'
  BY <1>1, <1>3, <1>5, ResourcesAssumption, Typed DEF TypeOK, PCs
<1>7. \A d \in CPUs : Running(d)' = Running(d)
  BY <1>0, <1>1, <1>2 DEF Running
<1>8. RunsOnOneCPU'
  BY <1>7, OneCPU DEF RunsOnOneCPU
<1>9. StateSaysWhere'
  BY <1>0, <1>3, <1>5, <1>7, Whereabouts, SMTT(30) DEF StateSaysWhere, NonIdle
<1>10. NoSleeperLost'
  <2>1. \A x \in TIDs : BeingWoken(x) => BeingWoken(x)' \/ x = t
    BY <1>1, <1>2, <1>t, Typed DEF BeingWoken, TypeOK
  <2>2. \A x \in TIDs : BeingAdded(x) => BeingAdded(x)'
    BY <1>0, <1>1, <1>2 DEF BeingAdded
  <2> QED
    BY <1>2, <1>4, <1>5, <2>1, <2>2, Sleepers DEF NoSleeperLost
<1>11. LockHeld'
  BY <1>0, <1>1, <1>2, LockHolder DEF LockHeld
<1>12. CurrentFacts'
  <2>1. \A d \in CPUs : Executing(d)' <=> Executing(d)
    BY <1>0, <1>1, <1>2 DEF Executing
  <2>2. \A d \in CPUs : pc[d] = "switch" \/ Executing(d) => Running(d) # t
    BY <1>0, CurrentThread DEF CurrentFacts
  <2>3. \A d \in CPUs : pc[d] = "switch" \/ Executing(d) => Running(d) \in TIDs
    BY CurrentThread, Typed DEF CurrentFacts, Running, TypeOK
  <2> QED
    BY <1>0, <1>1, <1>2, <1>5, <1>7, <2>1, <2>2, <2>3, CurrentThread, SMTT(30) DEF
       CurrentFacts
<1>13. SleepFacts'
  BY <1>0, <1>2, <1>5, TIDFacts, Sleeping DEF SleepFacts, NonIdle
<1>14. AddFacts'
  <2> SUFFICES ASSUME NEW d \in CPUs, pc[d] \in {"add", "walk"}, d # c
               PROVE  /\ sleeps_on'[current[d]] = res[d]
                      /\ state'[current[d]] = "RUNNING"
                      /\ next'[current[d]] = NONE
    BY <1>1, <1>2, <1>4, Adding, Typed, SMTT(30) DEF AddFacts, TypeOK
  <2>1. current[d] \in TIDs /\ current[d] # t /\ current[d] \notin Elems(rq)
    <3>1. current[d] \in TIDs /\ state[current[d]] = "RUNNING"
      BY Adding, Typed DEF AddFacts, TypeOK
    <3>2. current[d] # t
      BY <1>0 DEF BeingAdded
    <3> QED
      BY <3>1, <3>2, Whereabouts DEF StateSaysWhere, NonIdle
  <2> QED
    BY <1>2, <1>3, <1>5, <2>1, Adding DEF AddFacts
<1>15. FindFacts'
  <2> SUFFICES ASSUME first'[c] # NONE
               PROVE  \E k \in 1 .. Len(cq[Hash(res[c])]) : At(c, k)'
    BY <1>0, <1>1, <1>2, Finding DEF FindFacts
  <2>1. first'[c] = first[c] /\ Hash(res[c]) \in Buckets
    BY <1>2, HashBucket, Typed DEF TypeOK
  <2>2. PICK k \in 1 .. Len(cq[Hash(res[c])]) : At(c, k)
    BY <1>0, <2>1, Finding DEF FindFacts
  <2> DEFINE q == cq[Hash(res[c])]
  <2>a. Len(q) \in Nat /\ \A j \in 1 .. Len(q) : q[j] \in TIDs /\ InSomeChain(q[j])
    BY <2>1, ChainFacts, TIDFacts DEF InSomeChain
  <2>3. \A j \in 1 .. k - 1 : q[j] \in TIDs /\ InSomeChain(q[j])
    BY <2>a, SMTT(30)
  <2>4. At(c, k)'
    BY <1>0, <1>1, <1>2, <2>1, <2>2, <2>3, SMTT(30) DEF At
  <2> QED
    BY <2>4
<1>16. WokenFacts'
  BY <1>2, Woken DEF WokenFacts
<1>17. CreateFacts'
  BY <1>0, <1>1, <1>5, TIDFacts, Creating DEF CreateFacts
<1> QED
  BY <1>3, <1>4, <1>6, <1>8, <1>9, <1>10, <1>11, <1>12, <1>13, <1>14, <1>15,
     <1>16, <1>17 DEF Sound, IInv

-----------------------------------------------------------------------------
(* thread.c, the end of a context switch and the scheduler.                *)

(* The late write of scheduler_current_thread keeps the invariant. *)
LEMMA SetCurrentInv ==
  ASSUME Sound, NEW c \in CPUs, SetCurrent(c)
  PROVE  Sound'
<1> USE DEF table, ready, sleepq, locals, creation
<1>1. TypeOK'
  BY NonIdleTIDs, Typed, CurrentThread DEF TypeOK, SetCurrent, PCs, CurrentFacts
<1>2. /\ ReadyListIsQueue' /\ SleepChainsAreQueues' /\ SleepFacts'
      /\ \A t \in TIDs : InSomeChain(t)' <=> InSomeChain(t)
  BY ListsFrame DEF SetCurrent
<1>3. \A d \in CPUs : Running(d)' = Running(d)
  BY Typed, CurrentThread DEF SetCurrent, Running, TypeOK, CurrentFacts
<1>4. RunsOnOneCPU' /\ StateSaysWhere'
  BY <1>3, RunningFrame DEF SetCurrent
<1>5. NoSleeperLost'
  <2>1. \A t \in TIDs : BeingWoken(t) => BeingWoken(t)'
    BY Typed DEF BeingWoken, SetCurrent, TypeOK
  <2>2. \A t \in TIDs : BeingAdded(t) => BeingAdded(t)'
    BY Typed DEF BeingAdded, SetCurrent, TypeOK
  <2> QED
    BY <1>2, <2>1, <2>2, LostFrame DEF SetCurrent
<1>6. LockHeld'
  BY CPUsAssumption, LockHolder, Typed DEF LockHeld, SetCurrent, TypeOK
<1>7. CurrentFacts'
  BY <1>3, CurrentThread, Typed DEF CurrentFacts, SetCurrent, Executing,
     TypeOK, Running
<1>8. AddFacts'
  BY <1>2, Adding, Typed DEF AddFacts, SetCurrent, TypeOK
<1>9. FindFacts'
  BY FindFrame, Typed DEF SetCurrent, TypeOK
<1>10. WokenFacts'
  BY <1>2, WokenFrame, Typed DEF SetCurrent, TypeOK
<1>11. CreateFacts'
  BY CreateFrame DEF SetCurrent
<1> QED
  BY <1>1, <1>2, <1>4, <1>5, <1>6, <1>7, <1>8, <1>9, <1>10, <1>11 DEF Sound, IInv

(* thread_switch keeps the invariant. *)
LEMMA ThreadSwitchInv ==
  ASSUME Sound, NEW c \in CPUs, thread_switch(c)
  PROVE  Sound'
<1> USE DEF table, ready, sleepq, locals, creation
<1>1. TypeOK'
  BY NonIdleTIDs, Typed, CurrentThread DEF TypeOK, thread_switch, Calls, PCs,
     CurrentFacts
<1>2. /\ ReadyListIsQueue' /\ SleepChainsAreQueues' /\ SleepFacts'
      /\ \A t \in TIDs : InSomeChain(t)' <=> InSomeChain(t)
  BY ListsFrame DEF thread_switch, Calls
<1>3. \A d \in CPUs : Running(d)' = Running(d)
  BY Typed, CurrentThread DEF thread_switch, Calls, Running, TypeOK,
     CurrentFacts
<1>4. RunsOnOneCPU' /\ StateSaysWhere'
  BY <1>3, RunningFrame DEF thread_switch, Calls
<1>5. NoSleeperLost'
  <2>1. \A t \in TIDs : BeingWoken(t) => BeingWoken(t)'
    BY Typed DEF BeingWoken, thread_switch, Calls, TypeOK
  <2>2. \A t \in TIDs : BeingAdded(t) => BeingAdded(t)'
    BY Typed DEF BeingAdded, thread_switch, Calls, TypeOK
  <2> QED
    BY <1>2, <2>1, <2>2, LostFrame DEF thread_switch, Calls
<1>6. LockHeld'
  BY CPUsAssumption, LockHolder, Typed DEF LockHeld, thread_switch, Calls,
     TypeOK
<1>7. CurrentFacts'
  BY <1>3, CurrentThread, Typed DEF CurrentFacts, thread_switch, Calls,
     Executing, TypeOK, Running
<1>8. AddFacts'
  BY <1>2, Adding, Typed DEF AddFacts, thread_switch, Calls, TypeOK
<1>9. FindFacts'
  BY FindFrame, Typed DEF thread_switch, TypeOK
<1>10. WokenFacts'
  BY <1>2, WokenFrame, Typed DEF thread_switch, TypeOK
<1>11. CreateFacts'
  BY CreateFrame DEF thread_switch, Calls
<1> QED
  BY <1>1, <1>2, <1>4, <1>5, <1>6, <1>7, <1>8, <1>9, <1>10, <1>11 DEF Sound, IInv

(* thread_finish keeps the invariant. *)
LEMMA ThreadFinishInv ==
  ASSUME Sound, NEW c \in CPUs, thread_finish(c)
  PROVE  Sound'
<1> USE DEF table, ready, sleepq, locals, creation
<1> DEFINE me == current[c]
<1>0. /\ me \in NonIdle /\ Running(c) = me /\ pc[c] = "run"
      /\ state[me] = "RUNNING" /\ sleeps_on[me] = 0
  BY CallerFacts DEF thread_finish
<1>1. TypeOK'
  BY <1>0, Typed DEF TypeOK, thread_finish, PCs, States
<1>2. ReadyListIsQueue'
  BY ReadyQueue DEF ReadyListIsQueue, ReadyList, thread_finish
<1>3. /\ SleepChainsAreQueues'
      /\ \A t \in TIDs : InSomeChain(t)' <=> InSomeChain(t)
  BY ChainsFrame DEF thread_finish
<1>4. \A d \in CPUs : Running(d)' = Running(d)
  BY <1>0, Typed DEF thread_finish, Running, TypeOK
<1>5. RunsOnOneCPU'
  BY <1>4, OneCPU DEF RunsOnOneCPU
<1>6. StateSaysWhere'
  BY <1>0, <1>4, Whereabouts, Typed, SMTT(30) DEF StateSaysWhere, thread_finish, TypeOK
<1>7. NoSleeperLost'
  <2>1. \A t \in TIDs : BeingWoken(t) => BeingWoken(t)'
    BY <1>0, Typed DEF BeingWoken, thread_finish, TypeOK
  <2>2. \A t \in TIDs : BeingAdded(t) => BeingAdded(t)'
    BY <1>0, Typed DEF BeingAdded, thread_finish, TypeOK
  <2> QED
    BY <1>0, <1>3, <2>1, <2>2, Sleepers, Typed DEF NoSleeperLost,
       thread_finish, TypeOK
<1>8. LockHeld'
  BY <1>0, LockHolder, Typed DEF LockHeld, thread_finish, TypeOK
<1>9. CurrentFacts'
  <2>1. \A d \in CPUs : d # c => Running(d) # me
    BY <1>0, OneCPU DEF RunsOnOneCPU, NonIdle
  <2> QED
    BY <1>0, <1>4, <2>1, CurrentThread, Typed, SMTT(30) DEF CurrentFacts, thread_finish,
       Executing, TypeOK
<1>10. SleepFacts'
  BY <1>0, NonIdleTIDs, Sleeping, Typed, SMTT(30) DEF SleepFacts, thread_finish, TypeOK,
     NonIdle
<1>11. AddFacts'
  BY <1>0, <1>3, ResourcesAssumption, Adding, Typed DEF AddFacts,
     thread_finish, TypeOK
<1>12. FindFacts'
  BY FindFrame, Typed DEF thread_finish, TypeOK
<1>13. WokenFacts'
  BY <1>3, WokenFrame, Typed DEF thread_finish, TypeOK
<1>14. CreateFacts'
  BY <1>0, NonIdleTIDs, Creating, Typed DEF CreateFacts, thread_finish, TypeOK
<1> QED
  BY <1>1, <1>2, <1>3, <1>5, <1>6, <1>7, <1>8, <1>9, <1>10, <1>11, <1>12,
     <1>13, <1>14 DEF Sound, IInv

(* thread_create, under the lock, keeps the invariant. *)
LEMMA ThreadCreateInv ==
  ASSUME Sound, NEW c \in CPUs, thread_create(c)
  PROVE  Sound'
<1> USE DEF table, ready, sleepq, locals, creation
<1> DEFINE me == current[c]
<1>0. /\ me \in NonIdle /\ Running(c) = me /\ pc[c] = "run"
      /\ state[me] = "RUNNING" /\ sleeps_on[me] = 0 /\ tpc[me] = "user"
  BY CallerFacts DEF thread_create
<1>a. PICK t \in NonIdle :
        /\ state[t] = "FREE" /\ state' = [state EXCEPT ![t] = "NONREADY"]
        /\ next_tid' = (t + 1) % MaxThreads
        /\ child' = [child EXCEPT ![me] = t]
  BY DEF thread_create, FreeSlots
<1>b. (t + 1) % MaxThreads \in TIDs
  BY MaxThreadsAssumption, SMTT(30) DEF NonIdle, TIDs
<1>1. TypeOK'
  BY <1>0, <1>a, <1>b, NonIdleTIDs, Typed DEF TypeOK, thread_create, States
<1>2. ReadyListIsQueue'
  BY ReadyQueue DEF ReadyListIsQueue, ReadyList, thread_create
<1>3. /\ SleepChainsAreQueues'
      /\ \A u \in TIDs : InSomeChain(u)' <=> InSomeChain(u)
  BY ChainsFrame DEF thread_create
<1>4. \A d \in CPUs : Running(d)' = Running(d) /\ Executing(d)' = Executing(d)
  BY DEF thread_create, Running, Executing
<1>5. RunsOnOneCPU'
  BY <1>4, OneCPU DEF RunsOnOneCPU
<1>6. StateSaysWhere'
  BY <1>0, <1>a, <1>4, Whereabouts, Typed, SMTT(30) DEF StateSaysWhere, thread_create,
     TypeOK
<1>7. NoSleeperLost'
  <2>1. \A u \in TIDs : BeingWoken(u) => BeingWoken(u)'
    BY DEF BeingWoken, thread_create
  <2>2. \A u \in TIDs : BeingAdded(u) => BeingAdded(u)'
    BY DEF BeingAdded, thread_create
  <2> QED
    BY <1>a, <1>3, <2>1, <2>2, Sleepers, Typed DEF NoSleeperLost,
       thread_create, TypeOK
<1>8. LockHeld'
  BY LockHolder DEF LockHeld, thread_create
<1>9. CurrentFacts'
  BY <1>a, <1>4, CurrentThread, Typed, SMTT(30) DEF CurrentFacts, thread_create, TypeOK
<1>10. SleepFacts'
  BY <1>a, NonIdleTIDs, Sleeping, Typed, SMTT(30) DEF SleepFacts, thread_create, TypeOK,
     NonIdle
<1>11. AddFacts'
  BY <1>a, <1>3, Adding, Typed DEF AddFacts, thread_create, TypeOK
<1>12. FindFacts'
  BY FindFrame DEF thread_create
<1>13. WokenFacts'
  BY <1>3, WokenFrame DEF thread_create
<1>14. CreateFacts'
  <2>1. \A u \in TIDs : tpc[u] # "user" => child[u] # t
    BY <1>a, Creating DEF CreateFacts
  <2> QED
    BY <1>0, <1>a, <2>1, NonIdleTIDs, Creating, Typed, SMTT(30) DEF CreateFacts,
       thread_create, TypeOK
<1> QED
  BY <1>1, <1>2, <1>3, <1>5, <1>6, <1>7, <1>8, <1>9, <1>10, <1>11, <1>12,
     <1>13, <1>14 DEF Sound, IInv

(* thread_create, after the lock, keeps the invariant. *)
LEMMA InitThreadInv ==
  ASSUME Sound, NEW c \in CPUs, InitThread(c)
  PROVE  Sound'
<1> USE DEF table, ready, sleepq, locals, creation
<1> DEFINE me == current[c]
           t == child[me]
<1>0. /\ me \in TIDs /\ tpc[me] = "init" /\ t \in NonIdle
      /\ state[t] = "NONREADY" /\ sleeps_on[t] = 0
  <2>1. me \in TIDs /\ tpc[me] = "init"
    BY Typed DEF InitThread, TypeOK
  <2>2. t \in NonIdle /\ state[t] = "NONREADY"
    BY <2>1, Creating DEF CreateFacts
  <2> QED
    BY <2>1, <2>2, NonIdleTIDs, Sleeping DEF SleepFacts
<1>a. UNCHANGED sleeps_on /\ next' = [next EXCEPT ![t] = NONE]
  BY <1>0, Typed DEF InitThread, TypeOK
<1>b. t \notin Elems(rq) /\ ~ InSomeChain(t)
  BY <1>0, ChainedApart, NonIdleTIDs, Whereabouts DEF StateSaysWhere
<1>1. TypeOK'
  BY <1>0, <1>a, NonIdleTIDs, Typed DEF TypeOK, InitThread
<1>2. ReadyListIsQueue'
  <2>1. next \in [TIDs -> TIDs \cup {NONE}] /\ next' \in [TIDs -> TIDs \cup {NONE}]
    BY <1>1, Typed DEF TypeOK
  <2>2. \A x \in Elems(rq) : x \in TIDs
    BY ReadyTIDs
  <2>3. \A x \in Elems(rq) : next'[x] = next[x]
    BY <1>a, <1>b, <2>1, <2>2
  <2> QED
    BY <2>1, <2>3, ReadyFrame DEF InitThread
<1>3. /\ SleepChainsAreQueues'
      /\ \A u \in TIDs : InSomeChain(u)' <=> InSomeChain(u)
  BY <1>a, <1>b, ChainsFrame, Typed DEF InitThread, TypeOK
<1>4. \A d \in CPUs : Running(d)' = Running(d) /\ Executing(d)' = Executing(d)
  BY DEF InitThread, Running, Executing
<1>5. RunsOnOneCPU' /\ StateSaysWhere'
  BY <1>4, RunningFrame DEF InitThread
<1>6. NoSleeperLost'
  <2>1. \A u \in TIDs : BeingWoken(u) => BeingWoken(u)'
    BY DEF BeingWoken, InitThread
  <2>2. \A u \in TIDs : BeingAdded(u) => BeingAdded(u)'
    BY DEF BeingAdded, InitThread
  <2> QED
    BY <1>a, <1>3, <2>1, <2>2, LostFrame DEF InitThread
<1>7. LockHeld'
  BY LockHolder DEF LockHeld, InitThread
<1>8. CurrentFacts'
  <2>1. UNCHANGED <<state, pc, current, chosen, sleeps_on>>
    BY <1>a DEF InitThread
  <2> QED
    BY <1>4, <2>1, CurrentThread DEF CurrentFacts
<1>9. SleepFacts'
  BY <1>a, Sleeping DEF SleepFacts, InitThread
<1>10. AddFacts'
  BY <1>a, <1>3, Adding, Typed, SMTT(30) DEF AddFacts, InitThread, TypeOK
<1>11. FindFacts'
  BY <1>a, FindFrame DEF InitThread
<1>12. WokenFacts'
  BY <1>a, <1>3, WokenFrame DEF InitThread
<1>13. CreateFacts'
  BY <1>0, Creating, Typed DEF CreateFacts, InitThread, TypeOK
<1> QED
  BY <1>1, <1>2, <1>3, <1>5, <1>6, <1>7, <1>8, <1>9, <1>10, <1>11, <1>12,
     <1>13 DEF Sound, IInv

(* thread_run keeps the invariant. *)
LEMMA ThreadRunInv ==
  ASSUME Sound, NEW c \in CPUs, thread_run(c)
  PROVE  Sound'
<1> USE DEF table, sleepq, locals, creation
<1> DEFINE me == current[c]
           t == child[me]
<1>0. /\ me \in TIDs /\ tpc[me] = "start" /\ t \in NonIdle
      /\ state[t] = "NONREADY" /\ sleeps_on[t] = 0
  <2>1. me \in TIDs /\ tpc[me] = "start"
    BY Typed DEF thread_run, TypeOK
  <2>2. t \in NonIdle /\ state[t] = "NONREADY"
    BY <2>1, Creating DEF CreateFacts
  <2> QED
    BY <2>1, <2>2, NonIdleTIDs, Sleeping DEF SleepFacts
<1>a. t \notin Elems(rq) /\ ~ InSomeChain(t)
  BY <1>0, ChainedApart, NonIdleTIDs, Whereabouts DEF StateSaysWhere
<1>2. /\ ReadyListIsQueue' /\ SleepChainsAreQueues'
      /\ head' \in TIDs \cup {NONE} /\ tail' \in TIDs \cup {NONE}
      /\ next' \in [TIDs -> TIDs \cup {NONE}]
      /\ rq' \in Seq(TIDs) /\ Elems(rq') = Elems(rq) \cup {t}
      /\ \A u \in TIDs : InSomeChain(u)' <=> InSomeChain(u)
      /\ \A u \in TIDs : u \notin Elems(rq) /\ u # t => next'[u] = next[u]
  BY <1>0, <1>a, AddReadyStep DEF thread_run
<1>1. TypeOK'
  BY <1>0, <1>2, NonIdleTIDs, Typed DEF TypeOK, thread_run, States
<1>4. \A d \in CPUs : Running(d)' = Running(d) /\ Executing(d)' = Executing(d)
  BY DEF thread_run, Running, Executing
<1>5. RunsOnOneCPU'
  BY <1>4, OneCPU DEF RunsOnOneCPU
<1>6. StateSaysWhere'
  BY <1>0, <1>2, <1>4, Whereabouts, Typed, SMTT(30) DEF StateSaysWhere, thread_run,
     TypeOK, NonIdle
<1>7. NoSleeperLost'
  <2>1. \A u \in TIDs : BeingWoken(u) => BeingWoken(u)'
    BY DEF BeingWoken, thread_run
  <2>2. \A u \in TIDs : BeingAdded(u) => BeingAdded(u)'
    BY DEF BeingAdded, thread_run
  <2> QED
    BY <1>0, <1>2, <2>1, <2>2, Sleepers, Typed DEF NoSleeperLost, thread_run,
       TypeOK
<1>8. LockHeld'
  BY LockHolder DEF LockHeld, thread_run
<1>9. CurrentFacts'
  <2>1. UNCHANGED <<pc, current, chosen, sleeps_on>>
    BY DEF thread_run
  <2>2. ASSUME NEW d \in CPUs, pc[d] = "switch" \/ Executing(d), Running(d) # IDLE
        PROVE  state'[Running(d)] = "RUNNING"
    <3>1. state[Running(d)] = "RUNNING"
      BY <2>2, CurrentThread DEF CurrentFacts
    <3>2. Running(d) \in TIDs
      BY <2>2, CurrentThread, Typed DEF CurrentFacts, Running, TypeOK
    <3>3. Running(d) # t
      BY <1>0, <3>1
    <3> QED
      BY <3>1, <3>2, <3>3, Typed DEF thread_run, TypeOK
  <2> QED
    BY <1>4, <2>1, <2>2, CurrentThread DEF CurrentFacts
<1>10. SleepFacts'
  BY <1>0, NonIdleTIDs, Sleeping, Typed, SMTT(30) DEF SleepFacts, thread_run, TypeOK,
     NonIdle
<1>11. AddFacts'
  <2>1. \A d \in CPUs : pc[d] \in {"add", "walk"} =>
          /\ current[d] # t /\ current[d] \in TIDs /\ current[d] \notin Elems(rq)
          /\ next'[current[d]] = next[current[d]]
    <3> SUFFICES ASSUME NEW d \in CPUs, pc[d] \in {"add", "walk"}
                 PROVE  /\ current[d] # t /\ current[d] \in TIDs
                        /\ current[d] \notin Elems(rq)
      BY <1>2
    <3>1. current[d] \in TIDs /\ state[current[d]] = "RUNNING"
      BY Adding, Typed DEF AddFacts, TypeOK
    <3> QED
      BY <3>1, <1>0, Whereabouts DEF StateSaysWhere, NonIdle
  <2> QED
    BY <1>0, <1>2, <2>1, Adding, Typed DEF AddFacts, thread_run, TypeOK
<1>12. FindFacts'
  BY FindFrame DEF thread_run
<1>13. WokenFacts'
  BY <1>2, WokenFrame DEF thread_run
<1>14. CreateFacts'
  <2>1. \A u \in TIDs : tpc[u] # "user" /\ u # me => child[u] # t
    BY <1>0, Creating DEF CreateFacts
  <2> QED
    BY <1>0, <2>1, NonIdleTIDs, Creating, Typed DEF CreateFacts, thread_run,
       TypeOK
<1> QED
  BY <1>1, <1>2, <1>5, <1>6, <1>7, <1>8, <1>9, <1>10, <1>11, <1>12, <1>13,
     <1>14 DEF Sound, IInv

(* scheduler_schedule on processor c takes the thread t after me, which it *)
(* puts back in the list if it has nothing to wait for.                    *)
Again(me) == Requeued(me) /\ me # IDLE
Scheduled(c, me, t) ==
  /\ chosen' = [chosen EXCEPT ![c] = t]
  /\ state' \in [TIDs -> States]
  /\ \A x \in TIDs : state'[x] =
       IF x = t THEN "RUNNING"
       ELSE IF x # me THEN state[x]
       ELSE IF state[me] = "DYING" THEN "FREE"
       ELSE IF sleeps_on[me] # 0 THEN "SLEEPING" ELSE "READY"
  /\ ReadyListIsQueue' /\ SleepChainsAreQueues'
  /\ head' \in TIDs \cup {NONE} /\ tail' \in TIDs \cup {NONE}
  /\ next' \in [TIDs -> TIDs \cup {NONE}] /\ rq' \in Seq(TIDs)
  /\ IDLE \notin Elems(rq')
  /\ t = IDLE \/ t \in Elems(rq) \/ (Again(me) /\ t = me)
  /\ \A x \in NonIdle : x \in Elems(rq') <=>
       x # t /\ (x \in Elems(rq) \/ (Again(me) /\ x = me))
  /\ \A x \in TIDs : InSomeChain(x)' <=> InSomeChain(x)
  /\ \A x \in TIDs : x \notin Elems(rq) /\ x # me => next'[x] = next[x]

(* scheduler_schedule: what it does to the lists and to the states.        *)
LEMMA ScheduleLists ==
  ASSUME Sound, NEW c \in CPUs, scheduler_schedule(c)
  PROVE  \E t \in TIDs : Scheduled(c, current[c], t)
<1> USE DEF table, sleepq, locals, creation
<1> DEFINE me == current[c]
           requeue == Requeued(me) /\ me # IDLE
           l == IF requeue THEN scheduler_add_to_ready_list(ReadyList, me)
                           ELSE ReadyList
           q == IF requeue THEN Append(rq, me) ELSE rq
           t == FirstReady(l)
           old == IF state[me] = "DYING" THEN "FREE"
                  ELSE IF sleeps_on[me] # 0 THEN "SLEEPING" ELSE "READY"
<1>1. /\ pc[c] \in {"run", "yield", "idle_irq"}
      /\ SetReadyList(RemoveFirstReady(l))
      /\ state' = [state EXCEPT ![me] = old, ![t] = "RUNNING"]
      /\ chosen' = [chosen EXCEPT ![c] = t]
      /\ rq' = IF Len(q) = 0 THEN q ELSE Tail(q)
      /\ UNCHANGED <<sleeps_on, hashtable, cq>>
  BY DEF scheduler_schedule
<1>2. me \in TIDs /\ Running(c) = me /\ ReadyList \in Lists /\ rq \in Seq(TIDs)
  BY <1>1, Typed DEF TypeOK, Running, ReadyList, Lists
<1>3. requeue => /\ me \in NonIdle /\ me \notin Elems(rq)
                 /\ ~ InSomeChain(me)
  <2> SUFFICES ASSUME requeue
               PROVE  me \in NonIdle /\ me \notin Elems(rq) /\ ~ InSomeChain(me)
    OBVIOUS
  <2>1. me \in NonIdle /\ sleeps_on[me] = 0
    BY <1>2 DEF Requeued, NonIdle
  <2>2. state[me] = "RUNNING"
    BY <1>2, <2>1, Whereabouts DEF StateSaysWhere, Requeued
  <2> QED
    BY <1>2, <2>1, <2>2, ChainedApart, Whereabouts DEF StateSaysWhere
<1>4. /\ l \in Lists /\ q \in Seq(TIDs) /\ Represents(l, q)
      /\ Elems(q) = IF requeue THEN Elems(rq) \cup {me} ELSE Elems(rq)
      /\ \A x \in TIDs : x \notin Elems(rq) /\ x # me => l.next[x] = next[x]
  <2>1. CASE requeue
    <3>1. l = scheduler_add_to_ready_list(ReadyList, me) /\ q = Append(rq, me)
      BY <2>1
    <3>2. /\ scheduler_add_to_ready_list(ReadyList, me) \in Lists
          /\ Represents(scheduler_add_to_ready_list(ReadyList, me), Append(rq, me))
          /\ \A x \in TIDs : x \notin Elems(rq) /\ x # me =>
               scheduler_add_to_ready_list(ReadyList, me).next[x] = ReadyList.next[x]
      BY <1>2, <1>3, <2>1, AddReadyCorrect, ReadyQueue DEF ReadyListIsQueue
    <3>3. ReadyList.next = next
      BY DEF ReadyList
    <3>4. Append(rq, me) \in Seq(TIDs) /\ Elems(Append(rq, me)) = Elems(rq) \cup {me}
      BY <1>2, AppendElems, SMTT(30)
    <3> HIDE DEF l, q, requeue
    <3> QED
      BY <2>1, <3>1, <3>2, <3>3, <3>4
  <2>2. CASE ~ requeue
    BY <1>2, <2>2, ReadyQueue DEF ReadyListIsQueue, ReadyList
  <2> QED
    BY <2>1, <2>2
<1>5. /\ t \in TIDs /\ (t = IDLE \/ t \in Elems(q))
      /\ RemoveFirstReady(l) \in Lists /\ Represents(RemoveFirstReady(l), rq')
      /\ RemoveFirstReady(l).next = l.next
      /\ rq' \in Seq(TIDs)
      /\ \A x \in NonIdle : x \in Elems(rq') <=> x \in Elems(q) /\ x # t
      /\ IDLE \notin Elems(rq')
  <2>0. IDLE \notin Elems(q)
    BY <1>3, <1>4, Whereabouts DEF StateSaysWhere, NonIdle
  <2> HIDE DEF l, q
  <2>1. CASE Len(q) = 0
    <3>1. l.head = NONE
      BY <1>4, <2>1 DEF Represents
    <3>2. t = IDLE /\ RemoveFirstReady(l) = l /\ rq' = q
      BY <1>1, <2>1, <3>1, SMTT(30) DEF FirstReady, RemoveFirstReady, NONE
    <3> QED
      BY <1>4, <2>0, <3>2, TIDFacts DEF NonIdle
  <2>2. CASE Len(q) # 0
    <3>1. /\ t = q[1] /\ RemoveFirstReady(l) \in Lists
          /\ Represents(RemoveFirstReady(l), Tail(q))
          /\ RemoveFirstReady(l).next = l.next
      BY <1>4, <2>2, RemoveFirstCorrect
    <3>2. /\ Tail(q) \in Seq(TIDs) /\ q[1] \in Elems(q)
          /\ Elems(Tail(q)) = Elems(q) \ {q[1]}
      BY <1>4, <2>2, TailElems DEF Represents
    <3>3. q[1] \in TIDs
      BY <1>4, <2>2, SMTT(30)
    <3>4. rq' = Tail(q)
      BY <1>1, <2>2
    <3> HIDE DEF t
    <3> QED
      BY <2>0, <3>1, <3>2, <3>3, <3>4
  <2> QED
    BY <2>1, <2>2
<1>6. /\ head' = RemoveFirstReady(l).head /\ tail' = RemoveFirstReady(l).tail
      /\ next' = RemoveFirstReady(l).next
  BY <1>1 DEF SetReadyList
<1> HIDE DEF l, q, t
<1>7. /\ ReadyListIsQueue'
      /\ head' \in TIDs \cup {NONE} /\ tail' \in TIDs \cup {NONE}
      /\ next' \in [TIDs -> TIDs \cup {NONE}]
  BY <1>5, <1>6, ReadyQueue DEF ReadyListIsQueue, ReadyList, Represents, Lists
<1>8. \A x \in TIDs : x \notin Elems(rq) /\ x # me => next'[x] = next[x]
  BY <1>4, <1>5, <1>6
<1>9. /\ SleepChainsAreQueues'
      /\ \A x \in TIDs : InSomeChain(x)' <=> InSomeChain(x)
  <2>1. \A x \in TIDs : InSomeChain(x) => next'[x] = next[x]
    <3> SUFFICES ASSUME NEW x \in TIDs, InSomeChain(x) PROVE next'[x] = next[x]
      OBVIOUS
    <3>1. x \notin Elems(rq) /\ sleeps_on[x] # 0
      BY ChainedApart
    <3>2. CASE x # me
      BY <1>8, <3>1, <3>2
    <3>3. CASE x = me
      <4>1. ~ requeue
        BY <1>3, <3>3
      <4>2. l = ReadyList
        BY <4>1 DEF l
      <4> QED
        BY <4>2, <1>5, <1>6 DEF ReadyList
    <3> QED
      BY <3>2, <3>3
  <2> QED
    BY <1>1, <2>1, ChainsFrame
<1>10. /\ state' \in [TIDs -> States]
       /\ \A x \in TIDs : state'[x] =
            IF x = t THEN "RUNNING" ELSE IF x # me THEN state[x] ELSE old
  <2>1. old \in States
    BY DEF States
  <2> HIDE DEF old
  <2> QED
    BY <1>1, <1>2, <1>5, <2>1, Typed DEF TypeOK, States
<1>11. /\ t = IDLE \/ t \in Elems(rq) \/ (requeue /\ t = me)
       /\ \A x \in NonIdle : x \in Elems(rq') <=>
            x # t /\ (x \in Elems(rq) \/ (requeue /\ x = me))
  BY <1>4, <1>5
<1> HIDE DEF requeue, old
<1>12. \A x \in TIDs : state'[x] =
            IF x = t THEN "RUNNING"
            ELSE IF x # me THEN state[x]
            ELSE IF state[me] = "DYING" THEN "FREE"
            ELSE IF sleeps_on[me] # 0 THEN "SLEEPING" ELSE "READY"
  BY <1>10 DEF old
<1> QED
  <2> SUFFICES /\ t \in TIDs /\ chosen' = [chosen EXCEPT ![c] = t]
               /\ t = IDLE \/ t \in Elems(rq) \/ (requeue /\ t = me)
               /\ \A x \in NonIdle : x \in Elems(rq') <=>
                    x # t /\ (x \in Elems(rq) \/ (requeue /\ x = me))
    BY <1>5, <1>7, <1>8, <1>9, <1>10, <1>12 DEF requeue, Scheduled, Again
  <2> QED
    BY <1>1, <1>5, <1>11

(* scheduler_schedule keeps the invariant. *)
LEMMA ScheduleInv ==
  ASSUME Sound, NEW c \in CPUs, scheduler_schedule(c)
  PROVE  Sound'
<1> USE DEF table, sleepq, locals, creation
<1>m. PICK me \in TIDs : me = current[c]
  BY Typed DEF TypeOK
<1> DEFINE requeue == Requeued(me) /\ me # IDLE
<1>0. PICK t \in TIDs : Scheduled(c, me, t)
  BY <1>m, ScheduleLists
<1>1. /\ chosen' = [chosen EXCEPT ![c] = t]
      /\ state' \in [TIDs -> States]
      /\ \A x \in TIDs : state'[x] =
           IF x = t THEN "RUNNING"
           ELSE IF x # me THEN state[x]
           ELSE IF state[me] = "DYING" THEN "FREE"
           ELSE IF sleeps_on[me] # 0 THEN "SLEEPING" ELSE "READY"
      /\ ReadyListIsQueue' /\ SleepChainsAreQueues'
      /\ head' \in TIDs \cup {NONE} /\ tail' \in TIDs \cup {NONE}
      /\ next' \in [TIDs -> TIDs \cup {NONE}] /\ rq' \in Seq(TIDs)
      /\ IDLE \notin Elems(rq')
      /\ t = IDLE \/ t \in Elems(rq) \/ (requeue /\ t = me)
      /\ \A x \in NonIdle : x \in Elems(rq') <=>
           x # t /\ (x \in Elems(rq) \/ (requeue /\ x = me))
      /\ \A x \in TIDs : InSomeChain(x)' <=> InSomeChain(x)
      /\ \A x \in TIDs : x \notin Elems(rq) /\ x # me => next'[x] = next[x]
  BY <1>0 DEF Scheduled, Again
<1>2. /\ pc[c] \in {"run", "yield", "idle_irq"} /\ pc' = [pc EXCEPT ![c] = "switch"]
      /\ UNCHANGED <<sleeps_on, hashtable, sleepq_slock, cq, current, res, all,
                     prev, first, wake, back, next_tid, tpc, child>>
  BY DEF scheduler_schedule
<1>3. /\ pc'[c] = "switch" /\ Running(c) = me /\ Running(c)' = t
      /\ \A d \in CPUs : d # c => pc'[d] = pc[d] /\ Running(d)' = Running(d)
  BY <1>m, <1>1, <1>2, Typed DEF Running, TypeOK
<1>4. me # IDLE => /\ state[me] \in {"RUNNING", "DYING"} /\ me \notin Elems(rq)
                   /\ \A d \in CPUs : d # c => Running(d) # me
  BY <1>3, Whereabouts, OneCPU DEF StateSaysWhere, NonIdle, RunsOnOneCPU
<1>5. t # IDLE => /\ sleeps_on[t] = 0 /\ state[t] \in {"READY", "RUNNING"}
                  /\ \A d \in CPUs : d # c => Running(d) # t
  <2> SUFFICES ASSUME t # IDLE
               PROVE  /\ sleeps_on[t] = 0 /\ state[t] \in {"READY", "RUNNING"}
                      /\ \A d \in CPUs : d # c => Running(d) # t
    OBVIOUS
  <2>1. CASE t \in Elems(rq)
    <3>1. state[t] = "READY"
      BY <2>1, Whereabouts DEF StateSaysWhere, NonIdle
    <3> QED
      BY <3>1, Whereabouts, Sleeping DEF StateSaysWhere, SleepFacts, NonIdle
  <2>2. CASE requeue /\ t = me
    BY <1>4, <2>2 DEF Requeued
  <2> QED
    BY <1>1, <2>1, <2>2
<1>6. TypeOK'
  BY <1>1, <1>2, Typed DEF TypeOK, PCs
<1>7. RunsOnOneCPU'
  BY <1>3, <1>5, OneCPU, SMTT(30) DEF RunsOnOneCPU
<1>8. StateSaysWhere'
  <2>1. IDLE \notin Elems(rq')
    BY <1>1
  <2>2. ASSUME NEW x \in NonIdle
        PROVE  x \in Elems(rq') <=> state'[x] = "READY"
    <3>1. x \in TIDs /\ (x \in Elems(rq) <=> state[x] = "READY")
      BY Whereabouts DEF StateSaysWhere, NonIdle
    <3>2. CASE x = t
      BY <1>1, <3>1, <3>2
    <3>3. CASE x # t /\ x # me
      BY <1>1, <3>1, <3>3
    <3>4. CASE x # t /\ x = me
      BY <1>1, <1>4, <3>1, <3>4 DEF Requeued, NonIdle
    <3> QED
      BY <3>2, <3>3, <3>4
  <2>3. ASSUME NEW x \in NonIdle
        PROVE  (\E d \in CPUs : Running(d)' = x) <=> state'[x] \in {"RUNNING", "DYING"}
    <3>1. /\ x \in TIDs
          /\ (\E d \in CPUs : Running(d) = x) <=> state[x] \in {"RUNNING", "DYING"}
      BY Whereabouts DEF StateSaysWhere, NonIdle
    <3>2. CASE x = t
      BY <1>1, <1>3, <3>1, <3>2
    <3>3. CASE x # t /\ x # me
      BY <1>1, <1>3, <3>1, <3>3
    <3>4. CASE x # t /\ x = me
      BY <1>1, <1>3, <1>4, <3>1, <3>4 DEF NonIdle
    <3> QED
      BY <3>2, <3>3, <3>4
  <2> QED
    BY <2>1, <2>2, <2>3, Whereabouts DEF StateSaysWhere
<1>9. NoSleeperLost'
  <2>1. \A x \in TIDs : BeingWoken(x) => BeingWoken(x)'
    BY <1>2, <1>3 DEF BeingWoken
  <2>2. \A x \in TIDs : BeingAdded(x) => BeingAdded(x)'
    BY <1>2, <1>3 DEF BeingAdded
  <2>3. me # IDLE => ~ BeingAdded(me)
    BY <1>2, <1>4 DEF BeingAdded, Running
  <2>4. ASSUME NEW x \in TIDs, state'[x] = "SLEEPING"
        PROVE  sleeps_on[x] # 0 /\ (InSomeChain(x) \/ BeingWoken(x))
    <3>1. CASE x # me
      BY <1>1, <2>4, <3>1, Sleepers DEF NoSleeperLost
    <3>2. CASE x = me
      <4>1. sleeps_on[me] # 0
        BY <1>1, <2>4, <3>2
      <4> QED
        BY <2>3, <3>2, <4>1, Sleepers, Sleeping DEF NoSleeperLost, SleepFacts
    <3> QED
      BY <3>1, <3>2
  <2> QED
    BY <1>1, <1>2, <2>1, <2>2, <2>4, Sleepers DEF NoSleeperLost
<1>10. LockHeld'
  BY <1>2, <1>3, LockHolder DEF LockHeld
<1>11. SleepFacts'
  BY <1>1, <1>2, TIDFacts, Sleeping DEF SleepFacts
<1>12. CurrentFacts'
  <2>1. sleeps_on[t] = 0
    BY <1>5, Sleeping DEF SleepFacts
  <2>2. /\ chosen'[c] = t /\ ~ Executing(c)'
        /\ \A d \in CPUs : d # c => /\ chosen'[d] = chosen[d]
                                    /\ Executing(d)' <=> Executing(d)
    BY <1>1, <1>2, <1>3, Typed DEF Executing, TypeOK
  <2>3. state'[t] = "RUNNING"
    BY <1>1
  <2>4. ASSUME NEW d \in CPUs, d # c, pc[d] = "switch" \/ Executing(d)
        PROVE  /\ sleeps_on[Running(d)] = 0
               /\ Running(d) # IDLE => state'[Running(d)] = "RUNNING"
    <3>1. Running(d) \in TIDs
      BY <2>4, CurrentThread, Typed DEF CurrentFacts, Running, TypeOK
    <3> QED
      BY <1>1, <1>4, <2>4, <3>1, CurrentThread DEF CurrentFacts
  <2> QED
    BY <1>2, <1>3, <2>1, <2>2, <2>3, <2>4, CurrentThread DEF CurrentFacts
<1>13. AddFacts'
  <2> SUFFICES ASSUME NEW d \in CPUs, pc'[d] \in {"add", "walk"}
               PROVE  /\ res'[d] \in Resources /\ sleeps_on'[current'[d]] = res'[d]
                      /\ state'[current'[d]] = "RUNNING" /\ next'[current'[d]] = NONE
                      /\ ~ InSomeChain(current[d])'
                      /\ pc'[d] = "walk" => prev'[d] \in Elems(cq[Hash(res[d])])'
    BY DEF AddFacts
  <2>1. d # c /\ pc'[d] = pc[d] /\ pc[d] \in {"add", "walk"}
    BY <1>3
  <2>2. /\ current[d] \in NonIdle /\ current[d] \in TIDs
        /\ Running(d) = current[d] /\ state[current[d]] = "RUNNING"
    BY <2>1, AddingFacts, Adding DEF Running, AddFacts
  <2>3. current[d] # me /\ current[d] \notin Elems(rq)
    BY <1>4, <2>1, <2>2, Whereabouts DEF StateSaysWhere, NonIdle
  <2>4. /\ res[d] \in Resources /\ sleeps_on[current[d]] = res[d]
        /\ next[current[d]] = NONE /\ ~ InSomeChain(current[d])
        /\ pc[d] = "walk" => prev[d] \in Elems(cq[Hash(res[d])])
    BY <2>1, Adding DEF AddFacts
  <2>5. state'[current[d]] = "RUNNING" /\ next'[current[d]] = NONE
    BY <1>1, <2>2, <2>3, <2>4
  <2>6. ~ InSomeChain(current[d])'
    BY <1>1, <1>2, <2>2, <2>4 DEF InSomeChain
  <2>7. pc'[d] = "walk" => prev'[d] \in Elems(cq[Hash(res[d])])'
    BY <1>2, <2>1, <2>4 DEF Elems
  <2> QED
    BY <1>2, <2>4, <2>5, <2>6, <2>7
<1>14. FindFacts'
  BY <1>2, <1>3, FindFrame
<1>15. WokenFacts'
  <2>1. \A x \in TIDs : BeingAdded(x)' => BeingAdded(x)
    BY <1>2, <1>3 DEF BeingAdded
  <2> QED
    BY <1>1, <1>2, <1>3, <2>1, NonIdleTIDs, Woken DEF WokenFacts
<1>16. CreateFacts'
  <2> SUFFICES ASSUME NEW x \in TIDs, tpc[x] # "user"
               PROVE  state'[child[x]] = "NONREADY"
    BY <1>2, Creating DEF CreateFacts
  <2>1. child[x] \in NonIdle /\ child[x] \in TIDs /\ state[child[x]] = "NONREADY"
    BY NonIdleTIDs, Creating DEF CreateFacts
  <2>2. child[x] # me /\ child[x] # t
    BY <1>4, <1>5, <2>1 DEF NonIdle
  <2> QED
    BY <1>1, <2>1, <2>2
<1> QED
  BY <1>1, <1>6, <1>7, <1>8, <1>9, <1>10, <1>11, <1>12, <1>13, <1>14, <1>15,
     <1>16 DEF Sound, IInv

(* The invariant holds when the kernel starts. *)
LEMMA InitInv == Init => Sound
<1> SUFFICES ASSUME Init PROVE IInv
  BY DEF Sound
<1> USE DEF Init
<1>0. /\ IDLE \in TIDs /\ 1 \in TIDs /\ IDLE # 1 /\ NONE \notin TIDs
      /\ 2 % MaxThreads \in TIDs /\ <<1>> \in Seq(TIDs)
      /\ Len(<<1>>) = 1 /\ <<1>>[1] = 1
  BY MaxThreadsAssumption, SMTT(30) DEF TIDs, IDLE, NONE
<1>1. TypeOK
  BY <1>0, SMTT(30) DEF TypeOK, PCs, States
<1>2. Elems(rq) = {1}
  BY <1>0, SMTT(30) DEF Elems
<1>3. ReadyListIsQueue
  BY <1>0, SMTT(30) DEF ReadyListIsQueue, ReadyList, Represents, Distinct, LinkedBy
<1>4. /\ SleepChainsAreQueues /\ \A t \in TIDs : ~ InSomeChain(t)
  BY SMTT(30) DEF SleepChainsAreQueues, Distinct, LinkedBy, Elems, InSomeChain
<1>5. RunsOnOneCPU /\ \A c \in CPUs : Running(c) = IDLE
  BY DEF RunsOnOneCPU, Running
<1>6. StateSaysWhere
  BY <1>0, <1>2, <1>5 DEF StateSaysWhere, NonIdle
<1>7. NoSleeperLost
  BY DEF NoSleeperLost
<1>8. LockHeld
  BY CPUsAssumption DEF LockHeld
<1>9. CurrentFacts /\ SleepFacts
  BY <1>0 DEF CurrentFacts, Executing, SleepFacts
<1>10. AddFacts /\ FindFacts /\ WokenFacts /\ CreateFacts
  BY DEF AddFacts, FindFacts, WokenFacts, CreateFacts
<1> QED
  BY <1>1, <1>3, <1>4, <1>5, <1>6, <1>7, <1>8, <1>9, <1>10 DEF IInv

(* The invariant depends on the variables only. *)
LEMMA StutterInv ==
  ASSUME Sound, UNCHANGED vars
  PROVE  Sound'
<1> USE DEF vars, table, ready, sleepq, locals, creation
<1>1. TypeOK'
  BY Typed DEF TypeOK
<1>2. /\ ReadyListIsQueue' /\ SleepChainsAreQueues' /\ SleepFacts'
      /\ \A t \in TIDs : InSomeChain(t)' <=> InSomeChain(t)
  BY ListsFrame
<1>3. RunsOnOneCPU' /\ StateSaysWhere'
  BY RunningFrame DEF Running
<1>4. NoSleeperLost'
  BY <1>2, LostFrame DEF BeingWoken, BeingAdded
<1>5. LockHeld' /\ CurrentFacts'
  BY LockHolder, CurrentThread DEF LockHeld, CurrentFacts, Executing, Running
<1>6. AddFacts' /\ FindFacts'
  <2>1. FindFacts'
    BY FindFrame
  <2>2. \A d \in CPUs : pc[d] \in {"add", "walk"} => ~ InSomeChain(current[d])'
    BY <1>2, Adding, Typed DEF AddFacts, TypeOK
  <2>3. AddFacts'
    BY <2>2, Adding DEF AddFacts, Elems
  <2> QED
    BY <2>1, <2>3
<1>7. WokenFacts' /\ CreateFacts'
  BY <1>2, WokenFrame, CreateFrame
<1> QED
  BY <1>1, <1>2, <1>3, <1>4, <1>5, <1>6, <1>7 DEF Sound, IInv

(* Every step keeps the invariant. *)
LEMMA NextInv == Sound /\ [Next]_vars => Sound'
<1> SUFFICES ASSUME Sound, Next PROVE Sound'
  BY StutterInv
<1>1. PICK c \in CPUs :
        \/ scheduler_schedule(c)
        \/ KernelStep(c)
        \/ thread_create(c) \/ InitThread(c) \/ thread_run(c)
        \/ thread_switch(c) \/ thread_finish(c)
        \/ \E r \in Resources : sleepq_add(c, r)
        \/ \E r \in Resources, a \in BOOLEAN : sleepq_wake(c, r, a)
  BY DEF Next
<1>2. CASE KernelStep(c)
  BY <1>2, SetCurrentInv, AddLockInv, AddWalkInv, AddLinkInv, WakeLockInv,
     WakeSkipInv, WakeUnlinkInv, WakeReadyInv, WakeDoneInv DEF KernelStep
<1> QED
  BY <1>1, <1>2, ScheduleInv, ThreadCreateInv, InitThreadInv, ThreadRunInv,
     ThreadSwitchInv, ThreadFinishInv, SleepqAddInv, SleepqWakeInv

(* So it always holds. *)
LEMMA SoundAlways == Spec => []Sound
BY InitInv, NextInv, PTL DEF Spec

(* Whatever the number of processors, threads, resources and hash chains,  *)
(* the inductive invariant holds in every reachable state of thread.c,     *)
(* scheduler.c and sleepq.c.                                               *)
THEOREM Invariance == Spec => []IInv
<1>1. Sound => IInv
  BY DEF Sound
<1> QED
  BY <1>1, SoundAlways, PTL

(* Type correctness of the thread table, the lists and the locals of the   *)
(* routines of scheduler.c and sleepq.c.                                   *)
THEOREM TypeCorrect == Spec => []TypeOK
<1>1. IInv => TypeOK
  BY DEF IInv
<1> QED
  BY Invariance, <1>1, PTL

(* The next fields, shared by the ready list (scheduler.c) and the sleep   *)
(* chains (sleepq.c), always describe well-formed queues.                  *)
THEOREM ListsAreQueues == Spec => [](ReadyListIsQueue /\ SleepChainsAreQueues)
<1>1. IInv => ReadyListIsQueue /\ SleepChainsAreQueues
  BY DEF IInv
<1> QED
  BY Invariance, <1>1, PTL

(* scheduler_schedule never puts one thread on two processors, and the     *)
(* state field of every thread says where the thread is.                   *)
THEOREM Placement == Spec => [](RunsOnOneCPU /\ StateSaysWhere)
<1>1. IInv => RunsOnOneCPU /\ StateSaysWhere
  BY DEF IInv
<1> QED
  BY Invariance, <1>1, PTL

(* sleepq_add, sleepq_wake and scheduler_schedule together never lose a    *)
(* thread that waits for a resource.                                       *)
THEOREM SleepersFound == Spec => []NoSleeperLost
<1>1. IInv => NoSleeperLost
  BY DEF IInv
<1> QED
  BY Invariance, <1>1, PTL

(* Every step of thread.c, scheduler.c and sleepq.c moves a thread along   *)
(* the life cycle only.                                                    *)
THEOREM LifeCycleHolds == Spec => LifeCycle
<1>1. ASSUME Sound, Next PROVE LifeCycleStep
  <2>1. PICK c \in CPUs :
          \/ scheduler_schedule(c)
          \/ KernelStep(c)
          \/ thread_create(c) \/ InitThread(c) \/ thread_run(c)
          \/ thread_switch(c) \/ thread_finish(c)
          \/ \E r \in Resources : sleepq_add(c, r)
          \/ \E r \in Resources, a \in BOOLEAN : sleepq_wake(c, r, a)
    BY <1>1 DEF Next
  <2>2. CASE scheduler_schedule(c)
    <3>0. PICK me \in TIDs : me = current[c]
      BY <1>1, Typed DEF TypeOK
    <3>t. PICK t \in TIDs : Scheduled(c, me, t)
      BY <1>1, <2>2, <3>0, ScheduleLists
    <3>1. /\ \A x \in TIDs : state'[x] =
               IF x = t THEN "RUNNING"
               ELSE IF x # me THEN state[x]
               ELSE IF state[me] = "DYING" THEN "FREE"
               ELSE IF sleeps_on[me] # 0 THEN "SLEEPING" ELSE "READY"
          /\ t = IDLE \/ t \in Elems(rq) \/ (Requeued(me) /\ t = me)
      BY <3>t DEF Scheduled, Again
    <3>2. me # IDLE => state[me] \in {"RUNNING", "DYING"}
      BY <1>1, <2>2, <3>0, Whereabouts DEF scheduler_schedule, StateSaysWhere,
         Running, NonIdle
    <3>3. t # IDLE => state[t] = "READY" \/ (state[t] = "RUNNING" /\ t = me)
      BY <1>1, <3>1, <3>2, Whereabouts DEF StateSaysWhere, NonIdle, Requeued
    <3> QED
      BY <3>1, <3>2, <3>3, SMTT(30) DEF LifeCycleStep, Transitions, NonIdle
  <2>3. CASE KernelStep(c)
    <3>1. CASE WakeReady(c)
      BY <1>1, <3>1, Typed DEF WakeReady, TypeOK, LifeCycleStep, Transitions,
         NonIdle
    <3> QED
      BY <2>3, <3>1 DEF KernelStep, SetCurrent, AddLock, AddWalk, AddLink,
         WakeLock, WakeSkip, WakeUnlink, WakeDone, LifeCycleStep, table
  <2>4. CASE thread_create(c)
    BY <1>1, <2>4, Typed DEF thread_create, FreeSlots, TypeOK, LifeCycleStep,
       Transitions, NonIdle
  <2>5. CASE thread_run(c)
    <3>1. child[current[c]] \in NonIdle /\ state[child[current[c]]] = "NONREADY"
      BY <1>1, <2>5, Creating, Typed DEF thread_run, CreateFacts, TypeOK
    <3> QED
      BY <1>1, <2>5, <3>1, Typed DEF thread_run, TypeOK, LifeCycleStep,
         Transitions, NonIdle
  <2>6. CASE thread_finish(c)
    <3>1. state[current[c]] = "RUNNING"
      BY <1>1, <2>6, CurrentThread DEF thread_finish, Calls, CurrentFacts,
         Executing, Running
    <3> QED
      BY <1>1, <2>6, <3>1, Typed DEF thread_finish, TypeOK, LifeCycleStep,
         Transitions, NonIdle
  <2>7. CASE \/ InitThread(c) \/ thread_switch(c)
             \/ \E r \in Resources : sleepq_add(c, r)
             \/ \E r \in Resources, a \in BOOLEAN : sleepq_wake(c, r, a)
    BY <2>7 DEF InitThread, thread_switch, sleepq_add, sleepq_wake,
       LifeCycleStep, table
  <2> QED
    BY <2>1, <2>2, <2>3, <2>4, <2>5, <2>6, <2>7
<1>2. Sound /\ [Next]_vars => [LifeCycleStep]_vars
  BY <1>1
<1> QED
  BY SoundAlways, <1>2, PTL DEF Spec, LifeCycle

(* sleepq_wake and sleepq_wake_all take the longest waiting thread first.  *)
THEOREM WakeOrderHolds == Spec => WakesLongestWaiting
BY SoundAlways, WakeOrderKept, PTL DEF Spec, WakesLongestWaiting
=============================================================================
