----------------------------- MODULE VFSProofs -----------------------------
(***************************************************************************)
(* Proofs about VFS.  HaltFindsIdle and OpenFilesMounted are shown for     *)
(* every number of threads, rows and files and for every mistake callers   *)
(* may make.  The inductive invariant IInv adds three things: vfs_ops is   *)
(* never less than the number of calls under way (CountFacts), the places  *)
(* at which a thread holds a table (LockFacts), and that the filesystem    *)
(* vfs_unmount is about to give up stays the one its name denotes and      *)
(* stays without open files while both tables are held (CallFacts).        *)
(*                                                                         *)
(* RowsExclusive and DriverCallsMounted are shown for callers that pass    *)
(* only files of their own, and OpsCounted for callers that make no        *)
(* mistake; with Misuse = {"not open"} TLC refutes all three.  Their       *)
(* invariant adds OwnFacts: the file a call is about is one its thread has *)
(* in use and nobody else has, so that the local variable fs, read without *)
(* openfile_table.sem, is not stale.                                       *)
(***************************************************************************)
EXTENDS VFS, TLAPS, FiniteSetTheorems, WellFoundedInduction

(* Zenon proves the leaves, but those with arithmetic or sequences.        *)
USE ZenonT(30)

(* A scan for the first row of a table finds one if there is one. *)
LEMMA MinIn ==
  ASSUME NEW S, S \subseteq Nat, S # {}
  PROVE  Min(S) \in S
<1>1. PICK x \in S : \A y \in S : ~(<<y, x>> \in OpToRel(<, Nat))
  BY NatLessThanWellFounded, WFMin
<1>2. \A y \in S : x =< y
  <2> SUFFICES ASSUME NEW y \in S, ~(x =< y) PROVE FALSE
    OBVIOUS
  <2>1. y < x /\ <<y, x>> \in Nat \X Nat
    BY SMTT(30)
  <2>2. <<y, x>> \in OpToRel(<, Nat)
    BY <2>1 DEF OpToRel
  <2> QED
    BY <1>1, <2>2
<1> QED
  BY <1>2 DEF Min

(* What a lookup returns is mounted, or None. *)
LEMMA LookUpMounted ==
  ASSUME TypeOK, NEW v
  PROVE  /\ vfs_get_filesystem(v) \in Filesystems \cup {None}
         /\ vfs_get_filesystem(v) # None => RowsOf(v) # {} /\ Min(RowsOf(v)) \in Rows
                                            /\ IsMounted(vfs_get_filesystem(v))
<1>1. CASE RowsOf(v) = {}
  BY <1>1 DEF vfs_get_filesystem
<1>2. CASE RowsOf(v) # {}
  <2>1. RowsOf(v) \subseteq Nat
    BY TablesAssumption DEF RowsOf
  <2>2. Min(RowsOf(v)) \in Rows
    BY <1>2, <2>1, MinIn DEF RowsOf
  <2> QED
    BY <1>2, <2>2 DEF vfs_get_filesystem, IsMounted, TypeOK
<1> QED
  BY <1>1, <1>2

(* Every subset of the threads has a cardinality, which grows with it. *)
LEMMA ThreadSets ==
  ASSUME NEW A \in SUBSET Threads, NEW B \in SUBSET Threads
  PROVE  /\ Cardinality(A) \in Nat
         /\ A \subseteq B => Cardinality(A) =< Cardinality(B)
         /\ \A t \in Threads \ A : Cardinality(A \cup {t}) = Cardinality(A) + 1
         /\ \A t \in A : Cardinality(A \ {t}) = Cardinality(A) - 1 /\ Cardinality(A) > 0
<1>1. IsFiniteSet(A) /\ IsFiniteSet(B)
  BY FiniteAssumption, FS_Subset
<1>2. Cardinality(A) \in Nat
  BY <1>1, FS_CardinalityType
<1>3. A \subseteq B => Cardinality(A) =< Cardinality(B)
  BY <1>1, FS_Subset
<1>4. \A t \in Threads \ A : Cardinality(A \cup {t}) = Cardinality(A) + 1
  BY <1>1, FS_AddElement
<1>5. ASSUME NEW t \in A
      PROVE  Cardinality(A \ {t}) = Cardinality(A) - 1 /\ Cardinality(A) > 0
  <2>1. Cardinality(A \ {t}) = Cardinality(A) - 1
    BY <1>1, FS_RemoveElement
  <2>2. Cardinality(A) # 0
    BY <1>1, FS_EmptySet
  <2> QED
    BY <2>1, <2>2, <1>2, SMTT(30)
<1> QED
  BY <1>2, <1>3, <1>4, <1>5

(* The first free row of each table is a free row. *)
LEMMA FirstFree ==
  /\ FreeRows \subseteq Rows /\ FreeFiles \subseteq Files
  /\ FreeRows # {} => Min(FreeRows) \in FreeRows
  /\ FreeFiles # {} => Min(FreeFiles) \in FreeFiles
<1>1. FreeRows \subseteq Rows /\ FreeFiles \subseteq Files
  BY DEF FreeRows, FreeFiles
<1>2. FreeRows \subseteq Nat /\ FreeFiles \subseteq Nat
  BY <1>1, TablesAssumption
<1> QED
  BY <1>1, <1>2, MinIn

(* Sending a call on keeps the type of pc; leaving it, of the locals too. *)
LEMMA CallType ==
  ASSUME TypeOK, NEW t \in Threads, NEW l \in Locations
  PROVE  /\ Goto(t, l) => pc' \in [Threads -> Locations]
         /\ Leave(t, l) => /\ pc' \in [Threads -> Locations]
                           /\ name' \in [Threads -> Volumes \cup {None}]
                           /\ file' \in [Threads -> Files \cup {None}]
                           /\ fs' \in [Threads -> Filesystems \cup {None}]
BY DEF TypeOK, Goto, Leave

(* A step of a call keeps the types.  vfs_end_op is treated apart: that    *)
(* vfs_ops stays natural needs the count.                                  *)
LEMMA StepType ==
  ASSUME TypeOK, CallFacts, NEW t \in Threads, Step(t), ~vfs_end_op(t)
  PROVE  TypeOK'
<1>0. {"idle", "end", "unmount files", "fs unmount", "open files", "fs open", "fs close", "read fs",
       "fs read", "advance", "fs volume", "halt op", "halt table", "halt files", "halt unmount",
       "halted"} \subseteq Locations
  BY DEF Locations
<1> USE DEF TypeOK, counts, sems, tables, locals
<1>1. CASE vfs_mount(t)
  BY <1>0, <1>1, CallType DEF vfs_mount
<1>2. ASSUME NEW l \in {"unmount files", "fs volume"}, LookUp(t, l)
      PROVE  TypeOK'
  <2>1. vfs_get_filesystem(name[t]) \in Filesystems \cup {None}
    BY LookUpMounted
  <2>2. fs' \in [Threads -> Filesystems \cup {None}]
    BY <1>0, <1>2, <2>1, CallType DEF LookUp
  <2>3. pc' \in [Threads -> Locations]
    BY <1>0, <1>2, CallType DEF LookUp
  <2>4. name' \in [Threads -> Volumes \cup {None}] /\ file' \in [Threads -> Files \cup {None}]
    BY <1>0, <1>2, CallType DEF LookUp
  <2> QED
    BY <1>2, <2>2, <2>3, <2>4 DEF LookUp
<1>3. CASE UnmountFiles(t)
  BY <1>0, <1>3, CallType DEF UnmountFiles
<1>4. CASE FsUnmount(t)
  BY <1>0, <1>4, CallType DEF FsUnmount
<1>5. CASE vfs_open(t)
  BY <1>0, <1>5, CallType DEF vfs_open
<1>6. CASE OpenFiles(t)
  BY <1>0, <1>6, CallType, FirstFree, LookUpMounted DEF OpenFiles
<1>7. CASE FsOpen(t)
  <2>1. file[t] \in Files
    BY <1>7 DEF FsOpen, CallFacts
  <2>2. handles' \in [Threads -> SUBSET Files]
    BY <1>7, <2>1 DEF FsOpen
  <2> QED
    BY <1>0, <1>7, <2>2, CallType DEF FsOpen
<1>8. CASE FsOpenFails(t)
  BY <1>0, <1>8, CallType DEF FsOpenFails
<1>9. CASE vfs_close(t)
  <2>1. open[file[t]] # None => open[file[t]] \in Filesystems
    BY <1>9 DEF vfs_close, CallFacts
  <2> QED
    BY <1>0, <1>9, <2>1, CallType DEF vfs_close
<1>10. CASE FsClose(t)
  BY <1>0, <1>10, CallType DEF FsClose
<1>11. CASE vfs_seek(t)
  BY <1>0, <1>11, CallType DEF vfs_seek
<1>12. CASE vfs_verify_open(t)
  BY <1>0, <1>12, CallType DEF vfs_verify_open
<1>13. CASE vfs_read(t)
  <2>1. open[file[t]] \in Filesystems \cup {None}
    BY <1>13 DEF vfs_read, CallFacts
  <2> QED
    BY <1>0, <1>13, <2>1, CallType DEF vfs_read
<1>14. CASE FsRead(t)
  BY <1>0, <1>14, CallType DEF FsRead
<1>15. CASE Advance(t)
  BY <1>0, <1>15, CallType DEF Advance
<1>16. CASE vfs_unmount(t) \/ VolumeOp(t)
  BY <1>16, <1>2 DEF vfs_unmount, VolumeOp
<1>17. CASE FsVolumeOp(t)
  BY <1>0, <1>17, CallType DEF FsVolumeOp
<1>18. CASE DeinitWait(t)
  <2>1. unmount_sem \in 0 .. 1
    OBVIOUS
  <2>2. unmount_sem > 0 /\ unmount_sem' = unmount_sem - 1
    BY <1>18 DEF DeinitWait
  <2> HIDE DEF TypeOK
  <2>3. unmount_sem' \in 0 .. 1
    BY <2>1, <2>2, SMTT(30)
  <2> QED
    BY <1>0, <1>18, <2>3, CallType DEF DeinitWait, TypeOK
<1>19. CASE DeinitOp(t)
  BY <1>0, <1>19, CallType DEF DeinitOp
<1>20. CASE DeinitTable(t)
  BY <1>0, <1>20, CallType DEF DeinitTable
<1>21. CASE DeinitFiles(t)
  BY <1>0, <1>21, CallType DEF DeinitFiles
<1>22. CASE DeinitUnmount(t)
  BY <1>22 DEF DeinitUnmount
<1>23. CASE DeinitDone(t)
  BY <1>0, <1>23, CallType DEF DeinitDone
<1> QED
  BY <1>1, <1>3, <1>4, <1>5, <1>6, <1>7, <1>8, <1>9, <1>10, <1>11, <1>12, <1>13, <1>14,
     <1>15, <1>16, <1>17, <1>18, <1>19, <1>20, <1>21, <1>22, <1>23 DEF Step

(* The start of a call keeps the types. *)
LEMMA StartType ==
  ASSUME TypeOK, NEW t \in Threads, Start(t)
  PROVE  TypeOK'
<1>0. {"idle", "end", "mount", "unmount", "open", "close", "seek", "read", "volume"} \subseteq Locations
  BY DEF Locations
<1>1. ASSUME NEW l \in {"idle", "end", "mount", "unmount", "open", "close", "seek", "read", "volume"},
             NEW v \in Volumes \cup {None}, NEW f \in Files \cup {None}, vfs_start_op(t, l, v, f),
             handles' \in [Threads -> SUBSET Files]
      PROVE  TypeOK'
  BY <1>0, <1>1, SMTT(30) DEF vfs_start_op, Goto, TypeOK, sems, tables
<1>2. CallerFiles(t) \subseteq Files
  <2>1. \A u \in Threads : handles[u] \subseteq Files
    BY DEF TypeOK
  <2>2. UNION {handles[u] : u \in Threads} \subseteq Files
    BY <2>1
  <2> QED
    BY <2>1, <2>2 DEF CallerFiles
<1>3. CASE StartClose(t)
  <2>1. PICK f \in CallerFiles(t) : /\ vfs_start_op(t, "close", None, f)
                                    /\ handles' = [u \in Threads |-> handles[u] \ {f}]
    BY <1>3 DEF StartClose
  <2>2. handles' \in [Threads -> SUBSET Files]
    BY <2>1 DEF TypeOK
  <2> QED
    BY <1>1, <1>2, <2>1, <2>2
<1>4. CASE StartMount(t) \/ StartUnmount(t) \/ StartVolumeOp(t)
  BY <1>4, <1>1 DEF StartMount, StartUnmount, StartVolumeOp, TypeOK
<1>5. CASE StartOpen(t)
  BY <1>5, <1>1 DEF StartOpen, TypeOK
<1>6. CASE StartSeek(t)
  BY <1>6, <1>1, <1>2 DEF StartSeek, TypeOK
<1>7. CASE StartRead(t)
  BY <1>7, <1>1, <1>2 DEF StartRead, TypeOK
<1> QED
  BY <1>3, <1>4, <1>5, <1>6, <1>7 DEF Start

(* vfs_deinit keeps the types. *)
LEMMA HaltType ==
  ASSUME TypeOK, NEW t \in Threads, Halt(t)
  PROVE  TypeOK'
<1>1. {"halt wait", "halt table"} \subseteq Locations
  BY DEF Locations
<1> QED
  BY <1>1 DEF Halt, vfs_deinit, Goto, TypeOK, sems, tables, locals

(* Outside the start and the end of an operation and vfs_deinit, a step    *)
(* leaves the count alone and moves its thread within the operation or,    *)
(* on the paths without vfs_end_op, out of it.                             *)
LEMMA StepCounts ==
  ASSUME TypeOK, NEW t \in Threads, Step(t), ~vfs_end_op(t)
  PROVE  /\ vfs_ops' = vfs_ops /\ vfs_usable' = vfs_usable
         /\ \A u \in Threads \ {t} : pc'[u] = pc[u]
         /\ \/ Active(t) /\ pc'[t] \notin HaltLocations /\ unmount_sem' = unmount_sem
            \/ DeinitWait(t)
            \/ pc[t] \in HaltLocations \ {"halt wait"} /\ pc'[t] \in HaltLocations
               /\ unmount_sem' = unmount_sem
<1> USE DEF TypeOK, Goto, Leave, counts, Active, HaltLocations
<1>1. CASE vfs_mount(t) \/ vfs_open(t) \/ OpenFiles(t) \/ FsOpen(t) \/ FsOpenFails(t)
  BY <1>1 DEF vfs_mount, vfs_open, OpenFiles, FsOpen, FsOpenFails
<1>2. CASE vfs_unmount(t) \/ VolumeOp(t)
  BY <1>2 DEF vfs_unmount, VolumeOp, LookUp
<1>3. CASE UnmountFiles(t) \/ FsUnmount(t) \/ FsVolumeOp(t)
  BY <1>3 DEF UnmountFiles, FsUnmount, FsVolumeOp
<1>4. CASE vfs_close(t) \/ FsClose(t)
  BY <1>4 DEF vfs_close, FsClose
<1>5. CASE vfs_seek(t) \/ vfs_verify_open(t) \/ vfs_read(t) \/ FsRead(t) \/ Advance(t)
  BY <1>5 DEF vfs_seek, vfs_verify_open, vfs_read, FsRead, Advance
<1>6. CASE DeinitWait(t)
  BY <1>6 DEF DeinitWait
<1>7. CASE DeinitOp(t) \/ DeinitTable(t) \/ DeinitFiles(t) \/ DeinitUnmount(t) \/ DeinitDone(t)
  BY <1>7 DEF DeinitOp, DeinitTable, DeinitFiles, DeinitUnmount, DeinitDone
<1> QED
  BY <1>1, <1>2, <1>3, <1>4, <1>5, <1>6, <1>7 DEF Step

(* A step that moves only thread t keeps the count at or above the number  *)
(* of calls under way, if t was in a call or is in none afterwards.        *)
LEMMA CountKept ==
  ASSUME CountFacts, NEW t \in Threads, vfs_ops \in Nat, vfs_ops' = vfs_ops,
         \A u \in Threads \ {t} : pc'[u] = pc[u], Active(t) \/ ~Active(t)'
  PROVE  vfs_ops' >= Cardinality(ActiveThreads')
<1>1. ActiveThreads' \subseteq ActiveThreads
  BY DEF ActiveThreads, Active
<1>2. ActiveThreads \in SUBSET Threads /\ ActiveThreads' \in SUBSET Threads
  BY DEF ActiveThreads
<1>3. Cardinality(ActiveThreads') =< Cardinality(ActiveThreads)
  BY <1>1, <1>2, ThreadSets
<1>4. Cardinality(ActiveThreads') \in Nat /\ Cardinality(ActiveThreads) \in Nat
  BY <1>2, ThreadSets
<1>5. vfs_ops >= Cardinality(ActiveThreads)
  BY DEF CountFacts
<1> QED
  BY <1>3, <1>4, <1>5, SMTT(30)

(* Steps within a call and within vfs_deinit keep the count. *)
LEMMA StepCount ==
  ASSUME TypeOK, CountFacts, NEW t \in Threads, Step(t), ~vfs_end_op(t)
  PROVE  CountFacts'
<1>1. vfs_ops \in Nat /\ vfs_ops' = vfs_ops /\ vfs_usable' = vfs_usable
      /\ \A u \in Threads \ {t} : pc'[u] = pc[u]
  BY StepCounts DEF TypeOK
<1>2. CASE Active(t) /\ pc'[t] \notin HaltLocations /\ unmount_sem' = unmount_sem
  <2>1. vfs_ops' >= Cardinality(ActiveThreads')
    BY <1>1, <1>2, CountKept
  <2> QED
    BY <1>1, <1>2, <2>1 DEF CountFacts, Halting
<1>3. CASE DeinitWait(t)
  <2>1. pc'[t] = "halt op" /\ pc[t] = "halt wait" /\ unmount_sem # 0
    <3>1. pc'[t] = "halt op" /\ pc[t] = "halt wait"
      BY <1>3 DEF DeinitWait, Goto, TypeOK
    <3>2. unmount_sem > 0
      BY <1>3 DEF DeinitWait
    <3>3. unmount_sem \in 0 .. 1
      BY DEF TypeOK
    <3>4. unmount_sem # 0
      BY <3>2, <3>3, SMTT(30)
    <3> QED
      BY <3>1, <3>4
  <2>2. vfs_ops' >= Cardinality(ActiveThreads')
    <3>1. ~Active(t)'
      BY <2>1 DEF Active, HaltLocations
    <3> QED
      BY <1>1, <3>1, CountKept
  <2>3. ~vfs_usable
    BY <2>1 DEF CountFacts, Halting, HaltLocations
  <2> QED
    BY <1>1, <2>1, <2>2, <2>3 DEF CountFacts
<1>4. CASE pc[t] \in HaltLocations \ {"halt wait"} /\ pc'[t] \in HaltLocations
           /\ unmount_sem' = unmount_sem
  <2>1. vfs_ops' >= Cardinality(ActiveThreads')
    <3>1. ~Active(t)'
      BY <1>4 DEF Active
    <3> QED
      BY <1>1, <3>1, CountKept
  <2>2. ~vfs_usable /\ vfs_ops = 0
    BY <1>4 DEF CountFacts, Halting
  <2> QED
    BY <1>1, <1>4, <2>1, <2>2 DEF CountFacts
<1> QED
  BY <1>2, <1>3, <1>4, StepCounts

(* vfs_start_op counts the operation it starts; nobody is halting. *)
LEMMA StartCount ==
  ASSUME TypeOK, CountFacts, NEW t \in Threads, Start(t)
  PROVE  CountFacts'
<1>1. PICK l \in {"idle", "end", "mount", "unmount", "open", "close", "seek", "read", "volume"} :
        /\ pc[t] = "idle" /\ vfs_usable /\ vfs_usable' = vfs_usable /\ unmount_sem' = unmount_sem
        /\ vfs_ops' = vfs_ops + 1 /\ Goto(t, l)
  BY DEF Start, StartMount, StartUnmount, StartOpen, StartClose, StartSeek, StartRead,
         StartVolumeOp, vfs_start_op
<1>2. \A u \in Threads : pc'[u] = IF u = t THEN l ELSE pc[u]
  BY <1>1 DEF Goto, TypeOK
<1>3. ActiveThreads \in SUBSET Threads /\ ActiveThreads' \in SUBSET Threads
      /\ ActiveThreads \cup {t} \in SUBSET Threads
  BY DEF ActiveThreads
<1>4. ActiveThreads' \subseteq ActiveThreads \cup {t} /\ t \notin ActiveThreads
  BY <1>1, <1>2 DEF ActiveThreads, Active
<1>5. Cardinality(ActiveThreads \cup {t}) = Cardinality(ActiveThreads) + 1
  BY <1>3, <1>4, ThreadSets
<1>6. Cardinality(ActiveThreads') =< Cardinality(ActiveThreads \cup {t})
  BY <1>3, <1>4, ThreadSets
<1>7. Cardinality(ActiveThreads) \in Nat /\ Cardinality(ActiveThreads') \in Nat /\ vfs_ops \in Nat
  BY <1>3, ThreadSets DEF TypeOK
<1>8. vfs_ops >= Cardinality(ActiveThreads)
  BY DEF CountFacts
<1>9. vfs_ops' >= Cardinality(ActiveThreads')
  BY <1>1, <1>5, <1>6, <1>7, <1>8, SMTT(30)
<1>10. ~Halting'
  BY <1>1, <1>2 DEF CountFacts, Halting, HaltLocations
<1> QED
  BY <1>1, <1>9, <1>10 DEF CountFacts, Halting, HaltLocations

(* vfs_end_op: the operation was counted, so vfs_ops stays natural, and    *)
(* nobody had been told that the count is zero.                            *)
LEMMA EndOp ==
  ASSUME TypeOK, CountFacts, NEW t \in Threads, vfs_end_op(t)
  PROVE  TypeOK' /\ CountFacts'
<1>1. \A u \in Threads : pc'[u] = IF u = t THEN "idle" ELSE pc[u]
  BY DEF vfs_end_op, Goto, TypeOK
<1>2. ActiveThreads \in SUBSET Threads
  BY DEF ActiveThreads
<1>3. t \in ActiveThreads /\ ActiveThreads' = ActiveThreads \ {t}
  BY <1>1 DEF ActiveThreads, Active, HaltLocations, vfs_end_op
<1>4. Cardinality(ActiveThreads') = Cardinality(ActiveThreads) - 1 /\ Cardinality(ActiveThreads) > 0
      /\ Cardinality(ActiveThreads) \in Nat
  BY <1>2, <1>3, ThreadSets
<1>5. vfs_ops \in Nat /\ vfs_ops >= Cardinality(ActiveThreads) /\ vfs_ops' = vfs_ops - 1
  BY DEF vfs_end_op, TypeOK, CountFacts
<1>6. vfs_ops # 0 /\ vfs_ops' \in Nat /\ vfs_ops' >= Cardinality(ActiveThreads')
  BY <1>4, <1>5, SMTT(30)
<1>7. unmount_sem = 0
  BY <1>6 DEF CountFacts
<1>8. unmount_sem' = IF ~vfs_usable /\ vfs_ops' = 0 THEN 1 ELSE 0
  BY <1>7, SMTT(30) DEF vfs_end_op
<1>9. TypeOK'
  <2>1. pc' \in [Threads -> Locations]
    BY DEF vfs_end_op, Goto, TypeOK, Locations
  <2>2. unmount_sem' \in 0 .. 1
    BY <1>8, SMTT(30)
  <2> QED
    BY <1>6, <2>1, <2>2 DEF vfs_end_op, TypeOK, sems, tables, locals
<1>10. \A u \in Threads : pc'[u] \in HaltLocations => pc[u] \in HaltLocations /\ pc'[u] = pc[u]
  BY <1>1 DEF HaltLocations
<1>11. vfs_usable' = vfs_usable
  BY DEF vfs_end_op
<1> QED
  BY <1>6, <1>8, <1>9, <1>10, <1>11 DEF CountFacts, Halting

(* vfs_deinit goes on without waiting only when the count is zero. *)
LEMMA HaltCount ==
  ASSUME TypeOK, CountFacts, NEW t \in Threads, Halt(t)
  PROVE  CountFacts'
<1>1. vfs_ops \in Nat /\ vfs_ops' = vfs_ops /\ ~vfs_usable' /\ unmount_sem' = unmount_sem
      /\ pc[t] = "idle" /\ ~Halting
  BY DEF Halt, vfs_deinit, TypeOK
<1>2. \A u \in Threads \ {t} : pc'[u] = pc[u]
  BY DEF Halt, vfs_deinit, Goto, TypeOK
<1>3. pc'[t] = "halt wait" \/ (pc'[t] = "halt table" /\ ~(vfs_ops > 0))
  BY DEF Halt, vfs_deinit, Goto, TypeOK
<1>4. vfs_ops' >= Cardinality(ActiveThreads')
  <2>1. ~Active(t)'
    BY <1>3 DEF Active, HaltLocations
  <2> QED
    BY <1>1, <1>2, <2>1, CountKept
<1>5. \A u \in Threads : pc'[u] \in HaltLocations \ {"halt wait"} => vfs_ops' = 0
  <2>1. \A u \in Threads \ {t} : pc'[u] \notin HaltLocations
    BY <1>1, <1>2 DEF Halting
  <2>2. vfs_ops \in Nat /\ vfs_ops' = vfs_ops
    BY <1>1
  <2>3. pc'[t] # "halt wait" => ~(vfs_ops > 0)
    BY <1>3
  <2>4. vfs_ops > 0 \/ vfs_ops' = 0
    BY <2>2, SMTT(30)
  <2> QED
    BY <2>1, <2>3, <2>4
<1> QED
  BY <1>1, <1>4, <1>5 DEF CountFacts

(* A table is only given back by its holder and only taken when free. *)
LEMMA LockInv ==
  ASSUME TypeOK, LockFacts, NEW t \in Threads, Step(t)
  PROVE  LockFacts'
<1>0. None \notin Threads /\ pc \in [Threads -> Locations]
  BY NoneAssumption DEF TypeOK
<1> USE DEF Goto, Leave, sems, LockFacts, TableHolders, FilesHolders
<1>1. CASE vfs_mount(t) \/ FsOpen(t) \/ FsOpenFails(t) \/ vfs_end_op(t)
  BY <1>0, <1>1 DEF vfs_mount, FsOpen, FsOpenFails, vfs_end_op
<1>2. CASE vfs_unmount(t)
  BY <1>0, <1>2 DEF vfs_unmount, LookUp
<1>10. CASE VolumeOp(t)
  BY <1>0, <1>10 DEF VolumeOp, LookUp
<1>3. CASE UnmountFiles(t)
  BY <1>0, <1>3 DEF UnmountFiles
<1>4. CASE FsUnmount(t) \/ FsVolumeOp(t)
  BY <1>0, <1>4 DEF FsUnmount, FsVolumeOp
<1>5. CASE vfs_open(t)
  BY <1>0, <1>5 DEF vfs_open
<1>11. CASE OpenFiles(t)
  <2>1. table_sem = t /\ openfile_sem = None /\ openfile_sem' = None
    BY <1>11 DEF OpenFiles
  <2>2. pc'[t] \in {"end", "fs open"} /\ \A u \in Threads \ {t} : pc'[u] = pc[u]
    BY <1>0, <1>11 DEF OpenFiles
  <2> QED
    BY <1>0, <2>1, <2>2
<1>6. CASE vfs_close(t) \/ FsClose(t)
  BY <1>0, <1>6 DEF vfs_close, FsClose
<1>7. CASE vfs_seek(t) \/ vfs_verify_open(t) \/ vfs_read(t) \/ FsRead(t) \/ Advance(t)
  BY <1>0, <1>7 DEF vfs_seek, vfs_verify_open, vfs_read, FsRead, Advance
<1>8. CASE DeinitWait(t) \/ DeinitOp(t)
  BY <1>0, <1>8 DEF DeinitWait, DeinitOp
<1>12. CASE DeinitTable(t)
  BY <1>0, <1>12 DEF DeinitTable
<1>13. CASE DeinitFiles(t)
  BY <1>0, <1>13 DEF DeinitFiles
<1>9. CASE DeinitUnmount(t) \/ DeinitDone(t)
  BY <1>0, <1>9 DEF DeinitUnmount, DeinitDone
<1> QED
  BY <1>1, <1>2, <1>3, <1>4, <1>5, <1>6, <1>7, <1>8, <1>9, <1>10, <1>11, <1>12,
     <1>13 DEF Step

(* A call that starts holds no table and touches none; its arguments are   *)
(* in place.                                                               *)
LEMMA StartFacts ==
  ASSUME IInv, NEW t \in Threads, Start(t) \/ Halt(t)
  PROVE  LockFacts' /\ CallFacts' /\ OpenFilesMounted'
<1>1. /\ pc[t] = "idle"
      /\ UNCHANGED <<sems, tables, fs>>
      /\ \A u \in Threads \ {t} : pc'[u] = pc[u] /\ name'[u] = name[u] /\ file'[u] = file[u]
      /\ \/ pc'[t] \in {"idle", "end", "mount", "unmount", "open", "volume", "halt wait", "halt table"}
         \/ pc'[t] \in {"close", "seek", "read"} /\ file'[t] \in Files
  <2>1. CASE Start(t)
    <3>1. CallerFiles(t) \subseteq Files
      <4>1. \A u \in Threads : handles[u] \subseteq Files
        BY DEF IInv, TypeOK
      <4>2. UNION {handles[u] : u \in Threads} \subseteq Files
        BY <4>1
      <4> QED
        BY <4>1, <4>2 DEF CallerFiles
    <3>2. CASE StartClose(t) \/ StartRead(t) \/ StartSeek(t)
      BY <3>1, <3>2 DEF StartClose, StartRead, StartSeek, vfs_start_op, Goto, IInv, TypeOK
    <3>3. CASE StartMount(t) \/ StartUnmount(t) \/ StartOpen(t) \/ StartVolumeOp(t)
      BY <3>3 DEF StartMount, StartUnmount, StartOpen, StartVolumeOp, vfs_start_op, Goto, IInv, TypeOK
    <3> QED
      BY <2>1, <3>2, <3>3 DEF Start
  <2>2. CASE Halt(t)
    BY <2>2 DEF Halt, vfs_deinit, Goto, IInv, TypeOK, locals
  <2> QED
    BY <2>1, <2>2
<1>2. UNCHANGED <<table_sem, openfile_sem, mounted, mountpoint, open, fs>>
  BY <1>1 DEF sems, tables
<1>3. LockFacts'
  BY <1>1, <1>2 DEF IInv, LockFacts, TableHolders, FilesHolders
<1>4. \A v : vfs_get_filesystem(v)' = vfs_get_filesystem(v)
  BY <1>2 DEF vfs_get_filesystem, RowsOf
<1>5. CallFacts'
  BY <1>1, <1>2, <1>4 DEF IInv, CallFacts
<1>6. OpenFilesMounted'
  BY <1>1, <1>2 DEF IInv, OpenFilesMounted, IsMounted
<1> QED
  BY <1>3, <1>5, <1>6

(* A step of a call changes no local variable of another. *)
LEMMA OthersFrame ==
  ASSUME TypeOK, NEW t \in Threads, Step(t), NEW u \in Threads, u # t
  PROVE  pc'[u] = pc[u] /\ name'[u] = name[u] /\ file'[u] = file[u] /\ fs'[u] = fs[u]
<1> USE DEF TypeOK, Goto, Leave, locals
<1>1. CASE vfs_mount(t) \/ FsUnmount(t) \/ FsOpen(t) \/ FsOpenFails(t) \/ FsClose(t) \/ FsVolumeOp(t)
  BY <1>1 DEF vfs_mount, FsUnmount, FsOpen, FsOpenFails, FsClose, FsVolumeOp
<1>2. CASE vfs_unmount(t) \/ VolumeOp(t)
  BY <1>2 DEF vfs_unmount, VolumeOp, LookUp
<1>3. CASE UnmountFiles(t)
  BY <1>3 DEF UnmountFiles
<1>4. CASE vfs_open(t) \/ OpenFiles(t)
  BY <1>4 DEF vfs_open, OpenFiles
<1>5. CASE vfs_close(t)
  BY <1>5 DEF vfs_close
<1>6. CASE vfs_seek(t) \/ vfs_verify_open(t) \/ vfs_read(t) \/ FsRead(t) \/ Advance(t)
  BY <1>6 DEF vfs_seek, vfs_verify_open, vfs_read, FsRead, Advance
<1>7. CASE vfs_end_op(t) \/ DeinitWait(t) \/ DeinitOp(t) \/ DeinitTable(t) \/ DeinitFiles(t)
  BY <1>7 DEF vfs_end_op, DeinitWait, DeinitOp, DeinitTable, DeinitFiles
<1>8. CASE DeinitUnmount(t) \/ DeinitDone(t)
  BY <1>8 DEF DeinitUnmount, DeinitDone
<1> QED
  BY <1>1, <1>2, <1>3, <1>4, <1>5, <1>6, <1>7, <1>8 DEF Step

(* Three steps change vfs_table, and three openfile_table. *)
LEMMA TablesFrame ==
  ASSUME NEW t \in Threads, Step(t)
  PROVE  /\ vfs_mount(t) \/ FsUnmount(t) \/ DeinitUnmount(t) \/ UNCHANGED <<mounted, mountpoint>>
         /\ OpenFiles(t) \/ FsOpenFails(t) \/ FsClose(t) \/ UNCHANGED open
<1> USE DEF tables
<1>1. CASE vfs_mount(t) \/ FsUnmount(t) \/ DeinitUnmount(t)
  BY <1>1 DEF vfs_mount, FsUnmount, DeinitUnmount
<1>2. CASE OpenFiles(t) \/ FsOpenFails(t) \/ FsClose(t)
  BY <1>2 DEF OpenFiles, FsOpenFails, FsClose
<1>3. CASE vfs_unmount(t) \/ VolumeOp(t) \/ UnmountFiles(t) \/ vfs_open(t) \/ FsOpen(t) \/ vfs_close(t)
  BY <1>3 DEF vfs_unmount, VolumeOp, LookUp, UnmountFiles, vfs_open, FsOpen, vfs_close
<1>4. CASE vfs_seek(t) \/ vfs_verify_open(t) \/ vfs_read(t) \/ FsRead(t) \/ Advance(t) \/ FsVolumeOp(t)
  BY <1>4 DEF vfs_seek, vfs_verify_open, vfs_read, FsRead, Advance, FsVolumeOp
<1>5. CASE vfs_end_op(t) \/ DeinitWait(t) \/ DeinitOp(t) \/ DeinitTable(t) \/ DeinitFiles(t) \/ DeinitDone(t)
  BY <1>5 DEF vfs_end_op, DeinitWait, DeinitOp, DeinitTable, DeinitFiles, DeinitDone
<1> QED
  BY <1>1, <1>2, <1>3, <1>4, <1>5 DEF Step

(* What the holder of a table has seen in it stays true. *)
LEMMA HolderFrame ==
  ASSUME TypeOK, LockFacts, NEW t \in Threads, Step(t), NEW u \in Threads, u # t
  PROVE  /\ table_sem = u => UNCHANGED <<mounted, mountpoint>>
         /\ openfile_sem = u => UNCHANGED open
<1>0. u # None /\ t # None
  BY NoneAssumption
<1>1. vfs_mount(t) \/ FsUnmount(t) \/ DeinitUnmount(t) => table_sem # u
  BY <1>0 DEF vfs_mount, FsUnmount, DeinitUnmount, LockFacts, TableHolders
<1>2. OpenFiles(t) \/ FsOpenFails(t) \/ FsClose(t) => openfile_sem # u
  BY <1>0 DEF OpenFiles, FsOpenFails, FsClose, LockFacts, FilesHolders
<1> QED
  BY <1>1, <1>2, TablesFrame

(* The call that takes the step has its own arguments in place after it. *)
LEMMA OwnCall ==
  ASSUME TypeOK, CallFacts, LockFacts, NEW t \in Threads, Step(t)
  PROVE  /\ pc'[t] \in {"fs open", "close", "fs close", "seek", "read", "read fs"} => file'[t] \in Files
         /\ pc'[t] \in {"unmount files", "fs unmount"}
              => fs'[t] # None /\ fs'[t] = vfs_get_filesystem(name'[t])
                 /\ UNCHANGED <<mounted, mountpoint>>
         /\ pc'[t] = "fs unmount" => \A f \in Files : open'[f] # fs'[t]
<1> USE DEF TypeOK, Goto, Leave
<1>1. CASE vfs_mount(t) \/ FsUnmount(t) \/ FsOpen(t) \/ FsOpenFails(t) \/ FsClose(t) \/ FsVolumeOp(t)
  BY <1>1 DEF vfs_mount, FsUnmount, FsOpen, FsOpenFails, FsClose, FsVolumeOp
<1>2. CASE VolumeOp(t)
  BY <1>2 DEF VolumeOp, LookUp
<1>3. CASE vfs_unmount(t)
  BY <1>3 DEF vfs_unmount, LookUp, tables
<1>4. CASE UnmountFiles(t)
  BY <1>4 DEF UnmountFiles, CallFacts, tables, locals
<1>5. CASE vfs_open(t)
  BY <1>5 DEF vfs_open
<1>6. CASE OpenFiles(t)
  <2>1. CASE pc'[t] = "fs open"
    BY <1>6, <2>1, FirstFree DEF OpenFiles
  <2>2. CASE pc'[t] = "end"
    BY <2>2
  <2> QED
    BY <1>6, <2>1, <2>2 DEF OpenFiles
<1>7. CASE vfs_close(t)
  BY <1>7 DEF vfs_close, CallFacts
<1>8. CASE vfs_seek(t) \/ vfs_verify_open(t) \/ vfs_read(t) \/ FsRead(t) \/ Advance(t)
  BY <1>8 DEF vfs_seek, vfs_verify_open, vfs_read, FsRead, Advance, CallFacts, locals
<1>9. CASE vfs_end_op(t) \/ DeinitWait(t) \/ DeinitOp(t) \/ DeinitTable(t) \/ DeinitFiles(t)
  BY <1>9 DEF vfs_end_op, DeinitWait, DeinitOp, DeinitTable, DeinitFiles
<1>10. CASE DeinitUnmount(t) \/ DeinitDone(t)
  BY <1>10 DEF DeinitUnmount, DeinitDone
<1> QED
  BY <1>1, <1>2, <1>3, <1>4, <1>5, <1>6, <1>7, <1>8, <1>9, <1>10 DEF Step

(* A step keeps the arguments of every call in place. *)
LEMMA CallInv ==
  ASSUME TypeOK, CallFacts, LockFacts, NEW t \in Threads, Step(t)
  PROVE  CallFacts'
<1>2. ASSUME NEW u \in Threads, u # t
      PROVE  /\ pc'[u] \in {"fs open", "close", "fs close", "seek", "read", "read fs"} => file'[u] \in Files
             /\ pc'[u] \in {"unmount files", "fs unmount"}
                  => fs'[u] # None /\ fs'[u] = vfs_get_filesystem(name[u])'
             /\ pc'[u] = "fs unmount" => \A f \in Files : open'[f] # fs'[u]
  <2>1. pc'[u] = pc[u] /\ name'[u] = name[u] /\ file'[u] = file[u] /\ fs'[u] = fs[u]
    BY <1>2, OthersFrame
  <2>2. pc[u] \in {"unmount files", "fs unmount"} => UNCHANGED <<mounted, mountpoint>>
    BY <1>2, HolderFrame DEF LockFacts, TableHolders
  <2>3. pc[u] = "fs unmount" => UNCHANGED open
    BY <1>2, HolderFrame DEF LockFacts, FilesHolders
  <2>4. pc[u] \in {"unmount files", "fs unmount"}
          => fs'[u] # None /\ fs'[u] = vfs_get_filesystem(name[u])'
    BY <2>1, <2>2 DEF CallFacts, vfs_get_filesystem, RowsOf
  <2>5. pc[u] = "fs unmount" => \A f \in Files : open'[f] # fs'[u]
    BY <2>1, <2>3 DEF CallFacts
  <2> QED
    BY <2>1, <2>4, <2>5 DEF CallFacts
<1>3. pc'[t] \in {"unmount files", "fs unmount"}
        => fs'[t] # None /\ fs'[t] = vfs_get_filesystem(name[t])'
  BY OwnCall DEF vfs_get_filesystem, RowsOf
<1> QED
  BY <1>2, <1>3, OwnCall DEF CallFacts

(* A step keeps the filesystems of open files mounted: vfs_open enters one *)
(* that is, and the one vfs_unmount gives up has no open files.            *)
LEMMA OpenInv ==
  ASSUME TypeOK, CallFacts, LockFacts, OpenFilesMounted, NEW t \in Threads, Step(t)
  PROVE  OpenFilesMounted'
<1>1. SUFFICES ASSUME \A u \in Threads : pc'[u] \notin {"halt unmount", "halted"},
                      NEW f \in Files, open'[f] # None
               PROVE  IsMounted(open[f])'
  BY DEF OpenFilesMounted
<1>2. \A u \in Threads \ {t} : pc[u] \notin {"halt unmount", "halted"}
  BY <1>1, OthersFrame
<1>3. pc[t] \notin {"halt unmount", "halted"}
  <2>1. CASE pc[t] = "halt unmount"
    BY <1>1, <2>1 DEF Step, vfs_end_op, vfs_mount, vfs_unmount, UnmountFiles, FsUnmount, vfs_open,
       OpenFiles, FsOpen, FsOpenFails, vfs_close, FsClose, vfs_seek, vfs_verify_open, vfs_read, FsRead,
       Advance, VolumeOp, FsVolumeOp, DeinitWait, DeinitOp, DeinitTable, DeinitFiles, DeinitUnmount,
       DeinitDone, Goto, TypeOK
  <2>2. CASE pc[t] = "halted"
    BY <2>2 DEF Step, vfs_end_op, vfs_mount, vfs_unmount, UnmountFiles, FsUnmount, vfs_open,
       OpenFiles, FsOpen, FsOpenFails, vfs_close, FsClose, vfs_seek, vfs_verify_open, vfs_read, FsRead,
       Advance, VolumeOp, FsVolumeOp, DeinitWait, DeinitOp, DeinitTable, DeinitFiles, DeinitUnmount,
       DeinitDone
  <2> QED
    BY <2>1, <2>2
<1>4. \A g \in Files : open[g] # None => IsMounted(open[g])
  BY <1>2, <1>3 DEF OpenFilesMounted
<1>5. IsMounted(open'[f]) /\ (open'[f] = open[f] \/ OpenFiles(t))
  <2>1. CASE OpenFiles(t)
    <3>1. open'[f] = open[f] \/ (open'[f] = vfs_get_filesystem(name[t]))
      BY <2>1 DEF OpenFiles, TypeOK
    <3> QED
      BY <1>1, <1>4, <2>1, <3>1, LookUpMounted
  <2>2. CASE FsOpenFails(t) \/ FsClose(t)
    <3>1. open'[f] = open[f]
      BY <1>1, <2>2 DEF FsOpenFails, FsClose, TypeOK
    <3> QED
      BY <1>1, <1>4, <3>1
  <2>3. CASE UNCHANGED open
    BY <1>1, <1>4, <2>3
  <2> QED
    BY <2>1, <2>2, <2>3, TablesFrame
<1>6. PICK r \in Rows : mounted[r] = open'[f]
  BY <1>5 DEF IsMounted
<1>7. mounted'[r] = open'[f]
  <2>1. CASE vfs_mount(t)
    <3>1. FreeRows # {} => r # Min(FreeRows)
      BY <1>1, <1>6, FirstFree DEF FreeRows
    <3> QED
      BY <1>6, <2>1, <3>1 DEF vfs_mount, TypeOK
  <2>2. CASE FsUnmount(t)
    <3>1. open' = open /\ fs[t] = vfs_get_filesystem(name[t]) /\ \A g \in Files : open[g] # fs[t]
      BY <2>2 DEF FsUnmount, CallFacts
    <3>2. fs[t] # None
      BY <2>2 DEF FsUnmount, CallFacts
    <3>3. fs[t] = mounted[Min(RowsOf(name[t]))]
      BY <3>1, <3>2 DEF vfs_get_filesystem
    <3>4. r # Min(RowsOf(name[t]))
      BY <1>6, <3>1, <3>3
    <3> QED
      BY <1>6, <2>2, <3>4 DEF FsUnmount, TypeOK
  <2>3. CASE DeinitUnmount(t)
    BY <1>3, <2>3 DEF DeinitUnmount
  <2>4. CASE UNCHANGED mounted
    BY <1>6, <2>4
  <2> QED
    BY <2>1, <2>2, <2>3, <2>4, TablesFrame
<1> QED
  BY <1>7 DEF IsMounted

(* The state vfs_init leaves satisfies the invariant. *)
LEMMA InitInv == Init => IInv
<1> SUFFICES ASSUME Init PROVE IInv
  OBVIOUS
<1>1. TypeOK
  BY SMTT(30) DEF Init, TypeOK, Locations
<1>2. \A t \in Threads : pc[t] = "idle"
  BY DEF Init
<1>3. CountFacts
  <2>1. ActiveThreads = {}
    BY <1>2 DEF ActiveThreads, Active
  <2>2. Cardinality(ActiveThreads) = 0
    BY <2>1, FS_EmptySet
  <2>3. vfs_ops = 0 /\ unmount_sem = 0
    BY DEF Init
  <2>4. ~Halting
    BY <1>2 DEF Halting, HaltLocations
  <2>5. vfs_ops >= Cardinality(ActiveThreads)
    BY <2>2, <2>3, SMTT(30)
  <2> QED
    BY <2>3, <2>4, <2>5 DEF CountFacts
<1>4. LockFacts /\ CallFacts
  BY <1>2 DEF LockFacts, CallFacts, TableHolders, FilesHolders
<1>5. OpenFilesMounted
  BY DEF Init, OpenFilesMounted
<1> QED
  BY <1>1, <1>3, <1>4, <1>5 DEF IInv

(* Every step of the VFS keeps the invariant. *)
LEMMA NextInv == IInv /\ [Next]_vars => IInv'
<1> SUFFICES ASSUME IInv, [Next]_vars PROVE IInv'
  OBVIOUS
<1>0. TypeOK /\ CountFacts /\ LockFacts /\ CallFacts /\ OpenFilesMounted
  BY DEF IInv
<1>1. ASSUME NEW t \in Threads, Step(t)
      PROVE  IInv'
  <2>1. TypeOK' /\ CountFacts'
    BY <1>0, <1>1, StepType, StepCount, EndOp
  <2>2. LockFacts' /\ CallFacts' /\ OpenFilesMounted'
    BY <1>0, <1>1, LockInv, CallInv, OpenInv
  <2> QED
    BY <2>1, <2>2 DEF IInv
<1>2. ASSUME NEW t \in Threads, Start(t) \/ Halt(t)
      PROVE  IInv'
  <2>1. TypeOK' /\ CountFacts'
    BY <1>0, <1>2, StartType, StartCount, HaltType, HaltCount
  <2>2. LockFacts' /\ CallFacts' /\ OpenFilesMounted'
    BY <1>2, StartFacts
  <2> QED
    BY <2>1, <2>2 DEF IInv
<1>3. CASE UNCHANGED vars
  <2>1. UNCHANGED <<vfs_ops, vfs_usable, op_sem, table_sem, openfile_sem, unmount_sem, mounted,
                    mountpoint, open, pc, name, file, fs, handles>>
    BY <1>3 DEF vars, counts, sems, tables, locals
  <2>2. TypeOK'
    BY <1>0, <2>1 DEF TypeOK
  <2>3. CountFacts'
    <3>1. ActiveThreads' = ActiveThreads
      BY <2>1 DEF ActiveThreads, Active
    <3> QED
      BY <1>0, <2>1, <3>1 DEF CountFacts, Halting
  <2>4. LockFacts' /\ OpenFilesMounted'
    BY <1>0, <2>1 DEF LockFacts, OpenFilesMounted, IsMounted
  <2>5. CallFacts'
    BY <1>0, <2>1 DEF CallFacts, vfs_get_filesystem, RowsOf
  <2> QED
    BY <2>2, <2>3, <2>4, <2>5 DEF IInv
<1> QED
  BY <1>1, <1>2, <1>3 DEF Next, PoweredOff

(* In every reachable state the invariant holds, whatever callers do. *)
THEOREM Invariance == Spec => []IInv
BY InitInv, NextInv, PTL DEF Spec

(* A count of zero that is not below the calls under way: there are none. *)
LEMMA NoneActive ==
  ASSUME vfs_ops = 0, vfs_ops >= Cardinality(ActiveThreads)
  PROVE  ActiveThreads = {}
<1>1. ActiveThreads \in SUBSET Threads
  BY DEF ActiveThreads
<1>2. Cardinality(ActiveThreads) \in Nat /\ \A u \in ActiveThreads : Cardinality(ActiveThreads) > 0
  BY <1>1, ThreadSets
<1>3. ~(Cardinality(ActiveThreads) > 0)
  BY <1>2, SMTT(30)
<1> QED
  BY <1>2, <1>3

(* vfs.c:140, KERNEL_ASSERT(vfs_ops == 0), never fails, and the forceful   *)
(* unmount of vfs_deinit starts only when no call is under way.            *)
THEOREM HaltIsSafe == Spec => []HaltFindsIdle
<1>1. IInv => HaltFindsIdle
  <2> SUFFICES ASSUME IInv, NEW t \in Threads,
                      pc[t] \in {"halt table", "halt files", "halt unmount", "halted"}
               PROVE  vfs_ops = 0 /\ \A u \in Threads : ~Active(u)
    BY DEF HaltFindsIdle
  <2>1. vfs_ops = 0 /\ vfs_ops >= Cardinality(ActiveThreads)
    BY DEF IInv, CountFacts, HaltLocations
  <2>2. ActiveThreads = {}
    BY <2>1, NoneActive
  <2> QED
    BY <2>1, <2>2 DEF ActiveThreads
<1> QED
  BY <1>1, Invariance, PTL

(* vfs_unmount takes away no filesystem that has open files. *)
THEOREM OpenStaysMounted == Spec => []OpenFilesMounted
<1>1. IInv => OpenFilesMounted
  BY DEF IInv
<1> QED
  BY <1>1, Invariance, PTL

-----------------------------------------------------------------------------
(* Callers that pass only files they have opened and not closed. *)

(* A row of openfile_table that a thread uses is its own, and the local    *)
(* variables of its call agree with the tables.                            *)
OwnCallFacts(t) ==
  /\ pc[t] \in {"fs open", "close", "fs close"} => file[t] \notin handles[t]
  /\ pc[t] \in {"seek", "read", "read fs", "fs read"} => file[t] \in handles[t]
  /\ pc[t] \in {"fs open", "fs close", "fs read"} => fs[t] = open[file[t]]
  /\ pc[t] = "fs volume" => fs[t] # None /\ fs[t] = vfs_get_filesystem(name[t])
OwnFacts == RowsExclusive /\ \A t \in Threads : OwnCallFacts(t)

(* What a step does to the files: it takes a free one, or touches its own. *)
OwnStep(t) ==
  /\ OwnCallFacts(t)'
  /\ Uses(t)' \subseteq Uses(t) \cup FreeFiles
  /\ \A f \in Uses(t)' : open'[f] # None
  /\ \A f \in Files : open'[f] = open[f] \/ f \in Uses(t) \/ f \in FreeFiles
  /\ \A u \in Threads \ {t} : handles'[u] = handles[u]

(* A call that is at none of the places where it uses a file. *)
LEMMA OwnQuiet ==
  ASSUME TypeOK, OwnFacts, NEW t \in Threads, UNCHANGED <<open, handles>>,
         pc'[t] \notin {"fs open", "close", "fs close", "seek", "read", "read fs", "fs read", "fs volume"}
  PROVE  OwnStep(t)
<1>1. Uses(t)' = handles[t] /\ handles[t] \subseteq Uses(t)
  BY DEF Uses
<1>2. OwnCallFacts(t)'
  BY DEF OwnCallFacts
<1> QED
  BY <1>1, <1>2 DEF OwnStep, OwnFacts, RowsExclusive

(* Steps that change neither table of files, and lead to no such place. *)
LEMMA OwnQuietSteps ==
  ASSUME TypeOK, OwnFacts, NEW t \in Threads,
         \/ vfs_end_op(t) \/ vfs_mount(t) \/ vfs_unmount(t) \/ UnmountFiles(t) \/ FsUnmount(t)
         \/ vfs_open(t) \/ vfs_seek(t) \/ FsRead(t) \/ Advance(t) \/ FsVolumeOp(t)
         \/ DeinitWait(t) \/ DeinitOp(t) \/ DeinitTable(t) \/ DeinitFiles(t) \/ DeinitUnmount(t)
         \/ DeinitDone(t)
  PROVE  OwnStep(t)
<1> DEFINE Quiet == /\ UNCHANGED <<open, handles>>
                    /\ pc'[t] \notin {"fs open", "close", "fs close", "seek", "read", "read fs",
                                      "fs read", "fs volume"}
<1> USE DEF TypeOK, Goto, Leave, tables
<1>1. CASE vfs_end_op(t) \/ vfs_mount(t) \/ vfs_open(t)
  <2>1. Quiet
    BY <1>1 DEF vfs_end_op, vfs_mount, vfs_open
  <2> QED
    BY <2>1, OwnQuiet
<1>2. CASE vfs_unmount(t) \/ UnmountFiles(t) \/ FsUnmount(t)
  <2>1. Quiet
    BY <1>2 DEF vfs_unmount, LookUp, UnmountFiles, FsUnmount
  <2> QED
    BY <2>1, OwnQuiet
<1>3. CASE vfs_seek(t) \/ FsRead(t) \/ Advance(t) \/ FsVolumeOp(t)
  <2>1. Quiet
    BY <1>3 DEF vfs_seek, FsRead, Advance, FsVolumeOp
  <2> QED
    BY <2>1, OwnQuiet
<1>4. CASE DeinitWait(t) \/ DeinitOp(t) \/ DeinitTable(t) \/ DeinitFiles(t)
  <2>1. Quiet
    BY <1>4 DEF DeinitWait, DeinitOp, DeinitTable, DeinitFiles
  <2> QED
    BY <2>1, OwnQuiet
<1>5. CASE DeinitUnmount(t) \/ DeinitDone(t)
  <2>1. Quiet
    BY <1>5 DEF DeinitUnmount, DeinitDone
  <2> QED
    BY <2>1, OwnQuiet
<1> QED
  BY <1>1, <1>2, <1>3, <1>4, <1>5

(* vfs_open: the row is taken from the free ones and given back, or handed *)
(* to the caller.                                                          *)
LEMMA OwnOpen ==
  ASSUME IInv, OwnFacts, NEW t \in Threads, OpenFiles(t) \/ FsOpen(t) \/ FsOpenFails(t)
  PROVE  OwnStep(t)
<1>0. TypeOK /\ CallFacts /\ OwnCallFacts(t)
  BY DEF IInv, OwnFacts
<1> USE DEF TypeOK, Goto, Leave, tables
<1>1. CASE OpenFiles(t)
  <2>1. CASE FreeFiles = {} \/ vfs_get_filesystem(name[t]) = None
    <3>1. UNCHANGED <<open, handles>> /\ pc'[t] = "end"
      BY <1>0, <1>1, <2>1 DEF OpenFiles
    <3> QED
      BY <1>0, <3>1, OwnQuiet
  <2>2. CASE ~(FreeFiles = {} \/ vfs_get_filesystem(name[t]) = None)
    <3> DEFINE f == Min(FreeFiles)
               x == vfs_get_filesystem(name[t])
    <3>1. /\ open' = [open EXCEPT ![f] = x] /\ file' = [file EXCEPT ![t] = f]
          /\ fs' = [fs EXCEPT ![t] = x] /\ pc' = [pc EXCEPT ![t] = "fs open"]
          /\ handles' = handles
      BY <1>1, <2>2 DEF OpenFiles
    <3>2. f \in FreeFiles /\ f \in Files /\ x # None
      BY <2>2, FirstFree
    <3> HIDE DEF f, x
    <3>3. pc'[t] = "fs open" /\ file'[t] = f /\ fs'[t] = x /\ open'[f] = x
          /\ \A g \in Files : g # f => open'[g] = open[g]
      BY <1>0, <3>1, <3>2
    <3>4. f \notin Uses(t)
      BY <3>2 DEF FreeFiles, OwnFacts, RowsExclusive
    <3>5. Uses(t)' = handles[t] \cup {f} /\ handles[t] \subseteq Uses(t)
      BY <3>1, <3>3 DEF Uses
    <3>6. handles[t] \subseteq Files /\ \A g \in handles[t] : open[g] # None /\ g # f
      BY <1>0, <3>4, <3>5 DEF OwnFacts, RowsExclusive
    <3>7. OwnCallFacts(t)'
      BY <3>1, <3>3, <3>6 DEF OwnCallFacts
    <3>8. \A g \in Uses(t)' : open'[g] # None
      BY <3>2, <3>3, <3>5, <3>6
    <3> QED
      BY <3>1, <3>2, <3>3, <3>5, <3>7, <3>8 DEF OwnStep
  <2> QED
    BY <2>1, <2>2
<1>2. CASE FsOpen(t)
  <2>1. open' = open /\ pc[t] = "fs open" /\ pc'[t] = "end"
        /\ handles' = [handles EXCEPT ![t] = @ \cup {file[t]}]
    BY <1>0, <1>2 DEF FsOpen
  <2>2. Uses(t)' = Uses(t) /\ \A u \in Threads \ {t} : handles'[u] = handles[u]
    BY <1>0, <2>1 DEF Uses
  <2>3. OwnCallFacts(t)'
    BY <2>1 DEF OwnCallFacts
  <2> QED
    BY <2>1, <2>2, <2>3 DEF OwnStep, OwnFacts, RowsExclusive
<1>3. CASE FsOpenFails(t)
  <2>1. open' = [open EXCEPT ![file[t]] = None] /\ pc[t] = "fs open" /\ pc'[t] = "end"
        /\ handles' = handles
    BY <1>0, <1>3 DEF FsOpenFails
  <2>2. Uses(t)' = handles[t] /\ Uses(t) = handles[t] \cup {file[t]} /\ file[t] \notin handles[t]
    BY <1>0, <2>1 DEF Uses, OwnCallFacts
  <2>3. OwnCallFacts(t)'
    BY <2>1 DEF OwnCallFacts
  <2>4. \A f \in Files : f # file[t] => open'[f] = open[f]
    BY <1>0, <2>1
  <2>5. handles[t] \subseteq Files
    BY <1>0
  <2>6. \A f \in handles[t] : open'[f] # None
    BY <2>2, <2>4, <2>5 DEF OwnFacts, RowsExclusive
  <2> QED
    BY <2>1, <2>2, <2>3, <2>4, <2>6 DEF OwnStep
<1> QED
  BY <1>1, <1>2, <1>3

(* vfs_close frees the row the caller has given up. *)
LEMMA OwnClose ==
  ASSUME IInv, OwnFacts, NEW t \in Threads, vfs_close(t) \/ FsClose(t)
  PROVE  OwnStep(t)
<1>0. TypeOK /\ CallFacts /\ OwnCallFacts(t)
  BY DEF IInv, OwnFacts
<1> USE DEF TypeOK, Goto, Leave, tables
<1>1. CASE vfs_close(t)
  <2>1. open' = open /\ handles' = handles /\ pc[t] = "close" /\ file[t] \in Files
    BY <1>0, <1>1 DEF vfs_close, CallFacts
  <2>2. open[file[t]] # None
    BY <2>1 DEF Uses, OwnFacts, RowsExclusive
  <2>3. fs'[t] = open[file[t]] /\ pc'[t] = "fs close" /\ file'[t] = file[t]
    BY <1>0, <1>1, <2>2 DEF vfs_close
  <2>4. Uses(t)' = Uses(t)
    BY <2>1, <2>3 DEF Uses
  <2>5. OwnCallFacts(t)'
    BY <1>0, <2>1, <2>3 DEF OwnCallFacts
  <2> QED
    BY <2>1, <2>4, <2>5 DEF OwnStep, OwnFacts, RowsExclusive
<1>2. CASE FsClose(t)
  <2>1. open' = [open EXCEPT ![file[t]] = None] /\ pc[t] = "fs close" /\ pc'[t] = "end"
        /\ handles' = handles
    BY <1>0, <1>2 DEF FsClose
  <2>2. Uses(t)' = handles[t] /\ Uses(t) = handles[t] \cup {file[t]} /\ file[t] \notin handles[t]
    BY <1>0, <2>1 DEF Uses, OwnCallFacts
  <2>3. OwnCallFacts(t)'
    BY <2>1 DEF OwnCallFacts
  <2>4. \A f \in Files : f # file[t] => open'[f] = open[f]
    BY <1>0, <2>1
  <2>5. handles[t] \subseteq Files
    BY <1>0
  <2>6. \A f \in handles[t] : open'[f] # None
    BY <2>2, <2>4, <2>5 DEF OwnFacts, RowsExclusive
  <2> QED
    BY <2>1, <2>2, <2>3, <2>4, <2>6 DEF OwnStep
<1> QED
  BY <1>1, <1>2

(* vfs_read and vfs_write, and the calls about a volume, note the          *)
(* filesystem of a file of the caller, or of the volume.                   *)
LEMMA OwnRead ==
  ASSUME IInv, OwnFacts, NEW t \in Threads, vfs_verify_open(t) \/ vfs_read(t) \/ VolumeOp(t)
  PROVE  OwnStep(t)
<1>0. TypeOK /\ CallFacts /\ OwnCallFacts(t)
  BY DEF IInv, OwnFacts
<1>1. open' = open /\ handles' = handles
  BY DEF vfs_verify_open, vfs_read, VolumeOp, LookUp, tables
<1>2. pc[t] \in {"read", "read fs", "volume"}
      /\ pc'[t] \in {"idle", "read fs", "fs read", "end", "fs volume"}
  BY <1>0 DEF TypeOK, Goto, Leave, vfs_verify_open, vfs_read, VolumeOp, LookUp
<1>3. Uses(t)' = Uses(t)
  BY <1>1, <1>2 DEF Uses
<1>4. CASE vfs_verify_open(t)
  <2>1. pc'[t] = "read fs" => file'[t] = file[t] /\ pc[t] = "read"
    BY <1>0, <1>4 DEF TypeOK, Goto, Leave, vfs_verify_open, locals
  <2>2. pc'[t] \in {"idle", "read fs"}
    BY <1>0, <1>4 DEF TypeOK, Goto, Leave, vfs_verify_open
  <2>3. OwnCallFacts(t)'
    BY <1>0, <1>1, <2>1, <2>2 DEF OwnCallFacts
  <2> QED
    BY <1>1, <1>3, <2>3 DEF OwnStep, OwnFacts, RowsExclusive
<1>5. CASE vfs_read(t)
  <2>1. pc'[t] = "fs read" /\ file'[t] = file[t] /\ fs'[t] = open[file[t]] /\ pc[t] = "read fs"
    BY <1>0, <1>5 DEF TypeOK, Goto, vfs_read
  <2>2. OwnCallFacts(t)'
    BY <1>0, <1>1, <2>1 DEF OwnCallFacts
  <2> QED
    BY <1>1, <1>3, <2>2 DEF OwnStep, OwnFacts, RowsExclusive
<1>6. CASE VolumeOp(t)
  <2>1. \/ pc'[t] = "end"
        \/ /\ pc'[t] = "fs volume" /\ name'[t] = name[t] /\ UNCHANGED <<mounted, mountpoint>>
           /\ fs'[t] = vfs_get_filesystem(name[t]) /\ vfs_get_filesystem(name[t]) # None
    BY <1>0, <1>6 DEF TypeOK, Goto, Leave, VolumeOp, LookUp, tables
  <2>2. UNCHANGED <<mounted, mountpoint>> => \A v : vfs_get_filesystem(v)' = vfs_get_filesystem(v)
    BY DEF vfs_get_filesystem, RowsOf
  <2>3. OwnCallFacts(t)'
    BY <2>1, <2>2 DEF OwnCallFacts
  <2> QED
    BY <1>1, <1>3, <2>3 DEF OwnStep, OwnFacts, RowsExclusive
<1> QED
  BY <1>4, <1>5, <1>6

(* A step takes nothing from the other threads. *)
LEMMA OthersOwn ==
  ASSUME IInv, OwnFacts, NEW t \in Threads, Step(t), OwnStep(t)
  PROVE  /\ \A u \in Threads : \A f \in Uses(u)' : open'[f] # None
         /\ \A u, v \in Threads : u # v => Uses(u)' \cap Uses(v)' = {}
         /\ \A u \in Threads : OwnCallFacts(u)'
<1>0. TypeOK /\ LockFacts /\ CallFacts
  BY DEF IInv
<1>1. ASSUME NEW u \in Threads, u # t
      PROVE  /\ pc'[u] = pc[u] /\ name'[u] = name[u] /\ file'[u] = file[u] /\ fs'[u] = fs[u]
             /\ handles'[u] = handles[u]
             /\ Uses(u)' = Uses(u)
  <2>1. /\ pc'[u] = pc[u] /\ name'[u] = name[u] /\ file'[u] = file[u] /\ fs'[u] = fs[u]
        /\ handles'[u] = handles[u]
    BY <1>0, <1>1, OthersFrame DEF OwnStep
  <2> QED
    BY <2>1 DEF Uses
<1>2. ASSUME NEW u \in Threads
      PROVE  Uses(u) \subseteq Files /\ Uses(u) \cap FreeFiles = {}
  <2>1. handles[u] \subseteq Files
    BY <1>0 DEF TypeOK
  <2> QED
    BY <1>0, <2>1 DEF Uses, CallFacts, OwnFacts, RowsExclusive, FreeFiles
<1>3. ASSUME NEW u \in Threads, u # t
      PROVE  \A f \in Uses(u) : open'[f] = open[f] /\ open[f] # None
  BY <1>2, <1>3 DEF OwnStep, OwnFacts, RowsExclusive
<1>4. \A u \in Threads : \A f \in Uses(u)' : open'[f] # None
  BY <1>1, <1>3 DEF OwnStep
<1>5. ASSUME NEW u \in Threads, u # t
      PROVE  Uses(u)' \cap Uses(t)' = {}
  BY <1>1, <1>2, <1>5 DEF OwnStep, OwnFacts, RowsExclusive
<1>6. \A u, v \in Threads : u # v => Uses(u)' \cap Uses(v)' = {}
  <2> SUFFICES ASSUME NEW u \in Threads, NEW v \in Threads, u # v
               PROVE  Uses(u)' \cap Uses(v)' = {}
    OBVIOUS
  <2>1. CASE u = t \/ v = t
    BY <1>5, <2>1
  <2>2. CASE u # t /\ v # t
    BY <1>1, <2>2 DEF OwnFacts, RowsExclusive
  <2> QED
    BY <2>1, <2>2
<1>7. ASSUME NEW u \in Threads, u # t
      PROVE  OwnCallFacts(u)'
  <2>1. OwnCallFacts(u)
    BY DEF OwnFacts
  <2>2. pc[u] \in {"fs open", "fs close", "fs read"} => file[u] \in Uses(u)
    BY <2>1 DEF OwnCallFacts, Uses
  <2>3. pc[u] \in {"fs open", "fs close", "fs read"} => open'[file[u]] = open[file[u]]
    BY <1>3, <1>7, <2>2
  <2>4. pc[u] = "fs volume" => UNCHANGED <<mounted, mountpoint>>
    BY <1>0, <1>7, HolderFrame DEF LockFacts, TableHolders
  <2>5. UNCHANGED <<mounted, mountpoint>> => \A v : vfs_get_filesystem(v)' = vfs_get_filesystem(v)
    BY DEF vfs_get_filesystem, RowsOf
  <2>6. pc[u] = "fs volume" => fs'[u] # None /\ fs'[u] = vfs_get_filesystem(name[u])'
    BY <1>1, <1>7, <2>1, <2>4, <2>5 DEF OwnCallFacts
  <2> QED
    BY <1>1, <1>7, <2>1, <2>3, <2>6 DEF OwnCallFacts
<1> QED
  BY <1>4, <1>6, <1>7 DEF OwnStep

(* vfs_mount takes a name that no row has, mounted or not. *)
NamesUnique == \A r, s \in Rows : r # s => mountpoint[r] # mountpoint[s] \/ mountpoint[r] = None

(* vfs_mount keeps it so. *)
LEMMA NamesInv ==
  ASSUME TypeOK, NamesUnique, NEW t \in Threads, Step(t)
  PROVE  NamesUnique'
<1>1. CASE vfs_mount(t)
  <2>1. CASE FreeRows = {} \/ RowsOf(name[t]) # {}
    <3>1. mountpoint' = mountpoint
      BY <1>1, <2>1 DEF vfs_mount
    <3> QED
      BY <3>1 DEF NamesUnique
  <2>2. CASE ~(FreeRows = {} \/ RowsOf(name[t]) # {})
    <3>1. mountpoint' = [mountpoint EXCEPT ![Min(FreeRows)] = name[t]]
      BY <1>1, <2>2 DEF vfs_mount
    <3>2. Min(FreeRows) \in Rows /\ \A r \in Rows : mountpoint[r] # name[t]
      BY <2>2, FirstFree DEF RowsOf
    <3>3. \A r \in Rows : mountpoint'[r] = IF r = Min(FreeRows) THEN name[t] ELSE mountpoint[r]
      BY <3>1 DEF TypeOK
    <3> QED
      BY <3>2, <3>3 DEF NamesUnique
  <2> QED
    BY <2>1, <2>2
<1>2. CASE FsUnmount(t) \/ DeinitUnmount(t) \/ UNCHANGED mountpoint
  <2>1. mountpoint' = mountpoint
    BY <1>2 DEF FsUnmount, DeinitUnmount
  <2> QED
    BY <2>1 DEF NamesUnique
<1> QED
  BY <1>1, <1>2, TablesFrame

(* Every step of a call keeps files and names apart. *)
LEMMA StepOwn ==
  ASSUME IInv, OwnFacts, NEW t \in Threads, Step(t)
  PROVE  OwnFacts'
<1>0. TypeOK
  BY DEF IInv
<1>1. OwnStep(t)
  BY <1>0, OwnQuietSteps, OwnOpen, OwnClose, OwnRead DEF Step
<1>2. NamesUnique'
  BY <1>0, NamesInv DEF OwnFacts, RowsExclusive, NamesUnique
<1>3. /\ \A u \in Threads : \A f \in Uses(u)' : open'[f] # None
      /\ \A u, v \in Threads : u # v => Uses(u)' \cap Uses(v)' = {}
      /\ \A u \in Threads : OwnCallFacts(u)'
  BY <1>1, OthersOwn
<1>4. RowsExclusive'
  BY <1>2, <1>3 DEF RowsExclusive, NamesUnique
<1> QED
  BY <1>3, <1>4 DEF OwnFacts

(* A caller that passes its own files, and vfs_deinit, take none from the  *)
(* others either.                                                          *)
LEMMA StartOwn ==
  ASSUME Misuse \subseteq {"negative seek"}, IInv, OwnFacts, NEW t \in Threads, Start(t) \/ Halt(t)
  PROVE  OwnFacts'
<1>0. TypeOK /\ LockFacts
  BY DEF IInv
<1>1. CallerFiles(t) = handles[t]
  BY DEF CallerFiles
<1>2. /\ pc[t] = "idle"
      /\ UNCHANGED <<open, mounted, mountpoint, fs>>
      /\ \A u \in Threads \ {t} : pc'[u] = pc[u] /\ name'[u] = name[u] /\ file'[u] = file[u]
      /\ \/ /\ pc'[t] \in {"idle", "end", "mount", "unmount", "open", "volume", "halt wait",
                           "halt table"}
            /\ handles' = handles
         \/ pc'[t] \in {"seek", "read"} /\ file'[t] \in handles[t] /\ handles' = handles
         \/ /\ pc'[t] = "close" /\ file'[t] \in handles[t]
            /\ handles' = [u \in Threads |-> handles[u] \ {file'[t]}]
  <2>1. CASE StartClose(t)
    BY <1>0, <1>1, <2>1 DEF StartClose, vfs_start_op, Goto, TypeOK, tables
  <2>2. CASE StartRead(t)
    BY <1>0, <1>1, <2>2 DEF StartRead, vfs_start_op, Goto, TypeOK, tables
  <2>3. CASE StartSeek(t)
    BY <1>0, <1>1, <2>3 DEF StartSeek, vfs_start_op, Goto, TypeOK, tables
  <2>4. CASE StartMount(t) \/ StartUnmount(t) \/ StartOpen(t) \/ StartVolumeOp(t)
    BY <1>0, <2>4 DEF StartMount, StartUnmount, StartOpen, StartVolumeOp, vfs_start_op, Goto,
       TypeOK, tables
  <2>5. CASE Halt(t)
    BY <1>0, <2>5 DEF Halt, vfs_deinit, Goto, TypeOK, tables, locals
  <2> QED
    BY <2>1, <2>2, <2>3, <2>4, <2>5 DEF Start
<1>3. Uses(t) = handles[t]
  BY <1>2 DEF Uses
<1>4. ASSUME NEW u \in Threads, u # t
      PROVE  handles'[u] = handles[u] /\ Uses(u)' = Uses(u)
  <2>1. Uses(u) \cap handles[t] = {}
    BY <1>3, <1>4 DEF OwnFacts, RowsExclusive
  <2>2. handles[u] \subseteq Uses(u)
    BY DEF Uses
  <2>3. handles'[u] = handles[u]
    <3>1. CASE handles' = handles
      BY <3>1
    <3>2. CASE /\ file'[t] \in handles[t]
               /\ handles' = [v \in Threads |-> handles[v] \ {file'[t]}]
      <4>1. file'[t] \notin handles[u]
        BY <2>1, <2>2, <3>2
      <4>2. handles'[u] = handles[u] \ {file'[t]}
        BY <3>2
      <4> QED
        BY <4>1, <4>2
    <3> QED
      BY <1>2, <3>1, <3>2
  <2> QED
    BY <1>2, <1>4, <2>3 DEF Uses
<1>5. Uses(t)' \subseteq Uses(t) /\ OwnCallFacts(t)'
  <2>1. CASE pc'[t] = "close" /\ file'[t] \in handles[t]
             /\ handles' = [u \in Threads |-> handles[u] \ {file'[t]}]
    BY <1>3, <2>1 DEF Uses, OwnCallFacts
  <2>2. CASE /\ pc'[t] \in {"idle", "end", "mount", "unmount", "open", "volume", "halt wait",
                            "halt table"}
             /\ handles' = handles
    BY <1>3, <2>2 DEF Uses, OwnCallFacts
  <2>3. CASE pc'[t] \in {"seek", "read"} /\ file'[t] \in handles[t] /\ handles' = handles
    BY <1>3, <2>3 DEF Uses, OwnCallFacts
  <2> QED
    BY <1>2, <2>1, <2>2, <2>3
<1>6. \A v : vfs_get_filesystem(v)' = vfs_get_filesystem(v)
  BY <1>2 DEF vfs_get_filesystem, RowsOf
<1>7. ASSUME NEW u \in Threads, u # t
      PROVE  OwnCallFacts(u)'
  <2>1. OwnCallFacts(u) /\ handles'[u] = handles[u]
    BY <1>4, <1>7 DEF OwnFacts
  <2>2. /\ pc'[u] = pc[u] /\ name'[u] = name[u] /\ file'[u] = file[u] /\ fs'[u] = fs[u]
        /\ open' = open
    BY <1>2, <1>7
  <2> QED
    BY <1>6, <2>1, <2>2 DEF OwnCallFacts
<1>8. RowsExclusive'
  <2>1. \A u \in Threads : Uses(u)' \subseteq Uses(u)
    BY <1>4, <1>5
  <2> QED
    BY <1>2, <2>1 DEF OwnFacts, RowsExclusive
<1> QED
  BY <1>5, <1>7, <1>8 DEF OwnFacts

(* The invariant of callers that pass their own files. *)
LEMMA OwnInvariance ==
  ASSUME Misuse \subseteq {"negative seek"}
  PROVE  Spec => [](IInv /\ OwnFacts)
<1>1. Init => IInv /\ OwnFacts
  <2> SUFFICES ASSUME Init PROVE OwnFacts
    BY InitInv
  <2>1. \A t \in Threads : pc[t] = "idle" /\ handles[t] = {} /\ Uses(t) = {}
    BY DEF Init, Uses
  <2>2. RowsExclusive
    BY <2>1 DEF Init, RowsExclusive
  <2> QED
    BY <2>1, <2>2 DEF OwnFacts, OwnCallFacts
<1>2. IInv /\ OwnFacts /\ [Next]_vars => (IInv /\ OwnFacts)'
  <2> SUFFICES ASSUME IInv, OwnFacts, [Next]_vars PROVE OwnFacts'
    BY NextInv
  <2>1. CASE \E t \in Threads : Step(t) \/ Start(t) \/ Halt(t)
    BY <2>1, StepOwn, StartOwn
  <2>2. CASE UNCHANGED vars
    <3>1. UNCHANGED <<mounted, mountpoint, open, pc, name, file, fs, handles>>
      BY <2>2 DEF vars, tables, locals
    <3>4. \A v : vfs_get_filesystem(v)' = vfs_get_filesystem(v)
      BY <3>1 DEF vfs_get_filesystem, RowsOf
    <3>2. \A t \in Threads : Uses(t)' = Uses(t) /\ OwnCallFacts(t)'
      BY <3>1, <3>4 DEF OwnFacts, OwnCallFacts, Uses
    <3>3. RowsExclusive'
      BY <3>1, <3>2 DEF OwnFacts, RowsExclusive
    <3> QED
      BY <3>2, <3>3 DEF OwnFacts
  <2> QED
    BY <2>1, <2>2 DEF Next, PoweredOff
<1> QED
  BY <1>1, <1>2, PTL DEF Spec

(* Two calls of vfs_open never return the same row, and a volume name is   *)
(* in one row only.                                                        *)
THEOREM RowsAreExclusive ==
  ASSUME Misuse \subseteq {"negative seek"}
  PROVE  Spec => []RowsExclusive
<1>1. IInv /\ OwnFacts => RowsExclusive
  BY DEF OwnFacts
<1> QED
  BY <1>1, OwnInvariance, PTL

(* A driver is called only for a filesystem that is mounted, and stays so  *)
(* until the call returns.                                                 *)
THEOREM DriversAreMounted ==
  ASSUME Misuse \subseteq {"negative seek"}
  PROVE  Spec => []DriverCallsMounted
<1>1. IInv /\ OwnFacts => DriverCallsMounted
  <2> SUFFICES ASSUME IInv, OwnFacts, NEW t \in Threads, InDriver(t)
               PROVE  IsMounted(fs[t])
    BY DEF DriverCallsMounted
  <2>0. TypeOK /\ CallFacts /\ CountFacts /\ OpenFilesMounted /\ OwnCallFacts(t)
    BY DEF IInv, OwnFacts
  <2>1. CASE pc[t] \in {"fs volume", "fs unmount"}
    <3>1. fs[t] # None /\ fs[t] = vfs_get_filesystem(name[t])
      BY <2>0, <2>1 DEF CallFacts, OwnCallFacts
    <3> QED
      BY <2>0, <3>1, LookUpMounted
  <2>2. CASE pc[t] \in {"fs open", "fs close", "fs read"}
    <3>1. file[t] \in Uses(t) /\ fs[t] = open[file[t]]
      BY <2>0, <2>2 DEF OwnCallFacts, Uses
    <3>2. file[t] \in Files
      <4>1. CASE pc[t] \in {"fs open", "fs close"}
        BY <2>0, <4>1 DEF CallFacts
      <4>2. CASE pc[t] = "fs read"
        <5>1. file[t] \in handles[t] /\ handles[t] \subseteq Files
          BY <2>0, <4>2 DEF OwnCallFacts, TypeOK
        <5> QED
          BY <5>1
      <4> QED
        BY <2>2, <4>1, <4>2
    <3>3. open[file[t]] # None
      BY <3>1 DEF OwnFacts, RowsExclusive
    <3>4. \A u \in Threads : pc[u] \notin {"halt unmount", "halted"}
      <4> SUFFICES ASSUME NEW u \in Threads, pc[u] \in {"halt unmount", "halted"}
                   PROVE  FALSE
        OBVIOUS
      <4>1. vfs_ops = 0 /\ vfs_ops >= Cardinality(ActiveThreads)
        BY <2>0 DEF CountFacts, HaltLocations
      <4>2. t \in ActiveThreads
        BY <2>2 DEF ActiveThreads, Active, HaltLocations
      <4> QED
        BY <4>1, <4>2, NoneActive
    <3> QED
      BY <2>0, <3>1, <3>2, <3>3, <3>4 DEF OpenFilesMounted
  <2> QED
    BY <2>1, <2>2 DEF InDriver
<1> QED
  BY <1>1, OwnInvariance, PTL

-----------------------------------------------------------------------------
(* The count of operations, for callers that make no mistake at all. *)

Counted == vfs_ops = Cardinality(ActiveThreads)

(* Within a call no error return leaves the operation counted: the file it *)
(* is about is open.                                                       *)
LEMMA StepStaysActive ==
  ASSUME IInv, OwnFacts, NEW t \in Threads, Step(t), ~vfs_end_op(t), Active(t)
  PROVE  Active(t)'
<1>0. TypeOK /\ CallFacts /\ OwnCallFacts(t)
  BY DEF IInv, OwnFacts
<1>1. pc[t] \in {"close", "seek", "read"} => open[file[t]] # None
  <2>1. pc[t] \in {"close", "seek", "read"} => file[t] \in Uses(t)
    BY <1>0 DEF OwnCallFacts, Uses
  <2> QED
    BY <2>1 DEF OwnFacts, RowsExclusive
<1>2. pc'[t] # "idle"
  <2> USE DEF TypeOK, Goto, Leave
  <2>1. CASE vfs_close(t) \/ vfs_seek(t) \/ vfs_verify_open(t)
    BY <1>0, <1>1, <2>1 DEF vfs_close, vfs_seek, vfs_verify_open
  <2>2. CASE vfs_mount(t) \/ vfs_unmount(t) \/ UnmountFiles(t) \/ FsUnmount(t)
    BY <1>0, <2>2 DEF vfs_mount, vfs_unmount, LookUp, UnmountFiles, FsUnmount
  <2>3. CASE vfs_open(t) \/ OpenFiles(t) \/ FsOpen(t) \/ FsOpenFails(t) \/ FsClose(t)
    BY <1>0, <2>3 DEF vfs_open, OpenFiles, FsOpen, FsOpenFails, FsClose
  <2>4. CASE vfs_read(t) \/ FsRead(t) \/ Advance(t) \/ VolumeOp(t) \/ FsVolumeOp(t)
    BY <1>0, <2>4 DEF vfs_read, FsRead, Advance, VolumeOp, LookUp, FsVolumeOp
  <2>5. CASE DeinitWait(t) \/ DeinitOp(t) \/ DeinitTable(t) \/ DeinitFiles(t) \/ DeinitUnmount(t)
             \/ DeinitDone(t)
    BY <2>5 DEF DeinitWait, DeinitOp, DeinitTable, DeinitFiles, DeinitUnmount, DeinitDone,
       Active, HaltLocations
  <2> QED
    BY <2>1, <2>2, <2>3, <2>4, <2>5 DEF Step
<1>3. pc'[t] \notin HaltLocations
  BY <1>0, StepCounts DEF DeinitWait, Active, HaltLocations
<1> QED
  BY <1>2, <1>3 DEF Active

(* A step that moves only t changes the number of calls under way by what  *)
(* it does to t.                                                           *)
LEMMA ActiveMoves ==
  ASSUME NEW t \in Threads, \A u \in Threads \ {t} : pc'[u] = pc[u]
  PROVE  /\ Cardinality(ActiveThreads) \in Nat
         /\ (Active(t)' <=> Active(t)) => Cardinality(ActiveThreads') = Cardinality(ActiveThreads)
         /\ ~Active(t) /\ Active(t)'
              => Cardinality(ActiveThreads') = Cardinality(ActiveThreads) + 1
         /\ Active(t) /\ ~Active(t)'
              => Cardinality(ActiveThreads') = Cardinality(ActiveThreads) - 1
<1>1. \A u \in Threads \ {t} : Active(u)' <=> Active(u)
  BY DEF Active
<1>2. ActiveThreads \in SUBSET Threads
  BY DEF ActiveThreads
<1>3. (Active(t)' <=> Active(t)) => ActiveThreads' = ActiveThreads
  BY <1>1 DEF ActiveThreads
<1>4. ~Active(t) /\ Active(t)' => t \notin ActiveThreads /\ ActiveThreads' = ActiveThreads \cup {t}
  BY <1>1 DEF ActiveThreads
<1>5. Active(t) /\ ~Active(t)' => t \in ActiveThreads /\ ActiveThreads' = ActiveThreads \ {t}
  BY <1>1 DEF ActiveThreads
<1> QED
  BY <1>2, <1>3, <1>4, <1>5, ThreadSets

(* vfs_ops stays the number of the calls under way. *)
LEMMA CountedStep ==
  ASSUME Misuse = {}, IInv, OwnFacts, Counted, NEW t \in Threads, Step(t) \/ Start(t) \/ Halt(t)
  PROVE  Counted'
<1>0. TypeOK
  BY DEF IInv
<1>1. CASE vfs_end_op(t)
  <2>1. \A u \in Threads : pc'[u] = IF u = t THEN "idle" ELSE pc[u]
    BY <1>0, <1>1 DEF vfs_end_op, Goto, TypeOK
  <2>2. Active(t) /\ ~Active(t)' /\ vfs_ops' = vfs_ops - 1
    BY <1>1, <2>1 DEF vfs_end_op, Active, HaltLocations
  <2>3. Cardinality(ActiveThreads') = Cardinality(ActiveThreads) - 1
    BY <2>1, <2>2, ActiveMoves
  <2> QED
    BY <2>2, <2>3 DEF Counted
<1>2. CASE Step(t) /\ ~vfs_end_op(t)
  <2>1. vfs_ops' = vfs_ops /\ \A u \in Threads \ {t} : pc'[u] = pc[u]
    BY <1>0, <1>2, StepCounts
  <2>2. ~Active(t) => ~Active(t)'
    <3>1. CASE DeinitWait(t)
      BY <1>0, <3>1 DEF DeinitWait, Goto, TypeOK, Active, HaltLocations
    <3>2. CASE pc'[t] \in HaltLocations
      BY <3>2 DEF Active
    <3> QED
      BY <1>0, <1>2, <3>1, <3>2, StepCounts
  <2>3. Active(t) => Active(t)'
    BY <1>2, StepStaysActive
  <2>4. Cardinality(ActiveThreads') = Cardinality(ActiveThreads)
    BY <2>1, <2>2, <2>3, ActiveMoves
  <2> QED
    BY <2>1, <2>4 DEF Counted
<1>3. CASE Start(t)
  <2>1. PICK l \in {"end", "mount", "unmount", "open", "close", "seek", "read", "volume"} :
          pc[t] = "idle" /\ vfs_ops' = vfs_ops + 1 /\ Goto(t, l)
    BY <1>3 DEF Start, StartMount, StartUnmount, StartOpen, StartClose, StartSeek, StartRead,
       StartVolumeOp, vfs_start_op
  <2>2. \A u \in Threads : pc'[u] = IF u = t THEN l ELSE pc[u]
    BY <1>0, <2>1 DEF Goto, TypeOK
  <2>3. ~Active(t) /\ Active(t)'
    BY <2>1, <2>2 DEF Active, HaltLocations
  <2>4. Cardinality(ActiveThreads') = Cardinality(ActiveThreads) + 1
    BY <2>2, <2>3, ActiveMoves
  <2> QED
    BY <2>1, <2>4 DEF Counted
<1>4. CASE Halt(t)
  <2>1. vfs_ops' = vfs_ops /\ pc[t] = "idle" /\ pc'[t] \in HaltLocations
        /\ \A u \in Threads \ {t} : pc'[u] = pc[u]
    BY <1>0, <1>4 DEF Halt, vfs_deinit, Goto, TypeOK, HaltLocations
  <2>2. Cardinality(ActiveThreads') = Cardinality(ActiveThreads)
    BY <2>1, ActiveMoves DEF Active
  <2> QED
    BY <2>1, <2>2 DEF Counted
<1> QED
  BY <1>1, <1>2, <1>3, <1>4

(* "The number of active operations on VFS": when callers pass open files  *)
(* and positions that are not negative, no path through vfs.c misses its   *)
(* vfs_end_op or runs it twice.                                            *)
THEOREM OpsAreCounted ==
  ASSUME Misuse = {}
  PROVE  Spec => []OpsCounted
<1>1. Init => Counted
  <2> SUFFICES ASSUME Init PROVE Counted
    OBVIOUS
  <2>1. ActiveThreads = {} /\ vfs_ops = 0
    BY DEF Init, ActiveThreads, Active
  <2> QED
    BY <2>1, FS_EmptySet DEF Counted
<1>2. IInv /\ OwnFacts /\ Counted /\ [Next]_vars => Counted'
  <2> SUFFICES ASSUME IInv, OwnFacts, Counted, [Next]_vars PROVE Counted'
    OBVIOUS
  <2>1. CASE \E t \in Threads : Step(t) \/ Start(t) \/ Halt(t)
    BY <2>1, CountedStep
  <2>2. CASE UNCHANGED vars
    BY <2>2 DEF vars, counts, Counted, ActiveThreads, Active
  <2> QED
    BY <2>1, <2>2 DEF Next, PoweredOff
<1>3. Spec => [](IInv /\ OwnFacts)
  BY OwnInvariance
<1>4. Counted => OpsCounted
  BY DEF Counted, OpsCounted, ActiveThreads
<1> QED
  BY <1>1, <1>2, <1>3, <1>4, PTL DEF Spec
=============================================================================
