----------------------------- MODULE TFSProofs ------------------------------
(***************************************************************************)
(* The lock of a volume is held exactly while an operation waits for a     *)
(* request (LockReleased), for any number of threads, files and blocks,    *)
(* with requests that fail and stops of the machine at any request.        *)
(*                                                                         *)
(* LockReleased counts the threads in an operation; the strengthening      *)
(* says that there is at most one, and where it can be.                    *)
(***************************************************************************)
EXTENDS TFSTool, TLAPS, FiniteSetTheorems

(* Zenon proves the leaves, but those with arithmetic.                     *)
USE ZenonT(30)

(* The requests that operations wait for. *)
Places ==
  {"open dir", "create dir", "create bat", "create put bat", "create put dir",
   "create put inode", "create zero", "remove dir", "remove bat", "remove inode",
   "remove put bat", "remove put dir", "read inode", "read data", "write inode",
   "write load", "write put", "getfree bat", "filecount dir", "file dir"}

(* tfs->lock is a binary semaphore, and while it is taken exactly one      *)
(* thread is in an operation; nobody is in one on an unmounted volume.     *)
Free == \A t \in Threads : pc[t] = "idle"
Taken(t) == pc[t] \in Places /\ \A u \in Threads \ {t} : pc[u] = "idle"
LockInv ==
  /\ pc \in [Threads -> Places \cup {"idle"}]
  /\ mounted \in BOOLEAN
  /\ ~mounted => Free
  /\ mounted => \/ lock = 1 /\ Free
                \/ lock = 0 /\ \E t \in Threads : Taken(t)

(* "idle" is not a request. *)
LEMMA IdleNoPlace == "idle" \notin Places
BY DEF Places

(* Who is in an operation holds the lock. *)
LEMMA HolderOnly ==
  ASSUME LockInv, NEW t \in Threads, pc[t] \in Places
  PROVE  mounted /\ lock = 0 /\ Taken(t)
<1>1. ~Free
  BY IdleNoPlace DEF Free
<1>2. mounted /\ lock = 0 /\ \E u \in Threads : Taken(u)
  BY <1>1 DEF LockInv
<1>3. PICK u \in Threads : Taken(u)
  BY <1>2
<1>4. u = t
  BY <1>3, IdleNoPlace DEF Taken
<1> QED
  BY <1>2, <1>3, <1>4

(* A step of the thread that holds the lock to its next request. *)
LEMMA GoLock ==
  ASSUME LockInv, NEW t \in Threads, pc[t] \in Places, NEW to \in Places, NEW c, Go(t, to, c)
  PROVE  LockInv'
<1>1. pc' \in [Threads -> Places \cup {"idle"}] /\ pc'[t] = to
  BY DEF Go, LockInv
<1>2. \A u \in Threads \ {t} : pc'[u] = pc[u]
  BY DEF Go, LockInv
<1>3. mounted /\ lock = 0 /\ Taken(t)
  BY HolderOnly
<1> QED
  BY <1>1, <1>2, <1>3 DEF Go, LockInv, Taken

(* The end of an operation, with whatever result. *)
LEMMA LeaveLock ==
  ASSUME LockInv, NEW t \in Threads, pc[t] \in Places,
         lock' = lock + 1, pc' = [pc EXCEPT ![t] = "idle"], mounted' = mounted
  PROVE  LockInv'
<1>1. mounted /\ lock = 0 /\ Taken(t)
  BY HolderOnly
<1>2. lock' = 1
  BY <1>1, SMTT(30)
<1>3. pc' \in [Threads -> Places \cup {"idle"}] /\ pc'[t] = "idle"
  BY DEF LockInv
<1>4. \A u \in Threads \ {t} : pc'[u] = pc[u]
  BY DEF LockInv
<1>5. Free'
  BY <1>1, <1>3, <1>4 DEF Free, Taken
<1> QED
  BY <1>1, <1>2, <1>3, <1>5 DEF LockInv

(* The begin of an operation. *)
LEMMA EnterLock ==
  ASSUME LockInv, NEW t \in Threads, NEW to \in Places, NEW c, Enter(t, to, c)
  PROVE  LockInv'
<1>1. lock = 1 /\ Free
  <2>1. lock # 0
    BY SMTT(30) DEF Enter
  <2> QED
    BY <2>1 DEF Enter, LockInv
<1>2. lock' = 0
  BY <1>1, SMTT(30) DEF Enter
<1>3. pc' \in [Threads -> Places \cup {"idle"}] /\ pc'[t] = to
  BY DEF Enter, LockInv
<1>4. \A u \in Threads \ {t} : pc'[u] = pc[u]
  BY DEF Enter, LockInv
<1>5. Taken(t)'
  BY <1>1, <1>3, <1>4 DEF Taken, Free
<1> QED
  BY <1>2, <1>3, <1>5 DEF LockInv, Enter

(* A step of somebody who is in no operation. *)
LEMMA ElseLock ==
  ASSUME LockInv, UNCHANGED <<mounted, lock, pc>>
  PROVE  LockInv'
BY DEF LockInv, Free, Taken

(* A step of an operation asks for the next block, or gives the lock back. *)
Serves(t) ==
  /\ pc[t] \in Places
  /\ \/ \E to \in Places : \E c : Go(t, to, c)
     \/ \E c, r : Leave(t, c, r)

(* The steps of tfs_create. *)
LEMMA CreateServes ==
  ASSUME NEW t \in Threads,
         \/ CreateDir(t)
         \/ CreateAlloc(t)
         \/ CreatePutBat(t)
         \/ CreatePutDir(t)
         \/ CreatePutInode(t)
         \/ CreateZero(t)
  PROVE  Serves(t)
<1>1. CASE CreateDir(t)
  BY <1>1 DEF CreateDir, Places, Serves, Error
<1>2. CASE CreateAlloc(t)
  BY <1>2 DEF CreateAlloc, Places, Serves, Error
<1>3. CASE CreatePutBat(t)
  BY <1>3 DEF CreatePutBat, Places, Serves
<1>4. CASE CreatePutDir(t)
  BY <1>4 DEF CreatePutDir, Places, Serves
<1>5. CASE CreatePutInode(t)
  BY <1>5 DEF CreatePutInode, Places, Serves
<1>6. CASE CreateZero(t)
  BY <1>6 DEF CreateZero, Places, Serves
<1> QED
  BY <1>1, <1>2, <1>3, <1>4, <1>5, <1>6

(* The steps of tfs_remove. *)
LEMMA RemoveServes ==
  ASSUME NEW t \in Threads,
         \/ RemoveDir(t)
         \/ RemoveBat(t)
         \/ RemoveInode(t)
         \/ RemovePutBat(t)
         \/ RemovePutDir(t)
  PROVE  Serves(t)
<1>1. CASE RemoveDir(t)
  BY <1>1 DEF RemoveDir, Places, Serves
<1>2. CASE RemoveBat(t)
  BY <1>2 DEF RemoveBat, Places, Serves
<1>3. CASE RemoveInode(t)
  BY <1>3 DEF RemoveInode, Places, Serves
<1>4. CASE RemovePutBat(t)
  BY <1>4 DEF RemovePutBat, Places, Serves
<1>5. CASE RemovePutDir(t)
  BY <1>5 DEF RemovePutDir, Places, Serves
<1> QED
  BY <1>1, <1>2, <1>3, <1>4, <1>5

(* The steps of the other operations. *)
LEMMA OthersServe ==
  ASSUME NEW t \in Threads,
         \/ OpenDir(t)
         \/ ReadInode(t)
         \/ ReadData(t)
         \/ WriteInode(t)
         \/ WriteLoad(t)
         \/ WritePut(t)
         \/ GetFreeBat(t)
         \/ FilecountDir(t)
         \/ FileDir(t)
  PROVE  Serves(t)
<1>1. CASE OpenDir(t)
  BY <1>1 DEF OpenDir, Places, Serves
<1>2. CASE ReadInode(t)
  BY <1>2 DEF ReadInode, FileInode, Places, Serves, Error
<1>3. CASE ReadData(t)
  BY <1>3 DEF ReadData, Places, Serves
<1>4. CASE WriteInode(t)
  BY <1>4 DEF WriteInode, FileInode, WriteNext, Places, Serves, Error
<1>5. CASE WriteLoad(t)
  BY <1>5 DEF WriteLoad, Places, Serves
<1>6. CASE WritePut(t)
  BY <1>6 DEF WritePut, WriteNext, Places, Serves
<1>7. CASE GetFreeBat(t)
  BY <1>7 DEF GetFreeBat, Places, Serves
<1>8. CASE FilecountDir(t)
  BY <1>8 DEF FilecountDir, Places, Serves
<1>9. CASE FileDir(t)
  BY <1>9 DEF FileDir, Places, Serves, Error
<1> QED
  BY <1>1, <1>2, <1>3, <1>4, <1>5, <1>6, <1>7, <1>8, <1>9

(* Every error return after a failed request gives the lock back. *)
Ends(t) ==
  /\ pc[t] \in Places
  /\ lock' = lock + 1 /\ pc' = [pc EXCEPT ![t] = "idle"] /\ mounted' = mounted

(* The error returns of tfs_create and tfs_remove. *)
LEMMA ChangeFailsEnd ==
  ASSUME NEW t \in Threads,
         \/ CreateDirFails(t) \/ CreateBatFails(t) \/ CreatePutBatFails(t)
         \/ CreatePutDirFails(t) \/ CreatePutInodeFails(t) \/ CreateZeroFails(t)
         \/ RemoveDirFails(t) \/ RemoveBatFails(t) \/ RemoveInodeFails(t)
         \/ RemovePutBatFails(t) \/ RemovePutDirFails(t)
  PROVE  Ends(t)
<1>1. \E at \in Places : Failed(t, at) /\ GiveUp(t)
  BY DEF CreateDirFails, CreateBatFails, CreatePutBatFails, CreatePutDirFails,
         CreatePutInodeFails, CreateZeroFails, RemoveDirFails, RemoveBatFails,
         RemoveInodeFails, RemovePutBatFails, RemovePutDirFails, Places
<1> QED
  BY <1>1 DEF Failed, GiveUp, GiveBack, Ends

(* All error returns. *)
LEMMA FailsEnd ==
  ASSUME NEW t \in Threads, RequestFails(t)
  PROVE  Ends(t)
<1>1. \/ Ends(t)
      \/ \E at \in Places : Failed(t, at) /\ GiveUp(t)
  BY ChangeFailsEnd
  DEF RequestFails, OpenDirFails, ReadInodeFails, ReadFirstFails, ReadNextFails,
      WriteInodeFails, WriteLoadFirstFails, WritePutFirstFails, WriteLoadLastFails,
      WritePutNextFails, GetFreeBatFails, FilecountDirFails, FileDirFails, Places
<1> QED
  BY <1>1 DEF Failed, GiveUp, GiveBack, Ends

(* The begins of operations, some of which end at once. *)
LEMMA Begins ==
  ASSUME LockInv, NEW t \in Threads,
         \/ \E n \in Names, h \in Handles : tfs_open(t, n, h)
         \/ \E n \in Names, size \in Sizes : tfs_create(t, n, size)
         \/ \E n \in Names : tfs_remove(t, n)
         \/ \E h \in Handles, off \in Offs, len \in Lens : tfs_read(t, h, off, len)
         \/ \E h \in Handles, off \in Offs, len \in Lens, v \in Values :
              tfs_write(t, h, off, len, v)
         \/ tfs_getfree(t) \/ tfs_filecount(t)
         \/ \E idx \in Slots : tfs_file(t, idx)
  PROVE  LockInv'
<1>1. ASSUME NEW n, NEW h, tfs_open(t, n, h) PROVE LockInv'
  BY <1>1, EnterLock DEF tfs_open, Places
<1>2. ASSUME NEW n, NEW size, tfs_create(t, n, size) PROVE LockInv'
  <2>1. CASE \E c : Enter(t, "create dir", c)
    BY <2>1, EnterLock DEF Places
  <2>2. CASE pc[t] = "idle" /\ pc' = [pc EXCEPT ![t] = "idle"] /\ UNCHANGED <<mounted, lock>>
    <3>1. pc' = pc
      BY <2>2 DEF LockInv
    <3> QED
      BY <2>2, <3>1, ElseLock
  <2> QED
    BY <1>2, <2>1, <2>2 DEF tfs_create
<1>3. ASSUME NEW n, tfs_remove(t, n) PROVE LockInv'
  BY <1>3, EnterLock DEF tfs_remove, Places
<1>4. ASSUME NEW op \in {"read", "write"}, NEW h, NEW off, NEW len, NEW v,
             FileCall(t, op, h, off, len, v)
      PROVE  LockInv'
  <2>1. ASSUME NEW c, NEW to \in Places, Enter(t, to, c) PROVE LockInv'
    BY <2>1, EnterLock
  <2>2. (IF op = "read" THEN "read inode" ELSE "write inode") \in Places
    BY DEF Places
  <2>3. \/ \E c : Enter(t, IF op = "read" THEN "read inode" ELSE "write inode", c)
        \/ UNCHANGED <<mounted, lock, pc>>
    BY <1>4 DEF FileCall
  <2> QED
    BY <2>1, <2>2, <2>3, ElseLock
<1>5. ASSUME tfs_getfree(t) PROVE LockInv'
  BY <1>5, EnterLock DEF tfs_getfree, Places
<1>6. ASSUME tfs_filecount(t) PROVE LockInv'
  BY <1>6, EnterLock DEF tfs_filecount, Places
<1>7. ASSUME NEW idx, tfs_file(t, idx) PROVE LockInv'
  BY <1>7, EnterLock DEF tfs_file, Places
<1> QED
  BY <1>1, <1>2, <1>3, <1>4, <1>5, <1>6, <1>7 DEF tfs_read, tfs_write

(* LockInv holds in every reachable state. *)
LEMMA LockInitInv ==
  ASSUME VolumeInit PROVE LockInv
BY DEF VolumeInit, LockInv, Free

(* Every step of the driver, of the tool and of the disk keeps the         *)
(* invariant on the lock.                                                  *)
LEMMA LockNextInv ==
  ASSUME LockInv, [VolumeNext]_volumevars PROVE LockInv'
<1>1. CASE UNCHANGED volumevars
  BY <1>1, ElseLock DEF volumevars, tvars
<1>2. ASSUME NEW t \in Threads, Serves(t) PROVE LockInv'
  <2>1. ASSUME NEW to \in Places, NEW c, Go(t, to, c) PROVE LockInv'
    BY <1>2, <2>1, GoLock DEF Serves
  <2>2. ASSUME NEW c, NEW r, Leave(t, c, r) PROVE LockInv'
    BY <1>2, <2>2, LeaveLock DEF Serves, Leave, GiveBack
  <2> QED
    BY <1>2, <2>1, <2>2 DEF Serves
<1>3. ASSUME NEW t \in Threads, RequestFails(t) PROVE LockInv'
  BY <1>3, FailsEnd, LeaveLock DEF Ends
<1>4. CASE tfs_init
  BY <1>4 DEF tfs_init, LockInv, Free
<1>5. CASE tfs_unmount \/ Crash
  BY <1>5 DEF tfs_unmount, Crash, LockInv, Free
<1>6. ASSUME NEW h \in Handles, tfs_close(h) PROVE LockInv'
  BY <1>6, ElseLock DEF tfs_close
<1>7. CASE Driver
  BY <1>2, <1>3, <1>4, <1>5, <1>6, <1>7, CreateServes, RemoveServes, OthersServe, Begins DEF Driver
<1>8. ASSUME NEW n, NEW size, NEW v, NEW junk, tfstool_write(n, size, v, junk) PROVE LockInv'
  BY <1>8, ElseLock DEF tfstool_write, Command, Idle
<1>9. ASSUME NEW n, tfstool_read(n) \/ tfstool_delete(n) PROVE LockInv'
  BY <1>9, ElseLock DEF tfstool_read, tfstool_delete, Command, Idle
<1>10. CASE tfstool_list
  BY <1>10, ElseLock DEF tfstool_list, Idle
<1> QED
  BY <1>1, <1>7, <1>8, <1>9, <1>10 DEF VolumeNext

(* LockReleased: no path through the driver, and no failed request, keeps  *)
(* tfs->lock or gives it back twice.                                       *)
THEOREM LockIsReleased == VolumeSpec => []LockReleased
<1>1. ASSUME LockInv PROVE LockReleased
  <2> SUFFICES ASSUME mounted
               PROVE  lock = 1 - Cardinality({t \in Threads : Requests(t)})
    BY DEF LockReleased
  <2>1. CASE lock = 1 /\ Free
    <3>1. {t \in Threads : Requests(t)} = {}
      BY <2>1 DEF Free, Requests
    <3> QED
      BY <2>1, <3>1, FS_EmptySet, SMTT(30)
  <2>2. ASSUME lock = 0, NEW t \in Threads, Taken(t)
        PROVE  lock = 1 - Cardinality({u \in Threads : Requests(u)})
    <3>1. {u \in Threads : Requests(u)} = {t}
      BY <2>2, IdleNoPlace DEF Taken, Requests
    <3>2. Cardinality({t}) = 1
      BY FS_Singleton
    <3> QED
      BY <2>2, <3>1, <3>2, SMTT(30)
  <2> QED
    BY <1>1, <2>1, <2>2 DEF LockInv
<1> QED
  BY <1>1, LockInitInv, LockNextInv, PTL DEF VolumeSpec
=============================================================================
