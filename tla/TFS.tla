-------------------------------- MODULE TFS ---------------------------------
(***************************************************************************)
(* The trivial file system (fs/tfs.c): the kernel's driver of one volume.  *)
(*                                                                         *)
(* Threads call the driver through VFS; tfs->lock admits one operation at  *)
(* a time, and the operations share three buffers. A step of an operation  *)
(* ends at its next disk request; a request may fail, and the machine may  *)
(* stop between two requests, which keeps the disk and loses the rest.     *)
(* tfstool (module TFSTool) works on the same disk while it is not         *)
(* mounted.                                                                *)
(***************************************************************************)
EXTENDS TFSVolume

CONSTANTS
  Threads,      \* callers
  Handles,      \* rows of the table of open files that VFS keeps
  StartBlock,   \* the first block of the volume
  Sizes,        \* sizes asked of tfs_create
  Offs, Lens,   \* offsets and lengths asked of tfs_read and tfs_write
  Values,       \* words that are written
  RemoveOpen,   \* TRUE if callers remove files that are open
  MaxFaults     \* bound on failed requests and crashes

VARIABLES
  disk,         \* the blocks of the disk
  mounted,      \* between tfs_init and tfs_unmount
  lock,         \* the value of the semaphore tfs->lock
  buffer_md, buffer_bat, buffer_inode,
  pc,           \* per thread: "idle", or the request it waits for
  call,         \* per thread: arguments, locals and result of its last call
  handles,      \* per handle: Closed, or the file's name and fileid
  faults,       \* failed requests and crashes so far
  files,        \* history: what the files should hold
  torn,         \* history: an interrupted operation left the volume unsound
  leaky         \* history: an interrupted tfs_create kept blocks

buffers == <<buffer_md, buffer_bat, buffer_inode>>
history == <<files, torn, leaky>>
tvars == <<disk, mounted, lock, buffer_md, buffer_bat, buffer_inode, pc, call, handles,
           faults, files, torn, leaky>>

Smaller(a, b) == IF a <= b THEN a ELSE b

Closed == [name |-> 0, id |-> 0]
NoCall == [op |-> "none", name |-> 0, size |-> 0, handle |-> "none", id |-> 0, off |-> 0,
           len |-> 0, value |-> 0, index |-> -1, i |-> 0, done |-> 0, out |-> <<>>,
           ret |-> "none"]

totalblocks == Smaller(DiskBlocks, WordBits * BlockSize)

(* Mutant: the last, partial, block is forgotten. *)
WholeBlocks(size) == size \div BlockSize

numblocks(size) == (size + BlockSize - 1) \div BlockSize

(* A number of the volume, as the code reads it from a buffer. *)
Number(w) == from_big_endian32(Load(w))

-----------------------------------------------------------------------------
(* Disk requests. *)

(* The block of the request that thread t waits for. *)
Block(t) ==
  StartBlock +
  CASE pc[t] \in {"open dir", "create dir", "create put dir", "remove dir", "remove put dir",
                  "filecount dir", "file dir"} -> TFS_DIRECTORY_BLOCK
    [] pc[t] \in {"create bat", "create put bat", "remove bat", "remove put bat",
                  "getfree bat"} -> TFS_ALLOCATION_BLOCK
    [] pc[t] \in {"create put inode", "remove inode"} ->
         Number(EntryInode(buffer_md, call[t].index))
    [] pc[t] \in {"read inode", "write inode"} -> call[t].id
    [] pc[t] \in {"create zero", "read data", "write load", "write put"} ->
         Number(InodeBlock(buffer_inode, call[t].i))

Requests(t) == pc[t] # "idle"

(* No call of another thread works on row h: vfs.c holds the table's lock. *)
Unused(h) == \A u \in Threads : Requests(u) => call[u].handle # h

OnDisk(t) == Block(t) \in 0..DiskBlocks - 1
Got(t) == disk[Block(t)]
Put(t, block) == disk' = [disk EXCEPT ![Block(t)] = block]

(* semaphore_P(tfs->lock), and the first request. *)
Enter(t, to, c) ==
  /\ mounted /\ pc[t] = "idle" /\ lock > 0
  /\ lock' = lock - 1
  /\ pc' = [pc EXCEPT ![t] = to]
  /\ call' = [call EXCEPT ![t] = c]
  /\ UNCHANGED <<disk, mounted, buffers, handles, faults, history>>

(* The next request of the operation. *)
Go(t, to, c) ==
  /\ pc' = [pc EXCEPT ![t] = to]
  /\ call' = [call EXCEPT ![t] = c]
  /\ UNCHANGED <<mounted, lock, faults>>

(* semaphore_V(tfs->lock), and the result. *)
GiveBack(t, c, result) ==
  /\ lock' = lock + 1
  /\ pc' = [pc EXCEPT ![t] = "idle"]
  /\ call' = [call EXCEPT ![t] = [c EXCEPT !.ret = result]]

Leave(t, c, result) == GiveBack(t, c, result) /\ UNCHANGED <<mounted, faults>>

Error(t) == Leave(t, call[t], "VFS_ERROR")

(* What it means for the volume that thread t's operation ends at the      *)
(* request it waits for: entries without their inode, or with blocks that  *)
(* are free, and blocks that no entry leads to. A file whose blocks are    *)
(* half written holds what they say.                                       *)
CutShort(S) ==
  LET tears == \E t \in S : pc[t] \in {"create put inode", "remove put dir"}
      leaks == \E t \in S : pc[t] = "create put dir"
      hit(n) == \E t \in S : pc[t] \in {"create zero", "write load", "write put"} /\ call[t].name = n
  IN /\ torn' = (torn \/ tears)
     /\ leaky' = (leaky \/ leaks)
     /\ files' = [n \in Names |-> IF hit(n) THEN Contents(disk, n) ELSE files[n]]

(* read_block or write_block returns 0: the device fails, or the block is  *)
(* not on the disk.  What the operation does then is up to its own error   *)
(* return, one for every request in the code: the first block of a span    *)
(* and the others are requested at different places.                       *)
Failed(t, at) ==
  /\ pc[t] = at
  /\ ~OnDisk(t) \/ faults < MaxFaults
  /\ faults' = IF OnDisk(t) THEN faults + 1 ELSE faults
  /\ CutShort({t})
  /\ UNCHANGED <<disk, mounted, buffers, handles>>

GiveUp(t) == GiveBack(t, call[t], "VFS_ERROR")
First(t) == call[t].done = 0

OpenDirFails(t) == Failed(t, "open dir") /\ GiveUp(t)

CreateDirFails(t) == Failed(t, "create dir") /\ GiveUp(t)
CreateBatFails(t) == Failed(t, "create bat") /\ GiveUp(t)
CreatePutBatFails(t) == Failed(t, "create put bat") /\ GiveUp(t)
CreatePutDirFails(t) == Failed(t, "create put dir") /\ GiveUp(t)
CreatePutInodeFails(t) == Failed(t, "create put inode") /\ GiveUp(t)
CreateZeroFails(t) == Failed(t, "create zero") /\ GiveUp(t)

RemoveDirFails(t) == Failed(t, "remove dir") /\ GiveUp(t)
RemoveBatFails(t) == Failed(t, "remove bat") /\ GiveUp(t)
RemoveInodeFails(t) == Failed(t, "remove inode") /\ GiveUp(t)
RemovePutBatFails(t) == Failed(t, "remove put bat") /\ GiveUp(t)

(* Mutant: the last error return of tfs_remove has no semaphore_V. *)
RemovePutDirFailsLocked(t) ==
  /\ Failed(t, "remove put dir")
  /\ pc' = [pc EXCEPT ![t] = "idle"]
  /\ call' = [call EXCEPT ![t].ret = "VFS_ERROR"]
  /\ UNCHANGED lock

RemovePutDirFails(t) == Failed(t, "remove put dir") /\ GiveUp(t)

ReadInodeFails(t) == Failed(t, "read inode") /\ GiveUp(t)
ReadFirstFails(t) == Failed(t, "read data") /\ First(t) /\ GiveUp(t)
ReadNextFails(t) == Failed(t, "read data") /\ ~First(t) /\ GiveUp(t)

WriteInodeFails(t) == Failed(t, "write inode") /\ GiveUp(t)
WriteLoadFirstFails(t) == Failed(t, "write load") /\ First(t) /\ GiveUp(t)
WritePutFirstFails(t) == Failed(t, "write put") /\ First(t) /\ GiveUp(t)
WriteLoadLastFails(t) == Failed(t, "write load") /\ ~First(t) /\ GiveUp(t)
WritePutNextFails(t) == Failed(t, "write put") /\ ~First(t) /\ GiveUp(t)

GetFreeBatFails(t) == Failed(t, "getfree bat") /\ GiveUp(t)
FilecountDirFails(t) == Failed(t, "filecount dir") /\ GiveUp(t)
FileDirFails(t) == Failed(t, "file dir") /\ GiveUp(t)

RequestFails(t) ==
  \/ OpenDirFails(t)
  \/ CreateDirFails(t) \/ CreateBatFails(t) \/ CreatePutBatFails(t)
  \/ CreatePutDirFails(t) \/ CreatePutInodeFails(t) \/ CreateZeroFails(t)
  \/ RemoveDirFails(t) \/ RemoveBatFails(t) \/ RemoveInodeFails(t)
  \/ RemovePutBatFails(t) \/ RemovePutDirFails(t)
  \/ ReadInodeFails(t) \/ ReadFirstFails(t) \/ ReadNextFails(t)
  \/ WriteInodeFails(t) \/ WriteLoadFirstFails(t) \/ WritePutFirstFails(t)
  \/ WriteLoadLastFails(t) \/ WritePutNextFails(t)
  \/ GetFreeBatFails(t) \/ FilecountDirFails(t) \/ FileDirFails(t)

-----------------------------------------------------------------------------
(* tfs_init: the header block must hold the magic number. *)
tfs_init ==
  /\ ~mounted
  /\ Number(disk[StartBlock + TFS_HEADER_BLOCK][0]) = MAGIC
  /\ mounted' = TRUE
  /\ lock' = 1
  /\ UNCHANGED <<disk, buffers, pc, call, handles, faults, history>>

(* tfs_unmount: VFS calls it only when no file is open and no other call   *)
(* is under way. The semaphore is destroyed.                               *)
tfs_unmount ==
  /\ mounted /\ lock > 0
  /\ \A t \in Threads : pc[t] = "idle"
  /\ \A h \in Handles : handles[h] = Closed
  /\ mounted' = FALSE
  /\ lock' = 0
  /\ UNCHANGED <<disk, buffers, pc, call, handles, faults, history>>

-----------------------------------------------------------------------------
(* tfs_open, for VFS's free row h, which then keeps the fileid. *)
tfs_open(t, n, h) ==
  /\ handles[h] = Closed
  /\ Unused(h)
  /\ Enter(t, "open dir", [NoCall EXCEPT !.op = "open", !.name = n, !.handle = h])

OpenDir(t) ==
  /\ pc[t] = "open dir" /\ OnDisk(t)
  /\ buffer_md' = Got(t)
  /\ LET found == {s \in Slots : EntryName(Got(t), s) = call[t].name}
         s == CHOOSE s \in found : \A r \in found : s <= r
     IN IF found = {}
        THEN Leave(t, call[t], "VFS_NOT_FOUND") /\ UNCHANGED handles
        ELSE LET id == Number(EntryInode(Got(t), s))
             IN /\ Leave(t, [call[t] EXCEPT !.id = id], "VFS_OK")
                /\ handles' = [handles EXCEPT ![call[t].handle] = [name |-> call[t].name, id |-> id]]
  /\ UNCHANGED <<disk, buffer_bat, buffer_inode, history>>

(* tfs_close keeps nothing; VFS frees the row. *)
tfs_close(h) ==
  /\ handles[h] # Closed
  /\ Unused(h)
  /\ handles' = [handles EXCEPT ![h] = Closed]
  /\ UNCHANGED <<disk, mounted, lock, buffers, pc, call, faults, history>>

-----------------------------------------------------------------------------
(* tfs_create. *)
tfs_create(t, n, size) ==
  LET c == [NoCall EXCEPT !.op = "create", !.name = n, !.size = size]
  IN \/ /\ numblocks(size) <= TFS_BLOCKS_MAX
        /\ Enter(t, "create dir", c)
     \/ /\ numblocks(size) > TFS_BLOCKS_MAX
        /\ mounted /\ pc[t] = "idle" /\ lock > 0
        /\ pc' = [pc EXCEPT ![t] = "idle"]
        /\ call' = [call EXCEPT ![t] = [c EXCEPT !.ret = "VFS_ERROR"]]
        /\ UNCHANGED <<disk, mounted, lock, buffers, handles, faults, history>>

(* The last free slot is taken, unless the name is in the directory. *)
CreateDir(t) ==
  /\ pc[t] = "create dir" /\ OnDisk(t)
  /\ LET free == {s \in Slots : Number(EntryInode(Got(t), s)) = 0}
         index == CHOOSE s \in free : \A r \in free : r <= s
     IN IF (\E s \in Slots : EntryName(Got(t), s) = call[t].name) \/ free = {}
        THEN Error(t) /\ buffer_md' = Got(t)
        ELSE /\ buffer_md' = SetEntry(Got(t), index, EntryInode(Got(t), index), call[t].name)
             /\ Go(t, "create bat", [call[t] EXCEPT !.index = index])
  /\ UNCHANGED <<disk, buffer_bat, buffer_inode, handles, history>>

(* The inode and the blocks are allocated in the buffers: the first bit    *)
(* found is the inode, whose number is stored without conversion.          *)
CreateAlloc(t) ==
  /\ pc[t] = "create bat" /\ OnDisk(t)
  /\ LET n == numblocks(call[t].size)
         got == FindMany(Got(t), totalblocks, n + 1)
         full == \E k \in 1..n + 1 : got.found[k] = -1
         noinode == got.found[1] = -1
         reached(k) == \A j \in 2..k : got.found[j] # -1
     IN /\ buffer_bat' = got.bitmap
        /\ buffer_md' = [buffer_md EXCEPT ![2 * call[t].index] = Store(got.found[1] % (WordMax + 1))]
        /\ buffer_inode' =
             IF noinode THEN buffer_inode
             ELSE [k \in Offsets |->
                     IF full /\ (k > n \/ ~reached(k)) THEN buffer_inode[k]
                     ELSE Store(from_big_endian32(IF k = 0 THEN call[t].size
                                                  ELSE IF k <= n THEN got.found[k + 1] % (WordMax + 1)
                                                  ELSE 0))]
        /\ IF full THEN Error(t) ELSE Go(t, "create put bat", call[t])
  /\ UNCHANGED <<disk, handles, history>>

CreatePutBat(t) ==
  /\ pc[t] = "create put bat" /\ OnDisk(t)
  /\ Put(t, buffer_bat)
  /\ Go(t, "create put dir", call[t])
  /\ UNCHANGED <<buffers, handles, history>>

CreatePutDir(t) ==
  /\ pc[t] = "create put dir" /\ OnDisk(t)
  /\ Put(t, buffer_md)
  /\ Go(t, "create put inode", call[t])
  /\ UNCHANGED <<buffers, handles, history>>

(* The file is there once its blocks are zero. *)
Created(t) == files' = [files EXCEPT ![call[t].name] = [k \in 1..call[t].size |-> 0]]

CreatePutInode(t) ==
  /\ pc[t] = "create put inode" /\ OnDisk(t)
  /\ Put(t, buffer_inode)
  /\ buffer_bat' = Zeros
  /\ IF numblocks(call[t].size) = 0
     THEN Leave(t, call[t], "VFS_OK") /\ Created(t)
     ELSE Go(t, "create zero", call[t]) /\ UNCHANGED files
  /\ UNCHANGED <<buffer_md, buffer_inode, handles, torn, leaky>>

CreateZero(t) ==
  /\ pc[t] = "create zero" /\ OnDisk(t)
  /\ Put(t, buffer_bat)
  /\ IF call[t].i + 1 = numblocks(call[t].size)
     THEN Leave(t, call[t], "VFS_OK") /\ Created(t)
     ELSE Go(t, "create zero", [call[t] EXCEPT !.i = @ + 1]) /\ UNCHANGED files
  /\ UNCHANGED <<buffers, handles, torn, leaky>>

-----------------------------------------------------------------------------
(* tfs_remove. TFS knows nothing of open files. *)
tfs_remove(t, n) ==
  /\ RemoveOpen \/ \A h \in Handles : handles[h].name # n
  /\ RemoveOpen \/ \A u \in Threads : ~(pc[u] = "open dir" /\ call[u].name = n)
  /\ Enter(t, "remove dir", [NoCall EXCEPT !.op = "remove", !.name = n])

RemoveDir(t) ==
  /\ pc[t] = "remove dir" /\ OnDisk(t)
  /\ buffer_md' = Got(t)
  /\ LET found == {s \in Slots : EntryName(Got(t), s) = call[t].name}
     IN IF found = {}
        THEN Leave(t, call[t], "VFS_NOT_FOUND")
        ELSE Go(t, "remove bat",
                [call[t] EXCEPT !.index = CHOOSE s \in found : \A r \in found : s <= r])
  /\ UNCHANGED <<disk, buffer_bat, buffer_inode, handles, history>>

RemoveBat(t) ==
  /\ pc[t] = "remove bat" /\ OnDisk(t)
  /\ buffer_bat' = Got(t)
  /\ Go(t, "remove inode", call[t])
  /\ UNCHANGED <<disk, buffer_md, buffer_inode, handles, history>>

(* The inode and the blocks it lists are freed, and the entry cleared. *)
RemoveInode(t) ==
  /\ pc[t] = "remove inode" /\ OnDisk(t)
  /\ buffer_inode' = Got(t)
  /\ LET inode == Number(EntryInode(buffer_md, call[t].index))
         blocks == InodeBlocks(Got(t))
         freed[k \in 0..Len(blocks)] ==
           IF k = 0 THEN bitmap_set(buffer_bat, inode, 0)
           ELSE bitmap_set(freed[k - 1], Number(blocks[k]), 0)
     IN buffer_bat' = freed[Len(blocks)]
  /\ buffer_md' = SetEntry(buffer_md, call[t].index, 0, 0)
  /\ Go(t, "remove put bat", call[t])
  /\ UNCHANGED <<disk, handles, history>>

RemovePutBat(t) ==
  /\ pc[t] = "remove put bat" /\ OnDisk(t)
  /\ Put(t, buffer_bat)
  /\ Go(t, "remove put dir", call[t])
  /\ UNCHANGED <<buffers, handles, history>>

RemovePutDir(t) ==
  /\ pc[t] = "remove put dir" /\ OnDisk(t)
  /\ Put(t, buffer_md)
  /\ Leave(t, call[t], "VFS_OK")
  /\ files' = [files EXCEPT ![call[t].name] = NoFile]
  /\ UNCHANGED <<buffers, handles, torn, leaky>>

-----------------------------------------------------------------------------
(* tfs_read and tfs_write, through an open file: they begin alike. *)
FileCall(t, op, h, off, len, v) ==
  LET c == [NoCall EXCEPT !.op = op, !.name = handles[h].name, !.handle = h,
              !.id = handles[h].id, !.off = off, !.len = len, !.value = v]
  IN /\ handles[h] # Closed
     /\ Unused(h)
     /\ IF c.id >= 2 /\ c.id <= totalblocks
        THEN Enter(t, IF op = "read" THEN "read inode" ELSE "write inode", c)
        ELSE /\ mounted /\ pc[t] = "idle" /\ lock > 0
             /\ call' = [call EXCEPT ![t] = [c EXCEPT !.ret = "VFS_ERROR"]]
             /\ UNCHANGED <<disk, mounted, lock, buffers, pc, handles, faults, history>>

tfs_read(t, h, off, len) == FileCall(t, "read", h, off, len, 0)
tfs_write(t, h, off, len, v) == FileCall(t, "write", h, off, len, v)

(* Mutant: every block is entered at the offset of the first. *)
FromOffset(c) == c.off % BlockSize

(* Where the words of the current block begin, and how many they are. *)
From(c) == IF c.done = 0 THEN c.off % BlockSize ELSE 0
Count(c) == Smaller(BlockSize - From(c), c.len - c.done)

(* A block that is not written whole is read first. *)
WriteNext(c) == IF Count(c) < BlockSize THEN "write load" ELSE "write put"

(* The inode is read: the span is cut at the end of the file, and the      *)
(* first block is the one of the offset.                                   *)
FileInode(t, op) ==
  /\ pc[t] = op /\ OnDisk(t)
  /\ buffer_inode' = Got(t)
  /\ LET size == Number(InodeSize(Got(t)))
         len == Smaller(call[t].len, size - call[t].off)
         c == [call[t] EXCEPT !.len = len, !.i = call[t].off \div BlockSize]
     IN IF call[t].off > size THEN Error(t)
        ELSE IF len = 0 THEN Leave(t, c, "VFS_OK")
        ELSE Go(t, IF op = "read inode" THEN "read data" ELSE WriteNext(c), c)
  /\ UNCHANGED <<disk, buffer_md, buffer_bat, handles, history>>

ReadInode(t) == FileInode(t, "read inode")

ReadData(t) ==
  /\ pc[t] = "read data" /\ OnDisk(t)
  /\ buffer_bat' = Got(t)
  /\ LET c == call[t]
         words == [k \in 1..Count(c) |-> Got(t)[From(c) + k - 1]]
         d == [c EXCEPT !.out = @ \o words, !.done = @ + Count(c), !.i = @ + 1]
     IN IF d.done = d.len THEN Leave(t, d, "VFS_OK") ELSE Go(t, "read data", d)
  /\ UNCHANGED <<disk, buffer_md, buffer_inode, handles, history>>

WriteInode(t) == FileInode(t, "write inode")

WriteLoad(t) ==
  /\ pc[t] = "write load" /\ OnDisk(t)
  /\ buffer_bat' = Got(t)
  /\ Go(t, "write put", call[t])
  /\ UNCHANGED <<disk, buffer_md, buffer_inode, handles, history>>

WritePut(t) ==
  /\ pc[t] = "write put" /\ OnDisk(t)
  /\ LET c == call[t]
         d == [c EXCEPT !.done = @ + Count(c), !.i = @ + 1]
         n == c.name
     IN /\ buffer_bat' = [k \in Offsets |-> IF k \in From(c)..From(c) + Count(c) - 1
                                            THEN c.value ELSE buffer_bat[k]]
        /\ Put(t, buffer_bat')
        /\ IF d.done = d.len
           THEN /\ Leave(t, d, "VFS_OK")
                /\ files' = [files EXCEPT ![n] =
                     [k \in DOMAIN @ |-> IF k \in c.off + 1..c.off + c.len THEN c.value ELSE @[k]]]
           ELSE Go(t, WriteNext(d), d) /\ UNCHANGED files
  /\ UNCHANGED <<buffer_md, buffer_inode, handles, torn, leaky>>

-----------------------------------------------------------------------------
(* tfs_getfree, tfs_filecount and tfs_file; the last two are only asked    *)
(* about the one directory, by a process that walks the listing.           *)
tfs_getfree(t) == Enter(t, "getfree bat", [NoCall EXCEPT !.op = "getfree"])

GetFreeBat(t) ==
  /\ pc[t] = "getfree bat" /\ OnDisk(t)
  /\ buffer_bat' = Got(t)
  /\ LET allocated == Cardinality(BitsSet(Got(t), totalblocks))
     IN Leave(t, [call[t] EXCEPT !.size = (totalblocks - allocated) * BlockSize], "VFS_OK")
  /\ UNCHANGED <<disk, buffer_md, buffer_inode, handles, history>>

tfs_filecount(t) == Enter(t, "filecount dir", [NoCall EXCEPT !.op = "filecount"])

FilecountDir(t) ==
  /\ pc[t] = "filecount dir" /\ OnDisk(t)
  /\ buffer_md' = Got(t)
  /\ LET count == Cardinality({s \in Slots : Load(EntryInode(Got(t), s)) # 0})
     IN Leave(t, [call[t] EXCEPT !.size = count], "VFS_OK")
  /\ UNCHANGED <<disk, buffer_bat, buffer_inode, handles, history>>

tfs_file(t, idx) == Enter(t, "file dir", [NoCall EXCEPT !.op = "file", !.index = idx])

FileDir(t) ==
  /\ pc[t] = "file dir" /\ OnDisk(t)
  /\ buffer_md' = Got(t)
  /\ LET taken(s) == Load(EntryInode(Got(t), s)) # 0
         hit == {s \in Slots : taken(s) /\ Cardinality({r \in 0..s - 1 : taken(r)}) = call[t].index}
     IN IF hit = {} THEN Error(t)
        ELSE Leave(t, [call[t] EXCEPT !.name = EntryName(Got(t), CHOOSE s \in hit : TRUE)], "VFS_OK")
  /\ UNCHANGED <<disk, buffer_bat, buffer_inode, handles, history>>

-----------------------------------------------------------------------------
(* The machine stops: the disk keeps the requests that were done. *)
Crash ==
  /\ mounted /\ faults < MaxFaults
  /\ faults' = faults + 1
  /\ mounted' = FALSE /\ lock' = 0
  /\ pc' = [t \in Threads |-> "idle"]
  /\ call' = [t \in Threads |-> NoCall]
  /\ handles' = [h \in Handles |-> Closed]
  /\ CutShort(Threads)
  /\ UNCHANGED <<disk, buffers>>

Driver ==
  \/ \E t \in Threads :
       \/ RequestFails(t)
       \/ \E n \in Names, h \in Handles : tfs_open(t, n, h)
       \/ OpenDir(t)
       \/ \E n \in Names, size \in Sizes : tfs_create(t, n, size)
       \/ CreateDir(t) \/ CreateAlloc(t) \/ CreatePutBat(t) \/ CreatePutDir(t)
       \/ CreatePutInode(t) \/ CreateZero(t)
       \/ \E n \in Names : tfs_remove(t, n)
       \/ RemoveDir(t) \/ RemoveBat(t) \/ RemoveInode(t) \/ RemovePutBat(t) \/ RemovePutDir(t)
       \/ \E h \in Handles, off \in Offs, len \in Lens : tfs_read(t, h, off, len)
       \/ ReadInode(t) \/ ReadData(t)
       \/ \E h \in Handles, off \in Offs, len \in Lens, v \in Values : tfs_write(t, h, off, len, v)
       \/ WriteInode(t) \/ WriteLoad(t) \/ WritePut(t)
       \/ tfs_getfree(t) \/ GetFreeBat(t)
       \/ tfs_filecount(t) \/ FilecountDir(t)
       \/ \E idx \in Slots : tfs_file(t, idx)
       \/ FileDir(t)
  \/ \E h \in Handles : tfs_close(h)
  \/ tfs_init \/ tfs_unmount \/ Crash

-----------------------------------------------------------------------------
(* No error path keeps tfs->lock: it is taken exactly while an operation   *)
(* waits for a request, so a failed call never shuts the volume.           *)
LockReleased ==
  mounted => lock = 1 - Cardinality({t \in Threads : Requests(t)})

(* Between operations the volume is sound, its allocation table marks no   *)
(* block that nobody uses, and the files hold what the calls that          *)
(* succeeded have put there: a created file zeros, a written span the      *)
(* data, and no other file is changed.  Failed requests and crashes spoil  *)
(* this at two places only: before the inode of tfs_create and before the  *)
(* directory of tfs_remove is written.  One cut before the directory of    *)
(* tfs_create is written keeps blocks.                                     *)
VolumeSound ==
  ~torn /\ (\A t \in Threads : ~Requests(t)) =>
    /\ Sound(disk)
    /\ leaky \/ Reserved(disk) = Used(disk)
    /\ \A n \in Names : Contents(disk, n) = files[n]

(* What an operation answers is true of the files at that time: the words  *)
(* read, the number of files and their names, the free space, and whether  *)
(* a file can be opened.                                                   *)
Answer(t) ==
  LET c == call'[t]
      present == {n \in Names : files[n] # NoFile}
  IN CASE c.op = "read" -> c.off <= Len(files[c.name])
                           /\ c.out = SubSeq(files[c.name], c.off + 1,
                                             Smaller(c.off + call[t].len, Len(files[c.name])))
       [] c.op = "filecount" -> c.size = Cardinality(present)
       [] c.op = "file" -> c.name \in present
       [] c.op = "getfree" -> leaky \/ c.size = BlockSize * (DiskBlocks - Cardinality(Used(disk)))
       [] c.op = "open" -> c.name \in present /\ InodeSize(disk[c.id]) = Len(files[c.name])
       [] OTHER -> TRUE

DriverAnswers ==
  \A t \in Threads :
    Requests(t) /\ pc'[t] = "idle" /\ mounted' /\ ~torn /\ ~torn' =>
      /\ call'[t].ret = "VFS_OK" => Answer(t)
      /\ call'[t].ret = "VFS_NOT_FOUND" => files[call[t].name] = NoFile

(* virtual-filesystem.rst, on the fileid of an open file: "Every file in a *)
(* filesystem must have a unique id."                                      *)
FileidsUnique ==
  \A h, k \in Handles :
    handles[h] # Closed /\ handles[k] # Closed /\ handles[h].name # handles[k].name
      => handles[h].id # handles[k].id
=============================================================================
