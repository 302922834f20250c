------------------------------ MODULE TFSTool -------------------------------
(***************************************************************************)
(* tfstool (util/tfstool.c), the host's program on disk images, beside the *)
(* kernel's driver: the image is the disk, used while it is not mounted.   *)
(* The tool reads and writes numbers through ntohl and htonl, so the byte  *)
(* order of the host does not show. A command computes its block writes    *)
(* and issues them in order; the host may kill it between two of them.     *)
(***************************************************************************)
EXTENDS TFS, FiniteSetsExt

CONSTANT Junk   \* what an uninitialized buffer may hold

VARIABLE host   \* the last file copied out, or the last listing

volumevars == <<tvars, host>>

-----------------------------------------------------------------------------
(* The tool's own bitmap routines. *)
ToolBits(bat, l) == {pos \in 0..l - 1 : (bat[pos \div WordBits] \div 2^(pos % WordBits)) % 2 = 1}
ToolBitmap(S) ==
  [w \in Offsets |->
     MapThenSumSet(LAMBDA j : 2^j, {j \in 0..WordBits - 1 : w * WordBits + j \in S})]

(* The bits that n calls of bitmap_findnset find, fewer if they run out. *)
ToolFind(bat, l, n) ==
  LET free == (0..l - 1) \ ToolBits(bat, l)
      nth(k) == CHOOSE b \in free : Cardinality({x \in free : x < b}) = k - 1
  IN [k \in 1..Smaller(n, Cardinality(free)) |-> nth(k)]

(* The disk after the first k of the block writes. *)
After(writes, k) ==
  LET d[i \in 0..k] == IF i = 0 THEN disk ELSE [d[i - 1] EXCEPT ![writes[i].block] = writes[i].data]
  IN d[k]

Writes(b, data) == <<[block |-> b, data |-> data]>>
Idle == UNCHANGED <<mounted, lock, buffers, pc, call, handles>>

(* A command that ends, or is killed before its write number k + 1; some   *)
(* of those moments tear the volume.                                       *)
Command(writes, tears, effect) ==
  /\ ~mounted
  /\ \/ disk' = After(writes, Len(writes)) /\ files' = effect /\ UNCHANGED <<faults, torn>>
     \/ \E k \in 0..Len(writes) - 1 :
          /\ faults < MaxFaults
          /\ faults' = faults + 1
          /\ disk' = After(writes, k)
          /\ torn' = (torn \/ k \in tears)
          /\ UNCHANGED files
  /\ Idle /\ UNCHANGED <<leaky, host>>

-----------------------------------------------------------------------------
(* tfstool_createvol writes every block of the image. *)
tfstool_createvol(volname) ==
  [b \in 0..DiskBlocks - 1 |->
     CASE b = TFS_HEADER_BLOCK -> [Zeros EXCEPT ![0] = MAGIC, ![1] = volname]
       [] b = TFS_ALLOCATION_BLOCK -> ToolBitmap(SystemBlocks)
       [] OTHER -> Zeros]

(* tfstool_write copies a host file of the given size, full of v. Blocks   *)
(* are read until the end of the file shows, so a file that fills its last *)
(* block gets one more. What the buffer holds behind the file is chance.   *)
tfstool_write(n, size, v, junk) ==
  LET md == disk[TFS_DIRECTORY_BLOCK]
      free == {s \in Slots : EntryInode(md, s) = 0}
      index == CHOOSE s \in free : \A r \in free : s <= r
      need == IF size >= TFS_MAX_FILESIZE THEN TFS_BLOCKS_MAX ELSE size \div BlockSize + 1
      bits == ToolBits(disk[TFS_ALLOCATION_BLOCK], DiskBlocks)
      found == ToolFind(disk[TFS_ALLOCATION_BLOCK], DiskBlocks, need + 1)
      Data(i) == [k \in Offsets |-> IF BlockSize * (i - 1) + k < size THEN v ELSE junk]
      data == IF found = <<>> THEN <<>>
              ELSE [i \in 1..Len(found) - 1 |-> [block |-> found[i + 1], data |-> Data(i)]]
      inode == [k \in Offsets |-> IF k = 0 THEN size ELSE IF k <= need THEN found[k + 1] ELSE 0]
      done == data \o Writes(found[1], inode)
                   \o Writes(TFS_DIRECTORY_BLOCK, SetEntry(md, index, found[1], n))
                   \o Writes(TFS_ALLOCATION_BLOCK,
                             ToolBitmap(bits \cup {found[i] : i \in DOMAIN found}))
      fits == Len(found) = need + 1 /\ size <= TFS_MAX_FILESIZE
  IN /\ free # {}
     /\ \A s \in Slots : EntryName(md, s) # n
     /\ IF Len(found) > 0 /\ fits
        THEN Command(done, {Len(done) - 1}, [files EXCEPT ![n] = [k \in 1..size |-> v]])
        ELSE Command(data, {}, files)

(* tfstool_read copies the file out, block by block. *)
tfstool_read(n) ==
  LET md == disk[TFS_DIRECTORY_BLOCK]
      found == {s \in Slots : EntryName(md, s) = n}
      s == CHOOSE s \in found : \A r \in found : s <= r
      inode == disk[EntryInode(md, s)]
      blocks == InodeBlocks(inode)
      count == Smaller(InodeSize(inode), BlockSize * Len(blocks))
  IN /\ ~mounted /\ found # {}
     /\ host' = [name |-> n,
                 data |-> [k \in 1..count |->
                             disk[blocks[(k - 1) \div BlockSize + 1]][(k - 1) % BlockSize]],
                 list |-> {}]
     /\ Idle /\ UNCHANGED <<disk, faults, history>>

(* tfstool_list shows the size and the blocks of every file. *)
tfstool_list ==
  LET md == disk[TFS_DIRECTORY_BLOCK]
      line(s) == LET inode == disk[EntryInode(md, s)]
                 IN <<EntryName(md, s), InodeSize(inode), InodeBlocks(inode)>>
  IN /\ ~mounted
     /\ host' = [name |-> 0, data |-> NoFile,
                 list |-> {line(s) : s \in {r \in Slots : EntryInode(md, r) > 0}}]
     /\ Idle /\ UNCHANGED <<disk, faults, history>>

(* tfstool_delete. *)
tfstool_delete(n) ==
  LET md == disk[TFS_DIRECTORY_BLOCK]
      found == {s \in Slots : EntryName(md, s) = n}
      s == CHOOSE s \in found : \A r \in found : s <= r
      inode == EntryInode(md, s)
      blocks == InodeBlocks(disk[inode])
      bits == ToolBits(disk[TFS_ALLOCATION_BLOCK], DiskBlocks)
      left == bits \ ({inode} \cup {blocks[i] : i \in DOMAIN blocks})
  IN /\ found # {}
     /\ Command(Writes(TFS_ALLOCATION_BLOCK, ToolBitmap(left))
                  \o Writes(TFS_DIRECTORY_BLOCK, SetEntry(md, s, 0, 0)),
                {1}, [files EXCEPT ![n] = NoFile])

-----------------------------------------------------------------------------
VolumeInit ==
  /\ disk = tfstool_createvol(1)
  /\ mounted = FALSE /\ lock = 0
  /\ buffer_md = Zeros /\ buffer_bat = Zeros /\ buffer_inode = Zeros
  /\ pc = [t \in Threads |-> "idle"]
  /\ call = [t \in Threads |-> NoCall]
  /\ handles = [h \in Handles |-> Closed]
  /\ faults = 0
  /\ files = [n \in Names |-> NoFile]
  /\ torn = FALSE /\ leaky = FALSE
  /\ host = [name |-> 0, data |-> NoFile, list |-> {}]

VolumeNext ==
  \/ Driver /\ UNCHANGED host
  \/ \E n \in Names, size \in Sizes, v \in Values, junk \in Junk :
       tfstool_write(n, size, v, junk)
  \/ \E n \in Names : tfstool_read(n) \/ tfstool_delete(n)
  \/ tfstool_list

VolumeSpec == VolumeInit /\ [][VolumeNext]_volumevars

-----------------------------------------------------------------------------
(* What the driver answers, and what tfstool_read copies out and           *)
(* tfstool_list shows, is what the files hold, whichever of the two wrote  *)
(* them.                                                                   *)
AnswersTrue ==
  [][/\ DriverAnswers
     /\ ~torn => /\ \A n \in Names : tfstool_read(n) => host'.data = files[n]
                 /\ tfstool_list =>
                      {<<l[1], l[2]>> : l \in host'.list} =
                      {<<n, Len(files[n])>> : n \in {m \in Names : files[m] # NoFile}}]_volumevars
=============================================================================
