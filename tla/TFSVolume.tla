----------------------------- MODULE TFSVolume ------------------------------
(***************************************************************************)
(* The layout of a volume of the trivial file system (tfs_constants.h),    *)
(* which the kernel's driver and tfstool share. A block is an array of     *)
(* words, whatever it is used for: reading a data block as an inode gives  *)
(* what those words say. A word stands for a byte of data, a number, or a  *)
(* file name (0 is the empty name); the code's block has 512 bytes.        *)
(***************************************************************************)
EXTENDS Bitmap, FiniteSets

CONSTANTS
  DiskBlocks,   \* blocks of the disk
  BlockSize,    \* words in a block: TFS_BLOCK_SIZE
  Names,        \* file names, numbers above 0
  MAGIC         \* TFS_MAGIC

TFS_HEADER_BLOCK == 0
TFS_ALLOCATION_BLOCK == 1
TFS_DIRECTORY_BLOCK == 2
SystemBlocks == {TFS_HEADER_BLOCK, TFS_ALLOCATION_BLOCK, TFS_DIRECTORY_BLOCK}

TFS_BLOCKS_MAX == BlockSize - 1
TFS_MAX_FILESIZE == BlockSize * TFS_BLOCKS_MAX
TFS_MAX_FILES == BlockSize \div 2
Slots == 0..TFS_MAX_FILES - 1

Offsets == 0..BlockSize - 1
Zeros == [k \in Offsets |-> 0]

(* A directory entry is two words, an inode is the size and the blocks.    *)
EntryInode(md, s) == md[2 * s]
EntryName(md, s) == md[2 * s + 1]
SetEntry(md, s, inode, name) == [md EXCEPT ![2 * s] = inode, ![2 * s + 1] = name]
InodeSize(inode) == inode[0]
InodeBlock(inode, i) == inode[i + 1]

(* The blocks of the inode up to the first zero, as the loops of           *)
(* tfs_remove, tfstool_read and tfstool_delete walk them.                  *)
InodeBlocks(inode) ==
  LET used == {n \in 0..TFS_BLOCKS_MAX : \A i \in 0..n - 1 : InodeBlock(inode, i) # 0}
      len == CHOOSE n \in used : \A m \in used : m <= n
  IN [i \in 1..len |-> InodeBlock(inode, i - 1)]

-----------------------------------------------------------------------------
(* What a volume holds, read by its documented format: every number on it  *)
(* is big-endian.                                                          *)
NoFile == <<-1>>

Directory(disk) == disk[TFS_DIRECTORY_BLOCK]
Entries(disk) == {s \in Slots : EntryInode(Directory(disk), s) # 0}
InodeOf(disk, s) == EntryInode(Directory(disk), s)
BlocksOf(disk, s) == InodeBlocks(disk[InodeOf(disk, s)])

(* The data of the file in slot s, in the order of its blocks. *)
DataOf(disk, s) ==
  LET inode == disk[InodeOf(disk, s)]
  IN [k \in 1..InodeSize(inode) |->
        disk[InodeBlock(inode, (k - 1) \div BlockSize)][(k - 1) % BlockSize]]

Contents(disk, n) ==
  LET found == {s \in Entries(disk) : EntryName(Directory(disk), s) = n}
  IN IF found = {} THEN NoFile ELSE DataOf(disk, CHOOSE s \in found : TRUE)

(* The blocks the files of a volume use, and the ones marked in its        *)
(* allocation table.                                                       *)
FileBlocks(disk, s) ==
  {InodeOf(disk, s)} \cup {BlocksOf(disk, s)[i] : i \in DOMAIN BlocksOf(disk, s)}
Used(disk) == SystemBlocks \cup UNION {FileBlocks(disk, s) : s \in Entries(disk)}
Reserved(disk) ==
  {b \in 0..DiskBlocks - 1 :
     (disk[TFS_ALLOCATION_BLOCK][b \div WordBits] \div 2^(b % WordBits)) % 2 = 1}

(* A volume on which every file has its own, allocated, blocks: enough for *)
(* its size, none twice, none outside the disk, none of the first three.   *)
Sound(disk) ==
  /\ disk[TFS_HEADER_BLOCK][0] = MAGIC
  /\ \A s \in Entries(disk) :
       /\ InodeOf(disk, s) \in 3..DiskBlocks - 1
       /\ EntryName(Directory(disk), s) \in Names
       /\ InodeSize(disk[InodeOf(disk, s)]) <= BlockSize * Len(BlocksOf(disk, s))
       /\ \A i \in DOMAIN BlocksOf(disk, s) :
            /\ BlocksOf(disk, s)[i] \in (3..DiskBlocks - 1) \ {InodeOf(disk, s)}
            /\ \A j \in 1..i - 1 : BlocksOf(disk, s)[j] # BlocksOf(disk, s)[i]
  /\ \A s, r \in Entries(disk) :
       s # r => /\ FileBlocks(disk, s) \cap FileBlocks(disk, r) = {}
                /\ EntryName(Directory(disk), s) # EntryName(Directory(disk), r)
  /\ Used(disk) \subseteq Reserved(disk)
=============================================================================
