------------------------------- MODULE Process -------------------------------
(***************************************************************************)
(* Starting a program on x86_64: the ELF header (proc/elf.c), the address  *)
(* space (proc/process.c) in page tables and frames, and the memory that   *)
(* mounting the disks has taken before (fs/filesystems.c).                 *)
(*                                                                         *)
(* A file is its header and its data.  Sizes and addresses inside a        *)
(* program are counted in units, PageUnits to a page.  The interrupts are  *)
(* off while the address space is built, but reading a page sleeps and     *)
(* lets other threads run, each with the table of its own context.         *)
(***************************************************************************)
EXTENDS VirtMem

CONSTANTS
  Starters,        \* the threads that call process_start
  Executables,     \* the files: [short, magic, exec, phnum, phs, entry, size, seed]
  PageUnits,       \* PAGE_SIZE
  MaxDisks,        \* bound: disks mounted at boot
  Attempts         \* how often filesystems_try_all may call tfs_init

VARIABLES
  mem,       \* the frames: [map, used]
  vm,        \* the tables: [tables, bits, kmalloc_addr, panic]
  content,   \* what is in each frame, a unit each
  identity,  \* the page that vm_init maps next
  disks,     \* disks mounted
  freed,     \* history: the kernel's pages that mounting freed as if frames
  at,        \* where each thread is in setup_new_process
  exe, elf,  \* its file and what elf_parse_header found
  pml4,      \* its page table (virt_memory of its context); -1: the kernel's
  page,      \* pages of the segments it has mapped
  quiet,     \* the thread that runs with interrupts off, or none
  raced      \* a table was taken twice

procvars == <<mem, vm, content, identity, disks, freed, at, exe, elf, pml4,
              page, quiet, raced>>

NoOne == "none"
StackPage == VirtPages - 1
JunkUnit == -1
ProcStates == {"boot", "create", "creating", "mapping", "reading", "returned",
               "userland"}

(* What a file holds at an offset: no two files, no two places agree. *)
Data(e, offset) == e.seed + offset

-----------------------------------------------------------------------------
(* elf_parse_header: the last PT_LOAD segment of either kind must be the   *)
(* only one.  Errors are negative.                                         *)
NoSegment == [location |-> 0, size |-> 0, vaddr |-> 0, pages |-> 0]
Segment(ph) == [location |-> ph.offset, size |-> ph.filesz, vaddr |-> ph.vaddr,
                pages |-> (ph.memsz + PageUnits - 1) \div PageUnits]

ReadProgramHeader(e, s, i) ==
  IF s.res < 0 THEN s
  ELSE IF i > Len(e.phs) THEN [s EXCEPT !.res = -6]
  ELSE IF e.phs[i].type # "LOAD" THEN s
  ELSE IF e.phs[i].write
  THEN IF "rw" \in s.segs THEN [s EXCEPT !.res = -7]
       ELSE [s EXCEPT !.segs = @ \cup {"rw"}, !.rw = Segment(e.phs[i])]
  ELSE IF "ro" \in s.segs THEN [s EXCEPT !.res = -8]
       ELSE [s EXCEPT !.segs = @ \cup {"ro"}, !.ro = Segment(e.phs[i])]

elf_parse_header(e) ==
  LET error == CASE e.short -> -1
                 [] ~ e.short /\ ~ e.magic -> -2
                 [] ~ e.short /\ e.magic /\ ~ e.exec -> -3
                 [] ~ e.short /\ e.magic /\ e.exec /\ e.phnum = 0 -> -4
                 [] OTHER -> 0
      empty == [res |-> error, segs |-> {}, ro |-> NoSegment, rw |-> NoSegment]
      read == FoldLeft(LAMBDA s, i : ReadProgramHeader(e, s, i), empty,
                       [i \in 1 .. e.phnum |-> i])
  IN  IF read.res < 0 THEN read
      ELSE [read EXCEPT !.res = IF read.segs = {} THEN 0 ELSE 1]

NoELF == [res |-> 0, segs |-> {}, ro |-> NoSegment, rw |-> NoSegment]

-----------------------------------------------------------------------------
ProcInit ==
  /\ mem = physmem_init
  /\ vm = EmptyTables
  /\ content = [f \in Blocks |-> [u \in 1 .. PageUnits |-> JunkUnit]]
  /\ identity = 1
  /\ disks = 0
  /\ freed = {}
  /\ at = [p \in Starters |-> "boot"]
  /\ exe = [p \in Starters |-> 0]
  /\ elf = [p \in Starters |-> NoELF]
  /\ pml4 = [p \in Starters |-> -1]
  /\ page = [p \in Starters |-> 0]
  /\ quiet = NoOne
  /\ raced = FALSE

(* vm_init, page by page. *)
InitVM ==
  /\ ~ vm.panic /\ identity < IdentityBound
  /\ vm' = MapIdentity(vm, identity)
  /\ identity' = identity + 1
  /\ UNCHANGED <<mem, content, disks, freed, at, exe, elf, pml4, page, quiet,
                 raced>>

(* What follows when two threads have taken the same table is not modelled. *)
Booted == ~ vm.panic /\ ~ raced /\ identity = IdentityBound
Runs(p) == Booted /\ quiet \in {NoOne, p}

(* Mounting a disk at boot: filesystems_try_all allocates a buffer, every  *)
(* tfs_init a page of its own, and the buffer is freed as if its virtual   *)
(* address were a physical one.                                            *)
MountDisk ==
  /\ Booted /\ disks < MaxDisks
  /\ \A p \in Starters : at[p] = "boot"
  /\ \E n \in Attempts :
       vm' = FoldLeft(LAMBDA v, i : kmalloc(v, mem, 1), vm, [i \in 1 .. n + 1 |-> i])
  /\ mem' = physmem_freeblock(mem, vm.kmalloc_addr)
  /\ freed' = freed \cup {vm.kmalloc_addr}
  /\ disks' = disks + 1
  /\ UNCHANGED <<content, identity, at, exe, elf, pml4, page, quiet, raced>>

(* vfs_open and elf_parse_header, and the checks of their results: the     *)
(* entry point has to be behind the last address of the kernel.            *)
VMM_KERNEL_SPACE == KernelSpace * PageUnits - 1

OpenProgram(p) ==
  /\ Runs(p) /\ at[p] = "boot"
  /\ \E e \in DOMAIN Executables :
       LET info == elf_parse_header(Executables[e])
           ok == info.res >= 0
                 /\ Executables[e].entry > VMM_KERNEL_SPACE
       IN  /\ exe' = [exe EXCEPT ![p] = IF ok THEN e ELSE @]
           /\ elf' = [elf EXCEPT ![p] = IF ok THEN info ELSE NoELF]
           /\ at' = [at EXCEPT ![p] = IF ok THEN "create" ELSE "returned"]
  /\ UNCHANGED <<mem, vm, content, identity, disks, freed, pml4, page, quiet,
                 raced>>

(* vmm_new_pagetable in vm_create_pagetable holds no lock and has the      *)
(* interrupts on: it finds a free table in one step and takes it in        *)
(* another.                                                                *)
FindTable(p) ==
  /\ Runs(p) /\ at[p] = "create"
  /\ pml4' = [pml4 EXCEPT ![p] = vmm_getfree(vm)]
  /\ vm' = [vm EXCEPT !.panic = vmm_getfree(vm) = -1]
  /\ at' = [at EXCEPT ![p] = "creating"]
  /\ UNCHANGED <<mem, content, identity, disks, freed, exe, elf, page, quiet,
                 raced>>

-----------------------------------------------------------------------------
ZeroPage == [u \in 1 .. PageUnits |-> 0]

(* A new frame, mapped at vpage of p's table and zeroed through it. *)
NewPage(p, v, vpage) ==
  LET a == physmem_allocblock(mem)
      mapped == vm_map(v, pml4[p], a.frame, vpage)
      frame == Walk(mapped, pml4[p], vpage)
  IN  IF a.frame = -1 \/ mapped.panic
      THEN vm' = [v EXCEPT !.panic = TRUE] /\ UNCHANGED <<mem, content>>
      ELSE /\ vm' = mapped
           /\ mem' = a.m
           /\ content' = [content EXCEPT ![frame] = ZeroPage]

(* The table is taken, becomes p's own, and gets the stack. *)
TakeTable(p) ==
  /\ Runs(p) /\ at[p] = "creating"
  /\ raced' = (raced \/ memmap_testbit(vm.bits, pml4[p]))
  /\ NewPage(p, CopyKernelTable([vm EXCEPT !.bits = memmap_setbit(@, pml4[p])],
                                pml4[p]),
             StackPage)
  /\ quiet' = p
  /\ at' = [at EXCEPT ![p] = "mapping"]
  /\ UNCHANGED <<identity, disks, freed, exe, elf, pml4, page>>

(* The page of a segment that is next: the read-only ones come first. *)
ReadOnly(p) == page[p] < elf[p].ro.pages
Seg(p) == IF ReadOnly(p) THEN elf[p].ro ELSE elf[p].rw
PageOf(p) == IF ReadOnly(p) THEN page[p] ELSE page[p] - elf[p].ro.pages
VirtPage(p) == Seg(p).vaddr \div PageUnits + PageOf(p)
LeftToRead(p) == Seg(p).size - PageOf(p) * PageUnits
AllMapped(p) == page[p] = elf[p].ro.pages + elf[p].rw.pages

(* A page of a segment; filling it from the file sleeps. *)
MapSegmentPage(p) ==
  /\ Runs(p) /\ at[p] = "mapping" /\ ~ AllMapped(p)
  /\ NewPage(p, vm, VirtPage(p))
  /\ IF LeftToRead(p) > 0
     THEN /\ at' = [at EXCEPT ![p] = "reading"]
          /\ quiet' = NoOne
          /\ UNCHANGED page
     ELSE /\ page' = [page EXCEPT ![p] = @ + 1]
          /\ UNCHANGED <<at, quiet>>
  /\ UNCHANGED <<identity, disks, freed, exe, elf, pml4, raced>>

(* Mutant: every page is read from the start of its segment. *)
FileStart(p) == Seg(p).location

(* Where in the file the page starts. *)
FileOffset(p) == Seg(p).location + PageOf(p) * PageUnits

(* vfs_read returns: its bytes are in the page, through p's own table, or  *)
(* an assertion fails.  A read-only page is mapped again.                  *)
FillPage(p) ==
  LET e == Executables[exe[p]]
      n == IF LeftToRead(p) < PageUnits THEN LeftToRead(p) ELSE PageUnits
      frame == Walk(vm, pml4[p], VirtPage(p))
  IN  /\ Runs(p) /\ at[p] = "reading"
      /\ IF FileOffset(p) + n > e.size
         THEN vm' = [vm EXCEPT !.panic = TRUE] /\ UNCHANGED <<content, page>>
         ELSE /\ content' = [content EXCEPT ![frame] =
                   [u \in 1 .. PageUnits |-> IF u <= n THEN Data(e, FileOffset(p) + u - 1)
                                             ELSE @[u]]]
              /\ vm' = IF ReadOnly(p) THEN vm_map(vm, pml4[p], frame, VirtPage(p))
                       ELSE vm
              /\ page' = [page EXCEPT ![p] = @ + 1]
      /\ at' = [at EXCEPT ![p] = "mapping"]
      /\ quiet' = p
      /\ UNCHANGED <<mem, identity, disks, freed, exe, elf, pml4, raced>>

(* The file is closed and the program runs in its own table. *)
EnterProgram(p) ==
  /\ Runs(p) /\ at[p] = "mapping" /\ AllMapped(p)
  /\ at' = [at EXCEPT ![p] = "userland"]
  /\ quiet' = NoOne
  /\ UNCHANGED <<mem, vm, content, identity, disks, freed, exe, elf, pml4,
                 page, raced>>

(* The kernel has panicked and loops, or every thread is done. *)
ProcEnd ==
  /\ vm.panic \/ raced \/ \A p \in Starters : at[p] \in {"returned", "userland"}
  /\ UNCHANGED procvars

ProcNext ==
  \/ InitVM
  \/ MountDisk
  \/ \E p \in Starters :
       \/ OpenProgram(p) \/ FindTable(p) \/ TakeTable(p)
       \/ MapSegmentPage(p) \/ FillPage(p) \/ EnterProgram(p)
  \/ ProcEnd

ProcSpec == ProcInit /\ [][ProcNext]_procvars

-----------------------------------------------------------------------------
Started == {p \in Starters : at[p] \in {"mapping", "reading", "userland"}}
UserPages == KernelSpace .. VirtPages - 1
StaticFrames == {f \in Blocks : f * PageBytes < LastAddress}
FreeFrames ==
  Blocks \cap UNION {Regions[r].start .. Regions[r].start + Regions[r].length - 1 :
                       r \in {r \in DOMAIN Regions : Regions[r].free}}

(* A page frame belongs to one page of one program: physmem_allocblock     *)
(* hands no frame out twice, for all that the bits of the bitmap overlap   *)
(* and memory starts out half used.  It hands out none that the memory map *)
(* reserves and none that the kernel occupies, but for those that mounting *)
(* a disk has freed: filesystems_try_all gives physmem_freeblock the       *)
(* address of a page of the kernel, which is no frame's, and the bit that  *)
(* is cleared may be that of a frame in use by the kernel.  That one is    *)
(* given to the next program.  (docs/virtual-memory.rst says of            *)
(* physmem_freeblock that it asserts that a page is reserved and not       *)
(* statically reserved; it does not.)                                      *)
FramesExclusive ==
  ~ raced /\ ~ vm.panic =>
    LET pages == {<<p, v>> \in Started \X UserPages : Walk(vm, pml4[p], v) # -1}
        frame == [x \in pages |-> Walk(vm, pml4[x[1]], x[2])]
    IN  \A x \in pages :
          /\ \/ frame[x] \in FreeFrames \ StaticFrames
             \/ \E v \in freed : frame[x] \in Mask(v)
          /\ memmap_testbit(mem.map, frame[x])
          /\ \A y \in pages : frame[x] = frame[y] => x = y

(* A program that runs finds its segments in memory as its program headers *)
(* say, zeros behind the bytes of the file, and an empty stack, whatever   *)
(* other programs were loaded while its pages were read; and the kernel is *)
(* mapped in its table as in the kernel's own.                             *)
Unit(p, a) ==
  LET f == Walk(vm, pml4[p], a \div PageUnits)
  IN  IF f = -1 THEN JunkUnit ELSE content[f][(a % PageUnits) + 1]

ProgramImage ==
  ~ raced /\ ~ vm.panic =>
    \A p \in {p \in Starters : at[p] = "userland"} :
      LET e == Executables[exe[p]]
      IN  /\ \A i \in {i \in 1 .. e.phnum : e.phs[i].type = "LOAD"} :
               \A k \in 0 .. e.phs[i].memsz - 1 :
                 Unit(p, e.phs[i].vaddr + k) =
                   IF k < e.phs[i].filesz THEN Data(e, e.phs[i].offset + k) ELSE 0
          /\ \A u \in 0 .. PageUnits - 1 : Unit(p, StackPage * PageUnits + u) = 0
          /\ \A v \in 0 .. KernelSpace - 1 :
               Entry(vm, pml4[p], v, 1) = Entry(vm, kernel_pml4, v, 1)
=============================================================================
