------------------------------- MODULE VirtMem -------------------------------
(***************************************************************************)
(* The page tables of the x86_64 port (vm/x86_64/mm_virt.c): four levels   *)
(* of tables from a fixed pool, whose bitmap has the bits of the physical  *)
(* one.  A virtual address is the number of its page; the lower half is    *)
(* the kernel's.  An entry is -1 (not present), a table of the pool or, on *)
(* the last level, a page frame.  The flags are left out: vm_map sets      *)
(* PAGE_WRITE in every entry, whatever its caller asks for.                *)
(***************************************************************************)
EXTENDS PhysMem

CONSTANTS
  Radix,           \* entries of a table, 512 in the code
  PoolSize         \* VM_PTP_SIZE

VirtPages == Radix ^ 4
KernelSpace == VirtPages \div 2          \* pages; VMM_KERNEL_SPACE is the last byte
NoTable == [i \in 0 .. Radix - 1 |-> -1]

(* Index of a page at level 1 (PML4), 2 (PDP), 3 (PDIR) or 4 (PTABLE). *)
Index(vpage, level) == (vpage \div Radix ^ (4 - level)) % Radix

(* A state: the tables, their bitmap, kmalloc_addr, and whether the kernel *)
(* has panicked.                                                           *)
vmm_getfree(vm) ==
  LET clear == {i \in 0 .. PoolSize - 1 : ~ memmap_testbit(vm.bits, i)}
  IN  IF clear = {} THEN -1 ELSE Min(clear)

vmm_new_pagetable(vm) ==
  LET i == vmm_getfree(vm)
  IN  IF i = -1 THEN [vm EXCEPT !.panic = TRUE]
      ELSE [vm EXCEPT !.bits = memmap_setbit(@, i)]

(* From table at to the one below it for a page, a new and cleared one if  *)
(* there is none.                                                          *)
Descend(s, vpage, level) ==
  LET vm == s.vm
      i == Index(vpage, level)
      new == vmm_getfree(vm)
  IN  IF vm.panic THEN s
      ELSE IF vm.tables[s.at][i] # -1 THEN [s EXCEPT !.at = vm.tables[s.at][i]]
      ELSE IF new = -1 THEN [s EXCEPT !.vm.panic = TRUE]
      ELSE [vm |-> [vmm_new_pagetable(vm) EXCEPT
                      !.tables = [@ EXCEPT ![new] = NoTable, ![s.at][i] = new]],
            at |-> new]

vm_map(vm, pml4, frame, vpage) ==
  LET pdp == Descend([vm |-> vm, at |-> pml4], vpage, 1)
      pdir == Descend(pdp, vpage, 2)
      pt == Descend(pdir, vpage, 3)
  IN  IF pt.vm.panic THEN pt.vm
      ELSE [pt.vm EXCEPT !.tables[pt.at][Index(vpage, 4)] = frame]

(* What the hardware finds for a page: the frame, or -1. *)
Entry(vm, table, vpage, level) ==
  IF table = -1 THEN -1 ELSE vm.tables[table][Index(vpage, level)]
Walk(vm, pml4, vpage) ==
  LET pdp == Entry(vm, pml4, vpage, 1)
      pdir == Entry(vm, pdp, vpage, 2)
      pt == Entry(vm, pdir, vpage, 3)
  IN  Entry(vm, pt, vpage, 4)

-----------------------------------------------------------------------------
kernel_pml4 == 0

IdentityBound ==
  (stalloc_disable + PageBytes - 1) \div PageBytes

(* vm_init before its loop, and an iteration of it. *)
EmptyTables ==
  vmm_new_pagetable(
    [tables |-> [i \in 0 .. PoolSize - 1 |-> NoTable], bits |-> {},
     kmalloc_addr |-> IdentityBound, panic |-> FALSE])
MapIdentity(vm, p) == vm_map(vm, kernel_pml4, p, p)

(* The number of the first free frame is taken for an address, so the page *)
(* it is in is mapped, and no frame is marked used.  Nor is it looked at   *)
(* whether there is a free frame: with none, the address is -1, in the     *)
(* highest page there can be.                                              *)
HighestPage == -2
PageAt(address) == IF address = -1 THEN HighestPage ELSE address \div PageBytes

kmalloc(vm, m, count) ==
  LET frames == physmem_getframes(m.map, count)
      map(v, i) == vm_map(v, kernel_pml4, PageAt(frames + i * PageBytes),
                          vm.kmalloc_addr + i)
  IN  IF vm.kmalloc_addr + count >= KernelSpace
      THEN [vm EXCEPT !.panic = TRUE]
      ELSE [FoldLeft(map, vm, [i \in 1 .. count |-> i - 1])
            EXCEPT !.kmalloc_addr = @ + count]

(* vm_create_pagetable, once it has the table: the kernel's top level. *)
CopyKernelTable(vm, pml4) ==
  [vm EXCEPT !.tables[pml4] = vm.tables[kernel_pml4]]
=============================================================================
