-------------------------------- MODULE VFS --------------------------------
(***************************************************************************)
(* The virtual filesystem (kudos/fs/vfs.c): the table of mounted           *)
(* filesystems, the table of open files, the count of active operations    *)
(* and the forceful unmount of halt_kernel that waits for it to drop to    *)
(* zero.                                                                   *)
(*                                                                         *)
(* Every call is cut where it can be delayed: at a semaphore_P and at a    *)
(* call into the filesystem driver, which sleeps on the disk.  The four    *)
(* semaphores are used as module Semaphore shows they may be: three locks, *)
(* given here by their holder, and vfs_unmount_sem, a count.  A section    *)
(* between a P and its V that calls no driver is one step.                 *)
(*                                                                         *)
(* File ids, seek positions and buffers are left out: no property here     *)
(* tells them apart.                                                       *)
(***************************************************************************)
EXTENDS Integers, FiniteSets, FiniteSetsExt

CONSTANTS
  Threads,      \* the kernel threads that call the VFS
  Rows,         \* CONFIG_MAX_FILESYSTEMS rows of vfs_table, numbered from 0
  Files,        \* CONFIG_MAX_OPEN_FILES rows of openfile_table, from 0
  Filesystems,  \* the filesystem instances drivers have initialised
  Volumes,      \* the volume names callers use
  Misuse,       \* what callers may get wrong: a subset of Mistakes
  MaxOps,       \* bound on vfs_ops, which calls that never end drive up
  None          \* NULL: no filesystem, no name, no holder

Mistakes == {"not open", "negative seek", "shared"}

ASSUME TablesAssumption == Rows \subseteq Nat /\ Files \subseteq Nat
ASSUME FiniteAssumption == IsFiniteSet(Threads) /\ IsFiniteSet(Rows) /\ IsFiniteSet(Files)
ASSUME EnoughAssumption == Cardinality(Filesystems) >= Cardinality(Rows)
ASSUME NoneAssumption == None \notin Threads \cup Filesystems \cup Volumes \cup Files
ASSUME MisuseAssumption == Misuse \subseteq Mistakes
ASSUME MaxOpsAssumption == MaxOps \in Nat

VARIABLES
  vfs_ops,       \* operations counted as active
  vfs_usable,    \* cleared by vfs_deinit
  op_sem,        \* holder of vfs_op_sem, or None
  table_sem,     \* holder of vfs_table.sem, or None
  openfile_sem,  \* holder of openfile_table.sem, or None
  unmount_sem,   \* value of vfs_unmount_sem
  mounted,       \* vfs_table: row -> its filesystem, or None
  mountpoint,    \* vfs_table: row -> its name
  open,          \* openfile_table: row -> the filesystem of the file, or None
  pc,            \* where each thread is in its call
  name,          \* the volume a call names
  file,          \* the open file a call is about
  fs,            \* the call's local variable fs
  handles        \* ghost: the open files each thread has opened and not closed

tables == <<mounted, mountpoint, open>>
sems   == <<table_sem, openfile_sem>>
counts == <<vfs_ops, vfs_usable, unmount_sem, op_sem>>
locals == <<name, file, fs>>
vars   == <<counts, sems, tables, pc, locals, handles>>

-----------------------------------------------------------------------------

Init ==
  /\ vfs_ops = 0
  /\ vfs_usable = TRUE
  /\ op_sem = None /\ table_sem = None /\ openfile_sem = None
  /\ unmount_sem = 0
  /\ mounted = [r \in Rows |-> None]
  /\ mountpoint = [r \in Rows |-> None]
  /\ open = [f \in Files |-> None]
  /\ pc = [t \in Threads |-> "idle"]
  /\ name = [t \in Threads |-> None]
  /\ file = [t \in Threads |-> None]
  /\ fs = [t \in Threads |-> None]
  /\ handles = [t \in Threads |-> {}]

(* A call goes on at l; or it is over but for its vfs_end_op, and its      *)
(* local variables are forgotten.                                          *)
Goto(t, l)  == pc' = [pc EXCEPT ![t] = l]
Leave(t, l) ==
  /\ Goto(t, l)
  /\ name' = [name EXCEPT ![t] = None]
  /\ file' = [file EXCEPT ![t] = None]
  /\ fs' = [fs EXCEPT ![t] = None]

(* The rows the scans of vfs_table and openfile_table look for. *)
FreeRows  == {r \in Rows : mounted[r] = None}
FreeFiles == {f \in Files : open[f] = None}
RowsOf(v) == {r \in Rows : mountpoint[r] = v}

(* The first row with the name decides, mounted or not. *)
vfs_get_filesystem(v) ==
  IF RowsOf(v) = {} THEN None ELSE mounted[Min(RowsOf(v))]

(* A call that finds the VFS unusable returns at once and changes nothing. *)
(* The others go on at l, with the volume v or the open file f they are    *)
(* about.                                                                  *)
vfs_start_op(t, l, v, f) ==
  /\ pc[t] = "idle"
  /\ op_sem = None
  /\ vfs_usable
  /\ vfs_ops < MaxOps
  /\ vfs_ops' = vfs_ops + 1
  /\ Goto(t, l)
  /\ name' = [name EXCEPT ![t] = v]
  /\ file' = [file EXCEPT ![t] = f]
  /\ UNCHANGED <<vfs_usable, unmount_sem, op_sem, sems, tables, fs>>

(* Mutant: the wake-up does not wait for the last operation. *)
EndOpAlwaysSignals(t) ==
  /\ pc[t] = "end"
  /\ op_sem = None
  /\ vfs_ops' = vfs_ops - 1
  /\ unmount_sem' = unmount_sem + (IF ~vfs_usable THEN 1 ELSE 0)
  /\ Goto(t, "idle")
  /\ UNCHANGED <<vfs_usable, op_sem, sems, tables, locals, handles>>

(* Mutant: the count is tested before the operation is taken off it. *)
EndOpTestsFirst(t) ==
  /\ pc[t] = "end"
  /\ op_sem = None
  /\ vfs_ops' = vfs_ops - 1
  /\ unmount_sem' = unmount_sem + (IF ~vfs_usable /\ vfs_ops = 0 THEN 1 ELSE 0)
  /\ Goto(t, "idle")
  /\ UNCHANGED <<vfs_usable, op_sem, sems, tables, locals, handles>>

vfs_end_op(t) ==
  /\ pc[t] = "end"
  /\ op_sem = None
  /\ vfs_ops' = vfs_ops - 1
  /\ unmount_sem' = unmount_sem + (IF ~vfs_usable /\ vfs_ops' = 0 THEN 1 ELSE 0)
  /\ Goto(t, "idle")
  /\ UNCHANGED <<vfs_usable, op_sem, sems, tables, locals, handles>>

-----------------------------------------------------------------------------
(* vfs_mount and vfs_unmount *)

StartMount(t) ==
  /\ \E v \in Volumes : vfs_start_op(t, "mount", v, None)
  /\ UNCHANGED handles

(* The search for the name also meets the rows of unmounted filesystems,   *)
(* whose mountpoint stays behind.                                          *)
vfs_mount(t) ==
  /\ pc[t] = "mount"
  /\ table_sem = None
  /\ IF FreeRows = {} \/ RowsOf(name[t]) # {}
     THEN UNCHANGED <<mounted, mountpoint>>
     ELSE \E x \in Filesystems :
            /\ \A r \in Rows : mounted[r] # x
            /\ mountpoint' = [mountpoint EXCEPT ![Min(FreeRows)] = name[t]]
            /\ mounted' = [mounted EXCEPT ![Min(FreeRows)] = x]
  /\ Leave(t, "end")
  /\ UNCHANGED <<counts, sems, open, handles>>

StartUnmount(t) ==
  /\ \E v \in Volumes : vfs_start_op(t, "unmount", v, None)
  /\ UNCHANGED handles

(* Mutant: the table is not kept for the driver call. *)
LookUpUnlocked(t, l) ==
  /\ table_sem = None
  /\ \/ /\ vfs_get_filesystem(name[t]) = None
        /\ Leave(t, "end")
        /\ UNCHANGED table_sem
     \/ /\ vfs_get_filesystem(name[t]) # None
        /\ fs' = [fs EXCEPT ![t] = vfs_get_filesystem(name[t])]
        /\ UNCHANGED table_sem
        /\ Goto(t, l)
        /\ UNCHANGED <<name, file>>
  /\ UNCHANGED <<counts, openfile_sem, tables, handles>>

(* A volume that is mounted is called fs and vfs_table stays held while    *)
(* the call goes on at l; otherwise the table is given back.               *)
LookUp(t, l) ==
  /\ table_sem = None
  /\ \/ /\ vfs_get_filesystem(name[t]) = None
        /\ Leave(t, "end")
        /\ UNCHANGED table_sem
     \/ /\ vfs_get_filesystem(name[t]) # None
        /\ fs' = [fs EXCEPT ![t] = vfs_get_filesystem(name[t])]
        /\ table_sem' = t
        /\ Goto(t, l)
        /\ UNCHANGED <<name, file>>
  /\ UNCHANGED <<counts, openfile_sem, tables, handles>>

vfs_unmount(t) == pc[t] = "unmount" /\ LookUp(t, "unmount files")

(* Mutants: no test for open files; VFS_IN_USE without a vfs_end_op; and   *)
(* VFS_IN_USE with vfs_table still held.                                   *)
UnmountUnchecked(t) ==
  /\ pc[t] = "unmount files"
  /\ openfile_sem = None
  /\ Goto(t, "fs unmount")
  /\ openfile_sem' = t
  /\ UNCHANGED <<table_sem, locals>>
  /\ UNCHANGED <<counts, tables, handles>>

UnmountInUseNoEnd(t) ==
  /\ pc[t] = "unmount files"
  /\ openfile_sem = None
  /\ IF \E f \in Files : open[f] = fs[t]
     THEN /\ Leave(t, "idle")
          /\ table_sem' = None
          /\ UNCHANGED openfile_sem
     ELSE /\ Goto(t, "fs unmount")
          /\ openfile_sem' = t
          /\ UNCHANGED <<table_sem, locals>>
  /\ UNCHANGED <<counts, tables, handles>>

UnmountInUseKeepsTable(t) ==
  /\ pc[t] = "unmount files"
  /\ openfile_sem = None
  /\ IF \E f \in Files : open[f] = fs[t]
     THEN /\ Leave(t, "end")
          /\ table_sem' = t
          /\ UNCHANGED openfile_sem
     ELSE /\ Goto(t, "fs unmount")
          /\ openfile_sem' = t
          /\ UNCHANGED <<table_sem, locals>>
  /\ UNCHANGED <<counts, tables, handles>>

(* VFS_IN_USE gives both tables back; otherwise the driver is called with  *)
(* both held.                                                              *)
UnmountFiles(t) ==
  /\ pc[t] = "unmount files"
  /\ openfile_sem = None
  /\ IF \E f \in Files : open[f] = fs[t]
     THEN /\ Leave(t, "end")
          /\ table_sem' = None
          /\ UNCHANGED openfile_sem
     ELSE /\ Goto(t, "fs unmount")
          /\ openfile_sem' = t
          /\ UNCHANGED <<table_sem, locals>>
  /\ UNCHANGED <<counts, tables, handles>>

FsUnmount(t) ==
  /\ pc[t] = "fs unmount"
  /\ mounted' = [mounted EXCEPT ![Min(RowsOf(name[t]))] = None]
  /\ openfile_sem' = None
  /\ table_sem' = None
  /\ Leave(t, "end")
  /\ UNCHANGED <<counts, mountpoint, open, handles>>

-----------------------------------------------------------------------------
(* vfs_open and vfs_close *)

(* A pathname that does not parse ends the operation at once. *)
StartOpen(t) ==
  /\ \/ \E v \in Volumes : vfs_start_op(t, "open", v, None)
     \/ vfs_start_op(t, "end", None, None)
  /\ UNCHANGED handles

vfs_open(t) ==
  /\ pc[t] = "open"
  /\ table_sem = None
  /\ table_sem' = t
  /\ Goto(t, "open files")
  /\ UNCHANGED <<counts, openfile_sem, tables, locals, handles>>

(* Mutant: the row is not marked taken before the driver is called. *)
OpenFilesUnmarked(t) ==
  /\ pc[t] = "open files"
  /\ openfile_sem = None
  /\ IF FreeFiles = {} \/ vfs_get_filesystem(name[t]) = None
     THEN Leave(t, "end") /\ UNCHANGED open
     ELSE /\ UNCHANGED open
          /\ file' = [file EXCEPT ![t] = Min(FreeFiles)]
          /\ fs' = [fs EXCEPT ![t] = vfs_get_filesystem(name[t])]
          /\ Goto(t, "fs open")
          /\ UNCHANGED name
  /\ table_sem' = None
  /\ UNCHANGED <<counts, openfile_sem, mounted, mountpoint, handles>>

(* With both tables held the first free row is given the filesystem; both  *)
(* are given back on every path.                                           *)
OpenFiles(t) ==
  /\ pc[t] = "open files"
  /\ openfile_sem = None
  /\ IF FreeFiles = {} \/ vfs_get_filesystem(name[t]) = None
     THEN Leave(t, "end") /\ UNCHANGED open
     ELSE /\ open' = [open EXCEPT ![Min(FreeFiles)] = vfs_get_filesystem(name[t])]
          /\ file' = [file EXCEPT ![t] = Min(FreeFiles)]
          /\ fs' = [fs EXCEPT ![t] = vfs_get_filesystem(name[t])]
          /\ Goto(t, "fs open")
          /\ UNCHANGED name
  /\ table_sem' = None
  /\ UNCHANGED <<counts, openfile_sem, mounted, mountpoint, handles>>

(* The driver found the file: the row is filled in and returned. *)
FsOpen(t) ==
  /\ pc[t] = "fs open"
  /\ handles' = [handles EXCEPT ![t] = @ \cup {file[t]}]
  /\ Leave(t, "end")
  /\ UNCHANGED <<counts, sems, tables>>

(* It did not: the row is freed under its lock. *)
FsOpenFails(t) ==
  /\ pc[t] = "fs open"
  /\ openfile_sem = None
  /\ open' = [open EXCEPT ![file[t]] = None]
  /\ Leave(t, "end")
  /\ UNCHANGED <<counts, sems, mounted, mountpoint, handles>>

(* The open files a caller passes: its own, and those its mistakes add. *)
CallerFiles(t) ==
  handles[t] \cup (IF "shared" \in Misuse THEN UNION {handles[u] : u \in Threads} ELSE {})
             \cup (IF "not open" \in Misuse THEN Files ELSE {})

StartClose(t) ==
  \E f \in CallerFiles(t) :
    /\ vfs_start_op(t, "close", None, f)
    /\ handles' = [u \in Threads |-> handles[u] \ {f}]

(* A file that is not open is refused without a vfs_end_op. *)
vfs_close(t) ==
  /\ pc[t] = "close"
  /\ openfile_sem = None
  /\ \/ /\ open[file[t]] = None
        /\ Leave(t, "idle")
        /\ UNCHANGED openfile_sem
     \/ /\ open[file[t]] # None
        /\ fs' = [fs EXCEPT ![t] = open[file[t]]]
        /\ openfile_sem' = t
        /\ Goto(t, "fs close")
        /\ UNCHANGED <<name, file>>
  /\ UNCHANGED <<counts, table_sem, tables, handles>>

FsClose(t) ==
  /\ pc[t] = "fs close"
  /\ open' = [open EXCEPT ![file[t]] = None]
  /\ openfile_sem' = None
  /\ Leave(t, "end")
  /\ UNCHANGED <<counts, table_sem, mounted, mountpoint, handles>>

-----------------------------------------------------------------------------
(* vfs_seek, vfs_read and vfs_write *)

(* A negative position is refused without a vfs_end_op. *)
StartSeek(t) ==
  /\ \/ \E f \in CallerFiles(t) : vfs_start_op(t, "seek", None, f)
     \/ "negative seek" \in Misuse /\ vfs_start_op(t, "idle", None, None)
  /\ UNCHANGED handles

vfs_seek(t) ==
  /\ pc[t] = "seek"
  /\ openfile_sem = None
  /\ Leave(t, IF open[file[t]] = None THEN "idle" ELSE "end")
  /\ UNCHANGED <<counts, sems, tables, handles>>

StartRead(t) ==
  /\ \E f \in CallerFiles(t) : vfs_start_op(t, "read", None, f)
  /\ UNCHANGED handles

(* vfs_verify_open looks at the row without openfile_table.sem; a file     *)
(* that is not open is refused without a vfs_end_op ...                    *)
vfs_verify_open(t) ==
  /\ pc[t] = "read"
  /\ \/ open[file[t]] = None /\ Leave(t, "idle")
     \/ open[file[t]] # None /\ Goto(t, "read fs") /\ UNCHANGED locals
  /\ UNCHANGED <<counts, sems, tables, handles>>

(* ... and vfs_read and vfs_write look at it again, still without it. *)
vfs_read(t) ==
  /\ pc[t] = "read fs"
  /\ fs' = [fs EXCEPT ![t] = open[file[t]]]
  /\ Goto(t, "fs read")
  /\ UNCHANGED <<counts, sems, tables, name, file, handles>>

(* The driver returns; a positive result advances the position, for which  *)
(* the call waits for openfile_table.sem.                                  *)
FsRead(t) ==
  /\ pc[t] = "fs read"
  /\ \/ Goto(t, "advance") /\ UNCHANGED locals
     \/ Leave(t, "end")
  /\ UNCHANGED <<counts, sems, tables, handles>>

Advance(t) ==
  /\ pc[t] = "advance"
  /\ openfile_sem = None
  /\ Leave(t, "end")
  /\ UNCHANGED <<counts, sems, tables, handles>>

-----------------------------------------------------------------------------
(* vfs_create, vfs_remove, vfs_getfree, vfs_filecount and vfs_file: one    *)
(* driver call with vfs_table held, or none when the volume is unknown.    *)

StartVolumeOp(t) ==
  /\ \E v \in Volumes : vfs_start_op(t, "volume", v, None)
  /\ UNCHANGED handles

VolumeOp(t) == pc[t] = "volume" /\ LookUp(t, "fs volume")

FsVolumeOp(t) ==
  /\ pc[t] = "fs volume"
  /\ table_sem' = None
  /\ Leave(t, "end")
  /\ UNCHANGED <<counts, openfile_sem, tables, handles>>

-----------------------------------------------------------------------------
(* vfs_deinit, called by halt_kernel *)

(* With operations pending, vfs_op_sem is given back before the wait. *)
vfs_deinit(t) ==
  /\ pc[t] = "idle"
  /\ op_sem = None
  /\ vfs_usable' = FALSE
  /\ IF vfs_ops > 0
     THEN Goto(t, "halt wait") /\ UNCHANGED op_sem
     ELSE Goto(t, "halt table") /\ op_sem' = t
  /\ UNCHANGED <<vfs_ops, unmount_sem, sems, tables, locals, handles>>

DeinitWait(t) ==
  /\ pc[t] = "halt wait"
  /\ unmount_sem > 0
  /\ unmount_sem' = unmount_sem - 1
  /\ Goto(t, "halt op")
  /\ UNCHANGED <<vfs_ops, vfs_usable, op_sem, sems, tables, locals, handles>>

(* The kernel asserts here that vfs_ops is zero. *)
DeinitOp(t) ==
  /\ pc[t] = "halt op"
  /\ op_sem = None
  /\ op_sem' = t
  /\ Goto(t, "halt table")
  /\ UNCHANGED <<vfs_ops, vfs_usable, unmount_sem, sems, tables, locals, handles>>

DeinitTable(t) ==
  /\ pc[t] = "halt table"
  /\ table_sem = None
  /\ table_sem' = t
  /\ Goto(t, "halt files")
  /\ UNCHANGED <<counts, openfile_sem, tables, locals, handles>>

DeinitFiles(t) ==
  /\ pc[t] = "halt files"
  /\ openfile_sem = None
  /\ openfile_sem' = t
  /\ Goto(t, "halt unmount")
  /\ UNCHANGED <<counts, table_sem, tables, locals, handles>>

(* One driver call per mounted row, in order. *)
DeinitUnmount(t) ==
  /\ pc[t] = "halt unmount"
  /\ \E r \in Rows : mounted[r] # None
  /\ mounted' = [mounted EXCEPT ![Min(Rows \ FreeRows)] = None]
  /\ UNCHANGED <<counts, sems, mountpoint, open, pc, locals, handles>>

DeinitDone(t) ==
  /\ pc[t] = "halt unmount"
  /\ \A r \in Rows : mounted[r] = None
  /\ openfile_sem' = None /\ table_sem' = None /\ op_sem' = None
  /\ Goto(t, "halted")
  /\ UNCHANGED <<vfs_ops, vfs_usable, unmount_sem, tables, locals, handles>>

-----------------------------------------------------------------------------

(* A thread in the middle of a call goes on with it. *)
Step(t) ==
  \/ vfs_end_op(t)
  \/ vfs_mount(t) \/ vfs_unmount(t) \/ UnmountFiles(t) \/ FsUnmount(t)
  \/ vfs_open(t) \/ OpenFiles(t) \/ FsOpen(t) \/ FsOpenFails(t)
  \/ vfs_close(t) \/ FsClose(t) \/ vfs_seek(t)
  \/ vfs_verify_open(t) \/ vfs_read(t) \/ FsRead(t) \/ Advance(t)
  \/ VolumeOp(t) \/ FsVolumeOp(t)
  \/ DeinitWait(t) \/ DeinitOp(t) \/ DeinitTable(t) \/ DeinitFiles(t)
  \/ DeinitUnmount(t) \/ DeinitDone(t)

Start(t) ==
  \/ StartMount(t) \/ StartUnmount(t) \/ StartOpen(t) \/ StartClose(t)
  \/ StartSeek(t) \/ StartRead(t) \/ StartVolumeOp(t)

(* The system is halted once, by one thread. *)
HaltLocations == {"halt wait", "halt op", "halt table", "halt files", "halt unmount", "halted"}
Halting == \E t \in Threads : pc[t] \in HaltLocations

Halt(t) == ~Halting /\ vfs_deinit(t)

(* halt_kernel powers the machine off: nothing more need happen. *)
PoweredOff == (\E t \in Threads : pc[t] = "halted") /\ UNCHANGED vars

Next == (\E t \in Threads : Step(t) \/ Start(t) \/ Halt(t)) \/ PoweredOff

Spec == Init /\ [][Next]_vars

(* A call under way is carried on with.  Drivers return from their calls,  *)
(* and semaphore_V serves the longest waiter, so that a thread waiting at  *)
(* a semaphore that is given back again and again is served: hence strong  *)
(* fairness.  Nobody has to call the VFS or to halt the system.            *)
FairSpec == Spec /\ \A t \in Threads : SF_vars(Step(t))

-----------------------------------------------------------------------------
(* Properties *)

Locations ==
  {"idle", "end", "mount", "unmount", "unmount files", "fs unmount", "open",
   "open files", "fs open", "close", "fs close", "seek", "read", "read fs",
   "fs read", "advance", "volume", "fs volume", "halt wait", "halt op",
   "halt table", "halt files", "halt unmount", "halted"}

(* The variables of vfs.c hold values of their types; in particular        *)
(* vfs_ops is never negative, as vfs_end_op asserts, and vfs_unmount_sem   *)
(* is signalled at most once.                                              *)
TypeOK ==
  /\ vfs_ops \in Nat
  /\ vfs_usable \in BOOLEAN
  /\ {op_sem, table_sem, openfile_sem} \subseteq Threads \cup {None}
  /\ unmount_sem \in 0 .. 1
  /\ mounted \in [Rows -> Filesystems \cup {None}]
  /\ mountpoint \in [Rows -> Volumes \cup {None}]
  /\ open \in [Files -> Filesystems \cup {None}]
  /\ pc \in [Threads -> Locations]
  /\ name \in [Threads -> Volumes \cup {None}]
  /\ file \in [Threads -> Files \cup {None}]
  /\ fs \in [Threads -> Filesystems \cup {None}]
  /\ handles \in [Threads -> SUBSET Files]

Active(t) == pc[t] \notin {"idle"} \cup HaltLocations

(* vfs_ops is the number of calls between their vfs_start_op and their     *)
(* vfs_end_op ("The number of active operations on VFS").                        *)
OpsCounted == vfs_ops = Cardinality({t \in Threads : Active(t)})

(* When vfs_deinit has vfs_op_sem for good no call is under way: the       *)
(* assertion vfs_ops == 0 holds and no driver is unmounted during a call.  *)
HaltFindsIdle ==
  \A t \in Threads :
    pc[t] \in {"halt table", "halt files", "halt unmount", "halted"}
      => vfs_ops = 0 /\ \A u \in Threads : ~Active(u)

InDriver(t) == pc[t] \in {"fs open", "fs close", "fs read", "fs volume", "fs unmount"}

IsMounted(x) == \E r \in Rows : mounted[r] = x

(* A driver is only ever called for a filesystem that is mounted, and it   *)
(* stays mounted until the call returns.                                   *)
DriverCallsMounted == \A t \in Threads : InDriver(t) => IsMounted(fs[t])

(* vfs_unmount removes only filesystems with no open files: until the      *)
(* forceful unmount, the filesystem of an open file is mounted.            *)
OpenFilesMounted ==
  (\A t \in Threads : pc[t] \notin {"halt unmount", "halted"})
    => \A f \in Files : open[f] # None => IsMounted(open[f])

(* The rows of openfile_table a thread relies on. *)
Uses(t) == handles[t] \cup (IF pc[t] \in {"fs open", "close", "fs close"} THEN {file[t]} ELSE {})

(* Every row a thread has opened, or is opening or closing, is taken, and  *)
(* is nobody else's: two calls of vfs_open never return the same row.  A   *)
(* volume name is in one row only, so that a lookup that stops at the      *)
(* first row with the name, mounted or not, never misses a mounted one.    *)
RowsExclusive ==
  /\ \A t \in Threads :
       /\ \A f \in Uses(t) : open[f] # None
       /\ \A u \in Threads \ {t} : Uses(t) \cap Uses(u) = {}
  /\ \A r, s \in Rows : r # s => mountpoint[r] # mountpoint[s] \/ mountpoint[r] = None

(* The forceful unmount gets through: vfs_deinit is not left waiting for   *)
(* operations that have ended.                                             *)
HaltCompletes == Halting ~> \E t \in Threads : pc[t] = "halted"

(* The same with callers that get it wrong: only an operation that an      *)
(* error return has left counted can keep vfs_deinit waiting.              *)
Leaked == vfs_ops > Cardinality({t \in Threads : Active(t)})
HaltUnlessLeaked == Halting ~> Leaked \/ \E t \in Threads : pc[t] = "halted"

(* No call waits for ever, whatever the order in which the others take and *)
(* give back the semaphores of the two tables.                             *)
CallsReturn == \A t \in Threads : Active(t) ~> ~Active(t)

-----------------------------------------------------------------------------
(* The inductive invariant.  It holds whatever callers get wrong. *)

ActiveThreads == {t \in Threads : Active(t)}

(* Operations are counted at least as long as they are under way, and the  *)
(* wake-up of vfs_deinit is given, and taken, only when none is counted.   *)
CountFacts ==
  /\ vfs_ops >= Cardinality(ActiveThreads)
  /\ vfs_usable => unmount_sem = 0 /\ ~Halting
  /\ unmount_sem # 0 => vfs_ops = 0
  /\ \A t \in Threads : pc[t] \in HaltLocations \ {"halt wait"} => vfs_ops = 0

(* Who holds which table. *)
TableHolders == {"unmount files", "fs unmount", "open files", "fs volume", "halt files", "halt unmount"}
FilesHolders == {"fs unmount", "fs close", "halt unmount"}

LockFacts ==
  \A t \in Threads :
    /\ pc[t] \in TableHolders => table_sem = t
    /\ pc[t] \in FilesHolders => openfile_sem = t

(* The arguments of a call fit the place it is at. *)
CallFacts ==
  \A t \in Threads :
    /\ pc[t] \in {"fs open", "close", "fs close", "seek", "read", "read fs"} => file[t] \in Files
    /\ pc[t] \in {"unmount files", "fs unmount"}
         => fs[t] # None /\ fs[t] = vfs_get_filesystem(name[t])
    /\ pc[t] = "fs unmount" => \A f \in Files : open[f] # fs[t]

(* The invariant the proofs of HaltFindsIdle and OpenFilesMounted rest on. *)
IInv == TypeOK /\ CountFacts /\ LockFacts /\ CallFacts /\ OpenFilesMounted
=============================================================================
