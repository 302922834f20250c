----------------------------- MODULE MCPrograms -----------------------------
(* From the disk to the program for TLC: the volume, the disks of x86_64,  *)
(* the start of a program, and the heap, the formatted output and the      *)
(* division that it and the kernel use.  They share no state here: part    *)
(* says which one runs.                                                    *)
EXTENDS TFSTool, IDE, Process, Heap, Format, Quad

CONSTANTS t1, t2, h1, h2

VARIABLE part

-----------------------------------------------------------------------------
(* A disk of 28-bit numbers, something that is no disk, a disk of 48-bit   *)
(* numbers, and a CD.                                                      *)
Drives ==
  LET hd == [answers |-> TRUE, error |-> FALSE, atapi |-> FALSE,
             lba28 |-> 100, lba48 |-> 0]
      list == <<hd, [hd EXCEPT !.error = TRUE], [hd EXCEPT !.lba48 = 99],
                [hd EXCEPT !.error = TRUE, !.atapi = TRUE]>>
  IN  [slot \in DriveSlots |-> list[slot + 1]]

-----------------------------------------------------------------------------
(* A PC: the kernel lies behind the hole below the first megabyte, and the   *)
(* memory size does not count the hole.                                      *)
Earlier == <<40, 7>>

PC == <<[start |-> 0, length |-> 8, free |-> TRUE],
        [start |-> 8, length |-> 8, free |-> FALSE],
        [start |-> 16, length |-> 40, free |-> TRUE]>>

PT_LOAD(w, offset, vaddr, filesz, memsz) ==
  [type |-> "LOAD", write |-> w, offset |-> offset, vaddr |-> vaddr,
   filesz |-> filesz, memsz |-> memsz]
PT_NOTE == [type |-> "NOTE", write |-> FALSE, offset |-> 0, vaddr |-> 0,
         filesz |-> 1, memsz |-> 1]
ELF(phs, entry, size) ==
  [short |-> FALSE, magic |-> TRUE, exec |-> TRUE, phnum |-> Len(phs),
   phs |-> phs, entry |-> entry, size |-> size, seed |-> 0]

Files ==
  LET user == KernelSpace * PageUnits
      text == PT_LOAD(FALSE, 2, user, 3, 3)
      data == PT_LOAD(TRUE, 6, user + 2 * PageUnits, 1, 3)
      good == ELF(<<PT_NOTE, text, data>>, user, 8)
      list == <<good,
                [ELF(<<data>>, user + 5, 8) EXCEPT !.seed = 100],
                ELF(<<text, text>>, user + 1, 8),
                ELF(<<data, data>>, user + 1, 8),
                ELF(<<text, data>>, user - 1, 8),
                ELF(<<text>>, user + 1, 4),
                ELF(<<PT_NOTE>>, user + 1, 8),
                [good EXCEPT !.phnum = 0],
                [good EXCEPT !.phnum = 4],
                [good EXCEPT !.exec = FALSE],
                [good EXCEPT !.magic = FALSE],
                [good EXCEPT !.short = TRUE]>>
  IN  [i \in DOMAIN list |-> [list[i] EXCEPT !.seed = 20 * i]]

-----------------------------------------------------------------------------
Item(type, mods, arg) == [type |-> type, mods |-> mods, arg |-> arg, long |-> FALSE]
Long(item) == [item EXCEPT !.long = TRUE]
Items ==
  {Item("char", <<>>, "a"), Item("d", <<>>, -10), Item("d", <<"+">>, 7),
   Item("d", <<" ">>, -3), Item("u", <<"3">>, 10), Item("u", <<"0", "4">>, 300),
   Item("u", <<"9">>, 1), Item("o", <<".", "3">>, 8), Item("x", <<"#", "0", "5">>, 26),
   Item("X", <<"1", "0">>, 11), Item("p", <<>>, 12), Item("s", <<>>, <<"b", "c">>),
   Item("s", <<".", "2">>, <<"b", "c", "d">>), Long(Item("u", <<>>, 600)),
   Long(Item("x", <<"3">>, 600)), Long(Item("o", <<>>, 8))}

-----------------------------------------------------------------------------
Init ==
  /\ part \in {"volume", "ide", "process", "heap", "format", "quad"}
  /\ VolumeInit /\ IDEInit /\ ProcInit /\ HeapInit /\ FormatInit /\ QuadInit

Next ==
  \/ /\ part = "volume" /\ VolumeNext
     /\ UNCHANGED <<part, idevars, procvars, heapvars, formatvars, quadvars>>
  \/ /\ part = "ide" /\ IDENext
     /\ UNCHANGED <<part, volumevars, procvars, heapvars, formatvars, quadvars>>
  \/ /\ part = "process" /\ ProcNext
     /\ UNCHANGED <<part, volumevars, idevars, heapvars, formatvars, quadvars>>
  \/ /\ part = "heap" /\ HeapNext
     /\ UNCHANGED <<part, volumevars, idevars, procvars, formatvars, quadvars>>
  \/ /\ part = "format" /\ FormatNext
     /\ UNCHANGED <<part, volumevars, idevars, procvars, heapvars, quadvars>>
  \/ /\ part = "quad" /\ QuadNext
     /\ UNCHANGED <<part, volumevars, idevars, procvars, heapvars, formatvars>>

Spec ==
  Init /\ [][Next]_<<part, volumevars, idevars, procvars, heapvars, formatvars,
                     quadvars>>

(* The clients and the starters of programs are the threads, too. *)
Symmetry ==
  Permutations(Threads) \cup Permutations(Handles)

(* What a finished operation left in the buffers and in its locals, and    *)
(* what tfstool last showed, have no effect on what follows: every         *)
(* operation reads a block into a buffer, or fills the buffer, before it   *)
(* uses it.  A request writes every register of the channel that it uses.  *)
View ==
  <<part,
    CASE part = "volume" ->
           <<disk, mounted, lock,
             IF \E t \in Threads : Requests(t) THEN buffers ELSE <<>>,
             pc, [t \in Threads |-> IF Requests(t) THEN call[t] ELSE NoCall], handles,
             faults, files, torn, leaky>>
      [] part = "ide" ->
           <<request,
             [c \in Channels |->
                IF \E t \in Clients : Active(t) /\ ChannelOf(t) = c
                THEN channel[c] ELSE <<channel[c].busy>>]>>
      [] part = "process" -> procvars
      [] part = "heap" -> heapvars
      [] part = "format" -> formatvars
      [] part = "quad" -> quadvars>>

(* What follows on a torn volume is not followed up. *)
Whole == ~torn
=============================================================================
