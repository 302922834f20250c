------------------------------ MODULE Keyboard ------------------------------
(***************************************************************************)
(* The keyboard of the x86_64 terminal (drivers/x86_64/keyboard.c) and     *)
(* tty_read (drivers/x86_64/tty.c), which polls it.  The interrupt handler *)
(* keeps one key, kb_code; keyboard_getkey reads it and then discards it,  *)
(* and interrupts and other readers come in between.                       *)
(*                                                                         *)
(* since[r] is what has been typed since the key that reader r got last.   *)
(***************************************************************************)
EXTENDS Integers, Sequences, Functions, FiniteSetsExt

CONSTANTS
  Readers,       \* threads that read the keyboard
  LineLens,      \* lengths that readers ask for
  MaxSince       \* bound: keys typed since a reader's last

VARIABLES
  kb_irq,                      \* the handler is registered
  kb_code, kb_shift, kb_ctrl,  \* what the handler keeps
  kb_locks,                    \* the lock keys that are on
  scan,                        \* the data port: <<>> or <<scan code>>
  at, key, room, line,         \* each reader: where it is, key, j, buf
  since                        \* history

keys == <<kb_code, kb_shift, kb_ctrl, kb_locks>>
keyboardvars == <<kb_irq, keys, scan, at, key, room, line, since>>

INVALID_SCANCODE == "invalid"
Locks == {"caps", "num", "scroll"}
Modifiers == {"shift", "ctrl"} \cup Locks

(* kb_map and kb_map_shift, for the keys that the model has. *)
kb_map == [a |-> "a", enter |-> "NL", alt |-> "NUL"]
kb_map_shift == [a |-> "A", enter |-> "NL", alt |-> "NUL"]

ScanCodes ==
  [key : Modifiers \cup DOMAIN kb_map, up : BOOLEAN] \cup
  [key : {"extended"}, up : {FALSE}]

(* keyboard_init: unless the keyboard acknowledges every command, it       *)
(* returns without the handler, and kb_code keeps the zero it had.         *)
keyboard_init ==
  /\ kb_irq \in BOOLEAN
  /\ kb_code = IF kb_irq THEN INVALID_SCANCODE ELSE "NUL"
  /\ kb_shift = FALSE /\ kb_ctrl = FALSE
  /\ kb_locks = {}
  /\ scan = <<>>
  /\ at = [r \in Readers |-> "idle"]
  /\ key = [r \in Readers |-> INVALID_SCANCODE]
  /\ room = [r \in Readers |-> 0]
  /\ line = [r \in Readers |-> <<>>]
  /\ since = [r \in Readers |-> <<>>]

-----------------------------------------------------------------------------
(* A key goes down or up (external). *)
KeyMoves ==
  /\ scan = <<>>
  /\ \E code \in ScanCodes : scan' = <<code>>
  /\ UNCHANGED <<kb_irq, keys, at, key, room, line, since>>

(* A key that is pressed, and is none of those above it in the switch. *)
Pressed(k) ==
  LET char == IF kb_shift THEN kb_map_shift[k] ELSE kb_map[k] IN
  /\ \A r \in Readers : Len(since[r]) < MaxSince
  /\ kb_code' = char
  /\ since' = [r \in Readers |-> Append(since[r], char)]

keyboard_key_int ==
  /\ kb_irq /\ scan # <<>>
  /\ scan' = <<>>
  /\ LET code == scan[1] IN
     /\ kb_shift' = IF code.key = "shift" THEN ~ kb_shift ELSE kb_shift
     /\ kb_ctrl' = IF code.key = "ctrl" THEN ~ kb_ctrl ELSE kb_ctrl
     /\ kb_locks' = IF code.key \notin Locks THEN kb_locks
                    ELSE IF code.up THEN kb_locks \cup {code.key}
                                    ELSE kb_locks \ {code.key}
     /\ IF code.key \in DOMAIN kb_map /\ ~ code.up
          THEN Pressed(code.key)
          ELSE UNCHANGED <<kb_code, since>>
  /\ UNCHANGED <<kb_irq, at, key, room, line>>

-----------------------------------------------------------------------------
tty_read(r, len) ==
  /\ at[r] = "idle"
  /\ at' = [at EXCEPT ![r] = "poll"]
  /\ room' = [room EXCEPT ![r] = len]
  /\ line' = [line EXCEPT ![r] = <<>>]
  /\ UNCHANGED <<kb_irq, keys, scan, key, since>>

(* The history of a reader that gets char: what follows it. *)
After(typed, char) ==
  LET places == {i \in 1 .. Len(typed) : typed[i] = char}
  IN  IF places = {} THEN typed ELSE SubSeq(typed, Min(places) + 1, Len(typed))

(* keyboard_getkey: the key is read, ... *)
keyboard_getlastkey(r) ==
  /\ at[r] = "poll"
  /\ kb_code # INVALID_SCANCODE
  /\ key' = [key EXCEPT ![r] = kb_code]
  /\ since' = [since EXCEPT ![r] = After(@, kb_code)]
  /\ at' = [at EXCEPT ![r] = "discard"]
  /\ UNCHANGED <<kb_irq, keys, scan, room, line>>

Spin(r) ==
  /\ at[r] = "poll" /\ kb_code = INVALID_SCANCODE
  /\ UNCHANGED keyboardvars

(* Mutant: the key is not discarded. *)
KeepKey(r) ==
  LET enter == key[r] = "NL" IN
  /\ at[r] = "discard"
  /\ line' = [line EXCEPT ![r] = IF enter THEN @ ELSE Append(@, key[r])]
  /\ room' = [room EXCEPT ![r] = IF enter THEN 0 ELSE @ - 1]
  /\ at' = [at EXCEPT ![r] = IF enter \/ room[r] = 1 THEN "idle" ELSE "poll"]
  /\ UNCHANGED <<kb_irq, keys, scan, key, since>>

(* ... and discarded; tty_read stores it, or ends with the line.           *)
keyboard_discardkey(r) ==
  LET enter == key[r] = "NL" IN
  /\ at[r] = "discard"
  /\ kb_code' = INVALID_SCANCODE
  /\ line' = [line EXCEPT ![r] = IF enter THEN @ ELSE Append(@, key[r])]
  /\ room' = [room EXCEPT ![r] = IF enter THEN 0 ELSE @ - 1]
  /\ at' = [at EXCEPT ![r] = IF enter \/ room[r] = 1 THEN "idle" ELSE "poll"]
  /\ UNCHANGED <<kb_irq, kb_shift, kb_ctrl, kb_locks, scan, key, since>>

KeyboardNext ==
  \/ KeyMoves \/ keyboard_key_int
  \/ \E r \in Readers :
       \/ \E len \in LineLens : tty_read(r, len)
       \/ keyboard_getlastkey(r) \/ Spin(r) \/ keyboard_discardkey(r)

KeyboardSpec == keyboard_init /\ [][KeyboardNext]_keyboardvars

-----------------------------------------------------------------------------
(* With the handler registered, every reader gets keys in the order in     *)
(* which they were typed and none of them twice, although keyboard_getkey  *)
(* reads and discards the key in two steps, and loses one that is typed    *)
(* in between.                                                             *)
KeysInOrder ==
  [][\A r \in Readers :
       kb_irq /\ at[r] = "poll" /\ at'[r] = "discard" =>
         key'[r] \in Range(since[r])]_keyboardvars
=============================================================================
