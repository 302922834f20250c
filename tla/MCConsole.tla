----------------------------- MODULE MCConsole -----------------------------
(* The terminals for TLC: the mips32 driver, and the screen and the keyboard *)
(* of x86_64.  The three share no state; part says which one runs.           *)
EXTENDS TTY, Screen, Keyboard, TLC

CONSTANTS t1, t2, h1, h2, r1, r2

VARIABLE part

SomeTexts ==
  {<<"a">>, <<"b">>, <<"NL">>, <<"CR">>, <<"BS">>,
   <<"a", "b", "NUL", "a">>, <<"b", "NL", "b", "CR", "a">>}

(* Letters that nobody writes, and blanks. *)
SomeBoot == [i \in Cells |-> IF i % 3 = 0 THEN "z" ELSE Blank]

Init ==
  /\ part \in {"tty", "screen", "keyboard"}
  /\ TTYInit /\ tty_init /\ keyboard_init
  /\ part # "keyboard" => kb_irq

Next ==
  \/ /\ part = "tty" /\ TTYNext
     /\ UNCHANGED <<part, screenvars, keyboardvars>>
  \/ /\ part = "screen" /\ ScreenNext
     /\ UNCHANGED <<part, ttyvars, keyboardvars>>
  \/ /\ part = "keyboard" /\ KeyboardNext
     /\ UNCHANGED <<part, ttyvars, screenvars>>

Spec == Init /\ [][Next]_<<part, ttyvars, screenvars, keyboardvars>>

Symmetry ==
  Permutations(Callers) \cup Permutations(Handlers) \cup Permutations(Readers)

(* Not the cells outside the rings, nor what the rings determine, nor the  *)
(* modifiers that nothing reads, nor what a reader keeps of earlier calls. *)
View ==
  <<part,
    CASE part = "tty" ->
           <<slock, Ring(read_buf, read_head, read_count), read_head, readq,
             Ring(write_buf, write_head, write_count), write_head, writeq,
             transmitter, receiver, doing, left, serving>>
      [] part = "screen" -> screenvars
      [] part = "keyboard" ->
           <<kb_irq, kb_code, kb_shift, scan, at, room, since,
             [r \in Readers |->
                IF at[r] = "discard" THEN key[r] ELSE INVALID_SCANCODE]>>>>
=============================================================================
