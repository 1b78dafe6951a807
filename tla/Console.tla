------------------------------ MODULE Console ------------------------------
(***************************************************************************)
(* Console input of kern/console.c: the scan codes of the keyboard and the *)
(* bytes of the serial port, the shift state of kbd_proc_data(), the ring   *)
(* buffer that cons_intr() fills and cons_getc() empties.  The devices are  *)
(* polled, from cons_getc() only, which runs under the kernel lock; what is *)
(* typed meanwhile waits in the devices.  A round of a loop of cons_intr()  *)
(* is one step, so bytes also arrive between two rounds.                   *)
(*                                                                         *)
(* A key is one of a few that exercise every branch: a letter, Delete, the *)
(* modifiers with and without E0 prefix, Caps Lock.                        *)
(***************************************************************************)
EXTENDS Integers, Sequences, FiniteSets

CONSTANTS
  Keys,         \* the keys that are typed
  Bytes,        \* what arrives on the serial port, 0 for none
  CONSBUFSIZE,  \* size of the ring buffer
  MaxUnread,    \* bound on the characters typed and not read yet
  KbdFifo       \* bytes the keyboard controller holds

ASSUME SizeAssumption ==
  CONSBUFSIZE \in Nat /\ MaxUnread \in Nat /\ MaxUnread < CONSBUFSIZE /\ KbdFifo \in Nat

(* Scan codes, and what they mean after kbd_proc_data() has merged the E0
   prefix into bit 7.                                                      *)
E0 == 224
Prefixed == {"rctl", "ralt", "del"}
ScanCode(k) == CASE k = "a" -> 30 [] k = "lshift" -> 42 [] k = "rshift" -> 54
                 [] k = "lctl" -> 29 [] k = "rctl" -> 29 [] k = "lalt" -> 56
                 [] k = "ralt" -> 56 [] k = "caps" -> 58 [] k = "del" -> 83
Make(k) == IF k \in Prefixed THEN <<E0, ScanCode(k)>> ELSE <<ScanCode(k)>>
Break(k) == IF k \in Prefixed THEN <<E0, ScanCode(k) + 128>> ELSE <<ScanCode(k) + 128>>

ASSUME KeysAssumption ==
  Keys \subseteq {"a", "lshift", "rshift", "lctl", "rctl", "lalt", "ralt", "caps", "del"}
ASSUME BytesAssumption == Bytes \subseteq 0 .. 255

KEY_DEL == 233

VARIABLES
  kbd,           \* bytes waiting in the keyboard controller
  com1,          \* bytes waiting in the serial port
  serial_exists,
  shift,         \* the static variable of kbd_proc_data()
  cons,          \* the ring buffer
  poll,          \* the device that cons_getc() polls, or will poll first
  rebooted,
  held,          \* history: the keys that are down
  lock,          \* history: whether Caps Lock is on
  meant,         \* history: for each byte in kbd, what the person meant by it
  unread         \* history: what was meant by the bytes taken, and not read yet

vars == <<kbd, com1, serial_exists, shift, cons, poll, rebooted, held, lock, meant, unread>>

Init ==
  /\ kbd = <<>> /\ com1 = <<>>
  /\ serial_exists \in BOOLEAN
  /\ shift = {}
  /\ cons = [buf |-> [i \in 0 .. CONSBUFSIZE - 1 |-> 0], rpos |-> 0, wpos |-> 0]
  /\ poll = "serial" /\ rebooted = FALSE
  /\ held = {} /\ lock = FALSE
  /\ meant = <<>> /\ unread = <<>>

----------------------------------------------------------------------------
(* kbd_proc_data() *)

shiftcode(data) == CASE data = 29 -> {"CTL"} [] data = 42 -> {"SHIFT"}
                     [] data = 54 -> {"SHIFT"} [] data = 56 -> {"ALT"}
                     [] data = 157 -> {"CTL"} [] data = 184 -> {"ALT"}
                     [] OTHER -> {}
togglecode(data) == IF data = 58 THEN {"CAPSLOCK"} ELSE {}

charcode(sh, data) ==
  CASE data = 30 -> IF "CTL" \in sh THEN 1 ELSE IF "SHIFT" \in sh THEN 65 ELSE 97
    [] data = 211 -> KEY_DEL
    [] OTHER -> 0

(* Faulty variant: Caps Lock is an upper case lock. *)
SwapCase_Up(c) == IF 97 <= c /\ c <= 122 THEN c - 32 ELSE c

SwapCase(c) == IF 97 <= c /\ c <= 122 THEN c - 32
               ELSE IF 65 <= c /\ c <= 90 THEN c + 32 ELSE c

Xor(s, t) == (s \ t) \cup (t \ s)

(* Faulty variant: a release leaves the prefix. *)
Released_KeepsPrefix(sh, data) ==
  sh \ shiftcode(IF "E0ESC" \in sh THEN data ELSE data - 128)

(* A key is released; whatever it was, the prefix is used up. *)
Released(sh, data) ==
  sh \ (shiftcode(IF "E0ESC" \in sh THEN data ELSE data - 128) \cup {"E0ESC"})

(* One byte: the new shift state, the character (0 if none), and whether the
   machine is told to reboot.                                              *)
kbd_proc_data(sh, data) ==
  IF data = E0 THEN [shift |-> sh \cup {"E0ESC"}, c |-> 0, reboot |-> FALSE]
  ELSE IF data >= 128 THEN [shift |-> Released(sh, data), c |-> 0, reboot |-> FALSE]
  ELSE LET code == IF "E0ESC" \in sh THEN data + 128 ELSE data
           new == Xor((sh \ {"E0ESC"}) \cup shiftcode(code), togglecode(code))
           c == charcode(new, code)
       IN [shift |-> new,
           c |-> IF "CAPSLOCK" \in new THEN SwapCase(c) ELSE c,
           reboot |-> {"CTL", "ALT"} \subseteq new /\ c = KEY_DEL]

----------------------------------------------------------------------------
(* The ring buffer *)

NextPos(pos) == IF pos + 1 = CONSBUFSIZE THEN 0 ELSE pos + 1

(* The loop body of cons_intr(): nothing tests for a full buffer. *)
cons_put(r, c) ==
  IF c = 0 THEN r ELSE [r EXCEPT !.buf = [@ EXCEPT ![r.wpos] = c], !.wpos = NextPos(r.wpos)]

(* A character of which c is meant is taken from a device. *)
Take(c) == unread' = IF c = 0 THEN unread ELSE Append(unread, c)

(* cons_getc(), as getchar() and sys_cgetc() call it: poll both devices, take
   one character.                                                          *)
serial_intr ==
  /\ ~ rebooted /\ poll = "serial"
  /\ \/ /\ serial_exists /\ com1 # <<>>
        /\ cons' = cons_put(cons, Head(com1)) /\ Take(Head(com1))
        /\ com1' = Tail(com1) /\ UNCHANGED poll
     \/ /\ ~ serial_exists \/ com1 = <<>>
        /\ poll' = "kbd" /\ UNCHANGED <<com1, cons, unread>>
  /\ UNCHANGED <<kbd, serial_exists, shift, rebooted, held, lock, meant>>

(* Nothing is done after the machine was told to reboot. *)
kbd_intr ==
  /\ ~ rebooted /\ poll = "kbd" /\ kbd # <<>>
  /\ LET r == kbd_proc_data(shift, Head(kbd)) IN
     IF r.reboot
     THEN rebooted' = TRUE /\ UNCHANGED <<kbd, shift, cons, meant, unread>>
     ELSE /\ shift' = r.shift
          /\ cons' = cons_put(cons, r.c) /\ Take(Head(meant).c)
          /\ kbd' = Tail(kbd) /\ meant' = Tail(meant)
          /\ UNCHANGED rebooted
  /\ UNCHANGED <<com1, serial_exists, poll, held, lock>>

(* The end of that loop, and the rest of cons_getc(). *)
cons_getc ==
  /\ ~ rebooted /\ poll = "kbd" /\ kbd = <<>>
  /\ poll' = "serial"
  /\ IF cons.rpos = cons.wpos THEN UNCHANGED <<cons, unread>>
     ELSE /\ cons' = [cons EXCEPT !.rpos = NextPos(@)]
          /\ unread' = IF unread = <<>> THEN unread ELSE Tail(unread)
  /\ UNCHANGED <<kbd, com1, serial_exists, shift, rebooted, held, lock, meant>>

----------------------------------------------------------------------------
(* The operator *)

(* Characters typed and not read. *)
Unread == Len(unread) + Cardinality({i \in DOMAIN meant : meant[i].c # 0}) + Len(com1)

(* Which modifiers are down, and what a key is for whoever types it: a character,
   the order to reboot, or neither (0).                                    *)
Modifiers == [lshift |-> "SHIFT", rshift |-> "SHIFT", lctl |-> "CTL", rctl |-> "CTL",
              lalt |-> "ALT", ralt |-> "ALT"]
DownOf(keys) == {Modifiers[k] : k \in keys \cap DOMAIN Modifiers}
Mods(keys, caps) == DownOf(keys) \cup (IF caps THEN {"CAPSLOCK"} ELSE {})
REBOOT == 256
Meaning(k) ==
  CASE k = "a" /\ "CTL" \in DownOf(held) -> 1
    [] k = "a" /\ "CTL" \notin DownOf(held) ->
         IF ("SHIFT" \in DownOf(held)) # lock THEN 65 ELSE 97
    [] k = "del" -> IF {"CTL", "ALT"} \subseteq DownOf(held) THEN REBOOT ELSE KEY_DEL
    [] OTHER -> 0

(* The bytes of a key reach the controller, the last of them with a meaning and
   with the modifiers it leaves.                                           *)
Sent(bytes, before, after, c) ==
  /\ Len(kbd) + Len(bytes) <= KbdFifo
  /\ Unread + (IF c = 0 THEN 0 ELSE 1) <= MaxUnread
  /\ kbd' = kbd \o bytes
  /\ meant' = meant \o [i \in DOMAIN bytes |->
                         IF i = Len(bytes) THEN [c |-> c, mods |-> after]
                         ELSE [c |-> 0, mods |-> before]]
  /\ UNCHANGED <<com1, serial_exists, shift, cons, poll, rebooted, unread>>

(* Both keys of a pair are not held together: the code keeps one bit for two
   keys.                                                                   *)
press(k) ==
  /\ ~ rebooted
  /\ k \in DOMAIN Modifiers => Modifiers[k] \notin DownOf(held)
  /\ k \notin held
  /\ held' = held \cup {k}
  /\ lock' = IF k = "caps" THEN ~ lock ELSE lock
  /\ Sent(Make(k), Mods(held, lock), Mods(held', lock'), Meaning(k))

release(k) ==
  /\ ~ rebooted
  /\ k \in held
  /\ held' = held \ {k} /\ UNCHANGED lock
  /\ Sent(Break(k), Mods(held, lock), Mods(held', lock), 0)

(* The serial port, without its FIFO, holds one byte. *)
arrive(b) ==
  /\ ~ rebooted /\ serial_exists
  /\ com1 = <<>>
  /\ Unread < MaxUnread
  /\ com1' = <<b>>
  /\ UNCHANGED <<kbd, serial_exists, shift, cons, poll, rebooted, held, lock, meant, unread>>

Next ==
  \/ serial_intr \/ kbd_intr \/ cons_getc
  \/ \E k \in Keys : press(k) \/ release(k)
  \/ \E b \in Bytes : arrive(b)
  \/ rebooted /\ UNCHANGED vars

Spec == Init /\ [][Next]_vars

----------------------------------------------------------------------------
(* Properties *)

(* Every variable has its type; the positions stay within the buffer. *)
TypeOK ==
  /\ cons \in [buf : [0 .. CONSBUFSIZE - 1 -> 0 .. 255],
               rpos : 0 .. CONSBUFSIZE - 1, wpos : 0 .. CONSBUFSIZE - 1]
  /\ kbd \in Seq(0 .. 255) /\ com1 \in Seq(Bytes)
  /\ shift \subseteq {"SHIFT", "CTL", "ALT", "CAPSLOCK", "E0ESC"}
  /\ serial_exists \in BOOLEAN /\ poll \in {"serial", "kbd"}
  /\ rebooted \in BOOLEAN /\ held \subseteq Keys /\ lock \in BOOLEAN

(* What the ring buffer holds, oldest first. *)
Filled(r) == IF r.rpos <= r.wpos THEN r.wpos - r.rpos ELSE r.wpos - r.rpos + CONSBUFSIZE
Slot(r, i) == IF r.rpos + i <= CONSBUFSIZE THEN r.rpos + i - 1
              ELSE r.rpos + i - 1 - CONSBUFSIZE
Contents(r) == [i \in 1 .. Filled(r) |-> r.buf[Slot(r, i)]]

(* cons_getc(): the characters that will be read are those meant by the bytes that
   have been taken from the devices, once each and in that order, in the case
   that the modifiers and Caps Lock gave them when they were typed, however many
   bytes arrive between two polls or during one; the machine reboots when and
   only when a person asks it to.  (The type invariant is part of it.)      *)
InputIsTyped ==
  /\ TypeOK
  /\ Contents(cons) = unread
  /\ rebooted => kbd # <<>> /\ meant[1].c = REBOOT

(* kbd_proc_data(): when the bytes waiting have been read, the shift state is that
   of the keys: no modifier sticks, no prefix is left over.                *)
ShiftFollowsKeys == kbd = <<>> => shift = Mods(held, lock)
=============================================================================
