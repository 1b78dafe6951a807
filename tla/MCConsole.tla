----------------------------- MODULE MCConsole -----------------------------
(* Console for TLC: a ring buffer of three characters. *)
EXTENDS Console

(* Slots of the ring buffer that were read are written before they are read
   again.                                                                  *)
UpToReadSlots ==
  <<kbd, com1, serial_exists, shift, cons.rpos, cons.wpos, Contents(cons), poll, rebooted,
    held, lock, meant, unread>>
=============================================================================
