--------------------------- MODULE ConsoleProofs ---------------------------
(***************************************************************************)
(* Proofs about Console for any set of keys and bytes and any size of the  *)
(* ring buffer: characters are read as they were meant, and no modifier    *)
(* sticks.                                                                 *)
(***************************************************************************)
EXTENDS Console, FiniteSetTheorems, SequenceTheorems, TLAPS

AllKeys == {"a", "lshift", "rshift", "lctl", "rctl", "lalt", "ralt", "caps", "del"}
AllMods == {"SHIFT", "CTL", "ALT", "CAPSLOCK"}
Meant == [c : 0 .. 256, mods : SUBSET AllMods]
Scancodes == 0 .. 255

Types ==
  /\ TypeOK
  /\ meant \in Seq(Meant) /\ Len(meant) = Len(kbd)
  /\ unread \in Seq(1 .. 256)

(* Both keys of a pair are not held together. *)
Pairs ==
  \A j, k \in held \cap DOMAIN Modifiers : Modifiers[j] = Modifiers[k] => j = k

(* The shift state that byte b leaves when m is meant by it: a prefix is kept
   until the next byte.                                                    *)
Leaves(b, m) == IF b = E0 THEN m.mods \cup {"E0ESC"} ELSE m.mods

(* From shift state sh, byte b does what m says. *)
Expected(sh, b, m) ==
  LET r == kbd_proc_data(sh, b) IN
  /\ r.shift = Leaves(b, m)
  /\ r.reboot <=> m.c = REBOOT
  /\ m.c # REBOOT => r.c = m.c

(* The shift state once i bytes have been read; all the bytes that wait will do
   what they were meant for, one after the other, and the last leaves the keys
   as they are now.                                                        *)
After(i, sh, bytes, m) == IF i = 0 THEN sh ELSE Leaves(bytes[i], m[i])
Chain ==
  /\ \A i \in 1 .. Len(kbd) : Expected(After(i - 1, shift, kbd, meant), kbd[i], meant[i])
  /\ After(Len(kbd), shift, kbd, meant) = Mods(held, lock)

Room == Unread \in Nat /\ Unread <= MaxUnread

IInv ==
  /\ Types /\ Pairs /\ Chain /\ Room
  /\ Contents(cons) = unread
  /\ rebooted => kbd # <<>> /\ meant[1].c = REBOOT

----------------------------------------------------------------------------
(* The ring buffer *)

Ring == [buf : [0 .. CONSBUFSIZE - 1 -> Scancodes],
         rpos : 0 .. CONSBUFSIZE - 1, wpos : 0 .. CONSBUFSIZE - 1]

LEMMA SizeFacts == CONSBUFSIZE \in Nat /\ CONSBUFSIZE > 0 /\ MaxUnread \in Nat /\ MaxUnread < CONSBUFSIZE
BY SizeAssumption

(* How many characters there are, and where they are. *)
LEMMA RingFacts ==
  ASSUME NEW r \in Ring
  PROVE  /\ Filled(r) \in 0 .. CONSBUFSIZE - 1
         /\ Filled(r) = 0 <=> r.rpos = r.wpos
         /\ \A i \in 1 .. Filled(r) : Slot(r, i) \in 0 .. CONSBUFSIZE - 1 /\ Slot(r, i) # r.wpos
         /\ Contents(r) \in Seq(Scancodes) /\ Len(Contents(r)) = Filled(r)
<1>1. r.rpos \in 0 .. CONSBUFSIZE - 1 /\ r.wpos \in 0 .. CONSBUFSIZE - 1
      /\ r.buf \in [0 .. CONSBUFSIZE - 1 -> Scancodes]
  BY DEF Ring
<1>2. Filled(r) \in 0 .. CONSBUFSIZE - 1 /\ (Filled(r) = 0 <=> r.rpos = r.wpos)
  BY <1>1, SizeFacts DEF Filled
<1>3. ASSUME NEW i \in 1 .. Filled(r)
      PROVE  Slot(r, i) \in 0 .. CONSBUFSIZE - 1 /\ Slot(r, i) # r.wpos
  BY <1>1, <1>2, SizeFacts DEF Filled, Slot
<1>4. ASSUME NEW i \in 1 .. Filled(r) PROVE r.buf[Slot(r, i)] \in Scancodes
  BY <1>1, <1>3
<1>5. Contents(r) \in [1 .. Filled(r) -> Scancodes]
  BY <1>4 DEF Contents
<1>6. Filled(r) \in Nat
  BY <1>2, SizeFacts
<1> QED
  BY <1>2, <1>3, <1>5, <1>6

(* A character is put behind the others, unless the buffer is full. *)
LEMMA PutAppends ==
  ASSUME NEW r \in Ring, NEW c \in 1 .. 255, Filled(r) + 1 < CONSBUFSIZE
  PROVE  /\ cons_put(r, c) \in Ring
         /\ Contents(cons_put(r, c)) = Append(Contents(r), c)
<1> DEFINE q == cons_put(r, c)
<1>1. /\ r.rpos \in 0 .. CONSBUFSIZE - 1 /\ r.wpos \in 0 .. CONSBUFSIZE - 1
      /\ r.buf \in [0 .. CONSBUFSIZE - 1 -> Scancodes]
  BY DEF Ring
<1>2. /\ q.buf = [r.buf EXCEPT ![r.wpos] = c] /\ q.rpos = r.rpos
      /\ q.wpos = NextPos(r.wpos)
  <2> DEFINE b == [r.buf EXCEPT ![r.wpos] = c]   w == NextPos(r.wpos)
  <2>1. c # 0
    OBVIOUS
  <2>2. q = [r EXCEPT !.buf = b, !.wpos = w]
    BY <2>1, Zenon DEF cons_put
  <2> HIDE DEF b, w, q
  <2>3. q.buf = b /\ q.rpos = r.rpos /\ q.wpos = w
    BY <2>2 DEF Ring
  <2> QED
    BY <2>3 DEF b, w
<1>3. NextPos(r.wpos) \in 0 .. CONSBUFSIZE - 1
  BY <1>1, SizeFacts DEF NextPos
<1>4. q \in Ring
  <2>1. [r.buf EXCEPT ![r.wpos] = c] \in [0 .. CONSBUFSIZE - 1 -> Scancodes]
    <3>1. c \in Scancodes
      BY DEF Scancodes
    <3> QED
      BY <1>1, <3>1
  <2>2. c # 0
    OBVIOUS
  <2> QED
    BY <1>3, <2>1, <2>2 DEF Ring, cons_put
<1>5. Filled(q) = Filled(r) + 1
  <2> HIDE DEF q
  <2>1. CASE r.wpos + 1 = CONSBUFSIZE
    <3>1. q.wpos = 0
      BY <1>2, <2>1 DEF NextPos
    <3> QED
      BY <3>1, <1>1, <1>2, <2>1, SizeFacts DEF Filled
  <2>2. CASE r.wpos + 1 # CONSBUFSIZE
    <3>1. q.wpos = r.wpos + 1
      BY <1>2, <2>2 DEF NextPos
    <3>2. r.rpos \in Nat /\ r.wpos \in Nat /\ CONSBUFSIZE \in Nat /\ q.rpos = r.rpos
      BY <1>1, <1>2, SizeFacts
    <3>3. CASE r.rpos <= r.wpos
      BY <3>1, <3>2, <3>3 DEF Filled
    <3>4. CASE r.rpos > r.wpos
      <4>1. Filled(r) = r.wpos - r.rpos + CONSBUFSIZE
        BY <3>2, <3>4 DEF Filled
      <4>2. r.wpos + 1 < r.rpos
        BY <3>2, <4>1
      <4> QED
        BY <3>1, <3>2, <4>1, <4>2 DEF Filled
    <3> QED
      BY <3>2, <3>3, <3>4
  <2> QED
    BY <2>1, <2>2
<1>6. \A i \in Int : Slot(q, i) = Slot(r, i)
  BY <1>2 DEF Slot
<1>7. Slot(r, Filled(r) + 1) = r.wpos
  BY <1>1, SizeFacts DEF Slot, Filled
<1>8. Filled(r) \in Nat /\ Contents(r) \in Seq(Scancodes) /\ Len(Contents(r)) = Filled(r)
  BY RingFacts, SizeFacts
<1>9. Contents(q) \in Seq(Scancodes) /\ Len(Contents(q)) = Filled(r) + 1
  BY <1>4, <1>5, RingFacts
<1>10. ASSUME NEW i \in 1 .. Filled(r) PROVE Contents(q)[i] = Contents(r)[i]
  <2>1. i \in 1 .. Filled(q) /\ i \in Int
    BY <1>5, <1>8
  <2>2. Slot(q, i) = Slot(r, i) /\ Slot(r, i) \in 0 .. CONSBUFSIZE - 1 /\ Slot(r, i) # r.wpos
    BY <1>6, <2>1, RingFacts
  <2>3. q.buf[Slot(r, i)] = r.buf[Slot(r, i)]
    BY <1>1, <1>2, <2>2
  <2> QED
    BY <2>1, <2>2, <2>3 DEF Contents
<1>11. Contents(q)[Filled(r) + 1] = c
  <2>1. Filled(r) + 1 \in 1 .. Filled(q) /\ Filled(r) + 1 \in Int
    BY <1>5, <1>8
  <2>2. q.buf[r.wpos] = c
    BY <1>1, <1>2
  <2>3. Slot(q, Filled(r) + 1) = r.wpos
    BY <1>6, <1>7, <2>1
  <2>4. Contents(q)[Filled(r) + 1] = q.buf[Slot(q, Filled(r) + 1)]
    BY <2>1 DEF Contents
  <2> QED
    BY <2>2, <2>3, <2>4
<1>12. Append(Contents(r), c) \in Seq(Scancodes) /\ Len(Append(Contents(r), c)) = Filled(r) + 1
  BY <1>8 DEF Scancodes
<1>13. \A i \in 1 .. Filled(r) + 1 : Contents(q)[i] = Append(Contents(r), c)[i]
  BY <1>8, <1>10, <1>11
<1>14. Contents(q) = Append(Contents(r), c)
  <2> DEFINE A == Contents(q)   B == Append(Contents(r), c)   n == Filled(r) + 1
  <2>1. A \in Seq(Scancodes) /\ B \in Seq(Scancodes) /\ Len(A) = n /\ Len(B) = n /\ n \in Nat
    BY <1>8, <1>9, <1>12
  <2>2. \A i \in 1 .. n : A[i] = B[i]
    BY <1>13
  <2> HIDE DEF A, B, n
  <2>3. A = B
    BY <2>1, <2>2, SeqEqual
  <2> QED
    BY <2>3 DEF A, B
<1> QED
  BY <1>4, <1>14

(* The first character is taken. *)
LEMMA ReadTails ==
  ASSUME NEW r \in Ring, r.rpos # r.wpos
  PROVE  LET q == [r EXCEPT !.rpos = NextPos(@)] IN
         /\ q \in Ring /\ Contents(r) # <<>> /\ Contents(q) = Tail(Contents(r))
<1> DEFINE q == [r EXCEPT !.rpos = NextPos(@)]
<1>1. /\ r.rpos \in 0 .. CONSBUFSIZE - 1 /\ r.wpos \in 0 .. CONSBUFSIZE - 1
      /\ r.buf \in [0 .. CONSBUFSIZE - 1 -> Scancodes]
  BY DEF Ring
<1>2. q.buf = r.buf /\ q.rpos = NextPos(r.rpos) /\ q.wpos = r.wpos
  BY DEF Ring
<1>3. NextPos(r.rpos) \in 0 .. CONSBUFSIZE - 1
  BY <1>1, SizeFacts DEF NextPos
<1>4. q \in Ring
  BY <1>3 DEF Ring
<1>5. Filled(q) = Filled(r) - 1
  BY <1>1, <1>2, SizeFacts DEF Filled, NextPos
<1>6. /\ Filled(r) \in Nat /\ Filled(r) > 0
      /\ Contents(r) \in Seq(Scancodes) /\ Len(Contents(r)) = Filled(r)
  BY RingFacts, SizeFacts
<1>7. Contents(q) \in Seq(Scancodes) /\ Len(Contents(q)) = Filled(r) - 1
  BY <1>4, <1>5, RingFacts
<1>8. ASSUME NEW i \in 1 .. Filled(r) - 1 PROVE Contents(q)[i] = Contents(r)[i + 1]
  <2>1. i \in 1 .. Filled(q) /\ i + 1 \in 1 .. Filled(r)
    BY <1>5, <1>6
  <2>2. Slot(q, i) = Slot(r, i + 1)
    <3>1. Slot(q, i) = IF NextPos(r.rpos) + i <= CONSBUFSIZE THEN NextPos(r.rpos) + i - 1
                       ELSE NextPos(r.rpos) + i - 1 - CONSBUFSIZE
      BY <1>2 DEF Slot
    <3>2. i + 1 < CONSBUFSIZE /\ i \in Nat /\ i >= 1
      BY <2>1, <1>6, RingFacts, SizeFacts
    <3> HIDE DEF q
    <3>3. CASE r.rpos + 1 = CONSBUFSIZE
      <4>1. NextPos(r.rpos) = 0
        BY <3>3 DEF NextPos
      <4> QED
        BY <4>1, <3>1, <3>2, <3>3, <1>1, SizeFacts DEF Slot
    <3>4. CASE r.rpos + 1 # CONSBUFSIZE
      <4>1. NextPos(r.rpos) = r.rpos + 1
        BY <3>4 DEF NextPos
      <4> QED
        BY <4>1, <3>1, <3>2, <3>4, <1>1, SizeFacts DEF Slot
    <3> QED
      BY <3>3, <3>4
  <2> QED
    BY <1>2, <2>1, <2>2 DEF Contents
<1>9. /\ Contents(r) # <<>> /\ Tail(Contents(r)) \in Seq(Scancodes)
      /\ Len(Tail(Contents(r))) = Filled(r) - 1
      /\ \A i \in 1 .. Filled(r) - 1 : Tail(Contents(r))[i] = Contents(r)[i + 1]
  BY <1>6
<1>10. \A i \in 1 .. Filled(r) - 1 : Contents(q)[i] = Tail(Contents(r))[i]
  BY <1>8, <1>9
<1>11. Contents(q) = Tail(Contents(r))
  <2> DEFINE A == Contents(q)   B == Tail(Contents(r))   n == Filled(r) - 1
  <2>1. A \in Seq(Scancodes) /\ B \in Seq(Scancodes) /\ Len(A) = n /\ Len(B) = n /\ n \in Nat
    BY <1>6, <1>7, <1>9
  <2>2. \A i \in 1 .. n : A[i] = B[i]
    BY <1>10
  <2> HIDE DEF A, B, n
  <2>3. A = B
    BY <2>1, <2>2, SeqEqual
  <2> QED
    BY <2>3 DEF A, B
<1> QED
  BY <1>4, <1>9, <1>11

----------------------------------------------------------------------------
(* Counting the characters meant *)

Meaningful(m) == {i \in DOMAIN m : m[i].c # 0}
LEMMA MeaningfulFinite ==
  ASSUME NEW m \in Seq(Meant)
  PROVE  /\ Meaningful(m) \subseteq 1 .. Len(m) /\ IsFiniteSet(Meaningful(m))
         /\ Cardinality(Meaningful(m)) \in Nat
<1>1. Meaningful(m) \subseteq 1 .. Len(m) /\ Len(m) \in Nat
  BY DEF Meaningful
<1>2. IsFiniteSet(1 .. Len(m))
  BY <1>1, FS_Interval
<1> QED
  BY <1>1, <1>2, FS_Subset, FS_CardinalityType

(* Bytes of which only the last may be a character. *)
LEMMA MeantMore ==
  ASSUME NEW m \in Seq(Meant), NEW s \in Seq(Meant), Len(s) > 0,
         \A i \in 1 .. Len(s) - 1 : s[i].c = 0
  PROVE  Cardinality(Meaningful(m \o s)) =
           Cardinality(Meaningful(m)) + (IF s[Len(s)].c = 0 THEN 0 ELSE 1)
<1> DEFINE l == Len(m)   n == Len(s)   t == m \o s
<1>1. /\ l \in Nat /\ n \in Nat /\ n > 0 /\ t \in Seq(Meant) /\ Len(t) = l + n
      /\ DOMAIN t = 1 .. l + n /\ DOMAIN m = 1 .. l
  OBVIOUS
<1>2. /\ \A i \in 1 .. l : t[i] = m[i]
      /\ \A i \in 1 .. n : t[l + i] = s[i]
  OBVIOUS
<1>3. ASSUME NEW i \in 1 .. l + n, i > l, i # l + n PROVE t[i].c = 0
  <2>1. i - l \in 1 .. n - 1 /\ i = l + (i - l)
    <3> HIDE DEF l, n, t
    <3> QED
      BY <1>1, <1>3
  <2>2. t[l + (i - l)] = s[i - l]
    BY <1>1, <1>2, <2>1
  <2>3. s[i - l].c = 0
    BY <2>1
  <2> QED
    BY <2>1, <2>2, <2>3
<1>4. t[l + n] = s[n]
  BY <1>1, <1>2
<1>5. IsFiniteSet(Meaningful(m)) /\ l + n \notin Meaningful(m)
  BY <1>1, MeaningfulFinite
<1>6. CASE s[n].c = 0
  <2>1. Meaningful(t) = Meaningful(m)
    BY <1>1, <1>2, <1>3, <1>4, <1>6 DEF Meaningful
  <2> QED
    BY <2>1, <1>6, MeaningfulFinite
<1>7. CASE s[n].c # 0
  <2>1. Meaningful(t) = Meaningful(m) \cup {l + n}
    BY <1>1, <1>2, <1>3, <1>4, <1>7 DEF Meaningful
  <2>2. Cardinality(Meaningful(m) \cup {l + n}) = Cardinality(Meaningful(m)) + 1
    BY <1>5, FS_AddElement
  <2> QED
    BY <2>1, <2>2, <1>7
<1> QED
  BY <1>6, <1>7

LEMMA MeantLess ==
  ASSUME NEW m \in Seq(Meant), m # <<>>
  PROVE  Cardinality(Meaningful(m)) =
           Cardinality(Meaningful(Tail(m))) + (IF m[1].c = 0 THEN 0 ELSE 1)
<1> DEFINE t == Tail(m)   T == Meaningful(t)   M == Meaningful(m)   R == M \ {1}
           f == [i \in T |-> i + 1]
<1>1. /\ Len(m) \in Nat /\ Len(m) > 0 /\ t \in Seq(Meant) /\ Len(t) = Len(m) - 1
      /\ \A i \in 1 .. Len(m) - 1 : t[i] = m[i + 1]
      /\ DOMAIN t = 1 .. Len(m) - 1 /\ DOMAIN m = 1 .. Len(m)
  OBVIOUS
<1>2. IsFiniteSet(T) /\ IsFiniteSet(M) /\ Cardinality(T) \in Nat /\ Cardinality(M) \in Nat
  BY <1>1, MeaningfulFinite
<1>3. ASSUME NEW i \in T PROVE i + 1 \in R /\ i \in Nat
  BY <1>1 DEF Meaningful
<1>4. ASSUME NEW j \in R PROVE j - 1 \in T /\ j \in Nat
  <2>1. j \in 2 .. Len(m) /\ m[j].c # 0
    BY <1>1 DEF Meaningful
  <2>2. j - 1 \in 1 .. Len(m) - 1 /\ (j - 1) + 1 = j
    BY <1>1, <2>1
  <2>3. t[j - 1] = m[j]
    BY <1>1, <2>2
  <2> QED
    BY <1>1, <2>1, <2>2, <2>3 DEF Meaningful
<1>5. f \in Bijection(T, R)
  <2>1. f \in [T -> R]
    BY <1>3
  <2>2. IsInjective(f)
    <3> SUFFICES ASSUME NEW i \in T, NEW j \in T, f[i] = f[j] PROVE i = j
      BY <2>1 DEF IsInjective
    <3>1. i \in Nat /\ j \in Nat /\ f[i] = i + 1 /\ f[j] = j + 1
      BY <1>3
    <3> QED
      BY <3>1
  <2>3. \A j \in R : \E i \in T : f[i] = j
    <3> TAKE j \in R
    <3>1. j - 1 \in T /\ f[j - 1] = j
      BY <1>4
    <3> QED
      BY <3>1
  <2> HIDE DEF T, R, f
  <2> QED
    BY <2>1, <2>2, <2>3 DEF Bijection, Injection, Surjection
<1>6. Cardinality(R) = Cardinality(T)
  <2>1. ExistsBijection(T, R)
    BY <1>5 DEF ExistsBijection
  <2> HIDE DEF R, T
  <2> QED
    BY <2>1, <1>2, FS_Bijection
<1>7. CASE m[1].c = 0
  <2>1. R = M
    BY <1>7 DEF Meaningful
  <2>2. Cardinality(M) = Cardinality(T)
    BY <2>1, <1>6
  <2> QED
    BY <2>2, <1>2, <1>7
<1>8. CASE m[1].c # 0
  <2>1. 1 \in M
    BY <1>1, <1>8 DEF Meaningful
  <2>2. Cardinality(R) = Cardinality(M) - 1
    BY <2>1, <1>2, FS_RemoveElement
  <2> QED
    BY <2>2, <1>2, <1>6, <1>8
<1> QED
  BY <1>7, <1>8
----------------------------------------------------------------------------
(* What the keys do *)

LEMMA HeldFacts ==
  ASSUME Types, NEW k \in Keys
  PROVE  /\ held \subseteq AllKeys /\ k \in AllKeys
         /\ DOMAIN Modifiers = {"lshift", "rshift", "lctl", "rctl", "lalt", "ralt"}
         /\ \A j \in DOMAIN Modifiers : Modifiers[j] \in {"SHIFT", "CTL", "ALT"}
         /\ DownOf(held) \subseteq {"SHIFT", "CTL", "ALT"}
BY KeysAssumption DEF Types, TypeOK, AllKeys, Modifiers, DownOf

(* A key that goes down or up takes its modifier along, and no other. *)
LEMMA DownWith ==
  ASSUME Types, NEW k \in Keys
  PROVE  DownOf(held \cup {k}) =
           DownOf(held) \cup (IF k \in DOMAIN Modifiers THEN {Modifiers[k]} ELSE {})
BY DEF DownOf

LEMMA DownWithout ==
  ASSUME Types, Pairs, NEW k \in held
  PROVE  DownOf(held \ {k}) =
           DownOf(held) \ (IF k \in DOMAIN Modifiers THEN {Modifiers[k]} ELSE {})
BY DEF DownOf, Pairs

(* What each key is, by its scan code. *)
LEMMA Codes ==
  /\ ScanCode("a") = 30 /\ ScanCode("lshift") = 42 /\ ScanCode("rshift") = 54
  /\ ScanCode("lctl") = 29 /\ ScanCode("rctl") = 29 /\ ScanCode("lalt") = 56
  /\ ScanCode("ralt") = 56 /\ ScanCode("caps") = 58 /\ ScanCode("del") = 83
BY DEF ScanCode

LEMMA ShiftCodes ==
  /\ shiftcode(29) = {"CTL"} /\ shiftcode(42) = {"SHIFT"} /\ shiftcode(54) = {"SHIFT"}
  /\ shiftcode(56) = {"ALT"} /\ shiftcode(157) = {"CTL"} /\ shiftcode(184) = {"ALT"}
  /\ shiftcode(30) = {} /\ shiftcode(58) = {} /\ shiftcode(211) = {}
BY DEF shiftcode

(* kbd_proc_data() for a key: code is the scan code with the prefix merged in. *)
Code(k) == IF k \in Prefixed THEN ScanCode(k) + 128 ELSE ScanCode(k)
Before(k, sh) == IF k \in Prefixed THEN sh \cup {"E0ESC"} ELSE sh
NewShift(sh, code) == Xor(sh \cup shiftcode(code), togglecode(code))
NewChar(sh, code) == IF "CAPSLOCK" \in sh THEN SwapCase(charcode(sh, code)) ELSE charcode(sh, code)

LEMMA CodeFacts ==
  ASSUME NEW k \in AllKeys
  PROVE  /\ ScanCode(k) \in 1 .. 83
         /\ Code(k) = CASE k = "a" -> 30 [] k = "lshift" -> 42 [] k = "rshift" -> 54
                       [] k = "lctl" -> 29 [] k = "rctl" -> 157 [] k = "lalt" -> 56
                       [] k = "ralt" -> 184 [] k = "caps" -> 58 [] k = "del" -> 211
         /\ shiftcode(Code(k)) = IF k \in DOMAIN Modifiers THEN {Modifiers[k]} ELSE {}
         /\ togglecode(Code(k)) = IF k = "caps" THEN {"CAPSLOCK"} ELSE {}
         /\ Code(k) = 30 <=> k = "a"
         /\ Code(k) = 211 <=> k = "del"
<1>1. CASE k = "a"
  BY <1>1, Codes, ShiftCodes DEF Code, Prefixed, Modifiers, togglecode
<1>2. CASE k = "lshift"
  BY <1>2, Codes, ShiftCodes DEF Code, Prefixed, Modifiers, togglecode
<1>3. CASE k = "rshift"
  BY <1>3, Codes, ShiftCodes DEF Code, Prefixed, Modifiers, togglecode
<1>4. CASE k = "lctl"
  BY <1>4, Codes, ShiftCodes DEF Code, Prefixed, Modifiers, togglecode
<1>5. CASE k = "rctl"
  BY <1>5, Codes, ShiftCodes DEF Code, Prefixed, Modifiers, togglecode
<1>6. CASE k = "lalt"
  BY <1>6, Codes, ShiftCodes DEF Code, Prefixed, Modifiers, togglecode
<1>7. CASE k = "ralt"
  BY <1>7, Codes, ShiftCodes DEF Code, Prefixed, Modifiers, togglecode
<1>8. CASE k = "caps"
  BY <1>8, Codes, ShiftCodes DEF Code, Prefixed, Modifiers, togglecode
<1>9. CASE k = "del"
  BY <1>9, Codes, ShiftCodes DEF Code, Prefixed, Modifiers, togglecode
<1> QED
  BY <1>1, <1>2, <1>3, <1>4, <1>5, <1>6, <1>7, <1>8, <1>9 DEF AllKeys

LEMMA MakeDoes ==
  ASSUME NEW k \in AllKeys, NEW sh \in SUBSET AllMods
  PROVE  LET r == kbd_proc_data(Before(k, sh), ScanCode(k))
             new == NewShift(sh, Code(k))
         IN /\ r.shift = new /\ r.c = NewChar(new, Code(k))
            /\ r.reboot <=> {"CTL", "ALT"} \subseteq new /\ charcode(new, Code(k)) = KEY_DEL
<1> DEFINE s == Before(k, sh)   d == ScanCode(k)   code == Code(k)
           new == NewShift(sh, code)   c == charcode(new, code)
<1>1. d \in 1 .. 83 /\ d # E0 /\ ~ d >= 128
  BY CodeFacts DEF E0
<1>2. "E0ESC" \notin sh /\ s \ {"E0ESC"} = sh /\ ("E0ESC" \in s <=> k \in Prefixed)
  BY DEF Before, AllMods
<1>3. code = IF "E0ESC" \in s THEN d + 128 ELSE d
  BY <1>2 DEF Code
<1>4. new = Xor((s \ {"E0ESC"}) \cup shiftcode(code), togglecode(code))
  BY <1>2 DEF NewShift
<1> HIDE DEF s, d, code
<1>5. kbd_proc_data(s, d) =
        [shift |-> new,
         c |-> IF "CAPSLOCK" \in new THEN SwapCase(c) ELSE c,
         reboot |-> {"CTL", "ALT"} \subseteq new /\ c = KEY_DEL]
  <2> DEFINE x == IF "E0ESC" \in s THEN d + 128 ELSE d
             n == Xor((s \ {"E0ESC"}) \cup shiftcode(x), togglecode(x))
  <2>1. kbd_proc_data(s, d) =
          [shift |-> n,
           c |-> IF "CAPSLOCK" \in n THEN SwapCase(charcode(n, x)) ELSE charcode(n, x),
           reboot |-> {"CTL", "ALT"} \subseteq n /\ charcode(n, x) = KEY_DEL]
    BY <1>1, Zenon DEF kbd_proc_data
  <2>2. code = x
    BY <1>3
  <2>3. new = n
    BY <1>4, <2>2, Zenon
  <2>4. c = charcode(n, x)
    BY <2>2, <2>3, Zenon
  <2> HIDE DEF x, n, new, c
  <2> QED
    BY <2>1, <2>3, <2>4, Zenon
<1> HIDE DEF new, c
<1>6. /\ kbd_proc_data(s, d).shift = new
      /\ kbd_proc_data(s, d).c = IF "CAPSLOCK" \in new THEN SwapCase(c) ELSE c
      /\ kbd_proc_data(s, d).reboot = ({"CTL", "ALT"} \subseteq new /\ c = KEY_DEL)
  BY <1>5
<1> QED
  BY <1>6, Zenon DEF s, d, code, new, c, NewChar

LEMMA BreakDoes ==
  ASSUME NEW k \in AllKeys, NEW sh \in SUBSET AllMods
  PROVE  LET r == kbd_proc_data(Before(k, sh), ScanCode(k) + 128)
         IN r.shift = sh \ shiftcode(Code(k)) /\ r.c = 0 /\ r.reboot = FALSE
<1> DEFINE s == Before(k, sh)   d == ScanCode(k) + 128   code == Code(k)
<1>1. d # E0 /\ d >= 128 /\ d - 128 = ScanCode(k)
  BY CodeFacts DEF E0
<1>2. "E0ESC" \notin sh /\ s \ {"E0ESC"} = sh /\ ("E0ESC" \in s <=> k \in Prefixed)
  BY DEF Before, AllMods
<1>3. code = IF "E0ESC" \in s THEN d ELSE d - 128
  BY <1>1, <1>2 DEF Code
<1>4. Released(s, d) = sh \ shiftcode(code)
  <2> HIDE DEF s, d, code
  <2>1. Released(s, d) = s \ (shiftcode(code) \cup {"E0ESC"})
    BY <1>3, Zenon DEF Released
  <2> QED
    BY <2>1, <1>2
<1> HIDE DEF s, d, code
<1>5. kbd_proc_data(s, d) = [shift |-> Released(s, d), c |-> 0, reboot |-> FALSE]
  BY <1>1, Zenon DEF kbd_proc_data
<1>6. /\ kbd_proc_data(s, d).shift = Released(s, d)
      /\ kbd_proc_data(s, d).c = 0 /\ kbd_proc_data(s, d).reboot = FALSE
  BY <1>5
<1> QED
  BY <1>4, <1>6, Zenon DEF s, d, code

(* A prefix says nothing by itself. *)
LEMMA PrefixDoes ==
  ASSUME NEW sh \in SUBSET AllMods
  PROVE  Expected(sh, E0, [c |-> 0, mods |-> sh])
BY DEF Expected, kbd_proc_data, Leaves, REBOOT

(* The last byte of a key does what the key is for, and leaves the modifiers as the
   keys are then.                                                          *)
LEMMA PressDoes ==
  ASSUME Types, Pairs, NEW k \in Keys, k \notin held,
         k \in DOMAIN Modifiers => Modifiers[k] \notin DownOf(held)
  PROVE  LET after == Mods(held \cup {k}, IF k = "caps" THEN ~ lock ELSE lock) IN
         /\ after \in SUBSET AllMods /\ Meaning(k) \in 0 .. 256
         /\ Expected(Before(k, Mods(held, lock)), ScanCode(k), [c |-> Meaning(k), mods |-> after])
<1> DEFINE sh == Mods(held, lock)   D == DownOf(held)
           after == Mods(held \cup {k}, IF k = "caps" THEN ~ lock ELSE lock)
           code == Code(k)   r == kbd_proc_data(Before(k, sh), ScanCode(k))
<1>1. /\ D \subseteq {"SHIFT", "CTL", "ALT"} /\ k \in AllKeys /\ lock \in BOOLEAN
      /\ k \in DOMAIN Modifiers => Modifiers[k] \in {"SHIFT", "CTL", "ALT"} /\ k # "caps"
  BY HeldFacts DEF Types, TypeOK
<1>2. sh = D \cup (IF lock THEN {"CAPSLOCK"} ELSE {}) /\ sh \in SUBSET AllMods
  BY <1>1 DEF Mods, AllMods
<1>3. after = D \cup (IF k \in DOMAIN Modifiers THEN {Modifiers[k]} ELSE {})
                \cup (IF k = "caps" THEN IF lock THEN {} ELSE {"CAPSLOCK"}
                      ELSE IF lock THEN {"CAPSLOCK"} ELSE {})
  BY <1>1, DownWith DEF Mods
<1>4. after \in SUBSET AllMods
  BY <1>1, <1>3 DEF AllMods
<1>5. /\ shiftcode(code) = IF k \in DOMAIN Modifiers THEN {Modifiers[k]} ELSE {}
      /\ togglecode(code) = IF k = "caps" THEN {"CAPSLOCK"} ELSE {}
      /\ code = 30 <=> k = "a"
      /\ code = 211 <=> k = "del"
  BY <1>1, CodeFacts
<1> DEFINE new == NewShift(sh, code)
<1>6. new = after
  <2> HIDE DEF sh, D, after, code
  <2>1. CASE k \in DOMAIN Modifiers
    BY <2>1, <1>1, <1>2, <1>3, <1>5 DEF NewShift, Xor
  <2>2. CASE k = "caps"
    BY <2>2, <1>1, <1>2, <1>3, <1>5 DEF NewShift, Xor
  <2>3. CASE k \notin DOMAIN Modifiers /\ k # "caps"
    BY <2>3, <1>1, <1>2, <1>3, <1>5 DEF NewShift, Xor
  <2> QED
    BY <2>1, <2>2, <2>3
<1>7. /\ r.shift = after /\ r.c = NewChar(after, code)
      /\ r.reboot <=> {"CTL", "ALT"} \subseteq after /\ charcode(after, code) = KEY_DEL
  <2> HIDE DEF sh, after
  <2> QED
    BY <1>1, <1>2, <1>6, MakeDoes
<1>8. ScanCode(k) # E0
  BY <1>1, CodeFacts DEF E0
<1>9. /\ Meaning(k) \in 0 .. 256
      /\ r.reboot <=> Meaning(k) = REBOOT
      /\ Meaning(k) # REBOOT => r.c = Meaning(k)
  <2> HIDE DEF sh, D, after, code, r
  <2>1. CASE k = "a"
    <3>1. after = D \cup (IF lock THEN {"CAPSLOCK"} ELSE {}) /\ code = 30
      BY <2>1, <1>2, <1>3, <1>5 DEF Modifiers
    <3>2. charcode(after, code) =
            IF "CTL" \in D THEN 1 ELSE IF "SHIFT" \in D THEN 65 ELSE 97
      BY <3>1 DEF charcode
    <3>3. r.c = IF lock THEN SwapCase(charcode(after, code)) ELSE charcode(after, code)
      BY <1>1, <1>7, <3>1 DEF NewChar
    <3>4. SwapCase(1) = 1 /\ SwapCase(65) = 97 /\ SwapCase(97) = 65
      BY DEF SwapCase
    <3>5. ~ r.reboot
      BY <1>7, <3>2 DEF KEY_DEL
    <3>6. Meaning(k) = IF "CTL" \in D THEN 1 ELSE IF ("SHIFT" \in D) # lock THEN 65 ELSE 97
      BY <2>1 DEF Meaning, D
    <3>7. r.c = Meaning(k)
      BY <3>2, <3>3, <3>4, <3>6, <1>1
    <3>8. Meaning(k) \in {1, 65, 97}
      BY <3>6
    <3> QED
      BY <3>5, <3>7, <3>8 DEF REBOOT
  <2>2. CASE k = "del"
    <3>1. after = D \cup (IF lock THEN {"CAPSLOCK"} ELSE {}) /\ code = 211
      BY <2>2, <1>2, <1>3, <1>5 DEF Modifiers
    <3>2. charcode(after, code) = KEY_DEL
      BY <3>1 DEF charcode
    <3>3. r.c = KEY_DEL
      BY <1>7, <3>2 DEF NewChar, SwapCase, KEY_DEL
    <3>4. {"CTL", "ALT"} \subseteq after <=> {"CTL", "ALT"} \subseteq D
      BY <3>1
    <3>5. Meaning(k) = IF {"CTL", "ALT"} \subseteq D THEN REBOOT ELSE KEY_DEL
      BY <2>2 DEF Meaning, D
    <3> QED
      BY <1>7, <3>2, <3>3, <3>4, <3>5 DEF KEY_DEL, REBOOT
  <2>3. CASE k # "a" /\ k # "del"
    <3>1. code # 30 /\ code # 211
      BY <2>3, <1>5
    <3>2. charcode(after, code) = 0
      BY <3>1 DEF charcode
    <3>3. r.c = 0 /\ ~ r.reboot
      BY <1>7, <3>2 DEF NewChar, SwapCase, KEY_DEL
    <3>4. Meaning(k) = 0
      BY <2>3 DEF Meaning
    <3> QED
      BY <3>3, <3>4 DEF REBOOT
  <2> QED
    BY <2>1, <2>2, <2>3
<1>10. Expected(Before(k, sh), ScanCode(k), [c |-> Meaning(k), mods |-> after])
  <2> HIDE DEF sh, after
  <2> QED
    BY <1>7, <1>8, <1>9 DEF Expected, Leaves
<1> QED
  BY <1>4, <1>9, <1>10

LEMMA ReleaseDoes ==
  ASSUME Types, Pairs, NEW k \in held
  PROVE  LET after == Mods(held \ {k}, lock) IN
         /\ after \in SUBSET AllMods
         /\ Expected(Before(k, Mods(held, lock)), ScanCode(k) + 128, [c |-> 0, mods |-> after])
<1> DEFINE sh == Mods(held, lock)   D == DownOf(held)   after == Mods(held \ {k}, lock)
           code == Code(k)   r == kbd_proc_data(Before(k, sh), ScanCode(k) + 128)
<1>0. k \in Keys
  BY DEF Types, TypeOK
<1>1. /\ D \subseteq {"SHIFT", "CTL", "ALT"} /\ k \in AllKeys
      /\ k \in DOMAIN Modifiers => Modifiers[k] \in {"SHIFT", "CTL", "ALT"}
  BY <1>0, HeldFacts
<1>2. sh = D \cup (IF lock THEN {"CAPSLOCK"} ELSE {}) /\ sh \in SUBSET AllMods
  BY <1>1 DEF Mods, AllMods
<1>3. after = (D \ (IF k \in DOMAIN Modifiers THEN {Modifiers[k]} ELSE {}))
                \cup (IF lock THEN {"CAPSLOCK"} ELSE {})
  BY DownWithout DEF Mods
<1>4. after \in SUBSET AllMods
  BY <1>1, <1>3 DEF AllMods
<1>5. shiftcode(code) = IF k \in DOMAIN Modifiers THEN {Modifiers[k]} ELSE {}
  BY <1>1, CodeFacts
<1>6. sh \ shiftcode(code) = after
  <2> HIDE DEF sh, D, after, code
  <2> QED
    BY <1>1, <1>2, <1>3, <1>5
<1>7. r.shift = after /\ r.c = 0 /\ r.reboot = FALSE
  <2> HIDE DEF sh, after
  <2>1. k \in AllKeys /\ sh \in SUBSET AllMods
    BY <1>1, <1>2
  <2>2. r.shift = sh \ shiftcode(code) /\ r.c = 0 /\ r.reboot = FALSE
    BY <2>1, BreakDoes
  <2> HIDE DEF r, code
  <2> QED
    BY <2>2, <1>6
<1>8. ScanCode(k) + 128 # E0
  BY <1>1, CodeFacts DEF E0
<1>9. Expected(Before(k, sh), ScanCode(k) + 128, [c |-> 0, mods |-> after])
  <2> HIDE DEF sh, after
  <2> QED
    BY <1>7, <1>8 DEF Expected, Leaves, REBOOT
<1> QED
  BY <1>4, <1>9

----------------------------------------------------------------------------
(* The invariant *)

(* The bytes of a key join those that wait. *)
LEMMA SentKeeps ==
  ASSUME IInv, NEW k, NEW b \in Scancodes, b # E0, NEW c \in 0 .. 256,
         NEW after \in SUBSET AllMods, Mods(held, lock) \in SUBSET AllMods,
         Expected(Before(k, Mods(held, lock)), b, [c |-> c, mods |-> after]),
         Sent(IF k \in Prefixed THEN <<E0, b>> ELSE <<b>>, Mods(held, lock), after, c),
         Mods(held', lock') = after
  PROVE  /\ kbd' \in Seq(Scancodes) /\ meant' \in Seq(Meant) /\ Len(meant') = Len(kbd')
         /\ Chain' /\ Room'
         /\ kbd # <<>> => kbd' # <<>> /\ meant'[1] = meant[1]
<1> DEFINE sh == Mods(held, lock)
           B == IF k \in Prefixed THEN <<E0, b>> ELSE <<b>>
           s == [i \in DOMAIN B |-> IF i = Len(B) THEN [c |-> c, mods |-> after]
                                    ELSE [c |-> 0, mods |-> sh]]
           l == Len(kbd)   n == Len(B)
           Old(i) == After(i, shift, kbd, meant)
           New(i) == After(i, shift', kbd', meant')
<1>1. /\ kbd \in Seq(Scancodes) /\ meant \in Seq(Meant) /\ Len(meant) = l /\ l \in Nat
      /\ com1 \in Seq(Bytes) /\ unread \in Seq(1 .. 256)
  BY DEF IInv, Types, TypeOK, Scancodes
<1>2. /\ kbd' = kbd \o B /\ meant' = meant \o s
      /\ shift' = shift /\ com1' = com1 /\ unread' = unread
      /\ Unread + (IF c = 0 THEN 0 ELSE 1) <= MaxUnread
  BY DEF Sent
<1>3. /\ B \in Seq(Scancodes) /\ n \in 1 .. 2 /\ B[n] = b /\ DOMAIN B = 1 .. n
      /\ n = 2 <=> k \in Prefixed
      /\ n = 2 => B[1] = E0
  <2>1. E0 \in Scancodes
    BY DEF E0, Scancodes
  <2>2. CASE k \in Prefixed
    <3>1. B = <<E0, b>>
      BY <2>2
    <3> HIDE DEF B
    <3> QED
      BY <2>1, <2>2, <3>1 DEF n
  <2>3. CASE k \notin Prefixed
    <3>1. B = <<b>>
      BY <2>3
    <3> HIDE DEF B
    <3> QED
      BY <2>3, <3>1 DEF n
  <2> QED
    BY <2>2, <2>3
<1> HIDE DEF B, l, n, Old, New
<1>4. /\ s \in Seq(Meant) /\ Len(s) = n
      /\ s[n] = [c |-> c, mods |-> after]
      /\ n = 2 => s[1] = [c |-> 0, mods |-> sh]
  <2>1. [c |-> c, mods |-> after] \in Meant /\ [c |-> 0, mods |-> sh] \in Meant
    BY DEF Meant
  <2>2. s \in [1 .. n -> Meant]
    BY <2>1, <1>3
  <2>3. s = [i \in 1 .. n |-> s[i]] /\ n \in Nat
    BY <1>3
  <2>4. s \in Seq(Meant) /\ Len(s) = n
    BY <2>2, <1>3
  <2>5. s[n] = [c |-> c, mods |-> after] /\ (n = 2 => s[1] = [c |-> 0, mods |-> sh])
    BY <1>3 DEF n
  <2> QED
    BY <2>4, <2>5
<1> HIDE DEF s, sh
<1>5. /\ kbd' \in Seq(Scancodes) /\ Len(kbd') = l + n
      /\ \A i \in 1 .. l : kbd'[i] = kbd[i]
      /\ \A i \in 1 .. n : kbd'[l + i] = B[i]
  BY <1>1, <1>2, <1>3, ConcatProperties DEF l, n
<1>6. /\ meant' \in Seq(Meant) /\ Len(meant') = l + n
      /\ \A i \in 1 .. l : meant'[i] = meant[i]
      /\ \A i \in 1 .. n : meant'[l + i] = s[i]
  <2>1. Len(meant) = l /\ Len(s) = n /\ n \in Nat
    BY <1>1, <1>3, <1>4
  <2> QED
    <3> DEFINE M == meant'
    <3>1. /\ M \in Seq(Meant) /\ Len(M) = l + n
          /\ \A i \in 1 .. l + n : M[i] = IF i <= l THEN meant[i] ELSE s[i - l]
      <4> DEFINE T == meant \o s
      <4>1. /\ T \in Seq(Meant) /\ Len(T) = Len(meant) + Len(s)
            /\ \A i \in 1 .. Len(meant) + Len(s) :
                 T[i] = IF i <= Len(meant) THEN meant[i] ELSE s[i - Len(meant)]
        <5>1. meant \in Seq(Meant) /\ s \in Seq(Meant)
          BY <1>1, <1>4
        <5> QED
          BY <5>1, ConcatProperties
      <4> HIDE DEF T
      <4>2. /\ T \in Seq(Meant) /\ Len(T) = l + n
            /\ \A i \in 1 .. l + n : T[i] = IF i <= l THEN meant[i] ELSE s[i - l]
        BY <4>1, <2>1
      <4>3. M = T
        BY <1>2 DEF T
      <4> QED
        BY <4>2, <4>3
    <3> HIDE DEF M
    <3>2. \A i \in 1 .. l : M[i] = meant[i]
      BY <3>1, <1>1, <2>1
    <3>3. \A i \in 1 .. n : M[l + i] = s[i]
      <4> TAKE i \in 1 .. n
      <4>1. l + i \in 1 .. l + n /\ ~ l + i <= l /\ (l + i) - l = i
        BY <1>1, <2>1
      <4> QED
        BY <3>1, <4>1
    <3> QED
      BY <3>1, <3>2, <3>3 DEF M
<1>7. ASSUME NEW i \in 0 .. l PROVE New(i) = Old(i)
  <2>1. CASE i = 0
    BY <2>1, <1>2 DEF Old, New, After
  <2>2. CASE i # 0
    <3>1. i \in 1 .. l
      BY <2>2, <1>1
    <3> QED
      BY <3>1, <2>2, <1>5, <1>6 DEF Old, New, After
  <2> QED
    BY <2>1, <2>2
<1>8. Old(l) = sh /\ \A i \in 1 .. l : Expected(Old(i - 1), kbd[i], meant[i])
  BY DEF IInv, Chain, l, sh, Old
<1>9. New(l) = sh
  BY <1>7, <1>8, <1>1
<1>10. kbd'[l + n] = b /\ meant'[l + n] = [c |-> c, mods |-> after] /\ l + n # 0
  BY <1>1, <1>3, <1>4, <1>5, <1>6
<1>11. New(l + n) = after
  BY <1>10 DEF Old, New, After, Leaves
<1>12. New(l + n - 1) = Before(k, sh)
  <2>1. CASE n = 1
    BY <2>1, <1>1, <1>3, <1>9 DEF Before
  <2>2. CASE n = 2
    <3>1. l + n - 1 = l + 1 /\ l + 1 # 0 /\ 1 \in 1 .. n
      BY <2>2, <1>1
    <3>2. kbd'[l + 1] = E0 /\ meant'[l + 1] = [c |-> 0, mods |-> sh]
      BY <2>2, <3>1, <1>3, <1>4, <1>5, <1>6
    <3>3. New(l + 1) = sh \cup {"E0ESC"}
      BY <3>1, <3>2 DEF Old, New, After, Leaves
    <3> QED
      BY <3>1, <3>3, <2>2, <1>3 DEF Before
  <2> QED
    BY <2>1, <2>2, <1>3
<1>13. ASSUME NEW i \in 1 .. l + n PROVE Expected(New(i - 1), kbd'[i], meant'[i])
  <2>1. CASE i <= l
    <3>1. i \in 1 .. l /\ i - 1 \in 0 .. l
      BY <2>1, <1>1
    <3>2. New(i - 1) = Old(i - 1) /\ kbd'[i] = kbd[i] /\ meant'[i] = meant[i]
      BY <3>1, <1>5, <1>6, <1>7
    <3> QED
      BY <3>1, <3>2, <1>8
  <2>2. CASE i = l + n
    <3>1. Expected(Before(k, sh), b, [c |-> c, mods |-> after])
      BY DEF sh
    <3> QED
      BY <2>2, <3>1, <1>1, <1>3, <1>10, <1>12
  <2>3. CASE i > l /\ i # l + n
    <3>1. i = l + 1 /\ n = 2 /\ i - 1 = l /\ 1 \in 1 .. n
      BY <2>3, <1>1, <1>3
    <3>2. kbd'[l + 1] = E0 /\ meant'[l + 1] = [c |-> 0, mods |-> sh]
      BY <3>1, <1>3, <1>4, <1>5, <1>6
    <3>3. Expected(sh, E0, [c |-> 0, mods |-> sh])
      BY PrefixDoes DEF sh
    <3> QED
      BY <3>1, <3>2, <3>3, <1>9
  <2> QED
    BY <2>1, <2>2, <2>3, <1>1, <1>3
<1>14. Chain'
  <2>1. \A i \in 1 .. Len(kbd') : Expected(New(i - 1), kbd'[i], meant'[i])
    BY <1>5, <1>13
  <2>2. New(Len(kbd')) = Mods(held', lock')
    BY <1>5, <1>11
  <2> QED
    BY <2>1, <2>2 DEF Chain, New
<1>15. Room'
  <2>1. \A i \in 1 .. Len(s) - 1 : s[i].c = 0
    <3> TAKE i \in 1 .. Len(s) - 1
    <3>1. i = 1 /\ n = 2
      BY <1>3, <1>4
    <3> QED
      BY <3>1, <1>4
  <2>2. Cardinality(Meaningful(meant')) = Cardinality(Meaningful(meant)) + (IF c = 0 THEN 0 ELSE 1)
    <3>1. Len(s) > 0 /\ s[Len(s)].c = c
      BY <1>3, <1>4
    <3> QED
      BY <1>1, <1>2, <1>4, <2>1, <3>1, MeantMore
  <2>3. Cardinality(Meaningful(meant)) \in Nat /\ Len(unread) \in Nat /\ Len(com1) \in Nat
    BY <1>1, MeaningfulFinite
  <2>4. /\ Unread = Len(unread) + Cardinality(Meaningful(meant)) + Len(com1)
        /\ Unread' = Len(unread') + Cardinality(Meaningful(meant')) + Len(com1')
    BY DEF Unread, Meaningful
  <2> QED
    <3> DEFINE u == Unread'
    <3>1. u = Unread + (IF c = 0 THEN 0 ELSE 1)
      BY <1>2, <2>2, <2>3, <2>4
    <3>2. Unread \in Nat
      BY <2>3, <2>4
    <3> HIDE DEF u
    <3>3. u \in Nat /\ u <= MaxUnread
      BY <3>1, <3>2, <1>2
    <3> QED
      BY <3>3 DEF Room, u
<1>16. kbd # <<>> => kbd' # <<>> /\ meant'[1] = meant[1]
  <2> SUFFICES ASSUME kbd # <<>> PROVE kbd' # <<>> /\ meant'[1] = meant[1]
    OBVIOUS
  <2>1. l > 0
    BY <1>1 DEF l
  <2> QED
    BY <2>1, <1>1, <1>3, <1>5, <1>6
<1> QED
  BY <1>5, <1>6, <1>14, <1>15, <1>16

LEMMA ModsTypes == Types => Mods(held, lock) \in SUBSET AllMods
<1> SUFFICES ASSUME Types, Mods(held, lock) # {} PROVE Mods(held, lock) \in SUBSET AllMods
  OBVIOUS
<1>1. \A j \in DOMAIN Modifiers : Modifiers[j] \in AllMods
  BY DEF Modifiers, AllMods
<1> QED
  BY <1>1 DEF Mods, DownOf, AllMods

LEMMA InitHolds == Init => IInv
<1> SUFFICES ASSUME Init PROVE IInv
  OBVIOUS
<1> USE DEF Init
<1>1. /\ cons.rpos = 0 /\ cons.wpos = 0 /\ cons.buf = [i \in 0 .. CONSBUFSIZE - 1 |-> 0]
      /\ held = {} /\ lock = FALSE /\ shift = {} /\ kbd = <<>> /\ com1 = <<>>
      /\ meant = <<>> /\ unread = <<>> /\ poll = "serial" /\ rebooted = FALSE
      /\ serial_exists \in BOOLEAN
  OBVIOUS
<1>2. Types
  BY <1>1, SizeFacts DEF Types, TypeOK
<1>3. Pairs
  BY <1>1 DEF Pairs
<1>4. Chain
  BY <1>1 DEF Chain, After, Mods, DownOf
<1>5. Room
  <2>1. Meaningful(meant) = {}
    BY <1>1 DEF Meaningful
  <2>2. Unread = 0
    BY <2>1, <1>1, FS_EmptySet DEF Unread, Meaningful
  <2> QED
    BY <2>2, SizeFacts DEF Room
<1>6. Contents(cons) = <<>>
  BY <1>1 DEF Contents, Filled
<1> QED
  BY <1>1, <1>2, <1>3, <1>4, <1>5, <1>6 DEF IInv

LEMMA PressKeeps ==
  ASSUME IInv, NEW k \in Keys, press(k)
  PROVE  IInv'
<1> DEFINE sh == Mods(held, lock)   b == ScanCode(k)   after == Mods(held', lock')
<1>1. /\ ~ rebooted /\ k \notin held /\ held' = held \cup {k}
      /\ k \in DOMAIN Modifiers => Modifiers[k] \notin DownOf(held)
      /\ lock' = IF k = "caps" THEN ~ lock ELSE lock
      /\ Sent(Make(k), sh, after, Meaning(k))
  BY DEF press
<1>2. /\ shift' = shift /\ cons' = cons /\ poll' = poll /\ rebooted' = rebooted
      /\ com1' = com1 /\ serial_exists' = serial_exists /\ unread' = unread
  BY <1>1 DEF Sent
<1>3. k \in AllKeys /\ sh \in SUBSET AllMods
  BY HeldFacts, ModsTypes DEF IInv
<1>4. b \in Scancodes /\ b # E0
  <2>1. ScanCode(k) \in 1 .. 83
    BY <1>3, CodeFacts
  <2> QED
    BY <2>1 DEF Scancodes, E0
<1>5. after = Mods(held \cup {k}, IF k = "caps" THEN ~ lock ELSE lock)
  BY <1>1
<1>6. /\ after \in SUBSET AllMods /\ Meaning(k) \in 0 .. 256
      /\ Expected(Before(k, sh), b, [c |-> Meaning(k), mods |-> after])
  BY <1>1, <1>5, PressDoes DEF IInv
<1>7. Sent(IF k \in Prefixed THEN <<E0, b>> ELSE <<b>>, sh, after, Meaning(k))
  BY <1>1, Zenon DEF Make
<1>8. /\ kbd' \in Seq(Scancodes) /\ meant' \in Seq(Meant) /\ Len(meant') = Len(kbd')
      /\ Chain' /\ Room'
  <2> HIDE DEF b
  <2> QED
    BY <1>3, <1>4, <1>6, <1>7, SentKeeps
<1>9. Types'
  <2>1. held' \subseteq Keys /\ lock' \in BOOLEAN
    BY <1>1 DEF IInv, Types, TypeOK
  <2> QED
    BY <2>1, <1>2, <1>8 DEF IInv, Types, TypeOK, Scancodes
<1>10. Pairs'
  BY <1>1 DEF IInv, Pairs, DownOf
<1>11. Contents(cons') = unread'
  BY <1>2 DEF IInv
<1>12. ~ rebooted'
  BY <1>1, <1>2
<1> QED
  BY <1>8, <1>9, <1>10, <1>11, <1>12 DEF IInv

LEMMA ReleaseKeeps ==
  ASSUME IInv, NEW k \in Keys, release(k)
  PROVE  IInv'
<1> DEFINE sh == Mods(held, lock)   b == ScanCode(k) + 128   after == Mods(held', lock)
<1>1. /\ ~ rebooted /\ k \in held /\ held' = held \ {k} /\ lock' = lock
      /\ Sent(Break(k), sh, after, 0)
  BY DEF release
<1>2. /\ shift' = shift /\ cons' = cons /\ poll' = poll /\ rebooted' = rebooted
      /\ com1' = com1 /\ serial_exists' = serial_exists /\ unread' = unread
  BY <1>1 DEF Sent
<1>3. k \in AllKeys /\ sh \in SUBSET AllMods
  BY HeldFacts, ModsTypes DEF IInv
<1>4. b \in Scancodes /\ b # E0
  <2>1. ScanCode(k) \in 1 .. 83
    BY <1>3, CodeFacts
  <2> QED
    BY <2>1 DEF Scancodes, E0
<1>5. after = Mods(held \ {k}, lock) /\ Mods(held', lock') = after
  BY <1>1
<1>6. /\ after \in SUBSET AllMods
      /\ Expected(Before(k, sh), b, [c |-> 0, mods |-> after])
  BY <1>1, <1>5, ReleaseDoes DEF IInv
<1>7. Sent(IF k \in Prefixed THEN <<E0, b>> ELSE <<b>>, sh, after, 0)
  BY <1>1, Zenon DEF Break
<1>8. /\ kbd' \in Seq(Scancodes) /\ meant' \in Seq(Meant) /\ Len(meant') = Len(kbd')
      /\ Chain' /\ Room'
  <2> DEFINE z == 0
  <2>1. /\ z \in 0 .. 256 /\ Expected(Before(k, sh), b, [c |-> z, mods |-> after])
        /\ Sent(IF k \in Prefixed THEN <<E0, b>> ELSE <<b>>, sh, after, z)
    BY <1>6, <1>7
  <2> HIDE DEF b, z
  <2> QED
    BY <1>3, <1>4, <1>5, <1>6, <2>1, SentKeeps
<1>9. Types'
  <2>1. held' \subseteq Keys /\ lock' \in BOOLEAN
    BY <1>1 DEF IInv, Types, TypeOK
  <2> QED
    BY <2>1, <1>2, <1>8 DEF IInv, Types, TypeOK, Scancodes
<1>10. Pairs'
  BY <1>1 DEF IInv, Pairs
<1>11. Contents(cons') = unread'
  BY <1>2 DEF IInv
<1>12. ~ rebooted'
  BY <1>1, <1>2
<1> QED
  BY <1>8, <1>9, <1>10, <1>11, <1>12 DEF IInv

LEMMA RingType == Types => cons \in Ring
BY DEF Types, TypeOK, Ring, Scancodes

(* A character that was meant is put into the ring buffer. *)
LEMMA PutKeeps ==
  ASSUME IInv, NEW c \in 0 .. 255, c # 0 => Len(unread) + 1 <= MaxUnread,
         cons' = cons_put(cons, c), Take(c)
  PROVE  /\ cons' \in Ring /\ unread' \in Seq(1 .. 256) /\ Contents(cons') = unread'
         /\ Len(unread') = Len(unread) + (IF c = 0 THEN 0 ELSE 1)
<1>1. cons \in Ring /\ unread \in Seq(1 .. 256) /\ Contents(cons) = unread
  BY RingType DEF IInv, Types
<1>2. CASE c = 0
  BY <1>1, <1>2 DEF cons_put, Take
<1>3. CASE c # 0
  <2>1. Len(unread) = Filled(cons)
    BY <1>1, RingFacts
  <2>2. Filled(cons) \in Nat /\ Filled(cons) + 1 < CONSBUFSIZE
    BY <1>1, <1>3, <2>1, SizeFacts
  <2>3. c \in 1 .. 255
    BY <1>3
  <2>4. cons' \in Ring /\ Contents(cons') = Append(unread, c)
    BY <1>1, <2>2, <2>3, PutAppends
  <2>5. unread' = Append(unread, c)
    BY <1>3 DEF Take
  <2> QED
    BY <1>1, <1>3, <2>3, <2>4, <2>5
<1> QED
  BY <1>2, <1>3

LEMMA SerialKeeps == IInv /\ serial_intr => IInv'
<1> SUFFICES ASSUME IInv, serial_intr PROVE IInv'
  OBVIOUS
<1>1. /\ kbd' = kbd /\ meant' = meant /\ shift' = shift /\ rebooted' = rebooted
      /\ held' = held /\ lock' = lock /\ serial_exists' = serial_exists
      /\ ~ rebooted /\ poll' \in {"serial", "kbd"}
  BY DEF serial_intr, IInv, Types, TypeOK
<1>2. Types /\ Pairs /\ Chain /\ Room /\ Contents(cons) = unread
  BY DEF IInv
<1>3. Pairs' /\ Chain'
  BY <1>1, <1>2 DEF Pairs, Chain
<1>4. CASE com1 # <<>> /\ cons' = cons_put(cons, Head(com1)) /\ Take(Head(com1)) /\ com1' = Tail(com1)
  <2>1. /\ com1 \in Seq(Bytes) /\ unread \in Seq(1 .. 256) /\ meant \in Seq(Meant)
        /\ cons \in Ring
    BY <1>2, RingType DEF Types, TypeOK
  <2>2. /\ Head(com1) \in 0 .. 255 /\ com1' \in Seq(Bytes)
        /\ Len(com1') = Len(com1) - 1 /\ Len(com1) \in Nat /\ Len(com1) > 0
    <3>1. Head(com1) \in Bytes /\ Tail(com1) \in Seq(Bytes) /\ Len(Tail(com1)) = Len(com1) - 1
      BY <2>1, <1>4, HeadTailProperties
    <3>2. Len(com1) \in Nat /\ Len(com1) > 0
      BY <2>1, <1>4
    <3> QED
      BY <3>1, <3>2, <1>4, BytesAssumption
  <2>3. Cardinality(Meaningful(meant)) \in Nat /\ Len(unread) \in Nat
    BY <2>1, MeaningfulFinite
  <2>4. /\ Unread = Len(unread) + Cardinality(Meaningful(meant)) + Len(com1)
        /\ Unread' = Len(unread') + Cardinality(Meaningful(meant)) + Len(com1')
        /\ Unread <= MaxUnread
    BY <1>1, <1>2 DEF Unread, Meaningful, Room
  <2>5. Len(unread) + 1 <= MaxUnread
    BY <2>2, <2>3, <2>4, SizeFacts
  <2> DEFINE c == Head(com1)
  <2>6. /\ cons' \in Ring /\ unread' \in Seq(1 .. 256) /\ Contents(cons') = unread'
        /\ Len(unread') = Len(unread) + (IF c = 0 THEN 0 ELSE 1)
    <3> c \in 0 .. 255 /\ cons' = cons_put(cons, c) /\ Take(c)
      BY <1>4, <2>2
    <3> HIDE DEF c
    <3> QED
      BY <2>5, PutKeeps
  <2>7. Room'
    <3> DEFINE u == Unread'   v == Len(unread')
    <3>1. v \in Nat /\ v <= Len(unread) + 1
      BY <2>3, <2>6
    <3>2. u = v + Cardinality(Meaningful(meant)) + (Len(com1) - 1)
      BY <2>2, <2>4
    <3> DEFINE n == Cardinality(Meaningful(meant))   l == Len(com1)   w == Len(unread)
    <3>0. n \in Nat /\ l \in Nat /\ l > 0 /\ w \in Nat /\ w + n + l <= MaxUnread
      BY <2>2, <2>3, <2>4
    <3> HIDE DEF u, v, n, l, w
    <3>3. u \in Nat /\ u <= MaxUnread
      BY <3>0, <3>1, <3>2, SizeFacts DEF n, l, w
    <3> QED
      BY <3>3 DEF Room, u
  <2>8. Types'
    BY <1>1, <1>2, <2>2, <2>6 DEF Types, TypeOK, Ring, Scancodes
  <2> QED
    BY <1>1, <1>3, <2>6, <2>7, <2>8 DEF IInv
<1>5. CASE com1' = com1 /\ cons' = cons /\ unread' = unread
  <2>1. Types' /\ Room'
    BY <1>1, <1>2, <1>5 DEF Types, TypeOK, Room, Unread
  <2> QED
    BY <1>1, <1>2, <1>3, <1>5, <2>1 DEF IInv
<1> QED
  BY <1>4, <1>5 DEF serial_intr

LEMMA GetcKeeps == IInv /\ cons_getc => IInv'
<1> SUFFICES ASSUME IInv, cons_getc PROVE IInv'
  OBVIOUS
<1>1. /\ kbd' = kbd /\ meant' = meant /\ shift' = shift /\ rebooted' = rebooted
      /\ held' = held /\ lock' = lock /\ serial_exists' = serial_exists
      /\ com1' = com1 /\ ~ rebooted /\ poll' = "serial"
  BY DEF cons_getc
<1>2. Types /\ Pairs /\ Chain /\ Room /\ Contents(cons) = unread
  BY DEF IInv
<1>3. Pairs' /\ Chain'
  BY <1>1, <1>2 DEF Pairs, Chain
<1>4. /\ com1 \in Seq(Bytes) /\ unread \in Seq(1 .. 256) /\ meant \in Seq(Meant)
      /\ cons \in Ring
  BY <1>2, RingType DEF Types, TypeOK
<1>5. CASE cons' = cons /\ unread' = unread
  <2>1. Types' /\ Room'
    BY <1>1, <1>2, <1>5 DEF Types, TypeOK, Room, Unread
  <2> QED
    BY <1>1, <1>2, <1>3, <1>5, <2>1 DEF IInv
<1>6. CASE cons.rpos # cons.wpos
  <2>1. cons' = [cons EXCEPT !.rpos = NextPos(@)]
    BY <1>6 DEF cons_getc
  <2>2. cons' \in Ring /\ unread # <<>> /\ Contents(cons') = Tail(unread)
    BY <1>2, <1>4, <1>6, <2>1, ReadTails
  <2>3. unread' = Tail(unread)
    BY <1>6, <2>2 DEF cons_getc
  <2>4. /\ unread' \in Seq(1 .. 256) /\ Len(unread') = Len(unread) - 1
        /\ Len(unread) \in Nat /\ Len(unread') \in Nat
    BY <1>4, <2>2, <2>3
  <2>5. Cardinality(Meaningful(meant)) \in Nat /\ Len(com1) \in Nat
    BY <1>4, MeaningfulFinite
  <2>6. /\ Unread = Len(unread) + Cardinality(Meaningful(meant)) + Len(com1)
        /\ Unread' = Len(unread') + Cardinality(Meaningful(meant)) + Len(com1)
        /\ Unread <= MaxUnread
    BY <1>1, <1>2 DEF Unread, Meaningful, Room
  <2>7. Room'
    BY <2>4, <2>5, <2>6, SizeFacts DEF Room
  <2>8. Types'
    BY <1>1, <1>2, <2>2, <2>4 DEF Types, TypeOK, Ring, Scancodes
  <2> QED
    BY <1>1, <1>3, <2>2, <2>3, <2>7, <2>8 DEF IInv
<1> QED
  BY <1>5, <1>6 DEF cons_getc

LEMMA ArriveKeeps ==
  ASSUME IInv, NEW b \in Bytes, arrive(b)
  PROVE  IInv'
<1>1. /\ kbd' = kbd /\ meant' = meant /\ shift' = shift /\ rebooted' = rebooted
      /\ held' = held /\ lock' = lock /\ serial_exists' = serial_exists
      /\ cons' = cons /\ unread' = unread /\ poll' = poll
      /\ com1 = <<>> /\ com1' = <<b>> /\ Unread < MaxUnread
  BY DEF arrive
<1>2. Types /\ Pairs /\ Chain /\ Room
  BY DEF IInv
<1>3. Pairs' /\ Chain'
  BY <1>1, <1>2 DEF Pairs, Chain
<1>4. com1' \in Seq(Bytes) /\ Len(com1') = 1 /\ Len(com1) = 0
  BY <1>1
<1>5. Types'
  BY <1>1, <1>2, <1>4 DEF Types, TypeOK
<1>6. Room'
  <2>1. Len(unread) \in Nat /\ Cardinality(Meaningful(meant)) \in Nat
    BY <1>2, MeaningfulFinite DEF Types
  <2>2. /\ Unread = Len(unread) + Cardinality(Meaningful(meant)) + Len(com1)
        /\ Unread' = Len(unread) + Cardinality(Meaningful(meant)) + Len(com1')
    BY <1>1 DEF Unread, Meaningful
  <2> QED
    BY <2>1, <2>2, <1>1, <1>4, SizeFacts DEF Room
<1> QED
  BY <1>1, <1>3, <1>5, <1>6 DEF IInv

(* The first byte that waits is read: it does what was meant by it, and the others
   will do so after it.                                                    *)
LEMMA KbdKeeps == IInv /\ kbd_intr => IInv'
<1> SUFFICES ASSUME IInv, kbd_intr PROVE IInv'
  OBVIOUS
<1> DEFINE r == kbd_proc_data(shift, Head(kbd))   l == Len(kbd)
           Old(i) == After(i, shift, kbd, meant)
           New(i) == After(i, shift', kbd', meant')
<1>1. /\ com1' = com1 /\ serial_exists' = serial_exists /\ poll' = poll
      /\ held' = held /\ lock' = lock /\ kbd # <<>> /\ ~ rebooted
  BY DEF kbd_intr
<1>2. Types /\ Pairs /\ Chain /\ Room /\ Contents(cons) = unread
  BY DEF IInv
<1>3. /\ kbd \in Seq(Scancodes) /\ meant \in Seq(Meant) /\ Len(meant) = l
      /\ com1 \in Seq(Bytes) /\ unread \in Seq(1 .. 256)
      /\ l \in Nat /\ l > 0 /\ meant # <<>>
  BY <1>1, <1>2 DEF Types, TypeOK, Scancodes
<1>4. /\ Head(kbd) = kbd[1] /\ Head(meant) = meant[1] /\ meant[1] \in Meant
      /\ kbd[1] \in Scancodes
  BY <1>3
<1>5. /\ \A i \in 1 .. l : Expected(Old(i - 1), kbd[i], meant[i])
      /\ Old(l) = Mods(held, lock)
  BY <1>2 DEF Chain
<1>6. Expected(shift, kbd[1], meant[1])
  <2>1. 1 \in 1 .. l /\ Old(1 - 1) = shift
    BY <1>3 DEF After
  <2> HIDE DEF l, Old
  <2> QED
    BY <1>5, <2>1
<1>7. /\ r.shift = Leaves(kbd[1], meant[1])
      /\ r.reboot <=> meant[1].c = REBOOT
      /\ meant[1].c # REBOOT => r.c = meant[1].c
  BY <1>4, <1>6 DEF Expected
<1>8. Pairs'
  BY <1>1, <1>2 DEF Pairs
<1> HIDE DEF r
<1>9. CASE r.reboot
  <2>1. /\ rebooted' = TRUE /\ kbd' = kbd /\ shift' = shift /\ cons' = cons
        /\ meant' = meant /\ unread' = unread
    BY <1>9 DEF kbd_intr, r
  <2>2. Types' /\ Chain' /\ Room'
    BY <1>1, <1>2, <2>1 DEF Types, TypeOK, Chain, Room, Unread
  <2> QED
    BY <1>1, <1>2, <1>7, <1>8, <1>9, <2>1, <2>2 DEF IInv
<1>10. CASE ~ r.reboot
  <2> DEFINE c == meant[1].c   n == Cardinality(Meaningful(meant))
             m == Cardinality(Meaningful(meant'))
  <2>1. /\ shift' = r.shift /\ cons' = cons_put(cons, r.c) /\ Take(c)
        /\ kbd' = Tail(kbd) /\ meant' = Tail(meant) /\ rebooted' = rebooted
    BY <1>4, <1>10 DEF kbd_intr, r
  <2>2. r.c = c /\ c \in 0 .. 255
    <3>1. c \in 0 .. 256 /\ c # REBOOT
      BY <1>4, <1>7, <1>10 DEF Meant
    <3> HIDE DEF c
    <3> QED
      BY <1>7, <3>1 DEF REBOOT, c
  <2>3. /\ kbd' \in Seq(Scancodes) /\ Len(kbd') = l - 1
        /\ \A i \in 1 .. l - 1 : kbd'[i] = kbd[i + 1]
    BY <2>1, <1>1, <1>3, HeadTailProperties
  <2>4. /\ meant' \in Seq(Meant) /\ Len(meant') = l - 1
        /\ \A i \in 1 .. l - 1 : meant'[i] = meant[i + 1]
    BY <2>1, <1>3, HeadTailProperties
  <2>5. /\ Unread = Len(unread) + n + Len(com1) /\ Unread <= MaxUnread
        /\ Unread' = Len(unread') + m + Len(com1)
    BY <1>1, <1>2 DEF Room, Unread, Meaningful
  <2>6. n = m + (IF c = 0 THEN 0 ELSE 1)
    BY <1>3, <2>1, MeantLess
  <2>7. n \in Nat /\ m \in Nat /\ Len(unread) \in Nat /\ Len(com1) \in Nat
    BY <1>3, <2>4, MeaningfulFinite
  <2> HIDE DEF n, m, c
  <2>8. c # 0 => Len(unread) + 1 <= MaxUnread
    BY <2>5, <2>6, <2>7, SizeFacts
  <2>9. /\ cons' \in Ring /\ unread' \in Seq(1 .. 256) /\ Contents(cons') = unread'
        /\ Len(unread') = Len(unread) + (IF c = 0 THEN 0 ELSE 1)
    BY <2>1, <2>2, <2>8, PutKeeps
  <2>10. Room'
    <3> DEFINE u == Unread'
    <3>1. u = Len(unread) + n + Len(com1)
      BY <2>5, <2>6, <2>7, <2>9
    <3>2. u \in Nat /\ u <= MaxUnread
      BY <3>1, <2>5, <2>7
    <3> QED
      BY <3>2 DEF Room
  <2>11. shift' \subseteq {"SHIFT", "CTL", "ALT", "CAPSLOCK", "E0ESC"}
    <3>1. meant[1].mods \in SUBSET AllMods
      BY <1>4 DEF Meant
    <3> QED
      BY <3>1, <2>1, <1>7 DEF Leaves, AllMods
  <2>12. Types'
    BY <1>1, <1>2, <2>1, <2>3, <2>4, <2>9, <2>11 DEF Types, TypeOK, Ring, Scancodes
  <2>13. ASSUME NEW i \in 0 .. l - 1 PROVE New(i) = Old(i + 1)
    <3>1. i + 1 # 0
      BY <1>3
    <3>2. Old(i + 1) = Leaves(kbd[i + 1], meant[i + 1])
      BY <3>1 DEF After
    <3>3. CASE i = 0
      <4>1. New(i) = shift' /\ i + 1 = 1
        BY <3>3 DEF After
      <4> HIDE DEF New, Old
      <4> QED
        BY <4>1, <3>2, <2>1, <1>7
    <3>4. CASE i # 0
      <4>1. i \in 1 .. l - 1
        BY <3>4, <1>3
      <4>2. New(i) = Leaves(kbd'[i], meant'[i])
        BY <3>4 DEF After
      <4> HIDE DEF New, Old
      <4> QED
        BY <4>1, <4>2, <3>2, <2>3, <2>4
    <3> QED
      BY <3>3, <3>4
  <2> HIDE DEF New, Old, l
  <2>14. ASSUME NEW i \in 1 .. l - 1 PROVE Expected(New(i - 1), kbd'[i], meant'[i])
    <3>1. i - 1 \in 0 .. l - 1 /\ (i - 1) + 1 = i /\ i + 1 \in 1 .. l /\ (i + 1) - 1 = i
      BY <1>3
    <3>2. New(i - 1) = Old(i)
      BY <2>13, <3>1
    <3>3. Expected(Old((i + 1) - 1), kbd[i + 1], meant[i + 1])
      BY <1>5, <3>1
    <3>4. Old((i + 1) - 1) = Old(i)
      BY <3>1
    <3> QED
      BY <2>3, <2>4, <3>2, <3>3, <3>4
  <2>15. New(l - 1) = Mods(held', lock')
    <3>1. l - 1 \in 0 .. l - 1 /\ (l - 1) + 1 = l
      BY <1>3
    <3> QED
      BY <2>13, <3>1, <1>1, <1>5
  <2>16. Chain'
    BY <2>3, <2>14, <2>15 DEF Chain, New
  <2> QED
    BY <1>1, <1>8, <2>1, <2>9, <2>10, <2>12, <2>16 DEF IInv
<1> QED
  BY <1>9, <1>10

LEMMA Invariance == Spec => []IInv
<1>1. Init => IInv
  BY InitHolds
<1>2. IInv /\ [Next]_vars => IInv'
  <2> SUFFICES ASSUME IInv, [Next]_vars PROVE IInv'
    OBVIOUS
  <2>1. CASE serial_intr
    BY <2>1, SerialKeeps
  <2>2. CASE kbd_intr
    BY <2>2, KbdKeeps
  <2>3. CASE cons_getc
    BY <2>3, GetcKeeps
  <2>4. ASSUME NEW k \in Keys, press(k) PROVE IInv'
    BY <2>4, PressKeeps
  <2>5. ASSUME NEW k \in Keys, release(k) PROVE IInv'
    BY <2>5, ReleaseKeeps
  <2>6. ASSUME NEW b \in Bytes, arrive(b) PROVE IInv'
    BY <2>6, ArriveKeeps
  <2>7. CASE UNCHANGED vars
    BY <2>7 DEF vars, IInv, Types, TypeOK, Pairs, Chain, Room, Unread
  <2> QED
    BY <2>1, <2>2, <2>3, <2>4, <2>5, <2>6, <2>7 DEF Next
<1> QED
  BY <1>1, <1>2, PTL DEF Spec

(* cons_getc(): the characters read are those that were meant, once each and in the
   order they were taken from the devices, as long as fewer of them are unread
   than the ring buffer has slots; and the machine reboots when it is asked to. *)
THEOREM InputTyped == Spec => []InputIsTyped
<1>1. IInv => InputIsTyped
  BY DEF IInv, Types, InputIsTyped
<1> QED
  BY <1>1, Invariance, PTL

(* kbd_proc_data(): when no byte waits, the shift state is that of the keys. *)
THEOREM ShiftFollows == Spec => []ShiftFollowsKeys
<1>1. IInv => ShiftFollowsKeys
  BY DEF IInv, Chain, After, ShiftFollowsKeys
<1> QED
  BY <1>1, Invariance, PTL
=============================================================================
