-------------------------------- MODULE Text --------------------------------
(***************************************************************************)
(* The text routines of the library and the kernel as functions of their   *)
(* input: lib/string.c, lib/printfmt.c, the buffers of lib/printf.c, the    *)
(* screen of kern/console.c, lib/readline.c and the command parser of       *)
(* kern/monitor.c.  Each is translated from its code and compared with a    *)
(* definition of what it is for.                                           *)
(*                                                                         *)
(* A behaviour is one call: the input is chosen, and the properties compare *)
(* what the code computes from it with what it should.  Bytes in memory are *)
(* numbers; characters of formats, lines and commands are one-letter        *)
(* strings, and reading past the end of a text yields NUL.                 *)
(***************************************************************************)
EXTENDS Integers, Sequences, SequencesExt, FiniteSetsExt

CONSTANTS
  Wide,       \* number of values of an unsigned long long
  CRT_COLS, CRT_ROWS,
  BUFLEN,     \* size of the line buffer of readline()
  MAXARGS,    \* size of argv in runcmd()
  PrintBuf,   \* size of the buffer of the user's cprintf()
  Inputs      \* Inputs[f]: the inputs tried for each group f of routines

VARIABLE in   \* the routine called and its input, or Idle

Idle == [fn |-> "idle"]
NUL == "NUL"
Ch(s, i) == IF i \in DOMAIN s THEN s[i] ELSE NUL
Null == -1

----------------------------------------------------------------------------
(* lib/string.c: m is the memory, d, s, p, q are addresses in it *)

RECURSIVE strlen(_, _), strnlen(_, _, _), strcpy(_, _, _), strncpy(_, _, _, _),
          strlcpy_copy(_, _, _, _), strcmp(_, _, _), strncmp(_, _, _, _),
          strchr(_, _, _), strfind(_, _, _), memcmp(_, _, _, _), memfind(_, _, _, _),
          strstr_from(_, _, _, _)

strlen(m, s) == IF m[s] = 0 THEN 0 ELSE 1 + strlen(m, s + 1)
strnlen(m, s, size) ==
  IF size > 0 /\ m[s] # 0 THEN 1 + strnlen(m, s + 1, size - 1) ELSE 0

strcpy(m, d, s) ==
  LET n == [m EXCEPT ![d] = m[s]]
  IN IF n[d] # 0 THEN strcpy(n, d + 1, s + 1) ELSE n
strcat(m, d, s) == strcpy(m, d + strlen(m, d), s)

strncpy(m, d, s, size) ==
  IF size = 0 THEN m
  ELSE strncpy([m EXCEPT ![d] = m[s]], d + 1, IF m[s] # 0 THEN s + 1 ELSE s, size - 1)

(* The loop of strlcpy(), and where it leaves dst. *)
strlcpy_copy(m, d, s, size) ==
  IF size - 1 > 0 /\ m[s] # 0
  THEN strlcpy_copy([m EXCEPT ![d] = m[s]], d + 1, s + 1, size - 1)
  ELSE [mem |-> [m EXCEPT ![d] = 0], dst |-> d]

strlcpy(m, d, s, size) ==
  IF size > 0
  THEN LET r == strlcpy_copy(m, d, s, size) IN [mem |-> r.mem, n |-> r.dst - d]
  ELSE [mem |-> m, n |-> 0]

strcmp(m, p, q) ==
  IF m[p] # 0 /\ m[p] = m[q] THEN strcmp(m, p + 1, q + 1) ELSE m[p] - m[q]

strncmp(m, p, q, n) ==
  IF n > 0 /\ m[p] # 0 /\ m[p] = m[q] THEN strncmp(m, p + 1, q + 1, n - 1)
  ELSE IF n = 0 THEN 0 ELSE m[p] - m[q]

strchr(m, s, c) ==
  IF m[s] = 0 THEN Null ELSE IF m[s] = c THEN s ELSE strchr(m, s + 1, c)
strfind(m, s, c) ==
  IF m[s] = 0 \/ m[s] = c THEN s ELSE strfind(m, s + 1, c)

memcmp(m, p, q, n) ==
  IF n = 0 THEN 0 ELSE IF m[p] # m[q] THEN m[p] - m[q] ELSE memcmp(m, p + 1, q + 1, n - 1)
memfind(m, s, c, n) ==
  IF n = 0 \/ m[s] = c THEN s ELSE memfind(m, s + 1, c, n - 1)

(* The two nested loops of strstr(), c the first character and str the rest. *)
strstr_from(m, s, c, str) ==
  IF m[s] = 0 THEN Null
  ELSE IF m[s] = c /\ strncmp(m, s + 1, str, strlen(m, str)) = 0 THEN s
  ELSE strstr_from(m, s + 1, c, str)

strstr(m, s, str) ==
  IF m[str] = 0 THEN s ELSE strstr_from(m, s, m[str], str + 1)

(* rep stos: the bytes of a unit, cnt times.  rep movs: cnt units of size bytes, a
   unit is read and then written; dir is the direction flag.               *)
RECURSIVE stos(_, _, _, _), movs(_, _, _, _, _, _)
stos(m, d, cnt, unit) ==
  IF cnt = 0 THEN m
  ELSE stos([a \in DOMAIN m |-> IF a - d + 1 \in DOMAIN unit THEN unit[a - d + 1] ELSE m[a]],
            d + Len(unit), cnt - 1, unit)
movs(m, d, s, cnt, size, dir) ==
  IF cnt = 0 THEN m
  ELSE movs([a \in DOMAIN m |-> IF a \in d .. d + size - 1 THEN m[s + a - d] ELSE m[a]],
            d + dir * size, s + dir * size, cnt - 1, size, dir)

LowByte(c) == c % 256

(* Faulty variant: the length need not be a number of words. *)
memset_Words(m, v, c, n) ==
  IF n = 0 THEN m
  ELSE IF v % 4 = 0 THEN stos(m, v, n \div 4, [k \in 1 .. 4 |-> LowByte(c)])
  ELSE stos(m, v, n, <<LowByte(c)>>)

(* A word is the byte c & 0xFF four times; stosb takes the low byte of c. *)
memset(m, v, c, n) ==
  IF n = 0 THEN m
  ELSE IF v % 4 = 0 /\ n % 4 = 0 THEN stos(m, v, n \div 4, [k \in 1 .. 4 |-> LowByte(c)])
  ELSE stos(m, v, n, <<LowByte(c)>>)

Words(d, s, n) == d % 4 = 0 /\ s % 4 = 0 /\ n % 4 = 0

(* Faulty variant: always from the front. *)
memmove_Forward(m, d, s, n) ==
  IF Words(d, s, n) THEN movs(m, d, s, n \div 4, 4, 1) ELSE movs(m, d, s, n, 1, 1)

memmove(m, d, s, n) ==
  IF s < d /\ s + n > d
  THEN IF Words(d + n, s + n, n) THEN movs(m, d + n - 4, s + n - 4, n \div 4, 4, -1)
                                 ELSE movs(m, d + n - 1, s + n - 1, n, 1, -1)
  ELSE IF Words(d, s, n) THEN movs(m, d, s, n \div 4, 4, 1)
                         ELSE movs(m, d, s, n, 1, 1)

Hex == <<"0", "1", "2", "3", "4", "5", "6", "7", "8", "9", "a", "b", "c", "d", "e", "f">>
Letters == [F |-> 15, x |-> 33, z |-> 35]
IsDigit(c) == c \in Range(Hex) \cup DOMAIN Letters
DigitValue(c) == IF c \in DOMAIN Letters THEN Letters[c]
                 ELSE (CHOOSE i \in 1 .. 16 : Hex[i] = c) - 1

(* strtol(): the value and where it stopped. *)
RECURSIVE SkipBlanks(_, _), strtol_digits(_, _, _, _)
SkipBlanks(s, i) == IF Ch(s, i) \in {" ", "TAB"} THEN SkipBlanks(s, i + 1) ELSE i
strtol_digits(s, i, base, val) ==
  IF IsDigit(Ch(s, i)) /\ DigitValue(Ch(s, i)) < base
  THEN strtol_digits(s, i + 1, base, val * base + DigitValue(Ch(s, i)))
  ELSE [val |-> val, end |-> i]

(* Where the digits start, and their base. *)
strtol_base(s, i, base) ==
  IF base \in {0, 16} /\ Ch(s, i) = "0" /\ Ch(s, i + 1) = "x" THEN [at |-> i + 2, base |-> 16]
  ELSE IF base = 0 /\ Ch(s, i) = "0" THEN [at |-> i + 1, base |-> 8]
  ELSE [at |-> i, base |-> IF base = 0 THEN 10 ELSE base]

strtol(s, base) ==
  LET i == SkipBlanks(s, 1)
      b == strtol_base(s, IF Ch(s, i) \in {"+", "-"} THEN i + 1 ELSE i, base)
      r == strtol_digits(s, b.at, b.base, 0)
  IN [val |-> IF Ch(s, i) = "-" THEN - r.val ELSE r.val, end |-> r.end]

----------------------------------------------------------------------------
(* lib/printfmt.c: fmt is the format, args the arguments left; the result is
   the characters that reach putch()                                       *)

Pad(c, n) == [i \in 1 .. Max({n, 0}) |-> c]

RECURSIVE printnum(_, _, _, _)
printnum(num, base, width, padc) ==
  (IF num >= base THEN printnum(num \div base, base, width - 1, padc)
                  ELSE Pad(padc, width - 1))
  \o <<Hex[(num % base) + 1]>>

(* %d: getint() with lflag 3 always takes a long long. *)
PrintSigned(arg, width, padc) ==
  LET num == arg % Wide IN
  IF num >= Wide \div 2 THEN <<"-">> \o printnum((Wide - num) % Wide, 10, width, padc)
                        ELSE printnum(num, 10, width, padc)

(* %s: padding on the left unless padc is '-'; then width counts down with the
   characters, and what is left of it is padding on the right.             *)
PrintString(p, f) ==
  LET n == IF f.precision < 0 THEN Len(p) ELSE Min({f.precision, Len(p)})  \* strnlen()
      left == IF f.width > 0 /\ f.padc # "-" THEN f.width - n ELSE 0
      right == IF f.width > 0 /\ f.padc # "-" THEN 0 ELSE f.width - n
      shown(c) == IF f.altflag /\ c = "BEL" THEN "?" ELSE c
  IN Pad(f.padc, left) \o [i \in 1 .. n |-> shown(p[i])] \o Pad(" ", right)

(* %e; a text of the table stands as one character. *)
MAXERROR == 22
error_string ==
  [err \in {1, 2, 3, 4, 5, 6, 8, 9} |->
     CASE err = 1 -> "unspecified error"    [] err = 2 -> "bad environment"
       [] err = 3 -> "invalid parameter"    [] err = 4 -> "out of memory"
       [] err = 5 -> "out of environments"  [] err = 6 -> "segmentation fault"
       [] err = 8 -> "env is not recving"   [] err = 9 -> "unexpected end of file"]
PrintError(arg) ==
  LET err == IF arg < 0 THEN - arg ELSE arg IN
  IF err >= MAXERROR \/ err \notin DOMAIN error_string
  THEN <<"error", " ">> \o PrintSigned(err, -1, " ")
  ELSE <<error_string[err]>>

Convert(c, f, arg) ==
  CASE c = "c" -> <<arg>>
    [] c = "e" -> PrintError(arg)
    [] c = "s" -> PrintString(IF arg = <<NUL>> THEN <<"(", "n", ")">> ELSE arg, f)
    [] c = "d" -> PrintSigned(arg, f.width, f.padc)
    [] c = "u" -> printnum(arg % Wide, 10, f.width, f.padc)
    [] c = "o" -> printnum(arg % Wide, 8, f.width, f.padc)
    [] c = "x" -> printnum(arg % Wide, 16, f.width, f.padc)
    [] c = "p" -> <<"0", "x">> \o printnum(arg % Wide, 16, f.width, f.padc)

Plain == [padc |-> " ", width |-> -1, precision |-> -1, altflag |-> FALSE]

(* process_precision: the first number is the width. *)
Precision(f, n) ==
  IF f.width < 0 THEN [f EXCEPT !.width = n] ELSE [f EXCEPT !.precision = n]

(* Faulty variant: the first number after a '.' is the width as well. *)
Dot_Ignored(f) == f
Dot(f) == [f EXCEPT !.width = Max({@, 0})]

RECURSIVE Number(_, _, _), vprintfmt(_, _, _), Directive(_, _, _, _, _)
Number(fmt, i, n) ==
  IF Ch(fmt, i) \in Range(SubSeq(Hex, 1, 10))
  THEN Number(fmt, i + 1, n * 10 + DigitValue(fmt[i])) ELSE [n |-> n, end |-> i]

vprintfmt(fmt, i, args) ==
  CASE Ch(fmt, i) = NUL -> <<>>
    [] Ch(fmt, i) = "%" -> Directive(fmt, i + 1, args, Plain, i + 1)
    [] OTHER -> <<fmt[i]>> \o vprintfmt(fmt, i + 1, args)

(* The switch: fmt[i] is next, f what has been read since the '%' before start.
   What is not recognised is printed as it stands, from start on.          *)
Directive(fmt, i, args, f, start) ==
  LET ch == Ch(fmt, i) IN
  CASE ch \in {"-", "0"} -> Directive(fmt, i + 1, args, [f EXCEPT !.padc = ch], start)
    [] ch \in Range(SubSeq(Hex, 2, 10)) ->
         LET r == Number(fmt, i, 0) IN Directive(fmt, r.end, args, Precision(f, r.n), start)
    [] ch = "*" -> Directive(fmt, i + 1, Tail(args), Precision(f, Head(args)), start)
    [] ch = "." -> Directive(fmt, i + 1, args, Dot(f), start)
    [] ch = "#" -> Directive(fmt, i + 1, args, [f EXCEPT !.altflag = TRUE], start)
    [] ch = "l" -> Directive(fmt, i + 1, args, f, start)
    [] ch \in {"c", "e", "s", "d", "u", "o", "p", "x"} ->
         Convert(ch, f, Head(args)) \o vprintfmt(fmt, i + 1, Tail(args))
    [] ch = "%" -> <<"%">> \o vprintfmt(fmt, i + 1, args)
    [] OTHER -> <<"%">> \o vprintfmt(fmt, start, args)

printfmt(fmt, args) == vprintfmt(fmt, 1, args)

(* vsnprintf() into a buffer of n bytes. *)
sprintputch(n, b, ch) ==
  [cnt |-> b.cnt + 1, buf |-> IF Len(b.buf) < n - 1 THEN Append(b.buf, ch) ELSE b.buf]

vsnprintf(n, text) ==
  IF n < 1 THEN [cnt |-> -3, buf |-> <<>>]            \* -E_INVAL
  ELSE LET b == FoldLeft(LAMBDA b, ch : sprintputch(n, b, ch), [cnt |-> 0, buf |-> <<>>], text)
       IN [b EXCEPT !.buf = Append(@, NUL)]

(* The user's cprintf(): the system calls it makes. *)
putch(b, ch) ==
  LET full == Append(b.buf, ch) IN
  IF Len(full) = PrintBuf - 1
  THEN [cnt |-> b.cnt + 1, buf |-> <<>>, calls |-> Append(b.calls, full)]
  ELSE [cnt |-> b.cnt + 1, buf |-> full, calls |-> b.calls]

vcprintf(text) ==
  LET b == FoldLeft(putch, [cnt |-> 0, buf |-> <<>>, calls |-> <<>>], text)
  IN [cnt |-> b.cnt, calls |-> Append(b.calls, b.buf)]

----------------------------------------------------------------------------
(* The screen, lines and commands *)

CRT_SIZE == CRT_ROWS * CRT_COLS
Cleared(pos) == [buf |-> [i \in 0 .. CRT_SIZE - 1 |-> " "], pos |-> pos, rows |-> 0]

(* The scrolling at the end of cga_putc(); rows counts them (history). *)
Scroll(s) ==
  IF s.pos >= CRT_SIZE
  THEN [buf |-> [i \in 0 .. CRT_SIZE - 1 |->
                   IF i < CRT_SIZE - CRT_COLS THEN s.buf[i + CRT_COLS] ELSE " "],
        pos |-> s.pos - CRT_COLS, rows |-> s.rows + 1]
  ELSE s

PutPlain(s, c) ==
  Scroll([s EXCEPT !.buf[s.pos] = c, !.pos = @ + 1])

cga_putc(s, c) ==
  CASE c = "BS" -> IF s.pos > 0 THEN [s EXCEPT !.pos = @ - 1, !.buf[s.pos - 1] = " "] ELSE s
    [] c = "NL" -> Scroll([s EXCEPT !.pos = @ + CRT_COLS - (@ % CRT_COLS)])
    [] c = "CR" -> Scroll([s EXCEPT !.pos = @ - (@ % CRT_COLS)])
    [] c = "TAB" -> FoldLeft(PutPlain, s, Pad(" ", 5))
    [] OTHER -> PutPlain(s, c)

Screen(s, text) == FoldLeft(cga_putc, s, text)

(* Faulty variant: an erase at the start of the line is echoed. *)
readline_key_EchoAll(r, c) ==
  CASE r.done -> r
    [] c \in {"BS", "DEL"} ->
         [r EXCEPT !.buf = SubSeq(@, 1, Max({Len(@) - 1, 0})), !.echo = Append(@, "BS")]
    [] c = "NL" -> [r EXCEPT !.done = TRUE, !.echo = Append(@, "NL")]
    [] OTHER -> IF Len(r.buf) < BUFLEN - 1
                THEN [r EXCEPT !.buf = Append(@, c), !.echo = Append(@, c)] ELSE r

(* One turn of the loop of readline(): the line so far and what is echoed.  DEL
   is not below ' ', so on an empty line it is taken as text.              *)
readline_key(r, c) ==
  CASE r.done -> r
    [] ~ r.done /\ c \in {"BS", "DEL"} /\ r.buf # <<>> ->
         [r EXCEPT !.buf = Front(@), !.echo = Append(@, "BS")]
    [] ~ r.done /\ c \notin {"BS", "NL", "CR", "TAB"} /\ (c # "DEL" \/ r.buf = <<>>)
         /\ Len(r.buf) < BUFLEN - 1 ->
         [r EXCEPT !.buf = Append(@, c), !.echo = Append(@, c)]
    [] ~ r.done /\ c \in {"NL", "CR"} ->
         [r EXCEPT !.done = TRUE, !.echo = Append(@, "NL")]
    [] OTHER -> r

readline(keys) == FoldLeft(readline_key, [buf |-> <<>>, echo |-> <<>>, done |-> FALSE], keys)

(* runcmd(): the arguments, or that there are too many. *)
IsBlank(c) == c \in {" ", "TAB", "CR", "NL"}

RECURSIVE Gobble(_, _), ScanArg(_, _), runcmd(_, _, _)
Gobble(s, i) == IF Ch(s, i) # NUL /\ IsBlank(s[i]) THEN Gobble(s, i + 1) ELSE i
ScanArg(s, i) == IF Ch(s, i) # NUL /\ ~ IsBlank(s[i]) THEN ScanArg(s, i + 1) ELSE i

TooMany(argv) == Len(argv) = MAXARGS - 1

runcmd(s, i, argv) ==
  LET at == Gobble(s, i) IN
  IF Ch(s, at) = NUL THEN [argv |-> argv, ok |-> TRUE]
  ELSE IF TooMany(argv) THEN [argv |-> argv, ok |-> FALSE]
  ELSE LET e == ScanArg(s, at) IN runcmd(s, e, Append(argv, SubSeq(s, at, e - 1)))

----------------------------------------------------------------------------
(* One call of each group. *)
call(f) ==
  /\ in = Idle
  /\ \E i \in Inputs[f] : in' = [fn |-> f, of |-> i]

Init == in = Idle
Next == \E f \in DOMAIN Inputs : call(f)
Spec == Init /\ [][Next]_in

----------------------------------------------------------------------------
(* Properties *)

(* Memory for the string routines: p at 0, q at 4, room behind q. *)
Memory(i) == [a \in 0 .. 11 |-> CASE a \in 0 .. 2 -> i.p[a + 1]
                                 [] a \in 4 .. 6 -> i.q[a - 3]
                                 [] a \in {3, 7} -> 0
                                 [] OTHER -> 9]
Cstr(m, s) == LET end == Min({a \in DOMAIN m : a >= s /\ m[a] = 0})
              IN [i \in 1 .. end - s |-> m[s + i - 1]]
Take(s, n) == SubSeq(s, 1, Min({n, Len(s)}))
Differ(s, t) ==   \* the difference at the first place where s and t differ
  LET at == {k \in DOMAIN s \cap DOMAIN t : s[k] # t[k]}
  IN IF at = {} THEN 0 ELSE s[Min(at)] - t[Min(at)]
FirstOr(at, none) == IF at = {} THEN none ELSE Min(at)

(* string.c: the routines that look at strings return lengths, orders and first
   positions, whatever is behind the terminators.                          *)
StringsRead ==
  in.fn = "str" =>
    LET m == Memory(in.of)   n == in.of.n   c == in.of.c
        P == Cstr(m, 0)      Q == Cstr(m, 4)
        hits == {k \in 0 .. Len(P) - 1 : P[k + 1] = c}
    IN /\ strlen(m, 0) = Len(P) /\ strnlen(m, 0, n) = Len(Take(P, n))
       /\ strcmp(m, 0, 4) = Differ(Append(P, 0), Append(Q, 0))
       /\ strncmp(m, 0, 4, n) = Differ(Take(Append(P, 0), n), Take(Append(Q, 0), n))
       /\ strchr(m, 0, c) = FirstOr(hits, Null)
       /\ strfind(m, 0, c) = FirstOr(hits, Len(P))
       /\ memcmp(m, 0, 4, n) = Differ(SubSeq(Append(in.of.p, 0), 1, n),
                                       SubSeq(Append(in.of.q, 0), 1, n))
       /\ memfind(m, 0, c, n) = FirstOr({k \in 0 .. n - 1 : m[k] = c}, n)
       /\ strstr(m, 0, 4) =
            FirstOr({k \in 0 .. Len(P) - Len(Q) : SubSeq(P, k + 1, k + Len(Q)) = Q}, Null)

(* string.c: the routines that write put there what they should and leave every
   byte behind it alone.                                                   *)
Put(m, d, bytes) ==
  [a \in DOMAIN m |-> IF a - d + 1 \in DOMAIN bytes THEN bytes[a - d + 1] ELSE m[a]]
StringsWritten ==
  in.fn = "str" =>
    LET m == Memory(in.of)   n == in.of.n
        P == Cstr(m, 0)      Q == Cstr(m, 4)
        cut == Take(P, n - 1)
    IN /\ strcpy(m, 4, 0) = Put(m, 4, Append(P, 0))
       /\ strcat(m, 4, 0) = Put(m, 4, Append(Q \o P, 0))
       /\ strncpy(m, 4, 0, n) = Put(m, 4, Take(P \o Pad(0, n), n))
       /\ strlcpy(m, 4, 0, n) = IF n = 0 THEN [mem |-> m, n |-> 0]
                                ELSE [mem |-> Put(m, 4, Append(cut, 0)), n |-> Len(cut)]

(* memset() stores the low byte of its int, for every alignment and length. *)
MemsetFills ==
  in.fn = "set" =>
    LET m == [a \in 0 .. 19 |-> 9]   i == in.of
        byte == CHOOSE b \in 0 .. 255 : \E k \in -2 .. 2 : i.c = 256 * k + b
    IN memset(m, i.v, i.c, i.n) = Put(m, i.v, Pad(byte, i.n))

(* memmove() copies as if through a second buffer, for every overlap and
   alignment of source and destination.                                    *)
MovesCopy ==
  in.fn = "move" =>
    LET m == [a \in 0 .. 15 |-> a]   i == in.of
    IN memmove(m, i.d, i.s, i.n) = Put(m, i.d, [k \in 1 .. i.n |-> m[i.s + k - 1]])

(* strtol() reads back a number written with blanks, a sign and a prefix, and
   stops at the first character that does not belong to it.                *)
Value(digits, base) == FoldLeft(LAMBDA v, c : v * base + DigitValue(c), 0, digits)
StrtolReads ==
  in.fn = "num" =>
    LET i == in.of
        s == i.blanks \o i.sign \o i.prefix \o i.digits
        v == Value(i.digits, i.base)
        auto == IF i.prefix = <<"0", "x">> THEN 16 ELSE IF i.prefix = <<"0">> THEN 8 ELSE 10
        r == strtol(s \o i.tail, IF i.base = auto /\ i.auto THEN 0 ELSE i.base)
    IN r = [val |-> IF i.sign = <<"-">> THEN - v ELSE v, end |-> Len(s) + 1]

(* vprintfmt(): a directive prints its argument in the form its flags ask for,
   uses up its arguments and no more, and is printed as it stands if it is not
   one.  The code keeps to this except where a padded number has a sign or the
   '-' flag, and for the codes that the table of errors leaves out: see
   NumbersPadRight, NumbersFillField and ErrorsHaveText.                   *)
Magnitude(num) == IF num < 0 THEN - num ELSE num
IsDigits(t, num, base) ==
  /\ \A j \in DOMAIN t : IsDigit(t[j])
  /\ Len(t) = 1 \/ (Len(t) > 1 /\ t[1] # "0")
  /\ Value(t, base) = num
IsField(out, num, base, f) ==
  \E i, j \in DOMAIN out :
    LET before == SubSeq(out, 1, i - 1)   digits == SubSeq(out, i, j)
        after == SubSeq(out, j + 1, Len(out))
        sign == IF num < 0 THEN <<"-">> ELSE <<>>
        blank == f.width - Len(sign) - Len(digits)
    IN /\ IsDigits(digits, Magnitude(num), base)
       /\ <<before, after>> = CASE f.pad = " " -> <<Pad(" ", blank) \o sign, <<>>>>
                                [] f.pad = "0" -> <<sign \o Pad("0", blank), <<>>>>
                                [] f.pad = "-" -> <<sign, Pad(" ", blank)>>
Padded(num, base, f) == f.width > Min({k \in 1 .. 7 : Magnitude(num) < base ^ k})
BaseOf == [d |-> 10, u |-> 10, o |-> 8, x |-> 16]
Printed(f) == IF f.conv = "d" THEN f.arg ELSE f.arg % Wide
IsString(out, p, f) ==
  LET text == [j \in DOMAIN p |-> IF f.alt /\ p[j] = "BEL" THEN "?" ELSE p[j]]
      shown == IF f.prec < 0 THEN text ELSE Take(text, f.prec)
      blank == Max({0, f.width - Len(shown)})
  IN out = IF f.pad = "-" THEN shown \o Pad(" ", blank) ELSE Pad(f.pad, blank) \o shown
Written(f) ==
  <<"%">> \o (IF f.pad = " " THEN <<>> ELSE <<f.pad>>) \o (IF f.alt THEN <<"#">> ELSE <<>>)
          \o (IF f.width < 0 THEN <<>> ELSE IF f.star THEN <<"*">> ELSE <<Hex[f.width + 1]>>)
          \o (IF f.prec < 0 THEN <<>> ELSE <<".", Hex[f.prec + 1]>>) \o <<f.conv>>
Output(f) == printfmt(Written(f), (IF f.star /\ f.width >= 0 THEN <<f.width>> ELSE <<>>) \o <<f.arg>>)

(* inc/error.h *)
ErrorCodes == 1 .. 9 \cup 17 .. 21
Untold == {7} \cup 17 .. 21
IsError(out, arg) ==
  LET code == Magnitude(arg) IN
  IF code \in ErrorCodes
  THEN Len(out) = 1 /\ \A other \in 0 .. 30 \ {code} : PrintError(other) # out
  ELSE Take(out, 2) = <<"error", " ">> /\ IsDigits(SubSeq(out, 3, Len(out)), code, 10)

FormatsDirective ==
  in.fn = "fmt" =>
    LET f == in.of
        known == f.conv \in {"d", "u", "o", "x", "s", "e"}
        args == (IF f.star /\ f.width >= 0 THEN <<f.width>> ELSE <<>>)
                \o (IF known THEN <<f.arg>> ELSE <<>>) \o <<"end">>
        all == printfmt(Written(f) \o <<"%", "c">>, args)
        out == Front(all)
    IN /\ Last(all) = "end"
       /\ CASE f.conv = "s" -> IsString(out, f.arg, f)
            [] f.conv \in DOMAIN BaseOf ->
                 LET num == Printed(f)   base == BaseOf[f.conv] IN
                 \/ (Padded(num, base, f) /\ (f.pad = "-" \/ num < 0))
                 \/ IsField(out, num, base, f)
            [] f.conv = "e" -> Magnitude(f.arg) \in Untold \/ IsError(out, f.arg)
            [] f.conv = "%" -> out = <<"%">>
            [] OTHER -> out = Written(f)

(* lib/printfmt.c:116: '-' pads on the right.  A number is padded on the left,
   with '-'.                                                               *)
NumbersPadRight ==
  in.fn = "fmt" /\ in.of.conv \in DOMAIN BaseOf /\ in.of.pad = "-" /\ Printed(in.of) >= 0 =>
    IsField(Output(in.of), Printed(in.of), BaseOf[in.of.conv], in.of)

(* lib/printfmt.c:13: a field width is supported for the numeric formats.  The sign
   is printed before the padding and not counted in the width.             *)
NumbersFillField ==
  in.fn = "fmt" /\ in.of.conv = "d" /\ in.of.pad # "-" =>
    IsField(Output(in.of), in.of.arg, 10, in.of)

(* lib/printfmt.c:16-17 and inc/error.h:7: %e prints a string describing the error,
   from a list in sync with the codes.  Six codes are not in the list.     *)
ErrorsHaveText ==
  in.fn = "fmt" /\ in.of.conv = "e" => IsError(Output(in.of), in.of.arg)

(* vsnprintf(), and the buffer of the user's cprintf(): text is cut or split at
   the size of the buffer and nowhere else, all of it is counted, and a text that
   does not fill the buffer is printed by one system call.                 *)
BuffersHold ==
  in.fn = "put" =>
    LET t == in.of.text   n == in.of.n   b == vsnprintf(n, t)   v == vcprintf(t)
    IN /\ n >= 1 => b = [cnt |-> Len(t), buf |-> Append(Take(t, n - 1), NUL)]
       /\ v.cnt = Len(t) /\ FlattenSeq(v.calls) = t
       /\ \A k \in DOMAIN v.calls : Len(v.calls[k]) < PrintBuf
       /\ Len(t) < PrintBuf - 1 => Len(v.calls) = 1

(* lib/printf.c:14-18: up to 256 characters are printed by ONE system call.  The
   buffer is emptied when one place is left, and once more at the end.     *)
OneCallPerLine ==
  in.fn = "put" /\ Len(in.of.text) <= PrintBuf => Len(vcprintf(in.of.text).calls) = 1

(* The screen is a window on a paper that only grows: what cga_putc() shows is
   the last rows of what was written, and the cursor stays inside.         *)
Paper(s, c) ==
  LET write(t, x) == [t EXCEPT !.cells[t.pos] = x, !.pos = @ + 1]
      moved == CASE c = "BS" -> IF s.pos > s.top * CRT_COLS
                                THEN [s EXCEPT !.pos = @ - 1, !.cells[s.pos - 1] = " "] ELSE s
                 [] c = "NL" -> [s EXCEPT !.pos = (@ \div CRT_COLS + 1) * CRT_COLS]
                 [] c = "CR" -> [s EXCEPT !.pos = (@ \div CRT_COLS) * CRT_COLS]
                 [] c = "TAB" -> FoldLeft(write, s, Pad(" ", 5))
                 [] OTHER -> write(s, c)
  IN [moved EXCEPT !.top = Max({@, moved.pos \div CRT_COLS - CRT_ROWS + 1})]
ScreenIsWindow ==
  in.fn = "screen" =>
    LET i == in.of
        s == Screen(Cleared(i.pos), i.text)
        blank == [a \in 0 .. i.pos + 5 * CRT_SIZE |-> " "]
        w == FoldLeft(Paper, [cells |-> blank, pos |-> i.pos, top |-> 0], i.text)
    IN /\ s.pos = w.pos - w.top * CRT_COLS /\ s.pos < CRT_SIZE
       /\ \A a \in 0 .. CRT_SIZE - 1 : s.buf[a] = w.cells[w.top * CRT_COLS + a]

(* readline(): at every moment the screen shows the line as it will be returned,
   with the cursor behind it, also after it was erased across a row or the
   screen scrolled.                                                        *)
LineIsOnScreen ==
  in.fn = "line" =>
    LET r == readline(in.of.keys)
        s == Screen(Cleared(in.of.pos), r.echo)
        start == in.of.pos - s.rows * CRT_COLS
    IN /\ Len(r.buf) < BUFLEN
       /\ ~ r.done => s.pos = start + Len(r.buf)
       /\ \A k \in DOMAIN r.buf : start + k - 1 >= 0 => s.buf[start + k - 1] = r.buf[k]

(* runcmd(): the arguments are the words of the line, as long as argv holds them
   and its terminator.                                                     *)
ArgsAreWords ==
  in.fn = "cmd" =>
    LET s == in.of
        r == runcmd(s, 1, <<>>)
        starts == {i \in DOMAIN s : ~ IsBlank(s[i]) /\ (i = 1 \/ IsBlank(s[i - 1]))}
        end(i) == Min({j \in i .. Len(s) + 1 : j = Len(s) + 1 \/ IsBlank(s[j])})
        rank(i) == Cardinality({j \in starts : j <= i})
    IN /\ r.ok <=> Cardinality(starts) < MAXARGS
       /\ \A i \in starts : rank(i) < MAXARGS => r.argv[rank(i)] = SubSeq(s, i, end(i) - 1)
       /\ Len(r.argv) = Min({Cardinality(starts), MAXARGS - 1})

----------------------------------------------------------------------------
(* lib/string.c: what is read and written is what the strings and numbers in
   memory are, and no byte around them changes.                            *)
StringsRight == StringsRead /\ StringsWritten /\ MemsetFills /\ StrtolReads

(* lib/printfmt.c, lib/printf.c: every directive prints its argument as its flags
   ask, but for the cases FormatsDirective names, and no buffer holds more than
   its size or loses what fits.                                            *)
TextIsFormatted == FormatsDirective /\ BuffersHold

(* From the keys to a command: the line being edited is what the screen shows,
   through erasing, wrapping and scrolling, and its words are the arguments. *)
CommandsArrive == ScreenIsWindow /\ LineIsOnScreen /\ ArgsAreWords
=============================================================================
