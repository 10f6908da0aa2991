------------------------------ MODULE Console ------------------------------
(***************************************************************************)
(* Console input (console.c): the ring that consoleintr() edits and        *)
(* consoleread() empties, addressed by three unsigned counters that wrap.  *)
(*                                                                         *)
(* Each step is one critical section of cons.lock: one key, or the loop of *)
(* consoleread() up to its return or to its check of killed.  From that    *)
(* check to the sleep() the reader keeps cons.lock, but kill() takes only  *)
(* ptable.lock and may fall in between.  Echo and the process listing of   *)
(* ^P are left out.                                                        *)
(***************************************************************************)
EXTENDS Integers, FiniteSets

CONSTANTS
  ConsReaders,       \* processes that read the console
  INPUT_BUF,
  InputMod,          \* 2^32, the modulus of the counters
  MaxRead            \* bound: longest buffer passed to read()

ASSUME ConsAssumption ==
  /\ {INPUT_BUF, InputMod, MaxRead} \subseteq Nat \ {0}
  /\ INPUT_BUF < InputMod /\ InputMod % INPUT_BUF = 0

Keys == {"x", "\r", "^D", "^H", "^U"}

VARIABLES
  inbuf, ir, iw, ie,   \* input.buf, input.r, input.w, input.e
  rd                   \* the read() of each process: pc, bytes wanted, got

consVars == <<inbuf, ir, iw, ie, rd>>

Dist(a, b) == (b - a) % InputMod
Edited == Dist(iw, ie)
Avail == Dist(ir, iw)
CharAt(i) == inbuf[i % INPUT_BUF]

NoRead == [pc |-> "idle", n |-> 0, got |-> 0, killed |-> FALSE]

ConsInit ==
  /\ inbuf = [i \in 0..(INPUT_BUF - 1) |-> "x"]
  /\ ir = 0 /\ iw = 0 /\ ie = 0
  /\ rd = [p \in ConsReaders |-> NoRead]

(* Mutant: a key does not wait for the lock of the reader.                 *)
ConsUnlocked == TRUE

(* acquire(&cons.lock) returns: no reader is between its check of killed   *)
(* and its sleep().                                                        *)
ConsLockFree == \A p \in ConsReaders : rd[p].pc # "block"

(* wakeup(&input.r).                                                       *)
Woken == [p \in ConsReaders |->
           IF rd[p].pc = "asleep" THEN [rd[p] EXCEPT !.pc = "run"] ELSE rd[p]]

(* The characters that ^U takes back: those after the last committed one   *)
(* or newline.                                                             *)
KillCount ==
  CHOOSE k \in 0..Edited :
    /\ k = Edited \/ CharAt(ie - 1 - k) = "\n"
    /\ \A j \in 0..(k - 1) : j # Edited /\ CharAt(ie - 1 - j) # "\n"

EraseKey(c) ==
  /\ ie' = (ie - (IF c = "^U" THEN KillCount ELSE IF Edited = 0 THEN 0 ELSE 1))
           % InputMod
  /\ UNCHANGED <<inbuf, ir, iw, rd>>

(* Mutant: a full ring is not handed over.                                 *)
CommitsLines(c, e) == c \in {"\n", "^D"}

(* A line is handed to the readers at its end, at ^D, or when the ring is  *)
(* full.                                                                   *)
Commits(c, e) == c \in {"\n", "^D"} \/ e = (ir + INPUT_BUF) % InputMod

StoreKey(key) ==
  LET c == IF key = "\r" THEN "\n" ELSE key
      e == (ie + 1) % InputMod
  IN
  IF Dist(ir, ie) < INPUT_BUF
  THEN /\ inbuf' = [inbuf EXCEPT ![ie % INPUT_BUF] = c]
       /\ ie' = e
       /\ IF Commits(c, e) THEN iw' = e /\ rd' = Woken
                           ELSE UNCHANGED <<iw, rd>>
       /\ UNCHANGED ir
  ELSE UNCHANGED consVars

(* consoleintr() for one character.                                        *)
ConsoleIntr ==
  /\ ConsLockFree
  /\ \E key \in Keys : IF key \in {"^H", "^U"} THEN EraseKey(key) ELSE StoreKey(key)

ReadStart(p) ==
  /\ rd[p].pc = "idle"
  /\ \E n \in 1..MaxRead :
       rd' = [rd EXCEPT ![p] = [NoRead EXCEPT !.pc = "run", !.n = n]]
  /\ UNCHANGED <<inbuf, ir, iw, ie>>

(* Positions, counted from input.r, of the characters that end a read().   *)
Stops(m) == {j \in 1..m : j <= Avail /\ CharAt(ir + j - 1) \in {"\n", "^D"}}
First(S) == CHOOSE j \in S : \A k \in S : j <= k

(* What a ^D at position j takes out of the ring: nothing of itself if     *)
(* some bytes came before it, so that the next read() returns 0.           *)
EofTakes(got, j) == IF got + j - 1 > 0 THEN j - 1 ELSE j

(* consoleread() until it returns, or finds nothing and is not killed.     *)
ConsoleRead(p) ==
  LET m == rd[p].n
      j == First(Stops(m))
  IN
  /\ rd[p].pc = "run" /\ ConsLockFree
  /\ \/ /\ Stops(m) # {}
        /\ ir' = (ir + (IF CharAt(ir + j - 1) = "\n" THEN j
                        ELSE EofTakes(rd[p].got, j))) % InputMod
        /\ rd' = [rd EXCEPT ![p] = NoRead]
     \/ /\ Stops(m) = {} /\ Avail >= m
        /\ ir' = (ir + m) % InputMod
        /\ rd' = [rd EXCEPT ![p] = NoRead]
     \/ /\ Stops(m) = {} /\ Avail < m
        /\ ir' = iw
        /\ rd' = [rd EXCEPT ![p] = IF rd[p].killed THEN NoRead
                    ELSE [rd[p] EXCEPT !.pc = "block", !.n = m - Avail,
                                       !.got = rd[p].got + Avail]]
  /\ UNCHANGED <<inbuf, iw, ie>>

(* sleep(&input.r, &cons.lock): asleep from the release of cons.lock on.   *)
ConsSleep(p) ==
  /\ rd[p].pc = "block"
  /\ rd' = [rd EXCEPT ![p].pc = "asleep"]
  /\ UNCHANGED <<inbuf, ir, iw, ie>>

(* kill() wakes a reader that is asleep, not one about to sleep.           *)
ConsKill(p) ==
  /\ rd[p].pc # "idle" /\ ~rd[p].killed
  /\ rd' = [rd EXCEPT ![p] = [rd[p] EXCEPT
              !.killed = TRUE, !.pc = IF rd[p].pc = "asleep" THEN "run" ELSE rd[p].pc]]
  /\ UNCHANGED <<inbuf, ir, iw, ie>>

ConsNext ==
  \/ ConsoleIntr
  \/ \E p \in ConsReaders : ReadStart(p) \/ ConsoleRead(p) \/ ConsSleep(p) \/ ConsKill(p)

ConsSpec == ConsInit /\ [][ConsNext]_consVars

------------------------------------------------------------------------------
(* A reader sleeps only while no committed character is there: no line,    *)
(* ^D or full ring comes between its look at the ring and its sleep()      *)
(* without waking it.  A reader killed in that window does sleep on, until *)
(* the next characters are committed.                                      *)
ReadersSleepOnEmpty == \A p \in ConsReaders : rd[p].pc = "asleep" => Avail = 0

(* The counters stay in order across their wrap-around, also when a ^D is  *)
(* put back, and a full ring can always be read: typing never jams.        *)
InputNeverStuck ==
  /\ Dist(ir, iw) <= Dist(ir, ie) /\ Dist(ir, ie) <= INPUT_BUF
  /\ Dist(ir, ie) = INPUT_BUF => Avail > 0
=============================================================================
