-------------------------------- MODULE Grep --------------------------------
(***************************************************************************)
(* grep (grep.c with strchr() and memmove() of ulib.c): it reads its input *)
(* in pieces, prints the lines that match, and moves what is left of an    *)
(* unfinished line to the front of its buffer.  A file gives read() as     *)
(* much as it asks for; a pipe gives any part of it.                       *)
(*                                                                         *)
(* A step is one read() and the work on it.  Patterns, texts and lines are *)
(* sequences of characters, without the NUL that ends them in the code.    *)
(***************************************************************************)
EXTENDS Integers, Sequences, FiniteSets

CONSTANTS
  GrepBuf,           \* sizeof(buf), 1024
  GrepInputs         \* bound: the pairs of a pattern and a text that are tried

ASSUME GrepAssumption == GrepBuf \in Nat \ {0, 1}

VARIABLES
  pattern, text,
  fromFile,          \* fd is a file and not a pipe
  consumed,            \* bytes of text that read() has given
  gbuf, gm,          \* buf and m
  printed            \* the lines written

grepVars == <<pattern, text, fromFile, consumed, gbuf, gm, printed>>

GrepInit ==
  /\ \E in \in GrepInputs : pattern = in[1] /\ text = in[2]
  /\ fromFile \in BOOLEAN
  /\ consumed = 0 /\ gm = 0 /\ printed = << >>
  /\ gbuf = [k \in 0..(GrepBuf - 1) |-> "NUL"]

(* matchhere() and matchstar(): re matches at the beginning of t.          *)
RECURSIVE Matchhere(_, _)
RECURSIVE Matchstar(_, _, _)
Matchhere(re, t) ==
  IF re = << >> THEN TRUE
  ELSE IF Len(re) > 1 /\ re[2] = "*"
  THEN Matchstar(re[1], SubSeq(re, 3, Len(re)), t)
  ELSE IF re = <<"$">> THEN t = << >>
  ELSE /\ t # << >> /\ re[1] \in {".", t[1]}
       /\ Matchhere(Tail(re), Tail(t))
Matchstar(c, re, t) ==
  \/ Matchhere(re, t)
  \/ t # << >> /\ c \in {".", t[1]} /\ Matchstar(c, re, Tail(t))

(* match(): re matches somewhere in t, also at its end.                    *)
Match(re, t) ==
  IF re # << >> /\ re[1] = "^" THEN Matchhere(Tail(re), t)
  ELSE \E k \in 1..(Len(t) + 1) : Matchhere(re, SubSeq(t, k, Len(t)))

(* strchr(b + p, c): the first place, or -1 when the NUL comes before it.  *)
Strchr(b, p, c) ==
  LET at == {q \in p..(GrepBuf - 1) : b[q] = c /\ \A k \in p..(q - 1) : b[k] # "NUL"}
  IN  IF at = {} THEN -1 ELSE CHOOSE q \in at : \A r \in at : q <= r

(* Mutant: the copy runs from the end.                                     *)
MemmoveBackward(b, src, n) ==
  LET copy[k \in 0..n] == IF k = 0 THEN b
        ELSE [copy[k - 1] EXCEPT ![n - k] = copy[k - 1][src + n - k]]
  IN  copy[n]

(* memmove(b, b + src, n), byte by byte from the front.                    *)
Memmove(b, src, n) ==
  LET copy[k \in 0..n] == IF k = 0 THEN b
        ELSE [copy[k - 1] EXCEPT ![k - 1] = copy[k - 1][src + k - 1]]
  IN  copy[n]

(* The inner loop: the lines of b from p on.  It returns the place after   *)
(* the last newline and what was printed.                                  *)
RECURSIVE GrepLines(_, _, _)
GrepLines(b, p, out) ==
  LET q == Strchr(b, p, "\n")
      t == [k \in 1..(q - p) |-> b[p + k - 1]]
  IN  IF q = -1 THEN [p |-> p, out |-> out]
      ELSE GrepLines(b, q + 1, IF Match(pattern, t) THEN Append(out, t) ELSE out)

(* The outer loop.  A piece without any newline is thrown away.            *)
GrepRead(n) ==
  LET room == GrepBuf - gm - 1
      rest == Len(text) - consumed
      m1 == gm + n
      b == [k \in 0..(GrepBuf - 1) |->
              IF k \in gm..(m1 - 1) THEN text[consumed + k - gm + 1]
              ELSE IF k = m1 THEN "NUL" ELSE gbuf[k]]
      done == GrepLines(b, 0, printed)
      left == IF done.p = 0 THEN 0 ELSE m1 - done.p
  IN  /\ n <= room /\ n <= rest
      /\ fromFile => n = room \/ n = rest
      /\ consumed' = consumed + n
      /\ gm' = left
      /\ gbuf' = Memmove(b, done.p, left)
      /\ printed' = done.out
      /\ UNCHANGED <<pattern, text, fromFile>>

GrepNext == \E n \in 1..GrepBuf : GrepRead(n)

------------------------------------------------------------------------------
(* What a pattern means, without following the matcher: a star belongs to  *)
(* the character before it, "$" is the end when it stands last, and the    *)
(* text from position s to e is cut into one stretch for each character.   *)
Matches(re, t) ==
  LET first == IF re # << >> /\ re[1] = "^" THEN 2 ELSE 1
      star[k \in 0..Len(re)] ==
        IF k <= first THEN FALSE ELSE re[k] = "*" /\ ~star[k - 1]
      starred(k) == k < Len(re) /\ star[k + 1]
      anchored == Len(re) >= first /\ re[Len(re)] = "$" /\ ~star[Len(re)]
      items == {k \in first..Len(re) : ~star[k] /\ ~(anchored /\ k = Len(re))}
      ends == {cut \in [0..Len(re) -> 0..Len(t)] :
        /\ first = 2 => cut[1] = 0
        /\ anchored => cut[Len(re)] = Len(t)
        /\ \A k \in first..Len(re) :
             LET from == cut[k - 1] IN
             IF k \in items
             THEN /\ starred(k) \/ cut[k] = from + 1
                  /\ cut[k] >= from
                  /\ \A x \in (from + 1)..cut[k] : re[k] \in {".", t[x]}
             ELSE cut[k] = from}
  IN  ends # {}

Newlines == {k \in 1..consumed : text[k] = "\n"}
LineBefore(q) ==
  LET p == CHOOSE k \in {0} \cup Newlines :
             k < q /\ \A x \in {0} \cup Newlines : x < q => x <= k
  IN  SubSeq(text, p + 1, q - 1)

(* From a file whose lines fit into the buffer grep prints exactly the     *)
(* lines that match, in order, wherever the reads cut them; from a pipe    *)
(* nothing that does not match.                                            *)
GrepPrintsMatches ==
  /\ \A k \in DOMAIN printed : Matches(pattern, printed[k])
  /\ fromFile /\ (\A q \in Newlines : Len(LineBefore(q)) < GrepBuf - 1) =>
       /\ Len(printed) = Cardinality({q \in Newlines : Matches(pattern, LineBefore(q))})
       /\ \A q \in Newlines : Matches(pattern, LineBefore(q)) =>
            printed[Cardinality({r \in Newlines : r <= q /\ Matches(pattern, LineBefore(r))})]
              = LineBefore(q)
=============================================================================
