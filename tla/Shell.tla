------------------------------- MODULE Shell -------------------------------
(***************************************************************************)
(* The shells: the command-line parser, and main() with the child that     *)
(* runs each line, of xv6/sh.c and of the smaller lab-02/sh.c (lab-05 has  *)
(* a copy).  The grammar of the latter is the same without & ; ( ) and >>. *)
(* A line is the sequence of its tokens as gettoken() returns them ("a" is *)
(* a word, "+" is >>); a word is its position.  The command cd is left     *)
(* out: it changes nothing but the current directory.                      *)
(*                                                                         *)
(* The parsers take a line and a position and return what they built and   *)
(* the position after it, which is 0 once one of them has called panic().  *)
(***************************************************************************)
EXTENDS Integers, Sequences, FiniteSets

CONSTANTS
  Lines,           \* bound: the lines typed
  MAXARGS          \* entries of argv

ASSUME ShellAssumption == MAXARGS \in Nat \ {0}

VARIABLES
  lab,             \* the shell is the one of lab-02
  shphase,         \* main(): "open", "prompt", "fork", "wait", "exited"
  shfds,           \* its open descriptors, and what each one is
  line,
  child,           \* pc; command still to run; descriptors; argv; words ended by NUL
  openFailed       \* some open() has failed for the shell or this child

shellVars == <<lab, shphase, shfds, line, child, openFailed>>

Peek(ts, i, toks) == i <= Len(ts) /\ ts[i] \in toks
Panic == [at |-> 0]

(* parseredirs(): the redirections at i, after those in rs.                *)
RECURSIVE Parseredirs(_, _, _)
Parseredirs(rs, ts, i) ==
  IF ~Peek(ts, i, {"<", ">", "+"}) THEN [rs |-> rs, at |-> i]
  ELSE IF ~Peek(ts, i + 1, {"a"}) THEN Panic
  ELSE Parseredirs(Append(rs, [file |-> i + 1, fd |-> IF ts[i] = "<" THEN 0 ELSE 1]),
                   ts, i + 2)

(* Mutant: a redirection goes inside those before it.                      *)
RECURSIVE RedircmdsInside(_, _)
RedircmdsInside(cmd0, rs) ==
  IF rs = << >> THEN cmd0
  ELSE [type |-> "REDIR", cmd |-> RedircmdsInside(cmd0, Tail(rs)), redir |-> Head(rs)]

(* redircmd() for each of rs: the last one is the outermost.               *)
RECURSIVE Redircmds(_, _)
Redircmds(cmd0, rs) ==
  IF rs = << >> THEN cmd0
  ELSE [type |-> "REDIR", redir |-> rs[Len(rs)],
        cmd |-> Redircmds(cmd0, SubSeq(rs, 1, Len(rs) - 1))]

(* The loop of parseexec(), with argv and the redirections so far.         *)
RECURSIVE Parseargs(_, _, _, _)
Parseargs(argv, rs, ts, i) ==
  IF i > Len(ts) \/ Peek(ts, i, {"|", ")", "&", ";"})
  THEN [cmd |-> Redircmds([type |-> "EXEC", argv |-> argv], rs), at |-> i]
  ELSE IF ts[i] # "a" \/ Len(argv) + 1 >= MAXARGS THEN Panic
  ELSE LET r == Parseredirs(rs, ts, i + 1)
       IN  IF r.at = 0 THEN Panic ELSE Parseargs(Append(argv, i), r.rs, ts, r.at)

RECURSIVE Parseline(_, _)
Parseblock(ts, i) ==
  LET b == Parseline(ts, i + 1)
      r == Parseredirs(<< >>, ts, b.at + 1)
  IN  IF b.at = 0 \/ ~Peek(ts, b.at, {")"}) \/ r.at = 0 THEN Panic
      ELSE [cmd |-> Redircmds(b.cmd, r.rs), at |-> r.at]

Parseexec(ts, i) ==
  IF Peek(ts, i, {"("}) THEN Parseblock(ts, i)
  ELSE LET r == Parseredirs(<< >>, ts, i)
       IN  IF r.at = 0 THEN Panic ELSE Parseargs(<< >>, r.rs, ts, r.at)

(* pipecmd() and listcmd(): l, the token at l.at, and r.                   *)
Pair(type, l, r) ==
  IF r.at = 0 THEN Panic
  ELSE [cmd |-> [type |-> type, left |-> l.cmd, right |-> r.cmd], at |-> r.at]

RECURSIVE Parsepipe(_, _)
Parsepipe(ts, i) ==
  LET l == Parseexec(ts, i)
  IN  IF l.at = 0 \/ ~Peek(ts, l.at, {"|"}) THEN l
      ELSE Pair("PIPE", l, Parsepipe(ts, l.at + 1))

(* backcmd() for each & after a pipe.                                      *)
RECURSIVE Backcmds(_, _)
Backcmds(r, ts) ==
  IF r.at = 0 \/ ~Peek(ts, r.at, {"&"}) THEN r
  ELSE Backcmds([cmd |-> [type |-> "BACK", cmd |-> r.cmd], at |-> r.at + 1], ts)

Parseline(ts, i) ==
  LET l == Backcmds(Parsepipe(ts, i), ts)
  IN  IF l.at = 0 \/ ~Peek(ts, l.at, {";"}) THEN l
      ELSE Pair("LIST", l, Parseline(ts, l.at + 1))

(* parsecmd(): nothing may be left over.                                   *)
Parsecmd(ts) ==
  LET r == Parseline(ts, 1) IN IF r.at = Len(ts) + 1 THEN r ELSE Panic

(* nulterminate(): the words whose end is overwritten with NUL.            *)
RECURSIVE Nulterminate(_)
Nulterminate(c) ==
  CASE c.type = "EXEC" -> {c.argv[k] : k \in DOMAIN c.argv}
    [] c.type = "REDIR" -> Nulterminate(c.cmd) \cup {c.redir.file}
    [] c.type \in {"PIPE", "LIST"} -> Nulterminate(c.left) \cup Nulterminate(c.right)
    [] c.type = "BACK" -> Nulterminate(c.cmd)

----------------------------------------------------------------------------
(* main() and runcmd() *)

(* Descriptors 0..3, as a function of those that are open.                 *)
LowestFree(fds) == CHOOSE d \in 0..3 : d \notin DOMAIN fds /\ 0..(d - 1) \subseteq DOMAIN fds
With(fds, d, f) == [x \in DOMAIN fds \cup {d} |-> IF x = d THEN f ELSE fds[x]]
Without(fds, d) == [x \in DOMAIN fds \ {d} |-> fds[x]]
NoChild == [pc |-> "none", cmd |-> [type |-> "EXEC", argv |-> << >>],
            fds |-> << >>, argv |-> << >>, nul |-> {}]

(* What a descriptor is: 0 stands for the console, a word for that file.   *)
(* The shell of lab-02 starts with the three it inherits.                  *)
ShellInit ==
  /\ lab \in BOOLEAN
  /\ shphase = IF lab THEN "prompt" ELSE "open"
  /\ \E S \in SUBSET (0..2) : /\ shfds = [d \in S |-> 0]
                              /\ lab => S = 0..2
  /\ line = << >>
  /\ child = NoChild
  /\ openFailed = FALSE

(* The loop that opens "console" until it gets descriptor 3, which it      *)
(* closes, or until open() fails.                                          *)
ShellOpen ==
  /\ shphase = "open"
  /\ \/ LET d == LowestFree(shfds)
        IN  IF d = 3 THEN shphase' = "prompt" /\ UNCHANGED <<shfds, openFailed>>
            ELSE shfds' = With(shfds, d, 0) /\ UNCHANGED <<shphase, openFailed>>
     \/ shphase' = "prompt" /\ openFailed' = TRUE /\ UNCHANGED shfds
  /\ UNCHANGED <<lab, line, child>>

(* gettoken() of lab-02 knows three symbols.                               *)
LabLine(l) == \A k \in DOMAIN l : l[k] \in {"a", "<", "|", ">"}

(* getcmd(): a line, or end of file.                                       *)
Getcmd ==
  /\ shphase = "prompt"
  /\ \/ \E l \in Lines : /\ lab => LabLine(l)
                       /\ line' = l /\ shphase' = "fork"
     \/ shphase' = "exited" /\ UNCHANGED line
  /\ UNCHANGED <<lab, shfds, child, openFailed>>

(* fork1(): without a process the shell of xv6 exits, and that of lab-02   *)
(* goes on to a wait() that fails.                                         *)
LabFork1 ==
  /\ lab /\ shphase' = "prompt" /\ line' = << >>
  /\ UNCHANGED child

Fork1 ==
  /\ shphase = "fork"
  /\ \/ /\ shphase' = "wait"
        /\ child' = [NoChild EXCEPT !.pc = "parse", !.fds = shfds]
        /\ UNCHANGED line
     \/ ~lab /\ shphase' = "exited" /\ UNCHANGED <<child, line>>
     \/ LabFork1
  /\ UNCHANGED <<lab, shfds, openFailed>>

ChildParse ==
  /\ child.pc = "parse"
  /\ LET r == Parsecmd(line)
     IN  child' = IF r.at = 0 THEN [child EXCEPT !.pc = "exit"]
                  ELSE [child EXCEPT !.pc = "run", !.cmd = r.cmd,
                                     !.nul = Nulterminate(r.cmd)]
  /\ UNCHANGED <<lab, shphase, shfds, line, openFailed>>

(* runcmd() of a redirection: close(), open(), and on even without it.     *)
RunRedir ==
  /\ child.pc = "run" /\ child.cmd.type = "REDIR"
  /\ LET closed == Without(child.fds, child.cmd.redir.fd)
     IN  \/ /\ child' = [child EXCEPT !.cmd = child.cmd.cmd,
                 !.fds = With(closed, LowestFree(closed), child.cmd.redir.file)]
            /\ UNCHANGED openFailed
         \/ /\ child' = [child EXCEPT !.cmd = child.cmd.cmd, !.fds = closed]
            /\ openFailed' = TRUE
  /\ UNCHANGED <<lab, shphase, shfds, line>>

(* Lists, pipes and & are not implemented: what is on the left is run.     *)
RunLeft ==
  /\ child.pc = "run" /\ child.cmd.type \in {"LIST", "PIPE", "BACK"}
  /\ child' = [child EXCEPT !.cmd = IF child.cmd.type = "BACK" THEN child.cmd.cmd
                                                               ELSE child.cmd.left]
  /\ UNCHANGED <<lab, shphase, shfds, line, openFailed>>

RunExec ==
  /\ child.pc = "run" /\ child.cmd.type = "EXEC"
  /\ child' = IF child.cmd.argv = << >> THEN [child EXCEPT !.pc = "exit"]
              ELSE [child EXCEPT !.pc = "exec", !.argv = child.cmd.argv]
  /\ UNCHANGED <<lab, shphase, shfds, line, openFailed>>

(* The child ends and wait() returns.                                      *)
ShellWait ==
  /\ shphase = "wait" /\ child.pc \in {"exec", "exit"}
  /\ shphase' = "prompt"
  /\ child' = NoChild /\ line' = << >>
  /\ UNCHANGED <<lab, shfds, openFailed>>

ShellNext ==
  \/ ShellOpen \/ Getcmd \/ Fork1
  \/ ChildParse \/ RunRedir \/ RunLeft \/ RunExec \/ ShellWait

----------------------------------------------------------------------------
(* What the line means, read off its tokens without parsing.               *)
Depth(ts, j) == Cardinality({k \in 1..j : ts[k] = "("})
                - Cardinality({k \in 1..j : ts[k] = ")"})

(* How many parentheses the line opens with.                               *)
Leading(ts) == CHOOSE n \in 0..Len(ts) :
  /\ \A k \in 1..n : ts[k] = "("
  /\ ~Peek(ts, n + 1, {"("})

(* A token belongs to the first command when only words and redirections   *)
(* come between it and the opening parentheses, or between it and the end  *)
(* of a block that the first command is in.                                *)
OfFirst(ts, j) ==
  \E k \in 0..(j - 1) :
    /\ \A x \in (k + 1)..j : ts[x] \in {"a", "<", ">", "+"}
    /\ \/ k <= Leading(ts)
       \/ /\ ts[k] = ")"
          /\ \A x \in Leading(ts)..(k - 1) : Depth(ts, x) > Depth(ts, k)

Redirections(ts, ops) == {j \in DOMAIN ts : ts[j] \in ops /\ OfFirst(ts, j)}

FdOf(ts, ops) ==
  LET rs == Redirections(ts, ops)
  IN  IF rs = {} THEN 0 ELSE 1 + CHOOSE j \in rs : \A k \in rs : j <= k

(* What a child execs is what was typed: its arguments are the words of    *)
(* the first command, in order; every word of the line has its NUL; and if *)
(* no open() failed its input and output are what the first < and the      *)
(* first > that apply to it name, and the console otherwise.               *)
ExecsWhatWasTyped ==
  child.pc = "exec" =>
    /\ \A k \in 1..(Len(child.argv) - 1) : child.argv[k] < child.argv[k + 1]
    /\ {child.argv[k] : k \in DOMAIN child.argv} =
         {j \in DOMAIN line : line[j] = "a" /\ OfFirst(line, j)
                              /\ (j = 1 \/ line[j - 1] \notin {"<", ">", "+"})}
    /\ child.nul = {j \in DOMAIN line : line[j] = "a"}
    /\ ~openFailed => /\ DOMAIN child.fds = 0..2
                      /\ child.fds[0] = FdOf(line, {"<"})
                      /\ child.fds[1] = FdOf(line, {">", "+"})
                      /\ child.fds[2] = 0
=============================================================================
