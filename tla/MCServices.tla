----------------------------- MODULE MCServices -----------------------------
(* One state machine at a time, of those that share no state with each     *)
(* other: the reachable states are those of each module in turn.           *)
EXTENDS Spinlock, Console, Memory, FileData, Umalloc,
        UThread, WordStack, BoundedBuffer, PageSim, Shell, Grep, ForkPrio

VARIABLE service

MCLayouts == {<<1, 1>>, <<1, 2>>}
MCPageRefs == {<<1, 1>>, <<1, 2>>, <<2, 1>>, <<2, 2>>, <<2, 3>>}

(* Every line of up to 4 tokens, longer ones of one command, and blocks.   *)
MCLines ==
  UNION {[1..n -> {"a", "|", "<", ">", "+", "&", ";", "(", ")"}] : n \in 0..4}
  \cup [1..5 -> {"a", "<", ">"}]
  \cup {<<"(">> \o s \o <<")">> \o t :
          s \in UNION {[1..n -> {"a", "<", ">", ";"}] : n \in 1..3},
          t \in {<< >>, <<">", "a">>, <<"<", "a">>, <<"|", "a">>}}

Strings(chars, n) == UNION {[1..k -> chars] : k \in 0..n}

(* Every way of cutting a text with one pattern, and every short pattern   *)
(* with every short line.                                                  *)
MCGrepInputs ==
  {<<<<"a">>, t>> : t \in Strings({"a", "b", "\n"}, 5)}
  \cup {<<re, Append(t, "\n")>> :
          re \in Strings({"a", ".", "*", "^", "$"}, 3),
          t \in Strings({"a", "b"}, 2) \cup {<<"a", "a", "b">>, <<"a", "*">>, <<"$">>, <<"^", "a">>}}

Init ==
  /\ service \in {"spin", "cons", "mem", "data", "heap", "uthread", "stack", "bounded", "sim",
                "shell", "grep", "fork"}
  /\ SpinInit /\ ConsInit /\ MemInit /\ HeapInit /\ StackInit
  /\ DataInit /\ (service # "data" => inodeOf = <<1, 2>> /\ bitmap = {})
  /\ ThreadInit /\ (service # "uthread" => toMake = 0 /\ execs[0] = 0)
  /\ BoundedInit /\ (service # "bounded" => bsize = 1 /\ bitems = 1)
  /\ SimInit /\ (service # "sim" => opcion = "f")
  /\ ShellInit /\ (service # "shell" => ~lab /\ shfds = << >>)
  /\ ForkInit /\ (service # "fork" => childs = 0 /\ seconds)
  /\ GrepInit /\ (service # "grep" => text = << >> /\ fromFile /\ pattern = <<"a">>)

Next ==
  \/ /\ service = "spin" /\ SpinNext
     /\ UNCHANGED <<service, consVars, memVars, dataVars, heapVars,
                    uthreadVars, stackVars, boundedVars, simVars, shellVars, grepVars, forkVars>>
  \/ /\ service = "cons" /\ ConsNext
     /\ UNCHANGED <<service, spinVars, memVars, dataVars, heapVars,
                    uthreadVars, stackVars, boundedVars, simVars, shellVars, grepVars, forkVars>>
  \/ /\ service = "mem" /\ MemNext
     /\ UNCHANGED <<service, spinVars, consVars, dataVars, heapVars,
                    uthreadVars, stackVars, boundedVars, simVars, shellVars, grepVars, forkVars>>
  \/ /\ service = "data" /\ DataNext
     /\ UNCHANGED <<service, spinVars, consVars, memVars, heapVars,
                    uthreadVars, stackVars, boundedVars, simVars, shellVars, grepVars, forkVars>>
  \/ /\ service = "heap" /\ HeapNext
     /\ UNCHANGED <<service, spinVars, consVars, memVars, dataVars,
                    uthreadVars, stackVars, boundedVars, simVars, shellVars, grepVars, forkVars>>
  \/ /\ service = "uthread" /\ ThreadNext
     /\ UNCHANGED <<service, spinVars, consVars, memVars, dataVars, heapVars,
                    stackVars, boundedVars, simVars, shellVars, grepVars, forkVars>>
  \/ /\ service = "stack" /\ StackNext
     /\ UNCHANGED <<service, spinVars, consVars, memVars, dataVars, heapVars,
                    uthreadVars, boundedVars, simVars, shellVars, grepVars, forkVars>>
  \/ /\ service = "bounded" /\ BoundedNext
     /\ UNCHANGED <<service, spinVars, consVars, memVars, dataVars, heapVars,
                    uthreadVars, stackVars, simVars, shellVars, grepVars, forkVars>>
  \/ /\ service = "sim" /\ SimNext
     /\ UNCHANGED <<service, spinVars, consVars, memVars, dataVars, heapVars,
                    uthreadVars, stackVars, boundedVars, shellVars, grepVars, forkVars>>
  \/ /\ service = "shell" /\ ShellNext
     /\ UNCHANGED <<service, spinVars, consVars, memVars, dataVars, heapVars,
                    uthreadVars, stackVars, boundedVars, simVars, grepVars, forkVars>>
  \/ /\ service = "grep" /\ GrepNext
     /\ UNCHANGED <<service, spinVars, consVars, memVars, dataVars, heapVars,
                    uthreadVars, stackVars, boundedVars, simVars, shellVars,
                    forkVars>>
  \/ /\ service = "fork" /\ ForkNext
     /\ UNCHANGED <<service, spinVars, consVars, memVars, dataVars, heapVars,
                    uthreadVars, stackVars, boundedVars, simVars, shellVars,
                    grepVars>>
=============================================================================
