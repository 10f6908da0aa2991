------------------------------ MODULE UThread ------------------------------
(***************************************************************************)
(* The cooperative threads of uthreadlib.c under the program uthread.c:    *)
(* main creates numthreads threads and calls thread_schedule(); each of    *)
(* them calls thread_yield() numexecs times and then thread_exit().  When  *)
(* main is resumed it calls exit(), which ends every thread.               *)
(***************************************************************************)
EXTENDS Integers, FiniteSets

CONSTANTS
  MAX_THREAD,      \* entries of all_thread (8)
  MaxExecs         \* bound: the largest numexecs

ASSUME UThreadAssumption == MAX_THREAD \in Nat \ {0, 1} /\ MaxExecs \in Nat

VARIABLES
  tstate,          \* state of each entry of all_thread
  current_thread,  \* an index into all_thread; 0 is main
  last_index,
  toMake,          \* thread_create() calls that main still has to make
  execs,           \* times each thread still has to yield
  uphase,          \* main: "create", "waiting", and "exited" or "overrun"
  ran              \* history: who ran since each thread last ran

uthreadVars == <<tstate, current_thread, last_index, toMake, execs, uphase, ran>>

Threads == 0..(MAX_THREAD - 1)

(* thread_init(), after main has read its two arguments.                   *)
ThreadInit ==
  /\ tstate = [t \in Threads |-> IF t = 0 THEN "RUNNING" ELSE "FREE"]
  /\ current_thread = 0
  /\ last_index = 0
  /\ toMake \in 0..MAX_THREAD
  /\ \E numexecs \in 0..MaxExecs : execs = [t \in Threads |-> numexecs]
  /\ uphase = "create"
  /\ ran = [t \in Threads |-> {}]

(* thread_create(): the first FREE entry.  Without one t is left past the  *)
(* table and what lies there is overwritten.                               *)
Thread_create ==
  /\ uphase = "create" /\ toMake > 0
  /\ toMake' = toMake - 1
  /\ LET free == {t \in Threads : tstate[t] = "FREE"}
     IN  IF free = {}
         THEN uphase' = "overrun" /\ UNCHANGED tstate
         ELSE /\ tstate' = [tstate EXCEPT
                   ![CHOOSE t \in free : \A u \in free : t <= u] = "RUNNABLE"]
              /\ UNCHANGED uphase
  /\ UNCHANGED <<current_thread, last_index, execs, ran>>

(* Mutant: the search starts at the first entry every time.               *)
FirstRunnable(ts) ==
  LET found == {t \in Threads : ts[t] = "RUNNABLE" /\ t # current_thread}
  IN  IF found = {} THEN -1 ELSE CHOOSE t \in found : \A u \in found : t <= u

(* The search of thread_schedule(): the entries after last_index, round    *)
(* the table.  -1 when none is RUNNABLE.                                   *)
NextRunnable(ts) ==
  LET indice(i) == (last_index + i) % MAX_THREAD
      found == {i \in 1..(MAX_THREAD - 1) :
                  ts[indice(i)] = "RUNNABLE" /\ indice(i) # current_thread}
  IN  IF found = {} THEN -1
      ELSE indice(CHOOSE i \in found : \A j \in found : i <= j)

(* thread_schedule() and thread_switch(), when the states are ts.  t is    *)
(* never past the table, so a thread that finds no other one does not run  *)
(* again: main does.  Main, when it finds none, simply returns.            *)
Thread_schedule(ts) ==
  LET found == NextRunnable(ts)
      next == IF found = -1 THEN 0 ELSE found
  IN  /\ last_index' = IF found = -1 THEN last_index ELSE found
      /\ current_thread' = next
      /\ tstate' = IF next = current_thread THEN ts
                   ELSE [ts EXCEPT ![next] = "RUNNING"]
      /\ ran' = [t \in Threads |->
                   IF t = next \/ ts[t] # "RUNNABLE" THEN {} ELSE ran[t] \cup {next}]

MainSchedules ==
  /\ uphase = "create" /\ toMake = 0
  /\ uphase' = "waiting"
  /\ Thread_schedule(tstate)
  /\ UNCHANGED <<toMake, execs>>

Thread_yield ==
  /\ uphase = "waiting" /\ current_thread # 0
  /\ execs[current_thread] > 0
  /\ execs' = [execs EXCEPT ![current_thread] = @ - 1]
  /\ Thread_schedule([tstate EXCEPT ![current_thread] = "RUNNABLE"])
  /\ UNCHANGED <<toMake, uphase>>

Thread_exit ==
  /\ uphase = "waiting" /\ current_thread # 0
  /\ execs[current_thread] = 0
  /\ Thread_schedule([tstate EXCEPT ![current_thread] = "FREE"])
  /\ UNCHANGED <<toMake, execs, uphase>>

(* Main returns from thread_schedule() and exits.                          *)
MainExits ==
  /\ uphase = "waiting" /\ current_thread = 0
  /\ uphase' = "exited"
  /\ UNCHANGED <<tstate, current_thread, last_index, toMake, execs, ran>>

ThreadNext ==
  \/ Thread_create
  \/ MainSchedules
  \/ Thread_yield
  \/ Thread_exit
  \/ MainExits

ThreadSpec == ThreadInit /\ [][ThreadNext]_uthreadVars

(* Round robin: no thread is given a second turn while another one that    *)
(* was RUNNABLE all along has had none.                                    *)
RoundRobin ==
  [][\A t \in Threads :
       uphase = "waiting" /\ current_thread' # current_thread
         /\ tstate[t] = "RUNNABLE" /\ t # current_thread'
       => current_thread' \notin ran[t]]_uthreadVars
=============================================================================
