------------------------------ MODULE PageSim ------------------------------
(***************************************************************************)
(* sim.c (lab-07): the paging simulator, with FIFO (-f) and LRU (-l)       *)
(* replacement.  One step is one line pair (pid, pagina) of the input.     *)
(* Frames and disk slots are numbered from 0 as in the code.               *)
(***************************************************************************)
EXTENDS Integers, FiniteSets

CONSTANTS
  Frames,          \* MEMORIA_FISICA / TAMANIO_PAGINA (8)
  DiskSlots,       \* ALMACENAMIENTO_SECUNDARIO / TAMANIO_PAGINA (16)
  PageRefs,        \* the <<pid, pagina>> pairs of the input
  MaxRefs          \* bound: the length of the input

ASSUME PageSimAssumption ==
  /\ {Frames, DiskSlots, MaxRefs} \subseteq Nat \ {0}
  /\ PageRefs \subseteq (Nat \ {0}) \X (Nat \ {0})   \* indexes from 1

VARIABLES
  opcion,          \* "f" or "l"
  memoriaFisica, memoriaSecundaria,
  tabla_paginas,   \* per page the frame + 1 last given to it, or -1
  indiceRAM, indiceDISCO,
  tiempo, tiempoRAM,
  ended,           \* the disk was full: the simulation has stopped
  refs,            \* lines read
  used,            \* history: when each frame was last used (-l) or filled (-f)
  fullAt           \* history: when the last free frame was filled

simVars == <<opcion, memoriaFisica, memoriaSecundaria, tabla_paginas, indiceRAM,
             indiceDISCO, tiempo, tiempoRAM, ended, refs, used, fullAt>>

None == <<-1, -1>>
FrameIds == 0..(Frames - 1)
SlotIds == 0..(DiskSlots - 1)

SimInit ==
  /\ opcion \in {"f", "l"}
  /\ memoriaFisica = [i \in FrameIds |-> None]
  /\ memoriaSecundaria = [i \in SlotIds |-> None]
  /\ tabla_paginas = [g \in PageRefs |-> -1]
  /\ indiceRAM = 0 /\ indiceDISCO = 0
  /\ tiempo = 0 /\ tiempoRAM = [i \in FrameIds |-> 0]
  /\ ended = FALSE
  /\ refs = 0 /\ used = [i \in FrameIds |-> 0] /\ fullAt = 0

InRAM(g) == \E i \in FrameIds : memoriaFisica[i] = g
OnDisk(g) == \E i \in SlotIds : memoriaSecundaria[i] = g
Room == InRAM(None)

FirstFrame(g) == CHOOSE i \in FrameIds :
  memoriaFisica[i] = g /\ \A j \in 0..(i - 1) : memoriaFisica[j] # g
FirstSlot(g) == CHOOSE i \in SlotIds :
  memoriaSecundaria[i] = g /\ \A j \in 0..(i - 1) : memoriaSecundaria[j] # g

MaxTime == CHOOSE m \in {tiempoRAM[i] : i \in FrameIds} :
             \A i \in FrameIds : tiempoRAM[i] <= m

(* The first frame with the least time.                                    *)
OldestFrame == CHOOSE i \in FrameIds :
  /\ \A j \in FrameIds : tiempoRAM[i] <= tiempoRAM[j]
  /\ \A j \in 0..(i - 1) : tiempoRAM[j] > tiempoRAM[i]

Victim == IF opcion = "f" THEN indiceRAM ELSE OldestFrame

(* indiceRAM is of no use to -l.                                           *)
Advance == indiceRAM' = IF opcion = "f" THEN (indiceRAM + 1) % Frames ELSE indiceRAM

Reading == ~ended /\ refs < MaxRefs /\ refs' = refs + 1
UsedNow(i) == used' = [used EXCEPT ![i] = refs + 1]

(* g is in RAM: nothing for -f, the latest time for -l.                    *)
Hit(g) ==
  /\ Reading /\ InRAM(g)
  /\ IF opcion = "f"
     THEN UNCHANGED <<tiempoRAM, used>>
     ELSE /\ tiempoRAM' = [tiempoRAM EXCEPT ![FirstFrame(g)] = MaxTime + 1]
          /\ UsedNow(FirstFrame(g))
  /\ UNCHANGED <<opcion, memoriaFisica, memoriaSecundaria, tabla_paginas,
                 indiceRAM, indiceDISCO, tiempo, ended, fullAt>>

(* A new page goes to the frame at indiceRAM, or to the first free one.    *)
FreeFrame == IF opcion = "f" THEN indiceRAM ELSE FirstFrame(None)

(* g is new and a frame is free.                                           *)
Fill(g) ==
  /\ Reading /\ ~InRAM(g) /\ ~OnDisk(g) /\ Room
  /\ LET i == FreeFrame
     IN  /\ tabla_paginas' = [tabla_paginas EXCEPT ![g] = i + 1]
         /\ memoriaFisica' = [memoriaFisica EXCEPT ![i] = g]
         /\ IF opcion = "l"
            THEN tiempoRAM' = [tiempoRAM EXCEPT ![i] = tiempo] /\ tiempo' = tiempo + 1
            ELSE UNCHANGED <<tiempoRAM, tiempo>>
         /\ UsedNow(i)
  /\ fullAt' = refs + 1
  /\ Advance
  /\ UNCHANGED <<opcion, memoriaSecundaria, indiceDISCO, ended>>

(* Mutant: the new page does not get the latest time.                      *)
ReplaceWithoutTime(i, g) ==
  /\ tabla_paginas' = [tabla_paginas EXCEPT ![g] = i + 1]
  /\ memoriaFisica' = [memoriaFisica EXCEPT ![i] = g]
  /\ tiempoRAM' = [j \in FrameIds |-> IF opcion = "f" THEN tiempoRAM[j] ELSE tiempoRAM[j] + 1]
  /\ UsedNow(i)
  /\ Advance

(* g takes the victim's frame i, with the latest time; then every time of  *)
(* -l grows by one.  The victim's entry in its own table stays.            *)
Replace(i, g) ==
  /\ tabla_paginas' = [tabla_paginas EXCEPT ![g] = i + 1]
  /\ memoriaFisica' = [memoriaFisica EXCEPT ![i] = g]
  /\ tiempoRAM' =
       IF opcion = "f" THEN tiempoRAM
       ELSE [j \in FrameIds |-> 1 + IF j = i THEN MaxTime + 1 ELSE tiempoRAM[j]]
  /\ UsedNow(i)
  /\ Advance

(* g is new and RAM is full: the victim goes to the next disk slot; when   *)
(* that is taken the simulation ends.                                      *)
Evict(g) ==
  /\ Reading /\ ~InRAM(g) /\ ~OnDisk(g) /\ ~Room
  /\ IF memoriaSecundaria[indiceDISCO] # None
     THEN /\ ended' = TRUE
          /\ UNCHANGED <<memoriaFisica, memoriaSecundaria, tabla_paginas, indiceRAM,
                         indiceDISCO, tiempoRAM, used>>
     ELSE /\ memoriaSecundaria' =
               [memoriaSecundaria EXCEPT ![indiceDISCO] = memoriaFisica[Victim]]
          /\ indiceDISCO' = (indiceDISCO + 1) % DiskSlots
          /\ Replace(Victim, g)
          /\ UNCHANGED ended
  /\ UNCHANGED <<opcion, tiempo, fullAt>>

(* g is on disk and RAM is full: it trades places with the victim.         *)
Swap(g) ==
  /\ Reading /\ ~InRAM(g) /\ OnDisk(g) /\ ~Room
  /\ memoriaSecundaria' =
       [memoriaSecundaria EXCEPT ![FirstSlot(g)] = memoriaFisica[Victim]]
  /\ Replace(Victim, g)
  /\ UNCHANGED <<opcion, indiceDISCO, tiempo, ended, fullAt>>

SimNext == \E g \in PageRefs : Hit(g) \/ Fill(g) \/ Evict(g) \/ Swap(g)

SimSpec == SimInit /\ [][SimNext]_simVars

(* FIFO takes the page that came in first.  LRU never takes a page while   *)
(* one used longer ago is there: true of every frame used since RAM filled *)
(* up (a page hit before that may have a later time than a page that came  *)
(* after it).  No page is in two places.                                   *)
VictimInOrder ==
  /\ \A g \in PageRefs :
       Cardinality({i \in FrameIds : memoriaFisica[i] = g})
         + Cardinality({i \in SlotIds : memoriaSecundaria[i] = g})
       = IF tabla_paginas[g] = -1 THEN 0 ELSE 1
  /\ ~Room => \A i \in FrameIds :
       IF opcion = "f" THEN used[Victim] <= used[i]
       ELSE \A j \in FrameIds :
              used[j] > fullAt /\ used[i] < used[j] => tiempoRAM[i] < tiempoRAM[j]
=============================================================================
