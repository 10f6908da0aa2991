------------------------------ MODULE FileData ------------------------------
(***************************************************************************)
(* The contents of files (the block layer of fs.c and the read and write   *)
(* paths of file.c): allocation of blocks, direct and indirect addresses,  *)
(* offsets shared through one struct file, and writes cut into             *)
(* transactions.                                                           *)
(*                                                                         *)
(* A step is what happens under one ilock(): a read(), or one transaction  *)
(* of a write().  The bytes themselves are abstracted; the bitmap is one   *)
(* block, as it is for FSSIZE blocks.                                      *)
(***************************************************************************)
EXTENDS Integers, FiniteSets

CONSTANTS
  FileProcs,           \* processes, all with the same files open
  Layouts,             \* bound: sequences that give the inode of each open file
  NDIRECT, NINDIRECT, BSIZE,
  NBlocks,             \* data blocks of the disk
  MAXOPBLOCKS,
  Lengths,             \* bound: byte counts of read() and write()
  ImageSizes           \* bound: sizes that mkfs gave the first file

DataBlocks == 1..NBlocks
MAXFILE == NDIRECT + NINDIRECT

ASSUME FileDataAssumption ==
  /\ {NDIRECT, NINDIRECT, BSIZE, NBlocks, MAXOPBLOCKS} \subseteq Nat \ {0}
  /\ MAXOPBLOCKS >= 6                    \* filewrite() gets on by whole blocks
  /\ Lengths \subseteq Nat \ {0} /\ ImageSizes \subseteq Nat
  /\ \A l \in Layouts : \E f \in DOMAIN l : l[f] = 1    \* the file of the image

(* Where block addresses live: the direct ones, then the address of the    *)
(* indirect block (slot NDIRECT), then those inside it.                    *)
AddrSlots == 0..MAXFILE
Slot(bn) == IF bn < NDIRECT THEN bn ELSE bn + 1

VARIABLES
  bitmap,      \* the blocks marked in use
  addr,        \* the address in each slot of each inode, 0 if none
  fsize,       \* ip->size
  off,         \* f->off
  io,          \* the write() of each process: file and bytes left
  logged,      \* how many blocks were logged by the last transaction
  full,        \* balloc() has called panic("balloc: out of blocks")
  inodeOf      \* f->ip

dataVars == <<bitmap, addr, fsize, off, io, logged, full, inodeOf>>

Files == DOMAIN inodeOf
Inodes == {inodeOf[f] : f \in Files}
NoIO == [file |-> 0, left |-> 0]

(* The slots that bmap() visits for the n bytes at o.                      *)
Visited(o, n) ==
  LET bns == (o \div BSIZE)..((o + n - 1) \div BSIZE) IN
  {Slot(bn) : bn \in bns}
  \cup (IF \E bn \in bns : bn >= NDIRECT THEN {NDIRECT} ELSE {})

(* mkfs asserts that its files and its disk are large enough.              *)
ASSUME ImageAssumption ==
  \A n \in ImageSizes :
    n <= MAXFILE * BSIZE /\ Cardinality(Visited(0, n)) <= NBlocks

Rank(x, S) == Cardinality({y \in S : y < x})

(* iappend() of mkfs fills the slots of a file of n bytes with the first   *)
(* blocks, and its balloc() marks those.                                   *)
Iappend(n) == [s \in AddrSlots |-> IF s \in Visited(0, n)
                                   THEN 1 + Rank(s, Visited(0, n)) ELSE 0]
MkfsBalloc(n) == 1..Cardinality(Visited(0, n))

(* An image with one file in it, and empty ones.                           *)
DataInit ==
  /\ inodeOf \in Layouts
  /\ logged = 0 /\ full = FALSE
  /\ \E n \in ImageSizes :
       /\ bitmap = MkfsBalloc(n)
       /\ addr = [i \in Inodes |-> IF i = 1 THEN Iappend(n)
                                  ELSE [s \in AddrSlots |-> 0]]
       /\ fsize = [i \in Inodes |-> IF i = 1 THEN n ELSE 0]
  /\ off = [f \in Files |-> 0]
  /\ io = [p \in FileProcs |-> NoIO]

(* Those in which it finds no address, and the blocks that balloc() gives  *)
(* it one by one.                                                          *)
Unmapped(i, o, n) == {s \in Visited(o, n) : addr[i][s] = 0}

Balloc(r) == CHOOSE b \in DataBlocks \ bitmap : Rank(b, DataBlocks \ bitmap) = r

Mapped(i, o, n) ==
  [s \in AddrSlots |-> IF s \in Unmapped(i, o, n)
                       THEN Balloc(Rank(s, Unmapped(i, o, n))) ELSE addr[i][s]]

(* How many blocks writei() logs: the data, the bitmap if a block was      *)
(* allocated, the indirect block if an address was added to it, and the    *)
(* inode if it grew.                                                       *)
Logs(i, o, n) ==
  LET new == Unmapped(i, o, n) IN
  Cardinality(Visited(o, n) \ {NDIRECT})
  + (IF new # {} THEN 1 ELSE 0)
  + (IF \E s \in new : s >= NDIRECT THEN 1 ELSE 0)
  + (IF o + n > fsize[i] THEN 1 ELSE 0)

(* Mutant: no room for the bitmap and the indirect block.                  *)
MaxWriteAllBlocks == (MAXOPBLOCKS - 1) * BSIZE

(* The bytes that filewrite() puts into one transaction at most.           *)
MaxWrite == ((MAXOPBLOCKS - 1 - 1 - 2) \div 2) * BSIZE

WriteStart(p, f, n) ==
  /\ io[p] = NoIO /\ ~full
  /\ io' = [io EXCEPT ![p] = [file |-> f, left |-> n]]
  /\ UNCHANGED <<bitmap, addr, fsize, off, logged, full, inodeOf>>

(* One round of the loop of filewrite(): begin_op(), ilock(), writei() at  *)
(* f->off, iunlock(), end_op().                                            *)
WriteChunk(p) ==
  LET f == io[p].file
      i == inodeOf[f]
      o == off[f]
      n == IF io[p].left > MaxWrite THEN MaxWrite ELSE io[p].left
  IN
  /\ io[p] # NoIO /\ ~full
  /\ \/ /\ o > fsize[i] \/ o + n > MAXFILE * BSIZE    \* writei() returns -1
        /\ io' = [io EXCEPT ![p] = NoIO]
        /\ logged' = 0
        /\ UNCHANGED <<bitmap, addr, fsize, off, full>>
     \/ /\ o <= fsize[i] /\ o + n <= MAXFILE * BSIZE
        /\ Cardinality(Unmapped(i, o, n)) > NBlocks - Cardinality(bitmap)
        /\ full' = TRUE
        /\ UNCHANGED <<bitmap, addr, fsize, off, io, logged>>
     \/ /\ o <= fsize[i] /\ o + n <= MAXFILE * BSIZE
        /\ Cardinality(Unmapped(i, o, n)) <= NBlocks - Cardinality(bitmap)
        /\ addr' = [addr EXCEPT ![i] = Mapped(i, o, n)]
        /\ bitmap' = bitmap \cup {Mapped(i, o, n)[s] : s \in Visited(o, n)}
        /\ fsize' = [fsize EXCEPT ![i] = IF o + n > @ THEN o + n ELSE @]
        /\ off' = [off EXCEPT ![f] = o + n]
        /\ logged' = Logs(i, o, n)
        /\ io' = [io EXCEPT ![p] = IF io[p].left = n THEN NoIO
                                   ELSE [file |-> f, left |-> io[p].left - n]]
        /\ UNCHANGED full
  /\ UNCHANGED inodeOf

(* readi() cuts the count at the end of the file.                          *)
Readi(i, o, n) == IF o + n > fsize[i] THEN fsize[i] - o ELSE n

Fileread(f, n) ==
  LET i == inodeOf[f]
      got == Readi(i, off[f], n)
  IN
  /\ ~full /\ off[f] <= fsize[i] /\ got > 0
  /\ off' = [off EXCEPT ![f] = @ + got]
  /\ UNCHANGED <<bitmap, addr, fsize, io, logged, full, inodeOf>>

(* Mutant: the indirect block is not freed.                                *)
ItruncKeepsIndirect(i) ==
  /\ ~full /\ \A p \in FileProcs : io[p] # NoIO => inodeOf[io[p].file] # i
  /\ bitmap' = bitmap \ {addr[i][s] : s \in AddrSlots \ {NDIRECT}}
  /\ addr' = [addr EXCEPT ![i] = [s \in AddrSlots |-> 0]]
  /\ fsize' = [fsize EXCEPT ![i] = 0]
  /\ off' = [f \in Files |-> IF inodeOf[f] = i THEN 0 ELSE off[f]]
  /\ logged' = 2
  /\ UNCHANGED <<io, full, inodeOf>>

Bfree(S) == bitmap \ S

(* itrunc() once the last reference to the unlinked inode is gone; the     *)
(* files are then opened anew on an empty inode.                           *)
Itrunc(i) ==
  /\ ~full /\ \A p \in FileProcs : io[p] # NoIO => inodeOf[io[p].file] # i
  /\ bitmap' = Bfree({addr[i][s] : s \in AddrSlots})
  /\ addr' = [addr EXCEPT ![i] = [s \in AddrSlots |-> 0]]
  /\ fsize' = [fsize EXCEPT ![i] = 0]
  /\ off' = [f \in Files |-> IF inodeOf[f] = i THEN 0 ELSE off[f]]
  /\ logged' = 2
  /\ UNCHANGED <<io, full, inodeOf>>

DataNext ==
  \/ \E p \in FileProcs : \/ \E f \in Files, n \in Lengths : WriteStart(p, f, n)
                          \/ WriteChunk(p)
  \/ \E f \in Files, n \in Lengths : Fileread(f, n)
  \/ \E i \in Inodes : Itrunc(i)

DataSpec == DataInit /\ [][DataNext]_dataVars

------------------------------------------------------------------------------
(* The blocks marked in use are those the inodes refer to, each one once,  *)
(* and a file has an address for every block below its size and for no     *)
(* other, however writes of several processes to the same and to other     *)
(* files interleave with reads and with deletion; so no offset is ever     *)
(* beyond the end of its file.                                             *)
BlocksExact ==
  LET refs == {r \in Inodes \X AddrSlots : addr[r[1]][r[2]] # 0} IN
  /\ bitmap = {addr[r[1]][r[2]] : r \in refs}
  /\ Cardinality(bitmap) = Cardinality(refs)
  /\ \A i \in Inodes, bn \in 0..(MAXFILE - 1) :
       addr[i][Slot(bn)] # 0 <=> bn * BSIZE < fsize[i]
  /\ \A f \in Files : off[f] <= fsize[inodeOf[f]]

(* No transaction of a write() logs more blocks than begin_op() reserves   *)
(* for it, whatever the offset and however many blocks it allocates.       *)
TransactionFits == logged <= MAXOPBLOCKS
=============================================================================
