----------------------------- MODULE FilesProofs -----------------------------
(***************************************************************************)
(* The open files.                                                         *)
(*                                                                         *)
(* FileTable: whatever the processes open, close, share and redirect, a    *)
(* descriptor dangles only if a call that leaves a use of its slot         *)
(* uncounted has been made, and no two pipes share a page, for any number  *)
(* of processes, descriptors, slots, files and pages.                      *)
(*                                                                         *)
(* InodeCache: one struct inode per file, exact reference counts and no    *)
(* use of a freed inode up to the first inode_open() that goes astray, for *)
(* any number of tasks, files, references and blocks, shared as they like. *)
(***************************************************************************)
EXTENDS FileTable, InodeCache, Integers, FiniteSetTheorems, WellFoundedInduction, TLAPS

-----------------------------------------------------------------------------
(* Numbers and sets *)

\* Min() is the least element of a set of numbers.
LEMMA MinFacts ==
    ASSUME NEW S, S \subseteq Nat, S # {}
    PROVE  Min(S) \in S /\ \A y \in S : Min(S) <= y
<1>1. PICK x \in S : \A y \in S : ~(<<y, x>> \in OpToRel(<, Nat))
  BY NatLessThanWellFounded, WFMin
<1>2. \A y \in S : x <= y
  <2> SUFFICES ASSUME NEW y \in S PROVE x <= y
    OBVIOUS
  <2>1. ~(y < x)
    <3>1. <<y, x>> \in Nat \X Nat
      OBVIOUS
    <3> QED BY <1>1, <3>1 DEF OpToRel
  <2> QED BY <2>1
<1> QED BY <1>2 DEF Min

-----------------------------------------------------------------------------
(* FileTable: the inductive invariant *)

\* The uses of slot i when t is fd_table: the descriptors that point to it.
Uses(t, i) == {w \in Procs \X Fds : t[w[1]][w[2]] = i}

\* The slots in use whose count no dup2() or clone() has spoilt.
Live == {i \in Slots \ spoilt : Uses(fd_table, i) # {}}

\* A slot that counts has at least its uses in f_pos; one of a regular file has
\* one use at most.
CountsOK ==
    \A i \in Live :
        IF file_table[i].f_type = "FT_REG" THEN \A v, w \in Uses(fd_table, i) : v = w
        ELSE /\ IsFiniteSet(Uses(fd_table, i))
             /\ Cardinality(Uses(fd_table, i)) <= file_table[i].f_pos

\* A live slot is filled, and no other live slot has the page of its pipe.
FilledOK(i) ==
    /\ file_table[i].f_type = "FT_CHR" => file_table[i].f_inode = console
    /\ file_table[i].f_type = "FT_REG" => file_table[i].f_inode \in Inodes
    /\ file_table[i].f_type = "FT_FIFO" => file_table[i].f_inode \in pages
SlotsOK ==
    \A i \in Live :
        /\ FilledOK(i)
        /\ file_table[i].f_type = "FT_FIFO" =>
              \A j \in Live \ {i} : file_table[j].f_inode # file_table[i].f_inode

\* A slot of a regular file has an inode of one, or has been emptied.
RegOK == \A i \in Slots : file_table[i].f_type = "FT_REG" => file_table[i].f_inode \in Inodes \cup {NULL}

\* open_cnts counts at least the slots of the inode and the calls that will fill one.
RegSlots(f) == {i \in Slots : file_table[i].f_type = "FT_REG" /\ file_table[i].f_inode = f}
Opening(f) == {p \in Procs : file_pc[p] = "open" /\ target[p] = f}
OpensOK ==
    \A f \in Inodes :
        /\ IsFiniteSet(Opening(f))
        /\ Cardinality(RegSlots(f)) + Cardinality(Opening(f)) <= open_cnts[f]

\* What the calls of process p rely on: whoever is in inode_close() holds
\* file_table_lock and has a regular file, spoilt or not.
ProcOK(p) ==
    /\ file_pc[p] = "dead" => \A fd \in Fds : fd_table[p][fd] = Free
    /\ file_pc[p] = "open" => fd_table[p][fdno[p]] = Free
    /\ file_pc[p] \in {"close", "iclose"} => fd_table[p][fdno[p]] # Free
    /\ file_pc[p] \in {"iclose", "io"} => file_table_lock = p
    /\ file_pc[p] = "iclose" =>
          /\ file_table[fd_table[p][fdno[p]]].f_type = "FT_REG"
          /\ file_table[fd_table[p][fdno[p]]].f_inode \in Inodes
PcOK == \A p \in Procs : ProcOK(p)

FtInv == FileTableTypeOK /\ CountsOK /\ SlotsOK /\ RegOK /\ OpensOK /\ PcOK

-----------------------------------------------------------------------------
(* Descriptors and uses *)

Tables == [Procs -> [Fds -> Slots \cup {Free}]]
Files  == [f_inode : {NULL, console} \cup Inodes \cup Pages,
           f_type : {"FT_CHR", "FT_REG", "FT_FIFO"}, f_pos : Nat]

LEMMA Ranges ==
    /\ Fds \subseteq Nat /\ Slots \subseteq Nat /\ 0 \in Fds
    /\ Free \notin Slots
    /\ IsFiniteSet(Fds) /\ IsFiniteSet(Slots)
<1>1. MAX_FILES_OPEN_PER_PROC \in Nat \ {0} /\ FILE_TABLE_SIZE \in Nat \ {0}
  BY FileTableAssumption
<1>2. Fds \subseteq Nat /\ 0 \in Fds
  BY <1>1 DEF Fds
<1>3. Slots \subseteq Nat /\ Free \notin Slots
  BY <1>1 DEF Slots, Free
<1>4. IsFiniteSet(Fds)
  <2>1. \A x \in Fds : x <= MAX_FILES_OPEN_PER_PROC
    BY <1>1 DEF Fds
  <2> QED BY <1>1, <1>2, <2>1, FS_BoundedSetOfNaturals
<1>5. IsFiniteSet(Slots)
  <2>1. \A x \in Slots : x <= FILE_TABLE_SIZE
    BY <1>1 DEF Slots
  <2> QED BY <1>1, <1>3, <2>1, FS_BoundedSetOfNaturals
<1> QED BY <1>2, <1>3, <1>4, <1>5

\* A slot has a use just when a descriptor points to it.
LEMMA UsesSome ==
    ASSUME NEW t, NEW i, NEW p \in Procs, NEW fd \in Fds, t[p][fd] = i
    PROVE  Uses(t, i) # {} /\ <<p, fd>> \in Uses(t, i)
<1>1. <<p, fd>> \in Uses(t, i)
  BY DEF Uses
<1> QED BY <1>1

\* A process takes slot j with some free descriptors.
LEMMA UsesOpen ==
    ASSUME NEW t \in Tables, NEW u \in Tables, NEW p \in Procs, NEW j \in Slots,
           NEW F \in SUBSET Fds, IsFiniteSet(F), Free \notin Slots,
           \A fd \in F : t[p][fd] = Free /\ u[p][fd] = j,
           \A fd \in Fds \ F : u[p][fd] = t[p][fd],
           \A q \in Procs \ {p} : u[q] = t[q]
    PROVE  /\ \A i \in Slots \ {j} : Uses(u, i) = Uses(t, i)
           /\ Uses(t, j) = {} => /\ IsFiniteSet(Uses(u, j))
                                 /\ Cardinality(Uses(u, j)) <= Cardinality(F)
<1>1. ASSUME NEW i \in Slots \ {j}
      PROVE  Uses(u, i) = Uses(t, i)
  <2>1. \A q \in Procs, fd \in Fds : u[q][fd] = i <=> t[q][fd] = i
    OBVIOUS
  <2> QED BY <2>1 DEF Uses
<1>2. ASSUME Uses(t, j) = {}
      PROVE  IsFiniteSet(Uses(u, j)) /\ Cardinality(Uses(u, j)) <= Cardinality(F)
  <2>1. \A q \in Procs, fd \in Fds : t[q][fd] # j
    BY <1>2, UsesSome
  <2>2. \A q \in Procs, fd \in Fds : u[q][fd] = j => q = p /\ fd \in F
    BY <2>1
  <2>3. \A w \in Uses(u, j) : w = <<p, w[2]>> /\ w[2] \in F
    BY <2>2 DEF Uses
  <2> DEFINE g == [w \in Uses(u, j) |-> w[2]]
  <2>4. g \in [Uses(u, j) -> F] /\ \A v, w \in Uses(u, j) : g[v] = g[w] => v = w
    BY <2>3
  <2> HIDE DEF g
  <2>5. g \in Injection(Uses(u, j), F)
    BY <2>4 DEF Injection, IsInjective
  <2> QED BY <2>5, FS_Injection
<1> QED BY <1>1, <1>2

\* A process closes a descriptor.
LEMMA UsesClose ==
    ASSUME NEW t \in Tables, NEW u \in Tables, NEW p \in Procs, NEW fd \in Fds,
           Free \notin Slots, u[p][fd] = Free,
           \A f \in Fds \ {fd} : u[p][f] = t[p][f],
           \A q \in Procs \ {p} : u[q] = t[q]
    PROVE  /\ \A i \in Slots : Uses(u, i) = Uses(t, i) \ {<<p, fd>>}
           /\ \A i \in Slots : t[p][fd] # i => Uses(u, i) = Uses(t, i)
<1>1. \A q \in Procs, f \in Fds : u[q][f] = IF q = p /\ f = fd THEN Free ELSE t[q][f]
  OBVIOUS
<1>2. ASSUME NEW i \in Slots
      PROVE  Uses(u, i) = Uses(t, i) \ {<<p, fd>>}
  <2>1. \A q \in Procs, f \in Fds : u[q][f] = i <=> t[q][f] = i /\ ~(q = p /\ f = fd)
    BY <1>1
  <2>2. ASSUME NEW w \in Procs \X Fds
        PROVE  w \in Uses(u, i) <=> w \in Uses(t, i) /\ w # <<p, fd>>
    <3>1. w = <<p, fd>> <=> w[1] = p /\ w[2] = fd
      OBVIOUS
    <3> QED BY <2>1, <3>1 DEF Uses
  <2>3. Uses(u, i) \subseteq Procs \X Fds /\ Uses(t, i) \subseteq Procs \X Fds
    BY DEF Uses
  <2> QED BY <2>2, <2>3
<1>3. \A i \in Slots : t[p][fd] # i => <<p, fd>> \notin Uses(t, i)
  BY DEF Uses
<1> QED BY <1>1, <1>2, <1>3

\* The descriptors of p that point to slot i.
FdsTo(t, p, i) == {fd \in Fds : t[p][fd] = i}

\* clone(): the child has the descriptors of the parent.
LEMMA UsesClone ==
    ASSUME NEW t \in Tables, NEW u \in Tables, NEW p \in Procs, NEW c \in Procs,
           NEW i \in Slots, Free \notin Slots, IsFiniteSet(Fds), p # c,
           \A fd \in Fds : t[c][fd] = Free,
           u[c] = t[p], \A q \in Procs \ {c} : u[q] = t[q]
    PROVE  /\ IsFiniteSet(FdsTo(t, p, i)) /\ Cardinality(FdsTo(t, p, i)) \in Nat
           /\ FdsTo(t, p, i) = {} => Uses(u, i) = Uses(t, i)
           /\ Uses(u, i) # {} => Uses(t, i) # {}
           /\ IsFiniteSet(Uses(t, i)) =>
                 /\ IsFiniteSet(Uses(u, i))
                 /\ Cardinality(Uses(u, i)) <= Cardinality(Uses(t, i)) + Cardinality(FdsTo(t, p, i))
<1> DEFINE R == {fd \in Fds : t[p][fd] = i}
           New == {w \in Uses(u, i) : w[1] = c}
<1>1. u \in Tables /\ u[c] = t[p] /\ \A q \in Procs \ {c} : u[q] = t[q]
  OBVIOUS
<1>2. IsFiniteSet(R) /\ Cardinality(R) \in Nat
  <2>1. R \in SUBSET Fds
    OBVIOUS
  <2>2. IsFiniteSet(R)
    BY <2>1, FS_Subset
  <2> QED BY <2>2, FS_CardinalityType
<1>3. \A w \in Uses(t, i) : w[1] # c
  BY DEF Uses
<1>4. Uses(u, i) = Uses(t, i) \cup New
  <2>1. \A w \in Procs \X Fds : w[1] # c => (w \in Uses(u, i) <=> w \in Uses(t, i))
    BY <1>1 DEF Uses
  <2>2. Uses(u, i) \subseteq Procs \X Fds /\ Uses(t, i) \subseteq Procs \X Fds
    BY DEF Uses
  <2> QED BY <1>3, <2>1, <2>2
<1>5. \A w \in New : w = <<c, w[2]>> /\ w[2] \in R
  BY <1>1 DEF Uses
<1>6. IsFiniteSet(New) /\ Cardinality(New) <= Cardinality(R) /\ Cardinality(New) \in Nat
  <2> DEFINE g == [w \in New |-> w[2]]
  <2>1. g \in [New -> R] /\ \A v, w \in New : g[v] = g[w] => v = w
    BY <1>5
  <2> HIDE DEF g, New, R
  <2>2. g \in Injection(New, R)
    BY <2>1 DEF Injection, IsInjective
  <2>3. IsFiniteSet(New) /\ Cardinality(New) <= Cardinality(R)
    BY <1>2, <2>2, FS_Injection
  <2> QED BY <2>3, FS_CardinalityType
<1>7. R = {} => Uses(u, i) = Uses(t, i)
  BY <1>4, <1>5
<1>8. Uses(u, i) # {} => Uses(t, i) # {}
  <2>1. R # {} => Uses(t, i) # {}
    BY UsesSome
  <2> QED BY <1>7, <2>1
<1>9. ASSUME IsFiniteSet(Uses(t, i))
      PROVE  /\ IsFiniteSet(Uses(u, i))
             /\ Cardinality(Uses(u, i)) <= Cardinality(Uses(t, i)) + Cardinality(R)
  <2> DEFINE Old == Uses(t, i)
             Both == Old \cap New
  <2> HIDE DEF New, Old, R
  <2>1. IsFiniteSet(Old)
    BY <1>9 DEF Old
  <2>2. /\ IsFiniteSet(Old \cup New)
        /\ Cardinality(Old \cup New) = Cardinality(Old) + Cardinality(New) - Cardinality(Both)
    BY <1>6, <2>1, FS_Union
  <2>3. Cardinality(Both) \in Nat /\ Cardinality(Old) \in Nat
    <3>1. Both \in SUBSET Old
      OBVIOUS
    <3>2. IsFiniteSet(Both)
      BY <2>1, <3>1, FS_Subset
    <3> HIDE DEF Both
    <3> QED BY <2>1, <3>2, FS_CardinalityType
  <2> HIDE DEF Both
  <2>4. Uses(u, i) = Old \cup New
    BY <1>4 DEF Old
  <2>5. Cardinality(Old \cup New) <= Cardinality(Old) + Cardinality(R)
    BY <1>2, <1>6, <2>2, <2>3
  <2> QED BY <2>2, <2>4, <2>5 DEF Old
<1>10. R = FdsTo(t, p, i)
  BY DEF FdsTo
<1> HIDE DEF R
<1> QED BY <1>2, <1>7, <1>8, <1>9, <1>10

-----------------------------------------------------------------------------
(* FileTable: the steps *)

\* The types of the variables.
LEMMA FtTypes ==
    ASSUME FtInv
    PROVE  /\ file_pc \in [Procs -> {"user", "open", "close", "iclose", "io", "exit", "dead"}]
           /\ target \in [Procs -> Inodes \cup {console}] /\ fdno \in [Procs -> Fds]
           /\ file_table \in [Slots -> Files]
           /\ fd_table \in Tables /\ pages \subseteq Pages /\ spoilt \subseteq Slots
           /\ open_cnts \in [Inodes -> 0..MaxOpens] /\ NULL \notin Procs
<1>1. NULL \notin Procs
  BY FileTableAssumption
<1> QED BY <1>1 DEF FtInv, FileTableTypeOK, Tables, Files

\* What the steps need of the current state.
LEMMA FtNow ==
    ASSUME FtInv
    PROVE  /\ Free \notin Slots
           /\ NULL # console /\ NULL \notin Inodes /\ NULL \notin Pages /\ console \notin Inodes
           /\ \A p \in Procs, fd \in Fds :
                 fd_table[p][fd] # Free => fd_table[p][fd] \in Slots
           /\ \A i \in Slots : /\ file_table[i].f_pos \in Nat
                               /\ file_table[i].f_type \in {"FT_CHR", "FT_REG", "FT_FIFO"}
           /\ \A i \in Live : i \in Slots /\ file_table[i].f_inode # NULL
           /\ \A f \in Inodes :
                 /\ open_cnts[f] \in Nat /\ IsFiniteSet(Opening(f)) /\ IsFiniteSet(RegSlots(f))
                 /\ Cardinality(Opening(f)) \in Nat /\ Cardinality(RegSlots(f)) \in Nat
                 /\ Cardinality(RegSlots(f)) + Cardinality(Opening(f)) <= open_cnts[f]
<1> USE DEF FtInv
<1>1. Free \notin Slots /\ IsFiniteSet(Slots)
  BY Ranges
<1>2. /\ NULL # console /\ NULL \notin Inodes /\ NULL \notin Pages /\ console \notin Inodes
      /\ MaxOpens \in Nat
  BY FileTableAssumption
<1>3. \A p \in Procs, fd \in Fds : fd_table[p][fd] # Free => fd_table[p][fd] \in Slots
  BY FtTypes DEF Tables
<1>4. \A i \in Slots : /\ file_table[i].f_pos \in Nat
                       /\ file_table[i].f_type \in {"FT_CHR", "FT_REG", "FT_FIFO"}
  BY FtTypes DEF Files
<1>5. ASSUME NEW i \in Live
      PROVE  i \in Slots /\ file_table[i].f_inode # NULL
  <2>1. NULL \notin pages
    BY <1>2, FtTypes
  <2>2. i \in Slots /\ FilledOK(i)
    BY DEF SlotsOK, Live
  <2> QED BY <1>2, <1>4, <2>1, <2>2 DEF FilledOK
<1>6. ASSUME NEW f \in Inodes
      PROVE  /\ open_cnts[f] \in Nat /\ IsFiniteSet(Opening(f)) /\ IsFiniteSet(RegSlots(f))
             /\ Cardinality(Opening(f)) \in Nat /\ Cardinality(RegSlots(f)) \in Nat
             /\ Cardinality(RegSlots(f)) + Cardinality(Opening(f)) <= open_cnts[f]
  <2>1. open_cnts[f] \in 0..MaxOpens /\ IsFiniteSet(Opening(f))
        /\ Cardinality(RegSlots(f)) + Cardinality(Opening(f)) <= open_cnts[f]
    BY FtTypes DEF OpensOK
  <2>2. RegSlots(f) \in SUBSET Slots
    BY DEF RegSlots
  <2>3. IsFiniteSet(RegSlots(f))
    BY <1>1, <2>2, FS_Subset
  <2> QED BY <1>2, <2>1, <2>3, FS_CardinalityType
<1> QED BY <1>1, <1>2, <1>3, <1>4, <1>5, <1>6

\* A free descriptor, and a free slot, which is not live.
LEMMA FreeFound ==
    ASSUME FtInv
    PROVE  /\ \A p \in Procs : FreeFds(p) # {} =>
                 free_fd_alloc(p) \in Fds /\ fd_table[p][free_fd_alloc(p)] = Free
           /\ FreeSlots # {} => /\ get_free_slot \in Slots
                                /\ file_table[get_free_slot].f_inode = NULL
                                /\ get_free_slot \notin Live
<1>1. Fds \subseteq Nat /\ Slots \subseteq Nat
  BY Ranges
<1>2. ASSUME NEW p \in Procs, FreeFds(p) # {}
      PROVE  free_fd_alloc(p) \in Fds /\ fd_table[p][free_fd_alloc(p)] = Free
  <2>1. FreeFds(p) \subseteq Nat
    BY <1>1 DEF FreeFds
  <2>2. free_fd_alloc(p) \in FreeFds(p)
    BY <1>2, <2>1, MinFacts DEF free_fd_alloc
  <2> QED BY <2>2 DEF FreeFds
<1>3. ASSUME FreeSlots # {}
      PROVE  /\ get_free_slot \in Slots /\ file_table[get_free_slot].f_inode = NULL
             /\ get_free_slot \notin Live
  <2>1. FreeSlots \subseteq Nat
    BY <1>1 DEF FreeSlots
  <2>2. get_free_slot \in FreeSlots
    BY <1>3, <2>1, MinFacts DEF get_free_slot
  <2>3. get_free_slot \in Slots /\ file_table[get_free_slot].f_inode = NULL
    BY <2>2 DEF FreeSlots
  <2> QED BY <2>3, FtNow
<1> QED BY <1>2, <1>3

\* A slot that is live after a step was not spoilt before it and is not spoilt by it.
LEMMA SpoilFacts ==
    ASSUME NEW S, Spoil(S)
    PROVE  /\ spoilt' \subseteq spoilt \cup S
           /\ \A i \in Live' : i \in Slots /\ i \notin spoilt /\ i \notin S
<1>1. spoilt' \subseteq spoilt \cup S
  BY DEF Spoil
<1>2. ASSUME NEW i \in Live'
      PROVE  i \in Slots /\ i \notin spoilt /\ i \notin S
  <2>1. i \in Slots /\ i \notin spoilt' /\ Uses(fd_table', i) # {}
    BY DEF Live, Uses
  <2>2. \E p \in Procs, fd \in Fds : fd_table'[p][fd] = i
    BY <2>1 DEF Uses
  <2> QED BY <2>1, <2>2 DEF Spoil
<1> QED BY <1>1, <1>2

\* A step in which no slot becomes live: the live ones keep what they point to, and
\* have not more uses than before or are counted.
LEMMA SlotsKept ==
    ASSUME SlotsOK,
           \A i \in Live' :
              /\ i \in Live
              /\ file_table'[i].f_type = file_table[i].f_type
              /\ file_table'[i].f_inode = file_table[i].f_inode
              /\ file_table[i].f_type = "FT_FIFO" => file_table[i].f_inode \in pages'
    PROVE  SlotsOK'
<1> SUFFICES ASSUME NEW i \in Live'
             PROVE
        /\ FilledOK(i)'
        /\ file_table'[i].f_type = "FT_FIFO" =>
              \A k \in Live' \ {i} : file_table'[k].f_inode # file_table'[i].f_inode
  BY DEF SlotsOK
<1>1. i \in Live /\ FilledOK(i)
  BY DEF SlotsOK
<1>2. file_table[i].f_type = "FT_FIFO" =>
         \A k \in Live \ {i} : file_table[k].f_inode # file_table[i].f_inode
  BY <1>1 DEF SlotsOK
<1>3. \A k \in Live' : k \in Live /\ file_table'[k].f_inode = file_table[k].f_inode
  OBVIOUS
<1>4. /\ file_table'[i].f_type = file_table[i].f_type
      /\ file_table'[i].f_inode = file_table[i].f_inode
      /\ file_table[i].f_type = "FT_FIFO" => file_table[i].f_inode \in pages'
  OBVIOUS
<1>5. FilledOK(i)'
  BY <1>1, <1>4 DEF FilledOK
<1>6. file_table'[i].f_type = "FT_FIFO" =>
         \A k \in Live' \ {i} : file_table'[k].f_inode # file_table'[i].f_inode
  BY <1>2, <1>3, <1>4
<1> QED BY <1>5, <1>6

\* The steps that leave the table and the descriptors alone.
LEMMA KeepSlots ==
    ASSUME CountsOK, SlotsOK, UNCHANGED <<file_table, fd_table, spoilt>>, pages \subseteq pages'
    PROVE  CountsOK' /\ SlotsOK'
<1>1. \A i : Uses(fd_table, i)' = Uses(fd_table, i)
  BY DEF Uses
<1>2. Live' = Live
  BY <1>1 DEF Live
<1>3. CountsOK'
  BY <1>1, <1>2 DEF CountsOK
<1>4. \A i \in Live : file_table[i].f_type = "FT_FIFO" => file_table[i].f_inode \in pages'
  BY DEF SlotsOK, FilledOK
<1>5. SlotsOK'
  BY <1>2, <1>4, SlotsKept
<1> QED BY <1>3, <1>5

\* The slots of the regular files stay.
LEMMA KeepOpens ==
    ASSUME OpensOK, UNCHANGED open_cnts,
           \A f \in Inodes : RegSlots(f)' = RegSlots(f) /\ Opening(f)' = Opening(f)
    PROVE  OpensOK'
BY DEF OpensOK

LEMMA FtOpenInv ==
    ASSUME FtInv, NEW p \in Procs,
           NEW f \in Inodes \cup {console}, CallSysOpen(p, f)
    PROVE  FtInv'
<1> USE DEF FtInv
<1> DEFINE fd == free_fd_alloc(p)
<1>1. fd \in Fds /\ fd_table[p][fd] = Free
  BY FreeFound DEF CallSysOpen
<1> HIDE DEF fd
<1>2. /\ file_pc[p] = "user" /\ file_pc' = [file_pc EXCEPT ![p] = "open"]
      /\ f \in Inodes => open_cnts[f] < MaxOpens
      /\ fdno' = [fdno EXCEPT ![p] = fd]
      /\ target' = [target EXCEPT ![p] = f]
      /\ open_cnts' = [i \in Inodes |-> open_cnts[i] + IF i = f THEN 1 ELSE 0]
      /\ UNCHANGED <<file_table, file_table_lock, fd_table, pages, exiting, panic, spoilt, dups>>
  BY DEF CallSysOpen, Enter, fd
<1>3. FileTableTypeOK'
  <2>1. open_cnts' \in [Inodes -> 0..MaxOpens]
    <3>1. \A i \in Inodes : open_cnts[i] \in 0..MaxOpens
      BY FtTypes
    <3>2. MaxOpens \in Nat
      BY FileTableAssumption
    <3>3. \A i \in Inodes : open_cnts[i] + (IF i = f THEN 1 ELSE 0) \in 0..MaxOpens
      BY <1>2, <3>1, <3>2
    <3> QED BY <1>2, <3>3
  <2> QED BY <1>1, <1>2, <2>1, FtTypes DEF FileTableTypeOK
<1>4. CountsOK' /\ SlotsOK'
  BY <1>2, KeepSlots
<1>5. OpensOK'
  <2> SUFFICES ASSUME NEW g \in Inodes
               PROVE  /\ IsFiniteSet(Opening(g)')
                      /\ Cardinality(RegSlots(g)') + Cardinality(Opening(g)') <= open_cnts'[g]
    BY DEF OpensOK
  <2>1. RegSlots(g)' = RegSlots(g)
    BY <1>2 DEF RegSlots
  <2>2. /\ open_cnts[g] \in Nat /\ IsFiniteSet(Opening(g)) /\ Cardinality(Opening(g)) \in Nat
        /\ Cardinality(RegSlots(g)) \in Nat
        /\ Cardinality(RegSlots(g)) + Cardinality(Opening(g)) <= open_cnts[g]
    BY FtNow
  <2>3. CASE g = f
    <3>1. Opening(g)' = Opening(g) \cup {p} /\ p \notin Opening(g)
      BY <1>2, <2>3, FtTypes DEF Opening
    <3>2. IsFiniteSet(Opening(g)') /\ Cardinality(Opening(g)') = Cardinality(Opening(g)) + 1
      BY <2>2, <3>1, FS_AddElement
    <3>3. open_cnts'[g] = open_cnts[g] + 1
      BY <1>2, <2>3
    <3> QED BY <2>1, <2>2, <3>2, <3>3
  <2>4. CASE g # f
    <3>1. Opening(g)' = Opening(g)
      BY <1>2, <2>4, FtTypes DEF Opening
    <3>2. open_cnts'[g] = open_cnts[g]
      BY <1>2, <2>2, <2>4
    <3> QED BY <2>1, <2>2, <3>1, <3>2
  <2> QED BY <2>3, <2>4
<1>6. PcOK'
  BY <1>1, <1>2, FtTypes DEF PcOK, ProcOK
<1>7. RegOK'
  BY <1>2 DEF RegOK
<1> QED BY <1>3, <1>4, <1>5, <1>6, <1>7

\* A step that leaves the table, the descriptors and the counts alone, and in which
\* nobody comes to wait for a slot.
LEMMA QuietInv ==
    ASSUME FtInv, FileTableTypeOK', PcOK',
           UNCHANGED <<file_table, fd_table, open_cnts, spoilt>>, pages \subseteq pages',
           \A q \in Procs : file_pc'[q] = "open" => file_pc[q] = "open" /\ target'[q] = target[q]
    PROVE  FtInv'
<1> USE DEF FtInv
<1>1. CountsOK' /\ SlotsOK'
  BY KeepSlots
<1>2. OpensOK'
  <2> SUFFICES ASSUME NEW g \in Inodes
               PROVE  /\ IsFiniteSet(Opening(g)')
                      /\ Cardinality(RegSlots(g)') + Cardinality(Opening(g)') <= open_cnts'[g]
    BY DEF OpensOK
  <2>1. /\ open_cnts[g] \in Nat /\ IsFiniteSet(Opening(g)) /\ Cardinality(Opening(g)) \in Nat
        /\ Cardinality(RegSlots(g)) \in Nat
        /\ Cardinality(RegSlots(g)) + Cardinality(Opening(g)) <= open_cnts[g]
    BY FtNow
  <2>2. RegSlots(g)' = RegSlots(g) /\ Opening(g)' \in SUBSET Opening(g)
    BY DEF RegSlots, Opening
  <2>3. IsFiniteSet(Opening(g)') /\ Cardinality(Opening(g)') <= Cardinality(Opening(g))
    BY <2>1, <2>2, FS_Subset
  <2>4. Cardinality(Opening(g)') \in Nat
    BY <2>3, FS_CardinalityType
  <2> QED BY <2>1, <2>2, <2>3, <2>4
<1>3. RegOK'
  BY DEF RegOK
<1> QED BY <1>1, <1>2, <1>3

\* Closing, reading or writing begins, a call returns without a descriptor, or the
\* kernel stops.
LEMMA QuietSteps ==
    ASSUME FtInv, NEW p \in Procs,
           \/ OpenFull(p) \/ PipeNoSlot(p)
           \/ CallExit(p) \/ ExitClose(p) \/ ExitDone(p)
           \/ CloseInode(p) \/ FileIoDone(p) \/ CloseAssert(p) \/ StrayAccess(p)
           \/ \E fd \in Fds : CallClose(p, fd) \/ CallFileIo(p, fd)
    PROVE  FtInv'
<1> USE FtTypes, Ranges
<1>1. CASE OpenFull(p)
  <2> USE <1>1 DEF OpenFull, Enter, DropLocals
  <2>1. FileTableTypeOK' /\ PcOK'
    BY DEF FtInv, FileTableTypeOK, PcOK, ProcOK
  <2> QED BY <2>1, QuietInv
<1>2. CASE PipeNoSlot(p)
  <2> USE <1>2 DEF PipeNoSlot, Enter
  <2>1. alloc_page \in Pages
    <3>1. Pages \ pages \subseteq Nat /\ Pages \ pages # {}
      BY FileTableAssumption
    <3> QED BY <3>1, MinFacts DEF alloc_page
  <2>2. FileTableTypeOK' /\ PcOK'
    BY <2>1 DEF FtInv, FileTableTypeOK, PcOK, ProcOK
  <2> QED BY <2>2, QuietInv
<1>3. CASE CallExit(p)
  <2> USE <1>3 DEF CallExit, Enter
  <2>1. FileTableTypeOK' /\ PcOK'
    BY DEF FtInv, FileTableTypeOK, PcOK, ProcOK
  <2> QED BY <2>1, QuietInv
<1>4. CASE ExitClose(p)
  <2> USE <1>4 DEF ExitClose, Enter
  <2>1. Min(Fds \ FreeFds(p)) \in Fds \ FreeFds(p)
    <3>1. Fds \ FreeFds(p) # {} /\ Fds \ FreeFds(p) \subseteq Nat
      BY DEF FreeFds
    <3> QED BY <3>1, MinFacts
  <2>2. \A fd \in Fds \ FreeFds(p) : fd_table[p][fd] # Free
    BY DEF FreeFds
  <2>3. FileTableTypeOK' /\ PcOK'
    BY <2>1, <2>2 DEF FtInv, FileTableTypeOK, PcOK, ProcOK
  <2> QED BY <2>3, QuietInv
<1>5. CASE ExitDone(p)
  <2> USE <1>5 DEF ExitDone, Enter
  <2>1. \A fd \in Fds : fd_table[p][fd] = Free
    BY DEF FreeFds
  <2>2. FileTableTypeOK' /\ PcOK'
    BY <2>1 DEF FtInv, FileTableTypeOK, PcOK, ProcOK
  <2> QED BY <2>2, QuietInv
<1>6. CASE CloseInode(p)
  <2> DEFINE i == fd_table[p][fdno[p]]
  <2> USE <1>6 DEF CloseInode, Enter
  <2>1. fdno[p] \in Fds /\ i # Free
    BY DEF FtInv, PcOK, ProcOK
  <2>2. i \in Slots
    BY <2>1, FtNow
  <2>3. file_table[i].f_inode \in Inodes
    BY <2>2 DEF FtInv, RegOK
  <2>4. FileTableTypeOK'
    BY DEF FtInv, FileTableTypeOK
  <2>5. PcOK'
    BY <2>1, <2>3 DEF FtInv, PcOK, ProcOK
  <2> QED BY <2>4, <2>5, QuietInv
<1>7. CASE FileIoDone(p)
  <2> USE <1>7 DEF FileIoDone, Enter, DropLocals
  <2>1. FileTableTypeOK' /\ PcOK'
    BY DEF FtInv, FileTableTypeOK, PcOK, ProcOK
  <2> QED BY <2>1, QuietInv
<1>8. CASE CloseAssert(p) \/ StrayAccess(p)
  <2>1. /\ file_pc' = file_pc /\ panic' \in {"assert", "fault"}
        /\ UNCHANGED <<file_table, file_table_lock, fd_table, open_cnts, pages, fdno, target,
                       exiting, spoilt, dups>>
    BY <1>8 DEF CloseAssert, StrayAccess, Enter
  <2>2. FileTableTypeOK' /\ PcOK'
    BY <2>1 DEF FtInv, FileTableTypeOK, PcOK, ProcOK
  <2> QED BY <2>1, <2>2, QuietInv
<1>9. CASE \E fd \in Fds : CallClose(p, fd)
  <2>1. PICK fd \in Fds : CallClose(p, fd)
    BY <1>9
  <2> USE <2>1 DEF CallClose, Enter
  <2>2. FileTableTypeOK' /\ PcOK'
    BY DEF FtInv, FileTableTypeOK, PcOK, ProcOK
  <2> QED BY <2>2, QuietInv
<1>10. CASE \E fd \in Fds : CallFileIo(p, fd)
  <2>1. PICK fd \in Fds : CallFileIo(p, fd)
    BY <1>10
  <2> USE <2>1 DEF CallFileIo, Enter
  <2>2. FileTableTypeOK' /\ PcOK'
    BY DEF FtInv, FileTableTypeOK, PcOK, ProcOK
  <2> QED BY <2>2, QuietInv
<1> QED BY <1>1, <1>2, <1>3, <1>4, <1>5, <1>6, <1>7, <1>8, <1>9, <1>10

\* A slot that is not live is filled and given to the descriptors F of a process.
LEMMA FillSlot ==
    ASSUME FtInv, NEW p \in Procs, NEW j \in Slots, j \notin Live, NEW new \in Files,
           NEW F \in SUBSET Fds, IsFiniteSet(F),
           \A e \in F : fd_table[p][e] = Free /\ fd_table'[p][e] = j,
           \A e \in Fds \ F : fd_table'[p][e] = fd_table[p][e],
           \A q \in Procs \ {p} : fd_table'[q] = fd_table[q],
           fd_table' \in Tables, pages \subseteq pages', Spoil({}),
           file_table' = [file_table EXCEPT ![j] = new],
           new.f_type = "FT_REG" => Cardinality(F) <= 1 /\ new.f_inode \in Inodes,
           new.f_type # "FT_REG" => Cardinality(F) <= new.f_pos,
           new.f_type = "FT_CHR" => new.f_inode = console,
           new.f_type = "FT_FIFO" => new.f_inode \in pages' /\ new.f_inode \in Pages,
           \A i \in Live : new.f_inode \in Pages => file_table[i].f_inode # new.f_inode
    PROVE  CountsOK' /\ SlotsOK' /\ RegOK' /\ spoilt' \subseteq Slots
<1> USE DEF FtInv
<1>1. file_table' \in [Slots -> Files] /\ file_table'[j] = new
      /\ \A i \in Slots \ {j} : file_table'[i] = file_table[i]
  BY FtTypes
<1>2. /\ \A i \in Slots \ {j} : Uses(fd_table', i) = Uses(fd_table, i)
      /\ Uses(fd_table, j) = {} => /\ IsFiniteSet(Uses(fd_table', j))
                                   /\ Cardinality(Uses(fd_table', j)) <= Cardinality(F)
  <2> DEFINE t == fd_table
             u == fd_table'
  <2>1. (\A e \in F : t[p][e] = Free /\ u[p][e] = j)
        /\ (\A e \in Fds \ F : u[p][e] = t[p][e])
        /\ (\A q \in Procs \ {p} : u[q] = t[q])
        /\ t \in Tables /\ u \in Tables /\ Free \notin Slots
    BY FtTypes, Ranges
  <2> HIDE DEF t, u
  <2>2. /\ \A i \in Slots \ {j} : Uses(u, i) = Uses(t, i)
        /\ Uses(t, j) = {} => /\ IsFiniteSet(Uses(u, j))
                              /\ Cardinality(Uses(u, j)) <= Cardinality(F)
    BY <2>1, UsesOpen
  <2> QED BY <2>2 DEF t, u
<1>3. spoilt' \subseteq Slots /\ \A i \in Live' : i \in Slots /\ i \notin spoilt
  <2>1. Spoil({}) /\ spoilt \subseteq Slots
    BY FtTypes
  <2> QED BY <2>1, SpoilFacts
<1>4. \A i \in Live' : i \in Live \/ i = j
  <2> SUFFICES ASSUME NEW i \in Live', i # j PROVE i \in Live
    OBVIOUS
  <2>1. Uses(fd_table', i) # {}
    BY DEF Live, Uses
  <2> QED BY <1>2, <1>3, <2>1 DEF Live
<1>5. j \in Live' => Uses(fd_table, j) = {}
  BY <1>3 DEF Live
<1>6. Cardinality(F) \in Nat
  BY FS_CardinalityType
<1>7. CountsOK'
  <2> SUFFICES ASSUME NEW i \in Live'
               PROVE  IF file_table'[i].f_type = "FT_REG"
                      THEN \A v, w \in Uses(fd_table', i) : v = w
                      ELSE /\ IsFiniteSet(Uses(fd_table', i))
                           /\ Cardinality(Uses(fd_table', i)) <= file_table'[i].f_pos
    BY DEF CountsOK, Uses
  <2>1. CASE i = j
    <3> DEFINE U == Uses(fd_table', j)
    <3>1. IsFiniteSet(U) /\ Cardinality(U) <= Cardinality(F)
      BY <1>2, <1>5, <2>1
    <3> HIDE DEF U
    <3>2. Cardinality(U) \in Nat
      BY <3>1, FS_CardinalityType
    <3>3. ASSUME new.f_type = "FT_REG" PROVE \A v, w \in U : v = w
      <4>1. Cardinality(U) = 0 \/ Cardinality(U) = 1
        BY <1>6, <3>1, <3>2, <3>3
      <4> QED BY <3>1, <4>1, FS_EmptySet, FS_Singleton
    <3>4. ASSUME new.f_type # "FT_REG" PROVE Cardinality(U) <= new.f_pos
      <4>1. new.f_pos \in Nat
        BY DEF Files
      <4> QED BY <1>6, <3>1, <3>2, <3>4, <4>1
    <3> QED BY <1>1, <2>1, <3>1, <3>3, <3>4 DEF U
  <2>2. CASE i # j
    <3>1. i \in Live /\ i \in Slots \ {j}
      BY <1>4, <2>2, FtNow
    <3> QED BY <1>1, <1>2, <3>1 DEF CountsOK
  <2> QED BY <2>1, <2>2
\* The live slots before: they keep what they had, and the new one has another page.
<1>8. ASSUME NEW i \in Live', i # j
      PROVE  /\ file_table'[i] = file_table[i] /\ i \in Live /\ FilledOK(i)'
             /\ new.f_inode \in Pages => file_table[i].f_inode # new.f_inode
  <2>1. i \in Live /\ file_table'[i] = file_table[i]
    BY <1>1, <1>4, <1>8, FtNow
  <2>2. FilledOK(i)'
    BY <2>1 DEF SlotsOK, FilledOK
  <2> QED BY <2>1, <2>2
<1>9. SlotsOK'
  <2> SUFFICES ASSUME NEW i \in Live'
               PROVE
          /\ FilledOK(i)'
          /\ file_table'[i].f_type = "FT_FIFO" =>
                \A k \in Live' \ {i} : file_table'[k].f_inode # file_table'[i].f_inode
    BY DEF SlotsOK
  <2>1. CASE i = j
    <3>1. FilledOK(i)'
      BY <1>1, <2>1 DEF FilledOK
    <3>2. ASSUME new.f_type = "FT_FIFO", NEW k \in Live' \ {i}
          PROVE  file_table'[k].f_inode # new.f_inode
      <4>1. new.f_inode \in Pages
        BY <3>2
      <4> QED BY <1>8, <2>1, <4>1
    <3> QED BY <1>1, <2>1, <3>1, <3>2
  <2>2. CASE i # j
    <3>1. file_table'[i] = file_table[i] /\ i \in Live /\ FilledOK(i)'
      BY <1>8, <2>2
    <3>2. ASSUME file_table[i].f_type = "FT_FIFO", NEW k \in Live' \ {i}
          PROVE  file_table'[k].f_inode # file_table[i].f_inode
      <4>1. CASE k = j
        <5>1. file_table[i].f_inode \in Pages
          BY <3>1, <3>2, FtTypes DEF SlotsOK, FilledOK
        <5>2. new.f_inode \in Pages => file_table[i].f_inode # new.f_inode
          BY <1>8, <2>2
        <5> QED BY <1>1, <4>1, <5>1, <5>2
      <4>2. CASE k # j
        <5>1. file_table'[k] = file_table[k] /\ k \in Live \ {i}
          BY <1>8, <4>2
        <5> QED BY <3>1, <3>2, <5>1 DEF SlotsOK
      <4> QED BY <4>1, <4>2
    <3> QED BY <3>1, <3>2
  <2> QED BY <2>1, <2>2
<1>10. RegOK'
  BY <1>1 DEF RegOK
<1> QED BY <1>3, <1>7, <1>9, <1>10

\* The calls of the other processes, when a slot that nobody is closing changes.
LEMMA ProcKept ==
    ASSUME FtInv, NEW q \in Procs, NEW j \in Slots, file_pc'[q] = file_pc[q],
           fdno'[q] = fdno[q], fd_table'[q] = fd_table[q],
           file_table'[j] = file_table[j] \/ file_table[j].f_inode = NULL \/ file_table_lock # q,
           \A i \in Slots \ {j} : file_table'[i] = file_table[i],
           file_table_lock' = file_table_lock \/ file_table_lock # q
    PROVE  ProcOK(q)'
<1>1. ProcOK(q) /\ fdno[q] \in Fds
  BY FtTypes DEF FtInv, PcOK
<1>2. file_pc[q] \in {"iclose", "io"} => file_table_lock' = q
  BY <1>1 DEF ProcOK
<1>3. ASSUME file_pc[q] = "iclose"
      PROVE  file_table'[fd_table[q][fdno[q]]] = file_table[fd_table[q][fdno[q]]]
  <2>1. /\ fd_table[q][fdno[q]] \in Slots /\ file_table_lock = q
        /\ file_table[fd_table[q][fdno[q]]].f_inode \in Inodes
    BY <1>1, <1>3, FtNow DEF ProcOK
  <2> QED BY <2>1, FtNow
<1> QED BY <1>1, <1>2, <1>3 DEF ProcOK

\* What sys_open() leaves: the descriptor refers to a slot that was free.
LEMMA OpenSlotInv ==
    ASSUME FtInv, NEW p \in Procs, OpenSlot(p)
    PROVE  FtInv'
<1> USE DEF FtInv
<1> DEFINE j == get_free_slot
           fd == fdno[p]
           f == target[p]
           new == [f_inode |-> f, f_type |-> IF f = console THEN "FT_CHR" ELSE "FT_REG",
                   f_pos |-> IF f = console THEN 1 ELSE 0]
           F == {fd}
<1>1. /\ file_pc[p] = "open" /\ file_pc' = [file_pc EXCEPT ![p] = "user"]
      /\ file_table' = [file_table EXCEPT ![j] = new]
      /\ fd_table' = [fd_table EXCEPT ![p][fd] = j]
      /\ fdno' = [fdno EXCEPT ![p] = 0] /\ target' = [target EXCEPT ![p] = console]
      /\ Spoil({})
      /\ UNCHANGED <<file_table_lock, open_cnts, pages, exiting, panic, dups>>
  BY DEF OpenSlot, Enter, DropLocals
<1>2. j \in Slots /\ file_table[j].f_inode = NULL /\ j \notin Live
  BY FreeFound DEF OpenSlot
<1>3. fd \in Fds /\ fd_table[p][fd] = Free /\ f \in Inodes \cup {console}
  BY <1>1, FtTypes DEF PcOK, ProcOK
<1>4. f \notin Pages /\ f # NULL
  BY <1>3, FileTableAssumption
<1> HIDE DEF j, fd, f
<1>5. new.f_inode = f /\ new.f_type = (IF f = console THEN "FT_CHR" ELSE "FT_REG")
      /\ new.f_pos = (IF f = console THEN 1 ELSE 0) /\ new \in Files
  BY <1>3 DEF Files
<1> HIDE DEF new
<1>6. fd_table' \in Tables /\ fd_table'[p][fd] = j
      /\ (\A e \in Fds \ F : fd_table'[p][e] = fd_table[p][e])
      /\ \A q \in Procs \ {p} : fd_table'[q] = fd_table[q]
  BY <1>1, <1>2, <1>3, FtTypes DEF Tables
<1>7. file_table'[j] = new /\ file_table' \in [Slots -> Files]
      /\ \A i \in Slots \ {j} : file_table'[i] = file_table[i]
  BY <1>1, <1>2, <1>5, FtTypes
<1>8. CountsOK' /\ SlotsOK' /\ RegOK' /\ spoilt' \subseteq Slots
  <2>1. IsFiniteSet(F) /\ Cardinality(F) = 1 /\ F \in SUBSET Fds
    BY <1>3, FS_Singleton
  <2>2. \A e \in F : fd_table[p][e] = Free /\ fd_table'[p][e] = j
    BY <1>3, <1>6
  <2>3. /\ new.f_type = "FT_REG" => Cardinality(F) <= 1 /\ new.f_inode \in Inodes
        /\ new.f_type # "FT_REG" => Cardinality(F) <= new.f_pos
        /\ new.f_type = "FT_CHR" => new.f_inode = console
        /\ new.f_type # "FT_FIFO" /\ new.f_inode \notin Pages
    BY <1>3, <1>4, <1>5, <2>1
  <2>4. pages \subseteq pages'
    BY <1>1
  <2> HIDE DEF F
  <2>5. /\ j \in Slots /\ j \notin Live /\ new \in Files /\ Spoil({})
        /\ file_table' = [file_table EXCEPT ![j] = new]
        /\ fd_table' \in Tables
        /\ \A e \in Fds \ F : fd_table'[p][e] = fd_table[p][e]
        /\ \A q \in Procs \ {p} : fd_table'[q] = fd_table[q]
        /\ \A i \in Live : new.f_inode \in Pages => file_table[i].f_inode # new.f_inode
        /\ new.f_type = "FT_FIFO" => new.f_inode \in pages' /\ new.f_inode \in Pages
    BY <1>1, <1>2, <1>5, <1>6, <2>3
  <2> HIDE DEF FtInv
  <2> QED BY <2>1, <2>2, <2>3, <2>4, <2>5, FillSlot
<1>9. FileTableTypeOK'
  BY <1>1, <1>6, <1>7, <1>8, FtTypes, Ranges DEF FileTableTypeOK, Tables, Files
<1>10. OpensOK'
  <2> SUFFICES ASSUME NEW g \in Inodes
               PROVE  /\ IsFiniteSet(Opening(g)')
                      /\ Cardinality(RegSlots(g)') + Cardinality(Opening(g)') <= open_cnts'[g]
    BY DEF OpensOK
  <2>1. /\ open_cnts[g] \in Nat /\ IsFiniteSet(Opening(g)) /\ Cardinality(Opening(g)) \in Nat
        /\ IsFiniteSet(RegSlots(g)) /\ Cardinality(RegSlots(g)) \in Nat
        /\ Cardinality(RegSlots(g)) + Cardinality(Opening(g)) <= open_cnts[g]
        /\ NULL # g /\ console # g
    BY FtNow
  <2>2. Opening(g)' = Opening(g) \ {p} /\ (f = g => p \in Opening(g))
    BY <1>1, FtTypes DEF Opening, f
  <2>3. RegSlots(g)' = IF f = g THEN RegSlots(g) \cup {j} ELSE RegSlots(g)
    BY <1>2, <1>5, <1>7, <2>1 DEF RegSlots
  <2>4. j \notin RegSlots(g)
    BY <1>2, <2>1 DEF RegSlots
  <2>5. IsFiniteSet(Opening(g)') /\ Cardinality(Opening(g)') \in Nat
        /\ Cardinality(Opening(g)') = IF p \in Opening(g) THEN Cardinality(Opening(g)) - 1
                                      ELSE Cardinality(Opening(g))
    BY <2>1, <2>2, FS_RemoveElement, FS_CardinalityType
  <2>6. CASE f = g
    <3>1. Cardinality(RegSlots(g)') = Cardinality(RegSlots(g)) + 1
      BY <2>1, <2>3, <2>4, <2>6, FS_AddElement
    <3>2. Cardinality(Opening(g)') = Cardinality(Opening(g)) - 1
      BY <2>2, <2>5, <2>6
    <3> QED BY <1>1, <2>1, <2>5, <3>1, <3>2
  <2>7. CASE f # g
    BY <1>1, <2>1, <2>3, <2>5, <2>7
  <2> QED BY <2>6, <2>7
<1>11. PcOK'
  <2> SUFFICES ASSUME NEW q \in Procs PROVE ProcOK(q)'
    BY DEF PcOK
  <2>1. CASE q = p
    BY <1>1, <2>1, FtTypes DEF ProcOK
  <2>2. CASE q # p
    <3>1. /\ file_pc'[q] = file_pc[q] /\ fdno'[q] = fdno[q] /\ fd_table'[q] = fd_table[q]
      BY <1>1, <1>6, <2>2, FtTypes
    <3> QED BY <1>1, <1>2, <1>7, <3>1, ProcKept
  <2> QED BY <2>1, <2>2
<1> QED BY <1>8, <1>9, <1>10, <1>11

\* sys_close() of a device or a pipe.
LEMMA CloseCountedInv ==
    ASSUME FtInv, NEW p \in Procs, CloseCounted(p)
    PROVE  FtInv'
<1> USE DEF FtInv
<1> DEFINE fd == fdno[p]
           i == fd_table[p][fd]
           f == file_table[i]
           last == LastRef(f)
           x == <<p, fd>>
           S == IF last /\ i \in spoilt THEN Sharers(i, f.f_inode) ELSE {}
<1>1. /\ file_pc[p] = "close" /\ file_pc' = [file_pc EXCEPT ![p] = Caller(p)]
      /\ f.f_type \in {"FT_CHR", "FT_FIFO"} /\ f.f_inode # NULL /\ file_table_lock = NULL
      /\ file_table' = [file_table EXCEPT ![i].f_pos   = IF @ > 0 THEN @ - 1 ELSE @,
                                          ![i].f_inode = IF last THEN NULL ELSE @]
      /\ pages' = IF last /\ f.f_type = "FT_FIFO" THEN pages \ {f.f_inode} ELSE pages
      /\ fd_table' = [fd_table EXCEPT ![p][fd] = Free]
      /\ fdno' = [fdno EXCEPT ![p] = 0] /\ target' = [target EXCEPT ![p] = console]
      /\ Spoil(S)
      /\ UNCHANGED <<file_table_lock, open_cnts, exiting, panic, dups>>
  BY DEF CloseCounted, Enter, DropLocals
<1>2. fd \in Fds /\ i \in Slots /\ x \in Uses(fd_table, i)
  <2>1. fd \in Fds /\ i # Free
    BY <1>1, FtTypes DEF PcOK, ProcOK
  <2> QED BY <2>1, FtNow, UsesSome
<1>3. i \in Live \/ i \in spoilt
  BY <1>2, FtNow DEF Live
<1>4. Caller(p) \in {"exit", "user"}
  BY DEF Caller
<1> HIDE DEF last
<1>5. /\ \A k \in Slots \ {i} : file_table'[k] = file_table[k]
      /\ file_table'[i].f_type = f.f_type
      /\ file_table'[i].f_pos = IF f.f_pos > 0 THEN f.f_pos - 1 ELSE f.f_pos
      /\ file_table'[i].f_inode = IF last THEN NULL ELSE f.f_inode
      /\ file_table' \in [Slots -> Files]
  <2> DEFINE e == [f EXCEPT !.f_pos = IF @ > 0 THEN @ - 1 ELSE @,
                            !.f_inode = IF last THEN NULL ELSE @]
  <2>1. f \in Files
    BY <1>2, FtTypes, ZenonT(60)
  <2>2. file_table' = [file_table EXCEPT ![i] = e]
    BY <1>1
  <2> HIDE DEF f, i
  <2>3. /\ e.f_type = f.f_type /\ e.f_pos = IF f.f_pos > 0 THEN f.f_pos - 1 ELSE f.f_pos
        /\ e.f_inode = IF last THEN NULL ELSE f.f_inode
        /\ e \in Files
    <3> DEFINE n == IF f.f_pos > 0 THEN f.f_pos - 1 ELSE f.f_pos
               o == IF last THEN NULL ELSE f.f_inode
    <3>1. n \in Nat /\ o \in {NULL, console} \cup Inodes \cup Pages
      BY <2>1 DEF Files
    <3>2. e = [f EXCEPT !.f_pos = n, !.f_inode = o]
      OBVIOUS
    <3> HIDE DEF n, o, e
    <3>3. e.f_type = f.f_type /\ e.f_pos = n /\ e.f_inode = o
      BY <2>1, <3>2 DEF Files
    <3>4. e \in Files
      BY <2>1, <3>1, <3>2 DEF Files
    <3> QED BY <3>3, <3>4 DEF n, o
  <2> HIDE DEF e
  <2> QED BY <1>2, <2>2, <2>3, FtTypes
<1> HIDE DEF i, f, fd
<1>6. /\ fd_table' \in Tables
      /\ \A k \in Slots : Uses(fd_table', k) = Uses(fd_table, k) \ {x}
      /\ \A k \in Slots \ {i} : Uses(fd_table', k) = Uses(fd_table, k)
  <2> DEFINE t == fd_table
             u == fd_table'
  <2>1. /\ t \in Tables /\ u \in Tables /\ t[p][fd] = i /\ Free \notin Slots
        /\ u[p][fd] = Free /\ (\A e \in Fds \ {fd} : u[p][e] = t[p][e])
        /\ \A q \in Procs \ {p} : u[q] = t[q]
    BY <1>1, <1>2, FtTypes, Ranges DEF i, Tables
  <2> HIDE DEF t, u
  <2>2. /\ \A k \in Slots : Uses(u, k) = Uses(t, k) \ {x}
        /\ \A k \in Slots : t[p][fd] # k => Uses(u, k) = Uses(t, k)
    BY <1>2, <2>1, UsesClose
  <2> QED BY <2>1, <2>2 DEF t, u
<1> HIDE DEF x, S
<1>7. spoilt' \subseteq spoilt \cup S /\ \A k \in Live' : k \in Slots /\ k \notin spoilt /\ k \notin S
  BY <1>1, SpoilFacts
<1>8. S \subseteq Slots
  BY DEF S, Sharers
<1>9. \A k \in Live' : k \in Live /\ Uses(fd_table', k) # {}
  <2> SUFFICES ASSUME NEW k \in Live' PROVE k \in Live /\ Uses(fd_table', k) # {}
    OBVIOUS
  <2>1. Uses(fd_table', k) # {}
    BY DEF Live, Uses
  <2> QED BY <1>6, <1>7, <2>1 DEF Live
\* If the slot is live, so is its count.
<1>10. ASSUME i \in Live
       PROVE  /\ IsFiniteSet(Uses(fd_table', i)) /\ f.f_pos > 0
              /\ Cardinality(Uses(fd_table', i)) <= f.f_pos - 1
              /\ last => Uses(fd_table', i) = {}
  <2>1. IsFiniteSet(Uses(fd_table, i)) /\ Cardinality(Uses(fd_table, i)) <= f.f_pos
    BY <1>1, <1>10 DEF CountsOK, f
  <2>2. /\ IsFiniteSet(Uses(fd_table', i))
        /\ Cardinality(Uses(fd_table', i)) = Cardinality(Uses(fd_table, i)) - 1
    BY <1>2, <1>6, <2>1, FS_RemoveElement
  <2>3. Cardinality(Uses(fd_table', i)) \in Nat /\ Cardinality(Uses(fd_table, i)) \in Nat
        /\ f.f_pos \in Nat
    BY <1>2, <2>1, <2>2, FS_CardinalityType, FtNow DEF f
  <2>4. last => Cardinality(Uses(fd_table', i)) = 0
    BY <2>1, <2>2, <2>3 DEF last, LastRef
  <2> QED BY <2>1, <2>2, <2>3, <2>4, FS_EmptySet
<1>11. FileTableTypeOK'
  BY <1>1, <1>4, <1>5, <1>6, <1>7, <1>8, FtTypes, Ranges DEF FileTableTypeOK, Tables, Files
<1>12. CountsOK'
  <2> SUFFICES ASSUME NEW k \in Live'
               PROVE  IF file_table'[k].f_type = "FT_REG"
                      THEN \A v, w \in Uses(fd_table', k) : v = w
                      ELSE /\ IsFiniteSet(Uses(fd_table', k))
                           /\ Cardinality(Uses(fd_table', k)) <= file_table'[k].f_pos
    BY DEF CountsOK, Uses
  <2>1. CASE k = i
    <3>1. i \in Live
      BY <1>9, <2>1
    <3> QED BY <1>1, <1>5, <1>10, <2>1, <3>1
  <2>2. CASE k # i
    <3>1. k \in Live /\ k \in Slots
      BY <1>7, <1>9
    <3> QED BY <1>5, <1>6, <2>2, <3>1 DEF CountsOK
  <2> QED BY <2>1, <2>2
<1>13. SlotsOK'
  <2> SUFFICES ASSUME NEW k \in Live'
               PROVE  /\ k \in Live
                      /\ file_table'[k].f_type = file_table[k].f_type
                      /\ file_table'[k].f_inode = file_table[k].f_inode
                      /\ file_table[k].f_type = "FT_FIFO" => file_table[k].f_inode \in pages'
    BY SlotsKept
  <2>1. k \in Live /\ Uses(fd_table', k) # {} /\ k \in Slots /\ k \notin spoilt /\ k \notin S
    BY <1>7, <1>9
  <2>2. file_table[k].f_type = "FT_FIFO" => file_table[k].f_inode \in pages
    BY <2>1 DEF SlotsOK, FilledOK
  <2>3. CASE k = i
    <3>1. ~last
      BY <1>10, <2>1, <2>3
    <3> QED BY <1>1, <1>5, <2>1, <2>2, <2>3, <3>1 DEF f
  <2>4. CASE k # i
    <3>1. last /\ f.f_type = "FT_FIFO" => file_table[k].f_inode # f.f_inode
      <4>1. CASE i \in spoilt
        BY <2>1, <2>4, <4>1 DEF S, Sharers
      <4>2. CASE i \in Live
        BY <2>1, <2>4, <4>2 DEF SlotsOK, f
      <4> QED BY <1>3, <4>1, <4>2
    <3> QED BY <1>1, <1>5, <2>1, <2>2, <2>4, <3>1
  <2> QED BY <2>3, <2>4
<1>14. \A k \in Slots : /\ file_table'[k].f_type = file_table[k].f_type
                        /\ file_table[k].f_type = "FT_REG" =>
                              file_table'[k].f_inode = file_table[k].f_inode
  BY <1>1, <1>5 DEF f
<1>15. RegOK'
  BY <1>14 DEF RegOK
<1>16. OpensOK'
  <2> SUFFICES ASSUME NEW g \in Inodes PROVE RegSlots(g)' = RegSlots(g) /\ Opening(g)' = Opening(g)
    BY <1>1, KeepOpens
  <2>1. RegSlots(g)' = RegSlots(g)
    BY <1>14 DEF RegSlots
  <2>2. \A q \in Procs : file_pc'[q] = "open" <=> file_pc[q] = "open"
    BY <1>1, <1>4, FtTypes
  <2>3. \A q \in Procs : file_pc[q] = "open" => target'[q] = target[q]
    BY <1>1, FtTypes
  <2> QED BY <2>1, <2>2, <2>3 DEF Opening
<1>17. PcOK'
  <2> SUFFICES ASSUME NEW q \in Procs PROVE ProcOK(q)'
    BY DEF PcOK
  <2>1. CASE q = p
    BY <1>1, <1>4, <2>1, FtTypes DEF ProcOK
  <2>2. CASE q # p
    <3>1. /\ file_pc'[q] = file_pc[q] /\ fdno'[q] = fdno[q] /\ fd_table'[q] = fd_table[q]
          /\ file_table_lock # q
      BY <1>1, <2>2, FtTypes DEF Tables
    <3> QED BY <1>1, <1>2, <1>5, <3>1, ProcKept
  <2> QED BY <2>1, <2>2
<1> QED BY <1>11, <1>12, <1>13, <1>15, <1>16, <1>17

\* sys_close() of a regular file, after inode_close().
LEMMA CloseDoneInv ==
    ASSUME FtInv, NEW p \in Procs, CloseDone(p)
    PROVE  FtInv'
<1> USE DEF FtInv
<1> DEFINE fd == fdno[p]
           i == fd_table[p][fd]
           f == file_table[i].f_inode
           x == <<p, fd>>
<1>1. /\ file_pc[p] = "iclose" /\ file_pc' = [file_pc EXCEPT ![p] = Caller(p)]
      /\ open_cnts' = [open_cnts EXCEPT ![f] = @ - 1]
      /\ file_table' = [file_table EXCEPT ![i].f_inode = NULL]
      /\ file_table_lock' = NULL
      /\ fd_table' = [fd_table EXCEPT ![p][fd] = Free]
      /\ fdno' = [fdno EXCEPT ![p] = 0] /\ target' = [target EXCEPT ![p] = console]
      /\ Spoil({})
      /\ UNCHANGED <<pages, exiting, panic, dups>>
  BY DEF CloseDone, Enter, DropLocals
<1>2. fd \in Fds /\ i \in Slots /\ x \in Uses(fd_table, i)
      /\ file_table[i].f_type = "FT_REG" /\ f \in Inodes /\ file_table_lock = p
  <2>1. fd \in Fds /\ i # Free /\ file_table[i].f_type = "FT_REG" /\ f \in Inodes
        /\ file_table_lock = p
    BY <1>1, FtTypes DEF PcOK, ProcOK
  <2> QED BY <2>1, FtNow, UsesSome
<1>3. Caller(p) \in {"exit", "user"}
  BY DEF Caller
<1>4. /\ \A k \in Slots \ {i} : file_table'[k] = file_table[k]
      /\ file_table'[i].f_type = "FT_REG" /\ file_table'[i].f_inode = NULL
      /\ file_table' \in [Slots -> Files]
  BY <1>1, <1>2, FtTypes DEF Files
<1>5. i \in RegSlots(f)
  BY <1>2 DEF RegSlots
<1> HIDE DEF i, f, fd
<1>6. /\ fd_table' \in Tables
      /\ \A k \in Slots : Uses(fd_table', k) = Uses(fd_table, k) \ {x}
      /\ \A k \in Slots \ {i} : Uses(fd_table', k) = Uses(fd_table, k)
  <2> DEFINE t == fd_table
             u == fd_table'
  <2>1. /\ t \in Tables /\ u \in Tables /\ t[p][fd] = i /\ Free \notin Slots
        /\ u[p][fd] = Free /\ (\A e \in Fds \ {fd} : u[p][e] = t[p][e])
        /\ \A q \in Procs \ {p} : u[q] = t[q]
    BY <1>1, <1>2, FtTypes, Ranges DEF i, Tables
  <2> HIDE DEF t, u
  <2>2. /\ \A k \in Slots : Uses(u, k) = Uses(t, k) \ {x}
        /\ \A k \in Slots : t[p][fd] # k => Uses(u, k) = Uses(t, k)
    BY <1>2, <2>1, UsesClose
  <2> QED BY <2>1, <2>2 DEF t, u
<1> HIDE DEF x
<1>7. spoilt' \subseteq spoilt /\ \A k \in Live' : k \in Slots /\ k \notin spoilt
  <2>1. Spoil({})
    BY <1>1
  <2> QED BY <2>1, SpoilFacts
\* A live slot has lost its only use.
<1>8. \A k \in Live' : k \in Live /\ k # i
  <2> SUFFICES ASSUME NEW k \in Live' PROVE k \in Live /\ k # i
    OBVIOUS
  <2>1. Uses(fd_table', k) # {}
    BY DEF Live, Uses
  <2>2. k \in Live
    BY <1>6, <1>7, <2>1 DEF Live
  <2>3. i \in Live => Uses(fd_table', i) = {}
    <3>1. i \in Live => \A v, w \in Uses(fd_table, i) : v = w
      BY <1>2 DEF CountsOK
    <3> QED BY <1>2, <1>6, <3>1
  <2> QED BY <2>1, <2>2, <2>3
<1>9. \A g \in Inodes : /\ open_cnts[g] \in Nat /\ Cardinality(Opening(g)) \in Nat
                        /\ Cardinality(RegSlots(g)) \in Nat /\ IsFiniteSet(RegSlots(g))
                        /\ Cardinality(RegSlots(g)) + Cardinality(Opening(g)) <= open_cnts[g]
                        /\ IsFiniteSet(Opening(g)) /\ g # NULL
  BY FtNow
<1>10. open_cnts[f] >= 1
  <2>1. Cardinality(RegSlots(f)) # 0
    BY <1>2, <1>5, <1>9, FS_EmptySet
  <2> QED BY <1>2, <1>9, <2>1
<1>11. FileTableTypeOK'
  <2>1. open_cnts[f] - 1 \in 0..MaxOpens
    BY <1>2, <1>10, FtTypes, FileTableAssumption
  <2>2. open_cnts' \in [Inodes -> 0..MaxOpens]
    BY <1>1, <1>2, <2>1, FtTypes
  <2> QED BY <1>1, <1>3, <1>4, <1>6, <1>7, <2>2, FtTypes, Ranges
          DEF FileTableTypeOK, Tables, Files
<1>12. CountsOK'
  <2> SUFFICES ASSUME NEW k \in Live'
               PROVE  IF file_table'[k].f_type = "FT_REG"
                      THEN \A v, w \in Uses(fd_table', k) : v = w
                      ELSE /\ IsFiniteSet(Uses(fd_table', k))
                           /\ Cardinality(Uses(fd_table', k)) <= file_table'[k].f_pos
    BY DEF CountsOK, Uses
  <2>1. k \in Live /\ k \in Slots \ {i}
    BY <1>7, <1>8
  <2> QED BY <1>4, <1>6, <2>1 DEF CountsOK
<1>13. SlotsOK'
  <2> SUFFICES ASSUME NEW k \in Live'
               PROVE  /\ k \in Live
                      /\ file_table'[k].f_type = file_table[k].f_type
                      /\ file_table'[k].f_inode = file_table[k].f_inode
                      /\ file_table[k].f_type = "FT_FIFO" => file_table[k].f_inode \in pages'
    BY SlotsKept
  <2>1. k \in Live /\ k \in Slots \ {i}
    BY <1>7, <1>8
  <2> QED BY <1>1, <1>4, <2>1 DEF SlotsOK, FilledOK
<1>14. RegOK'
  BY <1>4 DEF RegOK
<1>15. OpensOK'
  <2> SUFFICES ASSUME NEW g \in Inodes
               PROVE  /\ IsFiniteSet(Opening(g)')
                      /\ Cardinality(RegSlots(g)') + Cardinality(Opening(g)') <= open_cnts'[g]
    BY DEF OpensOK
  <2>1. Opening(g)' = Opening(g)
    <3>1. \A q \in Procs : file_pc'[q] = "open" <=> file_pc[q] = "open"
      BY <1>1, <1>3, FtTypes
    <3>2. \A q \in Procs : file_pc[q] = "open" => target'[q] = target[q]
      BY <1>1, FtTypes
    <3> QED BY <3>1, <3>2 DEF Opening
  <2>2. RegSlots(g)' = RegSlots(g) \ {i}
    BY <1>2, <1>4, <1>9 DEF RegSlots
  <2>3. CASE g = f
    <3>1. Cardinality(RegSlots(g)') = Cardinality(RegSlots(g)) - 1
      BY <1>5, <1>9, <2>2, <2>3, FS_RemoveElement, ZenonT(60)
    <3>2. open_cnts'[g] = open_cnts[g] - 1
      BY <1>1, <2>3, FtTypes
    <3> QED BY <1>9, <2>1, <3>1, <3>2
  <2>4. CASE g # f
    <3>1. RegSlots(g)' = RegSlots(g)
      BY <2>2, <2>4 DEF RegSlots, f
    <3>2. open_cnts'[g] = open_cnts[g]
      BY <1>1, <2>4, FtTypes
    <3> QED BY <1>9, <2>1, <3>1, <3>2
  <2> QED BY <2>3, <2>4
<1>16. PcOK'
  <2> SUFFICES ASSUME NEW q \in Procs PROVE ProcOK(q)'
    BY DEF PcOK
  <2>1. CASE q = p
    BY <1>1, <1>3, <2>1, FtTypes DEF ProcOK
  <2>2. CASE q # p
    <3>1. /\ file_pc'[q] = file_pc[q] /\ fdno'[q] = fdno[q] /\ fd_table'[q] = fd_table[q]
          /\ file_table_lock # q
      BY <1>1, <1>2, <2>2, FtTypes DEF Tables
    <3> QED BY <1>2, <1>4, <3>1, ProcKept
  <2> QED BY <2>1, <2>2
<1> QED BY <1>11, <1>12, <1>13, <1>14, <1>15, <1>16

\* alloc_pages() finds a page that no pipe has.
LEMMA PageFound ==
    ASSUME FtInv, Pages # pages
    PROVE  alloc_page \in Pages \ pages
<1>1. Pages \ pages \subseteq Nat /\ Pages \ pages # {}
  BY FtTypes, FileTableAssumption
<1> QED BY <1>1, MinFacts DEF alloc_page

\* The two descriptors of a pipe.
LEMMA TwoFds ==
    ASSUME FtInv, NEW p \in Procs, Cardinality(FreeFds(p)) >= 2
    PROVE  LET fd0 == free_fd_alloc(p)
               fd1 == Min(FreeFds(p) \ {fd0})
           IN  /\ fd0 \in Fds /\ fd1 \in Fds /\ fd0 # fd1
               /\ fd_table[p][fd0] = Free /\ fd_table[p][fd1] = Free
<1> DEFINE fd0 == free_fd_alloc(p)
           rest == FreeFds(p) \ {fd0}
<1>1. FreeFds(p) \in SUBSET Fds /\ Fds \subseteq Nat /\ IsFiniteSet(Fds)
  BY Ranges DEF FreeFds
<1>2. IsFiniteSet(FreeFds(p))
  BY <1>1, FS_Subset
<1>3. FreeFds(p) # {}
  BY FS_EmptySet
<1>4. fd0 \in FreeFds(p)
  BY <1>1, <1>3, MinFacts DEF free_fd_alloc
<1> HIDE DEF fd0
<1>5. rest # {}
  <2> SUFFICES ASSUME rest = {} PROVE FALSE
    OBVIOUS
  <2>1. FreeFds(p) = {fd0}
    BY <1>4
  <2>2. Cardinality(FreeFds(p)) = 1
    BY <2>1, FS_Singleton
  <2> QED BY <2>2
<1>6. rest \subseteq Nat
  BY <1>1
<1>7. Min(rest) \in rest
  BY <1>5, <1>6, MinFacts
<1> QED BY <1>4, <1>7 DEF FreeFds, fd0

LEMMA PipeInv ==
    ASSUME FtInv, NEW p \in Procs, sys_pipe(p)
    PROVE  FtInv'
<1> USE DEF FtInv
<1> DEFINE page == alloc_page
           j == get_free_slot
           fd0 == free_fd_alloc(p)
           fd1 == Min(FreeFds(p) \ {fd0})
           new == PipeFile(page)
           F == {fd0, fd1}
<1>1. /\ file_pc[p] = "user" /\ file_pc' = [file_pc EXCEPT ![p] = "user"]
      /\ pages' = pages \cup {page}
      /\ file_table' = [file_table EXCEPT ![j] = new]
      /\ fd_table' = [fd_table EXCEPT ![p][fd0] = j, ![p][fd1] = j]
      /\ Spoil({})
      /\ UNCHANGED <<file_table_lock, open_cnts, fdno, target, exiting, panic, dups>>
  BY DEF sys_pipe, Enter
<1>2. j \in Slots /\ file_table[j].f_inode = NULL /\ j \notin Live
  BY FreeFound DEF sys_pipe
<1>3. /\ fd0 \in Fds /\ fd1 \in Fds /\ fd0 # fd1
      /\ fd_table[p][fd0] = Free /\ fd_table[p][fd1] = Free
  <2>1. Cardinality(FreeFds(p)) >= 2
    BY DEF sys_pipe
  <2> QED BY <2>1, TwoFds
<1>4. page \in Pages \ pages
  BY PageFound DEF sys_pipe
<1> HIDE DEF j, fd0, fd1, page
<1>5. new.f_inode = page /\ new.f_type = "FT_FIFO" /\ new.f_pos = 2 /\ new \in Files
  BY <1>4 DEF PipeFile, Files
<1> HIDE DEF new
<1>6. fd_table' \in Tables /\ (\A e \in F : fd_table'[p][e] = j)
      /\ (\A e \in Fds \ F : fd_table'[p][e] = fd_table[p][e])
      /\ \A q \in Procs \ {p} : fd_table'[q] = fd_table[q]
  BY <1>1, <1>2, <1>3, FtTypes, SMTT(60) DEF Tables
<1>7. file_table'[j] = new /\ file_table' \in [Slots -> Files]
      /\ \A i \in Slots \ {j} : file_table'[i] = file_table[i]
  BY <1>1, <1>2, <1>5, FtTypes
\* The live slots do not have the page, which was free.
<1>8. \A i \in Live : file_table[i].f_inode # page
  <2> SUFFICES ASSUME NEW i \in Live PROVE file_table[i].f_inode # page
    OBVIOUS
  <2>1. i \in Slots /\ FilledOK(i)
    BY FtNow DEF SlotsOK
  <2>2. console \notin Pages /\ Inodes \cap Pages = {}
    BY FileTableAssumption
  <2>3. file_table[i].f_type \in {"FT_CHR", "FT_REG", "FT_FIFO"}
    BY <2>1, FtNow
  <2> QED BY <1>4, <2>1, <2>2, <2>3 DEF FilledOK
<1>9. CountsOK' /\ SlotsOK' /\ RegOK' /\ spoilt' \subseteq Slots
  <2>1. IsFiniteSet(F) /\ Cardinality(F) = 2 /\ F \in SUBSET Fds
    <3> DEFINE S == {fd0}
    <3>1. IsFiniteSet(S) /\ Cardinality(S) = 1
      BY FS_Singleton
    <3>2. F = S \cup {fd1} /\ fd1 \notin S /\ F \in SUBSET Fds
      BY <1>3
    <3> HIDE DEF F, S
    <3>3. IsFiniteSet(S \cup {fd1}) /\ Cardinality(S \cup {fd1}) = Cardinality(S) + 1
      BY <3>1, <3>2, FS_AddElement
    <3> QED BY <3>1, <3>2, <3>3
  <2>2. \A e \in F : fd_table[p][e] = Free /\ fd_table'[p][e] = j
    BY <1>3, <1>6
  <2>3. /\ Cardinality(F) <= new.f_pos /\ new.f_type # "FT_REG" /\ new.f_type # "FT_CHR"
        /\ new.f_inode \in pages' /\ new.f_inode \in Pages /\ pages \subseteq pages'
    BY <1>1, <1>4, <1>5, <2>1
  <2> HIDE DEF F
  <2>4. /\ j \in Slots /\ j \notin Live /\ new \in Files /\ Spoil({})
        /\ file_table' = [file_table EXCEPT ![j] = new]
        /\ fd_table' \in Tables
        /\ \A e \in Fds \ F : fd_table'[p][e] = fd_table[p][e]
        /\ \A q \in Procs \ {p} : fd_table'[q] = fd_table[q]
        /\ \A i \in Live : new.f_inode \in Pages => file_table[i].f_inode # new.f_inode
    BY <1>1, <1>2, <1>5, <1>6, <1>8
  <2> HIDE DEF FtInv
  <2> QED BY <2>1, <2>2, <2>3, <2>4, FillSlot
<1>10. FileTableTypeOK'
  BY <1>1, <1>4, <1>6, <1>7, <1>9, FtTypes DEF FileTableTypeOK, Tables, Files
<1>11. OpensOK'
  <2> SUFFICES ASSUME NEW g \in Inodes PROVE RegSlots(g)' = RegSlots(g) /\ Opening(g)' = Opening(g)
    BY <1>1, KeepOpens
  <2>1. g # NULL
    BY FtNow
  <2>2. RegSlots(g)' = RegSlots(g)
    BY <1>2, <1>5, <1>7, <2>1 DEF RegSlots
  <2> QED BY <1>1, <2>2, FtTypes DEF Opening
<1>12. PcOK'
  <2> SUFFICES ASSUME NEW q \in Procs PROVE ProcOK(q)'
    BY DEF PcOK
  <2>1. CASE q = p
    BY <1>1, <2>1, FtTypes DEF ProcOK
  <2>2. CASE q # p
    <3>1. /\ file_pc'[q] = file_pc[q] /\ fdno'[q] = fdno[q] /\ fd_table'[q] = fd_table[q]
      BY <1>1, <1>6, <2>2, FtTypes
    <3> QED BY <1>1, <1>2, <1>7, <3>1, ProcKept
  <2> QED BY <2>1, <2>2
<1> QED BY <1>9, <1>10, <1>11, <1>12

LEMMA PipeNoFdInv ==
    ASSUME FtInv, NEW p \in Procs, PipeNoFd(p)
    PROVE  FtInv'
<1> USE DEF FtInv
<1> DEFINE j == get_free_slot
           new == PipeFile(alloc_page)
<1>1. /\ file_pc[p] = "user" /\ file_pc' = [file_pc EXCEPT ![p] = "user"]
      /\ file_table' = [file_table EXCEPT ![j] = new]
      /\ UNCHANGED <<file_table_lock, fd_table, open_cnts, pages, fdno, target, exiting, panic,
                     spoilt, dups>>
  BY DEF PipeNoFd, Enter
<1>2. j \in Slots /\ file_table[j].f_inode = NULL /\ j \notin Live
  BY FreeFound DEF PipeNoFd
<1>3. alloc_page \in Pages
  BY PageFound DEF PipeNoFd
<1>4. new.f_type = "FT_FIFO" /\ new \in Files
  BY <1>3 DEF PipeFile, Files
<1> HIDE DEF j, new
<1>5. file_table'[j] = new /\ file_table' \in [Slots -> Files]
      /\ \A i \in Slots \ {j} : file_table'[i] = file_table[i]
  BY <1>1, <1>2, <1>4, FtTypes
<1>6. file_pc' = file_pc
  BY <1>1, FtTypes
<1>7. FileTableTypeOK'
  BY <1>1, <1>5, <1>6 DEF FileTableTypeOK, Files
<1>8. \A i : Uses(fd_table', i) = Uses(fd_table, i)
  BY <1>1
<1>9. Live' = Live /\ \A i \in Live : file_table'[i] = file_table[i]
  <2>1. Live' = Live
    BY <1>1 DEF Live, Uses
  <2> QED BY <1>2, <1>5, <2>1, FtNow
<1>10. CountsOK'
  <2> SUFFICES ASSUME NEW i \in Live'
               PROVE  IF file_table'[i].f_type = "FT_REG"
                      THEN \A v, w \in Uses(fd_table', i) : v = w
                      ELSE /\ IsFiniteSet(Uses(fd_table', i))
                           /\ Cardinality(Uses(fd_table', i)) <= file_table'[i].f_pos
    BY DEF CountsOK, Uses
  <2> QED BY <1>8, <1>9 DEF CountsOK
<1>11. SlotsOK'
  <2>1. \A i \in Live : file_table[i].f_type = "FT_FIFO" => file_table[i].f_inode \in pages'
    BY <1>1 DEF SlotsOK, FilledOK
  <2> QED BY <1>9, <2>1, SlotsKept
<1>12. RegOK'
  BY <1>4, <1>5 DEF RegOK
<1>13. OpensOK'
  <2> SUFFICES ASSUME NEW g \in Inodes PROVE RegSlots(g)' = RegSlots(g) /\ Opening(g)' = Opening(g)
    BY <1>1, KeepOpens
  <2>1. g # NULL
    BY FtNow
  <2> QED BY <1>1, <1>2, <1>4, <1>5, <1>6, <2>1 DEF RegSlots, Opening
<1>14. PcOK'
  <2> SUFFICES ASSUME NEW q \in Procs PROVE ProcOK(q)'
    BY DEF PcOK
  <2>1. /\ file_pc'[q] = file_pc[q] /\ fdno'[q] = fdno[q] /\ fd_table'[q] = fd_table[q]
    BY <1>1, <1>6
  <2> QED BY <1>1, <1>2, <1>5, <2>1, ProcKept
<1> QED BY <1>7, <1>10, <1>11, <1>12, <1>13, <1>14

\* dup2(): the slot that gets a descriptor without a count is spoilt.
LEMMA DupInv ==
    ASSUME FtInv, NEW p \in Procs,
           NEW oldfd \in Fds, NEW newfd \in Fds, sys_dup2(p, oldfd, newfd)
    PROVE  FtInv'
<1> USE DEF FtInv
<1> DEFINE new == fd_table[p][newfd]
           S == IF new \in {Free, fd_table[p][oldfd]} THEN {} ELSE {new}
<1>1. /\ file_pc[p] = "user" /\ file_pc' = [file_pc EXCEPT ![p] = "user"]
      /\ fd_table' = [fd_table EXCEPT ![p][oldfd] = new]
      /\ new # fd_table[p][oldfd] => dups < MaxDups
      /\ dups' = IF new = fd_table[p][oldfd] THEN dups ELSE dups + 1
      /\ Spoil(S)
      /\ UNCHANGED <<file_table, file_table_lock, open_cnts, pages, fdno, target, exiting, panic>>
  BY DEF sys_dup2, Enter
<1>2. file_pc' = file_pc
  BY <1>1, FtTypes
<1>3. new \in Slots \cup {Free} /\ S \subseteq Slots
  BY FtTypes DEF Tables
<1>4. fd_table' \in Tables /\ fd_table'[p][oldfd] = new
      /\ (\A f \in Fds \ {oldfd} : fd_table'[p][f] = fd_table[p][f])
      /\ \A q \in Procs \ {p} : fd_table'[q] = fd_table[q]
  BY <1>1, <1>3, FtTypes DEF Tables
<1>5. \A i \in Slots : i \notin S => Uses(fd_table', i) \subseteq Uses(fd_table, i)
  <2> SUFFICES ASSUME NEW i \in Slots, i \notin S
               PROVE  Uses(fd_table', i) \subseteq Uses(fd_table, i)
    OBVIOUS
  <2>1. new = i => fd_table[p][oldfd] = i
    BY Ranges
  <2>2. \A q \in Procs, f \in Fds : fd_table'[q][f] = i => fd_table[q][f] = i
    BY <1>4, <2>1
  <2> QED BY <2>2 DEF Uses
<1> HIDE DEF new, S
<1>6. spoilt' \subseteq spoilt \cup S /\ \A i \in Live' : i \in Slots /\ i \notin spoilt /\ i \notin S
  BY <1>1, SpoilFacts
<1>7. \A i \in Live' : i \in Live /\ Uses(fd_table', i) \in SUBSET Uses(fd_table, i)
  <2> SUFFICES ASSUME NEW i \in Live'
               PROVE  i \in Live /\ Uses(fd_table', i) \in SUBSET Uses(fd_table, i)
    OBVIOUS
  <2>1. Uses(fd_table', i) # {}
    BY DEF Live, Uses
  <2> QED BY <1>5, <1>6, <2>1 DEF Live
<1>8. FileTableTypeOK'
  <2>1. dups' \in 0..MaxDups
    <3>1. MaxDups \in Nat /\ dups \in 0..MaxDups
      BY FileTableAssumption DEF FileTableTypeOK
    <3> QED BY <1>1, <3>1
  <2>2. spoilt' \subseteq Slots
    BY <1>3, <1>6, FtTypes
  <2> QED BY <1>1, <1>2, <1>4, <2>1, <2>2 DEF FileTableTypeOK, Tables
<1>9. CountsOK'
  <2> SUFFICES ASSUME NEW i \in Live'
               PROVE  IF file_table[i].f_type = "FT_REG" THEN \A v, w \in Uses(fd_table', i) : v = w
                      ELSE /\ IsFiniteSet(Uses(fd_table', i))
                           /\ Cardinality(Uses(fd_table', i)) <= file_table[i].f_pos
    BY <1>1 DEF CountsOK, Uses
  <2>1. i \in Live /\ i \in Slots /\ Uses(fd_table', i) \in SUBSET Uses(fd_table, i)
    BY <1>6, <1>7
  <2>2. CASE file_table[i].f_type = "FT_REG"
    BY <2>1, <2>2 DEF CountsOK
  <2>3. CASE file_table[i].f_type # "FT_REG"
    <3>1. /\ IsFiniteSet(Uses(fd_table, i)) /\ file_table[i].f_pos \in Nat
          /\ Cardinality(Uses(fd_table, i)) <= file_table[i].f_pos
      BY <2>1, <2>3, FtNow DEF CountsOK
    <3>2. /\ IsFiniteSet(Uses(fd_table', i))
          /\ Cardinality(Uses(fd_table', i)) <= Cardinality(Uses(fd_table, i))
      BY <2>1, <3>1, FS_Subset
    <3>3. Cardinality(Uses(fd_table', i)) \in Nat /\ Cardinality(Uses(fd_table, i)) \in Nat
      BY <3>1, <3>2, FS_CardinalityType
    <3> QED BY <2>3, <3>1, <3>2, <3>3
  <2> QED BY <2>2, <2>3
<1>10. SlotsOK'
  <2>1. \A i \in Live : file_table[i].f_type = "FT_FIFO" => file_table[i].f_inode \in pages'
    BY <1>1 DEF SlotsOK, FilledOK
  <2>2. file_table' = file_table
    BY <1>1
  <2> QED BY <1>7, <2>1, <2>2, SlotsKept
<1>11. RegOK'
  BY <1>1 DEF RegOK
<1>12. OpensOK'
  <2> SUFFICES ASSUME NEW g \in Inodes PROVE RegSlots(g)' = RegSlots(g) /\ Opening(g)' = Opening(g)
    BY <1>1, KeepOpens
  <2> QED BY <1>1, <1>2 DEF RegSlots, Opening
<1>13. PcOK'
  BY <1>1, <1>2, <1>4 DEF PcOK, ProcOK
<1> QED BY <1>8, <1>9, <1>10, <1>11, <1>12, <1>13

\* clone(): the child has the descriptors of its parent, which are counted, except
\* those of regular files, whose slots are spoilt.
LEMMA CloneInv ==
    ASSUME FtInv, NEW p \in Procs, NEW c \in Procs, Clone(p, c)
    PROVE  FtInv'
<1> USE DEF FtInv
<1> DEFINE R(i) == FdsTo(fd_table, p, i)
<1>1. /\ file_pc[p] = "user" /\ file_pc[c] = "dead"
      /\ file_pc' = [file_pc EXCEPT ![c] = "user"]
      /\ fd_table' = [fd_table EXCEPT ![c] = fd_table[p]]
      /\ file_table' = [i \in Slots |-> SharedFile(file_table[i], Refs(p, i))]
      /\ open_cnts' = [i \in Inodes |-> open_cnts[i] + Cardinality(Opened(p, i))]
      /\ \A i \in Inodes : open_cnts[i] + Cardinality(Opened(p, i)) <= MaxOpens
      /\ Spoil(RegularOf(p))
      /\ UNCHANGED <<file_table_lock, pages, fdno, target, exiting, panic, dups>>
  BY DEF Clone
<1>2. p # c /\ \A fd \in Fds : fd_table[c][fd] = Free
  BY <1>1 DEF PcOK, ProcOK
<1>3. /\ fd_table' \in Tables /\ fd_table'[c] = fd_table[p]
      /\ \A q \in Procs \ {c} : fd_table'[q] = fd_table[q]
  BY <1>1, FtTypes DEF Tables
<1>4. /\ spoilt' \subseteq Slots
      /\ \A i \in Live' : i \in Slots /\ i \notin spoilt /\ i \notin RegularOf(p)
  <2>1. RegularOf(p) \subseteq Slots
    BY DEF RegularOf
  <2> QED BY <1>1, <2>1, FtTypes, SpoilFacts
<1>5. ASSUME NEW i \in Slots
      PROVE  /\ IsFiniteSet(R(i)) /\ Cardinality(R(i)) \in Nat
             /\ R(i) = {} => Uses(fd_table', i) = Uses(fd_table, i)
             /\ Uses(fd_table', i) # {} => Uses(fd_table, i) # {}
             /\ IsFiniteSet(Uses(fd_table, i)) =>
                   /\ IsFiniteSet(Uses(fd_table', i))
                   /\ Cardinality(Uses(fd_table', i))
                         <= Cardinality(Uses(fd_table, i)) + Cardinality(R(i))
  <2> DEFINE t == fd_table
             u == fd_table'
             r == R(i)
  <2>1. /\ t \in Tables /\ u \in Tables /\ u[c] = t[p] /\ \A q \in Procs \ {c} : u[q] = t[q]
        /\ (\A fd \in Fds : t[c][fd] = Free)
        /\ p # c /\ Free \notin Slots /\ IsFiniteSet(Fds)
    BY <1>2, <1>3, FtTypes, Ranges
  <2>2. r = FdsTo(t, p, i)
    OBVIOUS
  <2> HIDE DEF t, u, r
  <2>3. /\ IsFiniteSet(r) /\ Cardinality(r) \in Nat
        /\ r = {} => Uses(u, i) = Uses(t, i)
        /\ Uses(u, i) # {} => Uses(t, i) # {}
        /\ IsFiniteSet(Uses(t, i)) =>
              /\ IsFiniteSet(Uses(u, i))
              /\ Cardinality(Uses(u, i)) <= Cardinality(Uses(t, i)) + Cardinality(r)
    BY <2>1, <2>2, UsesClone
  <2> QED BY <2>3 DEF t, u, r
<1>6. ASSUME NEW i \in Slots
      PROVE  /\ file_table'[i] \in Files
             /\ file_table'[i].f_type = file_table[i].f_type
             /\ file_table'[i].f_inode = file_table[i].f_inode
             /\ file_table[i].f_type # "FT_REG" =>
                   file_table'[i].f_pos = file_table[i].f_pos + Cardinality(R(i))
  <2>1. file_table'[i] = SharedFile(file_table[i], Cardinality(R(i)))
    <3>1. Refs(p, i) = Cardinality(R(i))
      BY DEF Refs, FdsTo
    <3> QED BY <1>1, <3>1
  <2>2. Cardinality(R(i)) \in Nat
    BY <1>5
  <2> HIDE DEF R
  <2>3. file_table[i] \in Files
    BY FtTypes
  <2> QED BY <2>1, <2>2, <2>3 DEF SharedFile, Files
<1>7. ASSUME NEW i \in Live'
      PROVE  /\ i \in Live /\ i \in Slots
             /\ file_table[i].f_type = "FT_REG" => R(i) = {}
  <2>1. Uses(fd_table', i) # {}
    BY DEF Live, Uses
  <2>2. i \in Live /\ i \in Slots
    BY <1>4, <1>5, <2>1 DEF Live
  <2>3. file_table[i].f_type = "FT_REG" => R(i) = {}
    BY <1>4, <2>2 DEF RegularOf, FdsTo
  <2> QED BY <2>2, <2>3
<1> HIDE DEF R
\* An inode that the child has inherited only gains.
<1>8. \A g \in Inodes : /\ open_cnts'[g] \in 0..MaxOpens /\ open_cnts[g] \in Nat
                        /\ open_cnts[g] <= open_cnts'[g]
  <2> SUFFICES ASSUME NEW g \in Inodes
               PROVE  /\ open_cnts'[g] \in 0..MaxOpens /\ open_cnts[g] \in Nat
                      /\ open_cnts[g] <= open_cnts'[g]
    OBVIOUS
  <2>1. Opened(p, g) \in SUBSET Fds /\ IsFiniteSet(Fds)
    BY Ranges DEF Opened
  <2>2. Cardinality(Opened(p, g)) \in Nat
    BY <2>1, FS_Subset, FS_CardinalityType
  <2>3. open_cnts[g] \in Nat /\ MaxOpens \in Nat
    BY FtNow, FileTableAssumption
  <2> QED BY <1>1, <2>2, <2>3
<1>9. FileTableTypeOK'
  <2>1. file_table' \in [Slots -> Files]
    BY <1>1, <1>6
  <2>2. open_cnts' \in [Inodes -> 0..MaxOpens]
    BY <1>1, <1>8
  <2> QED BY <1>1, <1>3, <1>4, <2>1, <2>2 DEF FileTableTypeOK, Tables, Files
<1>10. CountsOK'
  <2> SUFFICES ASSUME NEW i \in Live'
               PROVE  IF file_table'[i].f_type = "FT_REG"
                      THEN \A v, w \in Uses(fd_table', i) : v = w
                      ELSE /\ IsFiniteSet(Uses(fd_table', i))
                           /\ Cardinality(Uses(fd_table', i)) <= file_table'[i].f_pos
    BY DEF CountsOK, Uses
  <2>1. i \in Live /\ i \in Slots /\ (file_table[i].f_type = "FT_REG" => R(i) = {})
    BY <1>7
  <2>2. CASE file_table[i].f_type = "FT_REG"
    <3>1. Uses(fd_table', i) = Uses(fd_table, i)
      BY <1>5, <2>1, <2>2
    <3> QED BY <1>6, <2>1, <2>2, <3>1 DEF CountsOK
  <2>3. CASE file_table[i].f_type # "FT_REG"
    <3>1. /\ IsFiniteSet(Uses(fd_table, i)) /\ file_table[i].f_pos \in Nat
          /\ Cardinality(Uses(fd_table, i)) <= file_table[i].f_pos
      BY <2>1, <2>3, FtNow DEF CountsOK
    <3>2. Cardinality(Uses(fd_table, i)) \in Nat
      BY <3>1, FS_CardinalityType
    <3>3. IsFiniteSet(Uses(fd_table', i))
      BY <1>5, <2>1, <3>1
    <3>4. Cardinality(Uses(fd_table', i)) \in Nat
      BY <3>3, FS_CardinalityType
    <3>5. Cardinality(Uses(fd_table', i)) <= file_table[i].f_pos + Cardinality(R(i))
      BY <1>5, <2>1, <3>1, <3>2, <3>4
    <3> QED BY <1>6, <2>1, <2>3, <3>3, <3>5
  <2> QED BY <2>2, <2>3
<1>11. SlotsOK'
  <2>1. \A i \in Live : file_table[i].f_type = "FT_FIFO" => file_table[i].f_inode \in pages'
    BY <1>1 DEF SlotsOK, FilledOK
  <2> QED BY <1>6, <1>7, <2>1, SlotsKept
<1>12. RegOK'
  BY <1>6 DEF RegOK
<1>13. OpensOK'
  <2> SUFFICES ASSUME NEW g \in Inodes
               PROVE  /\ IsFiniteSet(Opening(g)')
                      /\ Cardinality(RegSlots(g)') + Cardinality(Opening(g)') <= open_cnts'[g]
    BY DEF OpensOK
  <2>1. RegSlots(g)' = RegSlots(g) /\ Opening(g)' = Opening(g)
    BY <1>1, <1>6, FtTypes DEF RegSlots, Opening
  <2>2. /\ IsFiniteSet(Opening(g)) /\ Cardinality(Opening(g)) \in Nat
        /\ Cardinality(RegSlots(g)) \in Nat
        /\ Cardinality(RegSlots(g)) + Cardinality(Opening(g)) <= open_cnts[g]
        /\ open_cnts[g] \in Nat /\ open_cnts'[g] \in Nat /\ open_cnts[g] <= open_cnts'[g]
    BY <1>8, FtNow
  <2> QED BY <2>1, <2>2
<1>14. PcOK'
  <2> SUFFICES ASSUME NEW q \in Procs PROVE ProcOK(q)'
    BY DEF PcOK
  <2>1. CASE q = c
    BY <1>1, <2>1, FtTypes DEF ProcOK
  <2>2. CASE q # c
    <3>1. /\ file_pc'[q] = file_pc[q] /\ fdno'[q] = fdno[q] /\ fdno[q] \in Fds
          /\ fd_table'[q] = fd_table[q] /\ ProcOK(q)
      BY <1>1, <1>3, <2>2, FtTypes DEF PcOK
    <3>2. file_pc[q] = "iclose" => fd_table[q][fdno[q]] \in Slots
      BY <3>1, FtNow DEF ProcOK
    <3> QED BY <1>1, <1>6, <3>1, <3>2 DEF ProcOK
  <2> QED BY <2>1, <2>2
<1> QED BY <1>9, <1>10, <1>11, <1>12, <1>13, <1>14

-----------------------------------------------------------------------------
(* FileTable: the theorems *)

LEMMA FtInit ==
    ASSUME FileTableInit
    PROVE  FtInv
<1> USE DEF FileTableInit
<1>1. 0 \in Fds /\ Free \notin Slots
  BY Ranges
<1>2. FileTableTypeOK
  <2>1. fd_table \in [Procs -> [Fds -> Slots \cup {Free}]]
    OBVIOUS
  <2>2. open_cnts \in [Inodes -> 0..MaxOpens] /\ dups \in 0..MaxDups
    BY FileTableAssumption
  <2> QED BY <1>1, <2>1, <2>2 DEF FileTableTypeOK
<1>3. Live = {}
  <2> SUFFICES ASSUME NEW i \in Slots PROVE Uses(fd_table, i) = {}
    BY DEF Live
  <2>1. \A p \in Procs, fd \in Fds : fd_table[p][fd] # i
    BY <1>1
  <2> QED BY <2>1 DEF Uses
<1>4. CountsOK /\ SlotsOK
  BY <1>3 DEF CountsOK, SlotsOK
<1>5. RegOK
  BY DEF RegOK
<1>6. OpensOK
  <2> SUFFICES ASSUME NEW f \in Inodes
               PROVE  /\ IsFiniteSet(Opening(f))
                      /\ Cardinality(RegSlots(f)) + Cardinality(Opening(f)) <= open_cnts[f]
    BY DEF OpensOK
  <2>1. RegSlots(f) = {} /\ Opening(f) = {}
    BY DEF RegSlots, Opening
  <2> QED BY <2>1, FS_EmptySet
<1>7. PcOK
  BY DEF PcOK, ProcOK
<1> QED BY <1>2, <1>4, <1>5, <1>6, <1>7 DEF FtInv

LEMMA FtNext ==
    ASSUME FtInv, [FileTableNext]_file_vars
    PROVE  FtInv'
<1>1. CASE UNCHANGED file_vars \/ panic_spin
  <2>1. UNCHANGED file_vars
    BY <1>1 DEF panic_spin
  <2>2. FileTableTypeOK' /\ PcOK'
    BY <2>1 DEF FtInv, file_vars, FileTableTypeOK, PcOK, ProcOK
  <2> QED BY <2>1, <2>2, QuietInv DEF file_vars
<1>2. CASE \E p \in Procs : FileStep(p)
  <2> SUFFICES ASSUME NEW p \in Procs, FileStep(p)
               PROVE  FtInv'
    BY <1>2
  <2> QED BY FtOpenInv, OpenSlotInv, QuietSteps, CloseCountedInv, CloseDoneInv, PipeInv,
             PipeNoFdInv, DupInv, CloneInv DEF FileStep
<1> QED BY <1>1, <1>2 DEF FileTableNext

LEMMA FtSafe ==
    ASSUME FtInv
    PROVE  NoDangling /\ PipesApart
<1> USE DEF FtInv
<1>1. ASSUME NEW p \in Procs, NEW fd \in Fds,
             fd_table[p][fd] # Free, fd_table[p][fd] \notin spoilt
      PROVE  fd_table[p][fd] \in Live /\ fd_table[p][fd] \in Slots
  BY <1>1, FtNow, UsesSome DEF Live
<1>2. ASSUME NEW i \in Slots, file_table[i].f_type = "FT_REG", file_table[i].f_inode \in Inodes
      PROVE  open_cnts[file_table[i].f_inode] > 0
  <2> DEFINE f == file_table[i].f_inode
  <2>1. RegSlots(f) # {}
    BY <1>2 DEF RegSlots
  <2>2. Cardinality(RegSlots(f)) # 0 /\ Cardinality(RegSlots(f)) \in Nat
        /\ Cardinality(Opening(f)) \in Nat /\ open_cnts[f] \in Nat
        /\ Cardinality(RegSlots(f)) + Cardinality(Opening(f)) <= open_cnts[f]
    BY <1>2, <2>1, FtNow, FS_EmptySet
  <2> QED BY <2>2
<1>3. NoDangling
  <2> SUFFICES ASSUME NEW p \in Procs, NEW fd \in Fds, fd_table[p][fd] # Free,
                      fd_table[p][fd] \notin spoilt
               PROVE  LET f == file_table[fd_table[p][fd]]
                      IN  CASE f.f_type = "FT_CHR"  -> f.f_inode = console
                            [] f.f_type = "FT_FIFO" -> f.f_inode \in pages
                            [] f.f_type = "FT_REG"  ->
                                  f.f_inode \in Inodes /\
                                  (open_cnts[f.f_inode] > 0 \/ file_pc[p] = "iclose")
    BY DEF NoDangling
  <2> DEFINE i == fd_table[p][fd]
  <2>1. i \in Slots /\ i \in Live
    BY <1>1
  <2> HIDE DEF i
  <2>2. file_table[i].f_type \in {"FT_CHR", "FT_REG", "FT_FIFO"}
    BY <2>1, FtNow
  <2>3. /\ file_table[i].f_type = "FT_CHR" => file_table[i].f_inode = console
        /\ file_table[i].f_type = "FT_REG" =>
              file_table[i].f_inode \in Inodes /\ open_cnts[file_table[i].f_inode] > 0
        /\ file_table[i].f_type = "FT_FIFO" => file_table[i].f_inode \in pages
    BY <1>2, <2>1 DEF SlotsOK, FilledOK
  <2> QED BY <2>2, <2>3 DEF i
<1>4. PipesApart
  <2> SUFFICES ASSUME NEW p \in Procs, NEW q \in Procs, NEW a \in Fds, NEW b \in Fds,
                      fd_table[p][a] # Free, fd_table[q][b] # Free,
                      fd_table[p][a] \notin spoilt, fd_table[q][b] \notin spoilt,
                      fd_table[p][a] # fd_table[q][b],
                      file_table[fd_table[p][a]].f_inode \in Pages
               PROVE  file_table[fd_table[p][a]].f_inode # file_table[fd_table[q][b]].f_inode
    BY DEF PipesApart
  <2> DEFINE i == fd_table[p][a]
             j == fd_table[q][b]
  <2>1. i \in Slots /\ i \in Live /\ j \in Live /\ i # j
    BY <1>1
  <2>2. file_table[i].f_inode \in Pages
    OBVIOUS
  <2> HIDE DEF i, j
  <2>3. console \notin Pages /\ Inodes \cap Pages = {}
    BY FileTableAssumption
  <2>4. file_table[i].f_type = "FT_FIFO"
    <3>1. file_table[i].f_type \in {"FT_CHR", "FT_REG", "FT_FIFO"}
      BY <2>1, FtNow
    <3> QED BY <2>1, <2>2, <2>3, <3>1 DEF SlotsOK, FilledOK
  <2>5. file_table[j].f_inode # file_table[i].f_inode
    BY <2>1, <2>4 DEF SlotsOK
  <2> QED BY <2>5 DEF i, j
<1> QED BY <1>3, <1>4

\* Every reachable state satisfies the inductive invariant: each slot counts its
\* descriptors in f_pos, unless dup2() or clone() has spoilt the count, and each inode
\* its slots in open_cnts.
THEOREM FileTableInvariant == FileTableSpec => []FtInv
<1>1. FileTableInit => FtInv
  BY FtInit
<1>2. FtInv /\ [FileTableNext]_file_vars => FtInv'
  BY FtNext
<1> QED BY <1>1, <1>2, PTL DEF FileTableSpec

\* A descriptor dangles only where dup2(), the clone() of a regular file or a slot
\* that these spoilt has taken its slot or its page away: all other descriptors have a
\* filled slot and an allocated page or inode, whoever else closes, redirects, clones
\* or exits (sys_open(), sys_close(), sys_pipe(), sys_dup2(), sys_clone(), sys_exit()).
THEOREM FileTableNoDangling == FileTableSpec => []NoDangling
<1>1. FtInv => NoDangling
  BY FtSafe
<1>2. FileTableSpec => []FtInv
  BY FileTableInvariant
<1> QED BY <1>1, <1>2, PTL

\* Two slots with descriptors and sound counts never have the same page, although
\* sys_pipe() leaves a slot behind that points to a page it has freed (pipe.c).
THEOREM FileTablePipesApart == FileTableSpec => []PipesApart
<1>1. FtInv => PipesApart
  BY FtSafe
<1>2. FileTableSpec => []FtInv
  BY FileTableInvariant
<1> QED BY <1>1, <1>2, PTL

-----------------------------------------------------------------------------
USE InodeCacheAssumption

-----------------------------------------------------------------------------
(* InodeCache: the inductive invariant *)

\* The references to block b, when r is the value of refs.
Holding(r, b) == {w \in Tasks \X Handles : r[w[1]][w[2]] = b}

Unique == \A b, c \in open_inodes : inode[b].i_no = inode[c].i_no => b = c

\* A task that reads an inode from the disk holds the list, and nobody can have put
\* that inode into the list meanwhile.
FetchOK ==
    \A p \in Tasks :
        /\ pc[p] = "fetch" <=> open_inodes_lock = p
        /\ pc[p] = "fetch" => /\ cur[p] \in allocated /\ cur[p] \notin open_inodes
                              /\ Found(want[p]) = {}

\* The task that works on or removes an inode holds its lock; the one that has freed it
\* has the lock in the freed block.
LockOK ==
    \A p \in Tasks :
        /\ pc[p] \in {"io", "remove"} => cur[p] \in open_inodes /\ inode[cur[p]].lock = p
        /\ pc[p] = "remove" => inode[cur[p]].open_cnts = 0
        /\ pc[p] = "io" => \E h \in Handles : refs[p][h] = cur[p]
        /\ pc[p] = "release" => cur[p] \notin allocated

\* A reference leads into the list.
HeldOK == \A p \in Tasks, h \in Handles : refs[p][h] \in open_inodes \cup {NIL}

Inv == /\ TypeOK /\ Unique /\ RefsCounted
       /\ ~astray => FetchOK /\ LockOK /\ HeldOK

-----------------------------------------------------------------------------
(* InodeCache: references *)

RefTables == [Tasks -> [Handles -> Blocks \cup {NIL}]]

Put(r, p, h, b) == [r EXCEPT ![p][h] = b]

LEMMA HoldingFinite ==
    ASSUME NEW r, NEW b
    PROVE  IsFiniteSet(Holding(r, b)) /\ Cardinality(Holding(r, b)) \in Nat
<1>1. IsFiniteSet(Tasks \X Handles)
  BY FS_Product
<1>2. Holding(r, b) \in SUBSET (Tasks \X Handles)
  BY DEF Holding
<1>3. IsFiniteSet(Holding(r, b))
  BY <1>1, <1>2, FS_Subset
<1> QED BY <1>3, FS_CardinalityType

\* A task gets a reference to b.
LEMMA HoldingAdd ==
    ASSUME NEW r \in RefTables, NEW p \in Tasks, NEW h \in Handles, NEW b \in Blocks,
           r[p][h] = NIL, NEW s, s = Put(r, p, h, b)
    PROVE  /\ s \in RefTables
           /\ Cardinality(Holding(s, b)) = Cardinality(Holding(r, b)) + 1
           /\ \A c \in Blocks \ {b} : Holding(s, c) = Holding(r, c)
<1>1. s \in RefTables
  BY DEF RefTables, Put
<1>2. \A q \in Tasks, k \in Handles : s[q][k] = IF q = p /\ k = h THEN b ELSE r[q][k]
  BY DEF RefTables, Put
<1>3. b # NIL
  OBVIOUS
<1>4. <<p, h>> \notin Holding(r, b)
  BY <1>3 DEF Holding
<1>5. Holding(s, b) = Holding(r, b) \cup {<<p, h>>}
  <2>1. ASSUME NEW w \in Tasks \X Handles
        PROVE  w \in Holding(s, b) <=> w \in Holding(r, b) \/ w = <<p, h>>
    <3>1. w = <<p, h>> <=> w[1] = p /\ w[2] = h
      OBVIOUS
    <3> QED BY <1>2, <3>1 DEF Holding
  <2>2. Holding(s, b) \subseteq Tasks \X Handles /\ Holding(r, b) \subseteq Tasks \X Handles
    BY DEF Holding
  <2> QED BY <2>1, <2>2
<1>6. Cardinality(Holding(s, b)) = Cardinality(Holding(r, b)) + 1
  BY <1>4, <1>5, HoldingFinite, FS_AddElement
<1>7. ASSUME NEW c \in Blocks \ {b}
      PROVE  Holding(s, c) = Holding(r, c)
  <2>1. \A q \in Tasks, k \in Handles : s[q][k] = c <=> r[q][k] = c
    BY <1>2
  <2> QED BY <2>1 DEF Holding
<1> QED BY <1>1, <1>6, <1>7

\* A task gives a reference to b up.
LEMMA HoldingDrop ==
    ASSUME NEW r \in RefTables, NEW p \in Tasks, NEW h \in Handles, NEW b \in Blocks,
           r[p][h] = b, NEW s, s = Put(r, p, h, NIL)
    PROVE  /\ s \in RefTables
           /\ Cardinality(Holding(s, b)) = Cardinality(Holding(r, b)) - 1
           /\ \A c \in Blocks \ {b} : Holding(s, c) = Holding(r, c)
<1>1. s \in RefTables
  BY DEF RefTables, Put
<1>2. \A q \in Tasks, k \in Handles : s[q][k] = IF q = p /\ k = h THEN NIL ELSE r[q][k]
  BY DEF RefTables, Put
<1>3. <<p, h>> \in Holding(r, b)
  BY DEF Holding
<1>4. Holding(s, b) = Holding(r, b) \ {<<p, h>>}
  <2>1. ASSUME NEW w \in Tasks \X Handles
        PROVE  w \in Holding(s, b) <=> w \in Holding(r, b) /\ w # <<p, h>>
    <3>1. w = <<p, h>> <=> w[1] = p /\ w[2] = h
      OBVIOUS
    <3>2. b # NIL
      OBVIOUS
    <3> QED BY <1>2, <3>1, <3>2 DEF Holding
  <2>2. Holding(s, b) \subseteq Tasks \X Handles /\ Holding(r, b) \subseteq Tasks \X Handles
    BY DEF Holding
  <2> QED BY <2>1, <2>2
<1>5. Cardinality(Holding(s, b)) = Cardinality(Holding(r, b)) - 1
  BY <1>3, <1>4, HoldingFinite, FS_RemoveElement
<1>6. ASSUME NEW c \in Blocks \ {b}
      PROVE  Holding(s, c) = Holding(r, c)
  <2>1. \A q \in Tasks, k \in Handles : s[q][k] = c <=> r[q][k] = c
    BY <1>2
  <2> QED BY <2>1 DEF Holding
<1> QED BY <1>1, <1>5, <1>6

\* A block without references: nobody has it.
LEMMA HoldingNone ==
    ASSUME NEW r, NEW b, Cardinality(Holding(r, b)) = 0
    PROVE  \A p \in Tasks, h \in Handles : r[p][h] # b
<1>1. Holding(r, b) = {}
  BY HoldingFinite, FS_EmptySet
<1> SUFFICES ASSUME NEW p \in Tasks, NEW h \in Handles, r[p][h] = b PROVE FALSE
  OBVIOUS
<1>2. <<p, h>> \in Holding(r, b)
  BY DEF Holding
<1> QED BY <1>1, <1>2

LEMMA Counted ==
    RefsCounted <=> \A b \in open_inodes : inode[b].open_cnts = Cardinality(Holding(refs, b))
BY DEF RefsCounted, Holding

LEMMA CountedNext ==
    RefsCounted' <=> \A b \in open_inodes' : inode'[b].open_cnts = Cardinality(Holding(refs', b))
BY DEF RefsCounted, Holding

LEMMA IcTypes ==
    ASSUME TypeOK
    PROVE  /\ inode \in [Blocks -> [i_no : INos, open_cnts : Nat, lock : Tasks \cup {NIL}]]
           /\ refs \in RefTables /\ open_inodes \subseteq Blocks
           /\ cur \in [Tasks -> Blocks]
           /\ pc \in [Tasks -> {"user", "list", "inode", "fetch", "remove", "release", "io"}]
BY DEF TypeOK, RefTables

-----------------------------------------------------------------------------
(* InodeCache: the steps *)

Records == [i_no : INos, open_cnts : Nat, lock : Tasks \cup {NIL}]

\* The steps in which a task of the list's or the lock's queue goes on and neither the
\* inodes nor the references change.
LEMMA WaitingInv ==
    ASSUME Inv, NEW p \in Tasks,
           (\E i \in INos : CallOpen(p, i)) \/ OpenWait(p)
    PROVE  Inv'
<1> USE DEF Inv
<1>1. ~astray /\ FetchOK /\ LockOK /\ HeldOK /\ TypeOK
  BY DEF CallOpen, OpenWait, Goto
<1>2. /\ UNCHANGED <<inode, allocated, open_inodes, open_inodes_lock, refs, astray>>
      /\ pc[p] \in {"user", "list"} /\ pc'[p] \in {"list", "inode"}
      /\ \A q \in Tasks \ {p} : pc'[q] = pc[q] /\ want'[q] = want[q] /\ cur'[q] = cur[q]
  BY <1>1, IcTypes DEF CallOpen, OpenWait, Goto, TypeOK
<1>3. TypeOK'
  <2>1. CASE \E i \in INos : CallOpen(p, i)
    BY <1>1, <2>1 DEF CallOpen, Goto, TypeOK
  <2>2. CASE OpenWait(p)
    <3>1. PICK b \in Found(want[p]) : cur' = [cur EXCEPT ![p] = b]
      BY <2>2 DEF OpenWait
    <3>2. b \in Blocks
      BY <1>1, IcTypes DEF Found
    <3> QED BY <1>1, <2>2, <3>1, <3>2 DEF OpenWait, Goto, TypeOK
  <2> QED BY <2>1, <2>2
<1>4. Unique' /\ RefsCounted'
  BY <1>2 DEF Unique, RefsCounted
<1>5. FetchOK'
  BY <1>1, <1>2 DEF FetchOK, Found
<1>6. LockOK' /\ HeldOK'
  BY <1>1, <1>2 DEF LockOK, HeldOK
<1> QED BY <1>3, <1>4, <1>5, <1>6

\* inode_open() of an inode that is in memory: the count grows with the references.
LEMMA CountInv ==
    ASSUME Inv, NEW p \in Tasks, OpenFound(p) \/ OpenCount(p)
    PROVE  Inv'
<1> USE DEF Inv
<1>1. ~astray /\ FetchOK /\ LockOK /\ HeldOK /\ TypeOK
  BY DEF OpenFound, OpenCount, Goto
<1>2. PICK b \in Blocks :
         /\ inode[b].lock = NIL
         /\ inode' = [inode EXCEPT ![b].open_cnts = @ + 1]
         /\ Returned(p, b)
         /\ astray' \in BOOLEAN
         /\ ~astray' => b \in open_inodes
         /\ pc[p] \in {"list", "inode"} /\ pc' = [pc EXCEPT ![p] = "user"]
         /\ UNCHANGED <<allocated, open_inodes, open_inodes_lock, want, cur>>
  <2>1. CASE OpenFound(p)
    <3>1. PICK b \in Found(want[p]) :
             /\ inode[b].lock = NIL
             /\ inode' = [inode EXCEPT ![b].open_cnts = @ + 1]
             /\ Returned(p, b)
             /\ Goto(p, "list", "user")
             /\ UNCHANGED <<allocated, open_inodes, open_inodes_lock, want, cur, astray>>
      BY <2>1 DEF OpenFound
    <3>2. b \in Blocks /\ b \in open_inodes
      BY <1>1, IcTypes DEF Found
    <3>3. pc[p] = "list" /\ pc' = [pc EXCEPT ![p] = "user"] /\ astray' = astray
      BY <3>1 DEF Goto
    <3>4. astray' \in BOOLEAN
      BY <1>1, <3>3 DEF TypeOK
    <3> QED BY <3>1, <3>2, <3>3, <3>4
  <2>2. CASE OpenCount(p)
    <3>1. cur[p] \in Blocks
      BY <1>1, IcTypes
    <3> QED BY <2>2, <3>1 DEF OpenCount, Goto, Found
  <2> QED BY <2>1, <2>2
<1>3. PICK h \in Handles : refs[p][h] = NIL /\ refs' = [refs EXCEPT ![p][h] = b]
  BY <1>2 DEF Returned
<1>4. inode \in [Blocks -> Records] /\ refs \in RefTables /\ open_inodes \subseteq Blocks
      /\ pc \in [Tasks -> {"user", "list", "inode", "fetch", "remove", "release", "io"}]
      /\ cur \in [Tasks -> Blocks]
  BY <1>1, IcTypes DEF Records
<1>5. /\ refs' \in RefTables
      /\ Cardinality(Holding(refs', b)) = Cardinality(Holding(refs, b)) + 1
      /\ \A c \in Blocks \ {b} : Holding(refs', c) = Holding(refs, c)
  <2>1. refs' = Put(refs, p, h, b)
    BY <1>3 DEF Put
  <2>2. refs \in RefTables /\ b \in Blocks /\ refs[p][h] = NIL
    BY <1>3, <1>4
  <2> QED BY <2>1, <2>2, HoldingAdd
<1>6. /\ inode' \in [Blocks -> Records]
      /\ \A c \in Blocks : inode'[c].i_no = inode[c].i_no /\ inode'[c].lock = inode[c].lock
      /\ \A c \in Blocks \ {b} : inode'[c].open_cnts = inode[c].open_cnts
      /\ inode'[b].open_cnts = inode[b].open_cnts + 1
  BY <1>2, <1>4 DEF Records
<1>7. TypeOK'
  BY <1>1, <1>2, <1>4, <1>5, <1>6 DEF TypeOK, RefTables, Records
<1>8. Unique'
  BY <1>2, <1>4, <1>6 DEF Unique
<1>9. RefsCounted'
  <2> SUFFICES ASSUME NEW c \in open_inodes
               PROVE  inode'[c].open_cnts = Cardinality(Holding(refs', c))
    BY <1>2, CountedNext
  <2>1. c \in Blocks /\ inode[c].open_cnts = Cardinality(Holding(refs, c))
    BY <1>4, Counted
  <2> QED BY <1>5, <1>6, <2>1
<1>10. FetchOK'
  <2>1. \A i : Found(i)' = Found(i)
    BY <1>2, <1>4, <1>6 DEF Found
  <2> QED BY <1>1, <1>2, <1>4, <2>1 DEF FetchOK
<1>11. ASSUME ~astray' PROVE LockOK' /\ HeldOK'
  <2>1. \A q \in Tasks, k \in Handles :
           refs'[q][k] = IF q = p /\ k = h THEN b ELSE refs[q][k]
    BY <1>3, <1>4 DEF RefTables
  <2>2. HeldOK'
    BY <1>1, <1>2, <1>11, <2>1 DEF HeldOK
  <2>3. \A q \in Tasks : pc'[q] # "user" => q # p /\ pc'[q] = pc[q]
    BY <1>2, <1>4
  <2>4. ASSUME NEW q \in Tasks, pc[q] \in {"io", "remove"}
        PROVE  cur[q] \in open_inodes /\ inode'[cur[q]].lock = q /\ cur[q] # b
    <3>1. cur[q] \in open_inodes /\ cur[q] \in Blocks /\ inode[cur[q]].lock = q
      BY <1>1, <1>4, <2>4 DEF LockOK
    <3> QED BY <1>2, <1>6, <3>1
  <2>5. ASSUME NEW q \in Tasks, pc'[q] = "io"
        PROVE  \E k \in Handles : refs'[q][k] = cur[q]
    <3>1. q # p /\ pc[q] = "io"
      BY <2>3, <2>5
    <3>2. PICK k \in Handles : refs[q][k] = cur[q]
      BY <1>1, <3>1 DEF LockOK
    <3> QED BY <2>1, <3>1, <3>2
  <2>6. ASSUME NEW q \in Tasks, pc'[q] = "remove"
        PROVE  inode'[cur[q]].open_cnts = 0
    <3>1. pc[q] = "remove" /\ cur[q] \in Blocks
      BY <1>4, <2>3, <2>6
    <3>2. inode[cur[q]].open_cnts = 0 /\ cur[q] # b
      BY <1>1, <2>4, <3>1 DEF LockOK
    <3> QED BY <1>6, <3>1, <3>2
  <2>7. LockOK'
    BY <1>1, <1>2, <2>3, <2>4, <2>5, <2>6 DEF LockOK
  <2> QED BY <2>2, <2>7
<1> QED BY <1>7, <1>8, <1>9, <1>10, <1>11

LEMMA MissInv ==
    ASSUME Inv, NEW p \in Tasks, NEW b \in Blocks, OpenMiss(p, b)
    PROVE  Inv'
<1> USE DEF Inv
<1>1. ~astray /\ FetchOK /\ LockOK /\ HeldOK /\ TypeOK
  BY DEF OpenMiss, Goto
<1>2. /\ pc[p] = "list" /\ pc' = [pc EXCEPT ![p] = "fetch"]
      /\ open_inodes_lock = NIL /\ Found(want[p]) = {} /\ b \notin allocated
      /\ allocated' = allocated \cup {b} /\ open_inodes_lock' = p
      /\ cur' = [cur EXCEPT ![p] = b]
      /\ (\A q \in Tasks \ {p} : pc[q] # "release")
      /\ UNCHANGED <<inode, open_inodes, want, refs, astray>>
  BY DEF OpenMiss, Goto
<1>3. TypeOK'
  BY <1>1, <1>2 DEF TypeOK
<1>4. Unique' /\ RefsCounted'
  BY <1>2 DEF Unique, RefsCounted
<1>5. FetchOK'
  <2>1. \A q \in Tasks : pc[q] # "fetch"
    BY <1>1, <1>2 DEF FetchOK
  <2>2. b \notin open_inodes
    BY <1>1, <1>2 DEF TypeOK
  <2>3. \A i : Found(i)' = Found(i)
    BY <1>2 DEF Found
  <2> QED BY <1>1, <1>2, <2>1, <2>2, <2>3, IcTypes DEF FetchOK
<1>6. LockOK' /\ HeldOK'
  BY <1>1, <1>2, IcTypes DEF LockOK, HeldOK
<1> QED BY <1>3, <1>4, <1>5, <1>6

\* The inode that has been read is the only one with its number.
LEMMA FetchedInv ==
    ASSUME Inv, NEW p \in Tasks, OpenFetched(p)
    PROVE  Inv'
<1> USE DEF Inv
<1> DEFINE b == cur[p]
<1>1. ~astray /\ FetchOK /\ LockOK /\ HeldOK /\ TypeOK
  BY DEF OpenFetched, Goto
<1>2. /\ pc[p] = "fetch" /\ pc' = [pc EXCEPT ![p] = "user"]
      /\ inode' = [inode EXCEPT ![b] = [i_no |-> want[p], open_cnts |-> 1, lock |-> NIL]]
      /\ open_inodes' = open_inodes \cup {b} /\ open_inodes_lock' = NIL
      /\ UNCHANGED <<allocated, want, cur, astray>>
  BY DEF OpenFetched, Goto
<1>3. PICK h \in Handles : refs[p][h] = NIL /\ refs' = [refs EXCEPT ![p][h] = b]
  BY DEF OpenFetched, Returned
<1>4. inode \in [Blocks -> Records] /\ refs \in RefTables /\ open_inodes \subseteq Blocks
      /\ pc \in [Tasks -> {"user", "list", "inode", "fetch", "remove", "release", "io"}]
      /\ cur \in [Tasks -> Blocks] /\ want \in [Tasks -> INos]
  BY <1>1, IcTypes DEF Records, TypeOK
<1>5. b \in Blocks /\ b \in allocated /\ b \notin open_inodes /\ open_inodes_lock = p
      /\ \A c \in open_inodes : inode[c].i_no # want[p]
  BY <1>1, <1>2, <1>4 DEF FetchOK, Found
<1> HIDE DEF b
<1>6. /\ refs' \in RefTables
      /\ Cardinality(Holding(refs', b)) = Cardinality(Holding(refs, b)) + 1
      /\ \A c \in Blocks \ {b} : Holding(refs', c) = Holding(refs, c)
  <2>1. refs' = Put(refs, p, h, b)
    BY <1>3 DEF Put
  <2>2. refs \in RefTables /\ b \in Blocks /\ refs[p][h] = NIL
    BY <1>3, <1>4, <1>5
  <2> QED BY <2>1, <2>2, HoldingAdd
<1>7. /\ inode' \in [Blocks -> Records]
      /\ \A c \in Blocks \ {b} : inode'[c] = inode[c]
      /\ inode'[b].i_no = want[p] /\ inode'[b].open_cnts = 1 /\ inode'[b].lock = NIL
  BY <1>2, <1>4, <1>5 DEF Records
<1>8. TypeOK'
  BY <1>1, <1>2, <1>4, <1>5, <1>6, <1>7 DEF TypeOK, RefTables, Records
<1>9. Unique'
  <2> SUFFICES ASSUME NEW c \in open_inodes', NEW d \in open_inodes',
                      inode'[c].i_no = inode'[d].i_no
               PROVE  c = d
    BY DEF Unique
  <2> QED BY <1>2, <1>4, <1>5, <1>7 DEF Unique
<1>10. Cardinality(Holding(refs, b)) = 0
  <2>1. Holding(refs, b) = {}
    <3>1. \A q \in Tasks, k \in Handles : refs[q][k] # b
      BY <1>1, <1>5 DEF HeldOK
    <3> QED BY <3>1 DEF Holding
  <2> QED BY <2>1, FS_EmptySet
<1>11. RefsCounted'
  <2> SUFFICES ASSUME NEW c \in open_inodes'
               PROVE  inode'[c].open_cnts = Cardinality(Holding(refs', c))
    BY CountedNext
  <2>1. CASE c = b
    BY <1>6, <1>7, <1>10, <2>1
  <2>2. CASE c # b
    <3>1. c \in open_inodes /\ c \in Blocks /\ inode[c].open_cnts = Cardinality(Holding(refs, c))
      BY <1>2, <1>4, <2>2, Counted
    <3> QED BY <1>6, <1>7, <2>2, <3>1
  <2> QED BY <2>1, <2>2
<1>12. FetchOK'
  <2>1. \A q \in Tasks : pc'[q] # "fetch"
    BY <1>1, <1>2, <1>4, <1>5 DEF FetchOK
  <2> QED BY <1>2, <2>1 DEF FetchOK
<1>13. LockOK' /\ HeldOK'
  <2>1. \A q \in Tasks, k \in Handles :
           refs'[q][k] = IF q = p /\ k = h THEN b ELSE refs[q][k]
    BY <1>3, <1>4 DEF RefTables
  <2>2. HeldOK'
    BY <1>1, <1>2, <2>1 DEF HeldOK
  <2>3. \A q \in Tasks : pc'[q] # "user" => q # p /\ pc'[q] = pc[q]
    BY <1>2, <1>4
  <2>4. \A q \in Tasks : pc[q] \in {"io", "remove"} =>
           cur[q] \in open_inodes /\ cur[q] \in Blocks /\ cur[q] # b
    BY <1>1, <1>4, <1>5 DEF LockOK
  <2>5. LockOK'
    BY <1>1, <1>2, <1>7, <2>1, <2>3, <2>4 DEF LockOK
  <2> QED BY <2>2, <2>5
<1> QED BY <1>8, <1>9, <1>11, <1>12, <1>13

\* inode_close() up to the point where it has the list: what the three cases share.
LEMMA ForgetFacts ==
    ASSUME Inv, ~astray, NEW p \in Tasks, NEW h \in Handles, Forget(p, h)
    PROVE  /\ refs[p][h] \in open_inodes /\ refs[p][h] \in Blocks
           /\ refs' \in RefTables
           /\ Cardinality(Holding(refs', refs[p][h])) = inode[refs[p][h]].open_cnts - 1
           /\ \A c \in Blocks \ {refs[p][h]} : Holding(refs', c) = Holding(refs, c)
           /\ \A q \in Tasks, k \in Handles :
                 refs'[q][k] = IF q = p /\ k = h THEN NIL ELSE refs[q][k]
<1> DEFINE b == refs[p][h]
           s == refs'
<1>1. b # NIL /\ s = [refs EXCEPT ![p][h] = NIL]
  BY DEF Forget
<1>2. refs \in RefTables /\ open_inodes \subseteq Blocks
  BY IcTypes DEF Inv
<1>3. b \in open_inodes /\ b \in Blocks
  BY <1>1, <1>2 DEF Inv, HeldOK
<1>4. inode[b].open_cnts = Cardinality(Holding(refs, b))
  BY <1>3, Counted DEF Inv
<1>5. b = refs[p][h]
  OBVIOUS
<1> HIDE DEF b, s
<1>6. /\ s \in RefTables
      /\ Cardinality(Holding(s, b)) = Cardinality(Holding(refs, b)) - 1
      /\ \A c \in Blocks \ {b} : Holding(s, c) = Holding(refs, c)
  <2>1. s = Put(refs, p, h, NIL)
    BY <1>1 DEF Put
  <2>2. refs \in RefTables /\ b \in Blocks /\ refs[p][h] = b
    BY <1>2, <1>3, <1>5
  <2> QED BY <2>1, <2>2, HoldingDrop
<1>7. \A q \in Tasks, k \in Handles :
         s[q][k] = IF q = p /\ k = h THEN NIL ELSE refs[q][k]
  BY <1>1, <1>2 DEF RefTables
<1> QED BY <1>3, <1>4, <1>6, <1>7 DEF b, s

LEMMA CloseInv ==
    ASSUME Inv, NEW p \in Tasks, NEW h \in Handles,
           CloseShared(p, h) \/ CloseLast(p, h) \/ CloseWait(p, h)
    PROVE  Inv'
<1> USE DEF Inv
<1> DEFINE b == refs[p][h]
<1>1. ~astray /\ FetchOK /\ LockOK /\ HeldOK /\ TypeOK /\ Forget(p, h)
  BY DEF CloseShared, CloseLast, CloseWait, Goto
<1>2. /\ b \in open_inodes /\ b \in Blocks /\ refs' \in RefTables
      /\ Cardinality(Holding(refs', b)) = inode[b].open_cnts - 1
      /\ \A c \in Blocks \ {b} : Holding(refs', c) = Holding(refs, c)
      /\ \A q \in Tasks, k \in Handles :
            refs'[q][k] = IF q = p /\ k = h THEN NIL ELSE refs[q][k]
  BY <1>1, ForgetFacts
<1>3. /\ inode[b].lock = NIL /\ pc[p] = "user"
      /\ (\A q \in Tasks \ {p} : pc[q] # "release")
      /\ UNCHANGED <<open_inodes_lock, want, astray>>
  BY DEF CloseShared, CloseLast, CloseWait, Goto
\* The inode stays in the list, or leaves it with its memory and its last reference.
<1>4. \/ /\ inode' = [inode EXCEPT ![b].open_cnts = @ - 1]
         /\ pc' = [pc EXCEPT ![p] = "user"]
         /\ UNCHANGED <<allocated, open_inodes, cur>>
      \/ /\ inode[b].open_cnts = 1
         /\ inode' = [inode EXCEPT ![b].open_cnts = 0, ![b].lock = p]
         /\ cur' = [cur EXCEPT ![p] = b] /\ pc' = [pc EXCEPT ![p] = "remove"]
         /\ UNCHANGED <<allocated, open_inodes>>
      \/ /\ inode[b].open_cnts = 1
         /\ inode' = [inode EXCEPT ![b].open_cnts = 0, ![b].lock = p]
         /\ cur' = [cur EXCEPT ![p] = b] /\ pc' = [pc EXCEPT ![p] = "release"]
         /\ open_inodes' = open_inodes \ {b} /\ allocated' = allocated \ {b}
  BY DEF CloseShared, CloseLast, CloseWait, Goto
<1>5. inode \in [Blocks -> Records] /\ refs \in RefTables /\ open_inodes \subseteq Blocks
      /\ pc \in [Tasks -> {"user", "list", "inode", "fetch", "remove", "release", "io"}]
      /\ cur \in [Tasks -> Blocks] /\ inode[b].open_cnts \in Nat
  BY <1>1, <1>2, IcTypes DEF Records
<1>6. inode[b].open_cnts >= 1
  <2>1. Cardinality(Holding(refs', b)) \in Nat
    BY HoldingFinite
  <2> QED BY <1>2, <1>5, <2>1
<1> HIDE DEF b
<1>7. /\ inode' \in [Blocks -> Records]
      /\ \A c \in Blocks : inode'[c].i_no = inode[c].i_no
      /\ \A c \in Blocks \ {b} : inode'[c] = inode[c]
      /\ inode'[b].open_cnts = inode[b].open_cnts - 1
      /\ pc'[p] # "user" => inode'[b].open_cnts = 0 /\ inode'[b].lock = p
  BY <1>2, <1>4, <1>5, <1>6 DEF Records
<1>8. /\ pc'[p] \in {"user", "remove", "release"} /\ (pc'[p] # "user" => cur'[p] = b)
      /\ \A q \in Tasks \ {p} : pc'[q] = pc[q] /\ cur'[q] = cur[q]
      /\ pc' \in [Tasks -> {"user", "list", "inode", "fetch", "remove", "release", "io"}]
      /\ cur' \in [Tasks -> Blocks]
  BY <1>2, <1>4, <1>5
<1>9. /\ open_inodes' \in {open_inodes, open_inodes \ {b}}
      /\ pc'[p] # "release" => open_inodes' = open_inodes /\ allocated' = allocated
      /\ pc'[p] = "release" => open_inodes' = open_inodes \ {b} /\ allocated' = allocated \ {b}
  BY <1>4, <1>5
<1>10. TypeOK'
  BY <1>1, <1>2, <1>3, <1>7, <1>8, <1>9 DEF TypeOK, RefTables, Records
<1>11. Unique'
  BY <1>5, <1>7, <1>9 DEF Unique
<1>12. RefsCounted'
  <2> SUFFICES ASSUME NEW c \in open_inodes'
               PROVE  inode'[c].open_cnts = Cardinality(Holding(refs', c))
    BY CountedNext
  <2>1. c \in open_inodes /\ c \in Blocks
    BY <1>5, <1>9
  <2>2. inode[c].open_cnts = Cardinality(Holding(refs, c))
    BY <2>1, Counted
  <2> QED BY <1>2, <1>7, <2>1, <2>2
<1>13. FetchOK'
  <2>1. \A i : Found(i)' \subseteq Found(i)
    BY <1>5, <1>7, <1>9 DEF Found
  <2>2. \A q \in Tasks : pc[q] = "fetch" => cur[q] # b
    BY <1>1, <1>2 DEF FetchOK
  <2> QED BY <1>1, <1>3, <1>8, <1>9, <2>1, <2>2 DEF FetchOK
<1>14. HeldOK'
  <2>1. CASE pc'[p] # "release"
    BY <1>1, <1>2, <1>9, <2>1 DEF HeldOK
  <2>2. CASE pc'[p] = "release"
    <3>1. Cardinality(Holding(refs', b)) = 0
      BY <1>2, <1>7, <2>2
    <3>2. \A q \in Tasks, k \in Handles : refs'[q][k] # b
      BY <3>1, HoldingNone
    <3> QED BY <1>1, <1>2, <1>9, <2>2, <3>2 DEF HeldOK
  <2> QED BY <2>1, <2>2
<1>15. LockOK'
  <2>1. ASSUME NEW q \in Tasks \ {p}, pc[q] \in {"io", "remove"}
        PROVE  cur[q] \in open_inodes' /\ inode'[cur[q]] = inode[cur[q]] /\ inode[cur[q]].lock = q
    <3>1. cur[q] \in open_inodes /\ cur[q] \in Blocks /\ inode[cur[q]].lock = q /\ cur[q] # b
      BY <1>1, <1>3, <1>5, <2>1 DEF LockOK, b
    <3> QED BY <1>7, <1>9, <3>1
  <2>2. ASSUME NEW q \in Tasks \ {p}, pc[q] = "io"
        PROVE  \E k \in Handles : refs'[q][k] = cur[q]
    BY <1>1, <1>2, <2>2 DEF LockOK
  <2>3. pc'[p] = "release" => b \notin allocated'
    BY <1>9
  <2>4. pc'[p] = "remove" => b \in open_inodes'
    BY <1>2, <1>9
  <2> QED BY <1>1, <1>3, <1>7, <1>8, <2>1, <2>2, <2>3, <2>4 DEF LockOK
<1> QED BY <1>10, <1>11, <1>12, <1>13, <1>14, <1>15

\* The inode leaves the list and its memory, with no reference left.
LEMMA RemoveInv ==
    ASSUME Inv, NEW p \in Tasks, CloseRemove(p)
    PROVE  Inv'
<1> USE DEF Inv
<1> DEFINE b == cur[p]
<1>1. ~astray /\ FetchOK /\ LockOK /\ HeldOK /\ TypeOK
  BY DEF CloseRemove, Goto
<1>2. /\ pc[p] = "remove" /\ pc' = [pc EXCEPT ![p] = "release"]
      /\ open_inodes_lock = NIL
      /\ open_inodes' = open_inodes \ {b} /\ allocated' = allocated \ {b}
      /\ (\A q \in Tasks \ {p} : pc[q] # "release")
      /\ UNCHANGED <<inode, open_inodes_lock, want, cur, refs, astray>>
  BY DEF CloseRemove, Goto
<1>3. pc \in [Tasks -> {"user", "list", "inode", "fetch", "remove", "release", "io"}]
  BY <1>1, IcTypes
<1>4. b \in open_inodes /\ inode[b].lock = p /\ inode[b].open_cnts = 0
  BY <1>1, <1>2 DEF LockOK
<1> HIDE DEF b
<1>5. TypeOK'
  BY <1>1, <1>2 DEF TypeOK
<1>6. Unique' /\ RefsCounted'
  BY <1>2 DEF Unique, RefsCounted
<1>7. FetchOK'
  <2>1. \A i : Found(i)' \subseteq Found(i)
    BY <1>2 DEF Found
  <2>2. \A q \in Tasks : pc[q] # "fetch" /\ pc'[q] # "fetch"
    BY <1>1, <1>2, <1>3 DEF FetchOK
  <2> QED BY <1>1, <1>2, <2>1, <2>2 DEF FetchOK
<1>8. HeldOK'
  <2>1. Cardinality(Holding(refs, b)) = 0
    BY <1>4, Counted
  <2>2. \A q \in Tasks, k \in Handles : refs[q][k] # b
    BY <2>1, HoldingNone
  <2> QED BY <1>1, <1>2, <2>2 DEF HeldOK
<1>9. LockOK'
  <2>1. \A q \in Tasks \ {p} : pc'[q] = pc[q]
    BY <1>2, <1>3
  <2>2. \A q \in Tasks \ {p} : pc[q] \in {"io", "remove"} => cur[q] # b
    BY <1>1, <1>4 DEF LockOK
  <2>3. pc'[p] = "release" /\ cur[p] = b
    BY <1>2, <1>3 DEF b
  <2> QED BY <1>1, <1>2, <2>1, <2>2, <2>3 DEF LockOK
<1> QED BY <1>5, <1>6, <1>7, <1>8, <1>9

\* The lock of an inode is released, in the list or in a freed block, or taken for I/O.
LEMMA UnlockInv ==
    ASSUME Inv, NEW p \in Tasks,
           CloseRelease(p) \/ IoDone(p) \/ \E h \in Handles : CallIo(p, h)
    PROVE  Inv'
<1> USE DEF Inv
<1>1. ~astray /\ FetchOK /\ LockOK /\ HeldOK /\ TypeOK
  BY DEF CloseRelease, IoDone, CallIo, Goto
<1>2. inode \in [Blocks -> Records] /\ refs \in RefTables /\ open_inodes \subseteq Blocks
      /\ pc \in [Tasks -> {"user", "list", "inode", "fetch", "remove", "release", "io"}]
      /\ cur \in [Tasks -> Blocks]
  BY <1>1, IcTypes DEF Records
<1>3. UNCHANGED <<allocated, open_inodes, open_inodes_lock, want, refs, astray>>
  BY DEF CloseRelease, IoDone, CallIo
<1>4. PICK b \in Blocks, l \in Tasks \cup {NIL} :
         /\ inode' = [inode EXCEPT ![b].lock = l]
         /\ pc[p] # "fetch" /\ pc'[p] \in {"user", "io"}
         /\ pc' \in [Tasks -> {"user", "list", "inode", "fetch", "remove", "release", "io"}]
         /\ cur' \in [Tasks -> Blocks]
         /\ \A q \in Tasks \ {p} : pc'[q] = pc[q] /\ cur'[q] = cur[q]
         /\ pc'[p] = "io" => /\ b \in open_inodes /\ cur'[p] = b /\ l = p
                             /\ \E h \in Handles : refs[p][h] = b
         /\ b \in open_inodes => inode[b].lock \in {NIL, p}
  <2>1. CASE CloseRelease(p)
    <3>1. cur[p] \in Blocks /\ cur[p] \notin open_inodes
      BY <1>1, <1>2, <2>1 DEF CloseRelease, Goto, LockOK, TypeOK
    <3> QED BY <1>2, <2>1, <3>1 DEF CloseRelease, Goto
  <2>2. CASE IoDone(p)
    <3>1. cur[p] \in Blocks /\ inode[cur[p]].lock = p
      BY <1>1, <1>2, <2>2 DEF IoDone, Goto, LockOK
    <3> QED BY <1>2, <2>2, <3>1 DEF IoDone, Goto
  <2>3. CASE \E h \in Handles : CallIo(p, h)
    <3>1. PICK h \in Handles : CallIo(p, h)
      BY <2>3
    <3>2. refs[p][h] \in open_inodes /\ refs[p][h] \in Blocks
      BY <1>1, <1>2, <3>1 DEF CallIo, HeldOK
    <3> QED BY <1>2, <3>1, <3>2 DEF CallIo, Goto
  <2> QED BY <2>1, <2>2, <2>3
<1>5. /\ inode' \in [Blocks -> Records]
      /\ \A c \in Blocks : inode'[c].i_no = inode[c].i_no
                           /\ inode'[c].open_cnts = inode[c].open_cnts
      /\ \A c \in Blocks \ {b} : inode'[c].lock = inode[c].lock
      /\ inode'[b].lock = l
  BY <1>2, <1>4 DEF Records
<1>6. TypeOK'
  BY <1>1, <1>3, <1>4, <1>5 DEF TypeOK, Records
<1>7. Unique' /\ RefsCounted'
  BY <1>2, <1>3, <1>5 DEF Unique, RefsCounted
<1>8. FetchOK'
  <2>1. \A i : Found(i)' = Found(i)
    BY <1>2, <1>3, <1>5 DEF Found
  <2> QED BY <1>1, <1>3, <1>4, <2>1 DEF FetchOK
<1>9. LockOK'
  <2>1. ASSUME NEW q \in Tasks \ {p}, pc[q] \in {"io", "remove"}
        PROVE  cur[q] \in open_inodes /\ inode'[cur[q]].lock = q
               /\ inode'[cur[q]].open_cnts = inode[cur[q]].open_cnts
    <3>1. cur[q] \in open_inodes /\ cur[q] \in Blocks /\ inode[cur[q]].lock = q
      BY <1>1, <1>2, <2>1 DEF LockOK
    <3>2. cur[q] # b
      BY <1>4, <3>1
    <3> QED BY <1>5, <3>1, <3>2
  <2> QED BY <1>1, <1>3, <1>4, <1>5, <2>1 DEF LockOK
<1>10. HeldOK'
  BY <1>1, <1>3 DEF HeldOK
<1> QED BY <1>6, <1>7, <1>8, <1>9, <1>10

-----------------------------------------------------------------------------
(* InodeCache: the theorems *)

LEMMA IcInit ==
    ASSUME Init
    PROVE  Inv
<1> USE DEF Init
<1>1. (CHOOSE i \in INos : TRUE) \in INos /\ (CHOOSE b \in Blocks : TRUE) \in Blocks
  OBVIOUS
<1>2. TypeOK
  BY <1>1 DEF TypeOK
<1> QED BY <1>2 DEF Inv, Unique, RefsCounted, FetchOK, LockOK, HeldOK

LEMMA IcNext ==
    ASSUME Inv, [Next]_vars
    PROVE  Inv'
<1>1. CASE UNCHANGED vars \/ Undefined
  <2>1. UNCHANGED <<inode, allocated, open_inodes, open_inodes_lock, pc, want, cur, refs, astray>>
    BY <1>1 DEF Undefined, vars
  <2>2. TypeOK'
    BY <2>1 DEF Inv, TypeOK
  <2>3. Unique' /\ RefsCounted'
    BY <2>1 DEF Inv, Unique, RefsCounted
  <2>4. ASSUME ~astray' PROVE FetchOK' /\ LockOK' /\ HeldOK'
    <3>1. FetchOK /\ LockOK /\ HeldOK
      BY <2>1, <2>4 DEF Inv
    <3> QED BY <2>1, <3>1 DEF FetchOK, Found, LockOK, HeldOK
  <2> QED BY <2>2, <2>3, <2>4 DEF Inv
<1>2. CASE \E p \in Tasks : Step(p)
  <2> SUFFICES ASSUME NEW p \in Tasks, Step(p) PROVE Inv'
    BY <1>2
  <2> QED BY WaitingInv, CountInv, MissInv, FetchedInv, CloseInv, RemoveInv, UnlockInv DEF Step
<1> QED BY <1>1, <1>2 DEF Next

\* Every reachable state satisfies the inductive invariant.
THEOREM InodeCacheInvariant == Spec => []Inv
<1>1. Init => Inv
  BY IcInit
<1>2. Inv /\ [Next]_vars => Inv'
  BY IcNext
<1> QED BY <1>1, <1>2, PTL DEF Spec

\* A file never has two struct inodes in the list, although inode_open() searches the
\* list, waits for the disk and inserts the inode afterwards.
THEOREM InodeCacheOneInodePerFile == Spec => []OneInodePerFile
<1>1. Inv => OneInodePerFile
  BY DEF Inv, Unique, OneInodePerFile
<1> QED BY <1>1, InodeCacheInvariant, PTL

\* open_cnts is exactly the number of references to the inode, also while inode_open()
\* and inode_close() wait.
THEOREM InodeCacheRefsCounted == Spec => []RefsCounted
<1>1. Inv => RefsCounted
  BY DEF Inv
<1> QED BY <1>1, InodeCacheInvariant, PTL

\* However many tasks share a file: up to the first inode_open() that goes astray, an
\* inode that somebody has open, uses or is closing is in the list, and the block that
\* inode_close() releases after kfree() is nobody else's.
THEOREM InodeCacheNoUseAfterFree == Spec => []NoUseAfterFree
<1>1. Inv => NoUseAfterFree
  <2> SUFFICES ASSUME Inv, ~astray, NEW p \in Tasks
               PROVE  /\ \A h \in Handles : refs[p][h] \in open_inodes \cup {NIL}
                      /\ pc[p] \in {"io", "remove"} => cur[p] \in open_inodes
                      /\ pc[p] = "release" =>
                            /\ cur[p] \notin allocated
                            /\ \A q \in Tasks \ {p} : cur[q] = cur[p] =>
                                  pc[q] \notin {"fetch", "io", "remove"}
    BY DEF NoUseAfterFree
  <2>1. FetchOK /\ LockOK /\ HeldOK /\ open_inodes \subseteq allocated
    BY DEF Inv, TypeOK
  <2> QED BY <2>1 DEF FetchOK, LockOK, HeldOK
<1> QED BY <1>1, InodeCacheInvariant, PTL
=============================================================================
