---------------------------- MODULE FileCallsProofs ----------------------------
(***************************************************************************)
(* For every number of processes, inodes, files and names, for every set   *)
(* of calls and however many of them: the safety properties of FileCalls.  *)
(***************************************************************************)
EXTENDS FileCalls, TLAPS, FiniteSetTheorems, SequenceTheorems, WellFoundedInduction

Words == Name \cup {".", ".."}
Kinds == {"free", "dir", "file", "device"}
Makers == {"mkdir", "mknod", "openCreate"}

\* Where a process is at an inode, and where it has none.
AtInode == {"walk", "target", "link", "unlink", "remove", "create", "exists", "lock",
            "opening", "chdir"}
Resting == {"user", "args", "free", "exit", "pipe"}

-------------------------------------------------------------------------------
(***************************************************************************)
(* The inductive invariant                                                 *)
(***************************************************************************)
InodeTypes ==
  /\ type \in [Inode -> Kinds]
  /\ nlink \in [Inode -> Int]
  /\ ref \in [Inode -> Int]
  /\ entry \in [Inode -> [Names -> Inode \cup {None}]]

WalkTypes ==
  /\ pc \in [Proc -> AtInode \cup Resting \cup {"undo"}]
  /\ at \in [Proc -> Inode \cup {None}]
  /\ src \in [Proc -> Inode \cup {None}]
  /\ path \in [Proc -> Seq(Words)]
  /\ call \in [Proc -> PathCall \cup {NoCall}]

FileTypes ==
  /\ file \in [File -> [refs : Nat, ip : Inode \cup {None}]]
  /\ ofile \in [Proc -> [Fd -> File \cup {None}]]
  /\ cwd \in [Proc -> Inode \cup {None}]
  /\ ends \in [Proc -> SUBSET File]
  /\ args \in [Proc -> 0 .. MAXARG]
  /\ freePages \in Int

\* The references of a file: its descriptors, and a pipe that is being made.
Slots(f) == {x \in Proc \X Fd : ofile[x[1]][x[2]] = f}
Makings(f) == {p \in Proc : f \in ends[p]}

FilesHeld ==
  \A f \in File : /\ file[f].refs = Cardinality(Slots(f)) + Cardinality(Makings(f))
                  /\ file[f].refs = 0 => file[f] = NoFile

Pipes ==
  \A p \in Proc :
    /\ pc[p] = "pipe" => \E r, w \in File : r < w /\ ends[p] = {r, w}
    /\ pc[p] # "pipe" => ends[p] = {}
    /\ \A f \in ends[p] : file[f].ip = None

\* An entry of the process table that is not in use has no file open.
Unstarted ==
  \A p \in Proc : cwd[p] = None => pc[p] = "user" /\ \A fd \in Fd : ofile[p][fd] = None

ArgPages == {x \in Proc \X (1 .. MAXARG) : x[2] <= args[x[1]]}

PagesHeld ==
  /\ freePages + Cardinality(ArgPages) = PAGES
  /\ \A p \in Proc : pc[p] \notin {"args", "free"} => args[p] = 0

FilePart == FileTypes /\ FilesHeld /\ Pipes /\ Unstarted /\ PagesHeld

\* Who refers to inode i.
Cwds(i) == {p \in Proc : cwd[p] = i}
Ats(i) == {p \in Proc : at[p] = i}
Srcs(i) == {p \in Proc : src[p] = i}
Opens(i) == {f \in File : file[f].refs > 0 /\ file[f].ip = i}

Holders(i) ==
  Cardinality(Cwds(i)) + Cardinality(Ats(i)) + Cardinality(Srcs(i)) + Cardinality(Opens(i))

References ==
  \A i \in Inode :
    /\ ref[i] = Holders(i)
    /\ type[i] = "free" <=> ref[i] = 0 /\ nlink[i] = 0

\* What a place in a call says of the call and of its walk.
Place(p) ==
  /\ pc[p] \in AtInode <=> at[p] # None
  /\ pc[p] \in Resting => src[p] = None
  /\ call[p] # NoCall <=> pc[p] \notin Resting
  /\ pc[p] \in {"target", "link", "undo"} => call[p].op = "link"
  /\ pc[p] = "target" => src[p] = None
  /\ pc[p] \in {"link", "undo", "remove"} => src[p] # None
  /\ src[p] # None => \/ pc[p] \in {"walk", "link", "undo"} /\ call[p].op = "link"
                      \/ pc[p] = "remove"
  /\ pc[p] = "create" => call[p].op \in Makers
  /\ pc[p] \in {"link", "unlink", "remove", "create"} => path[p] # <<>>
  /\ pc[p] = "walk" /\ ByParent(p) => path[p] # <<>>
  /\ call[p].op = "link" => call[p].to \in Paths

Places == \A p \in Proc : Place(p)

\* What it says of the inodes: the new name of link() is not for a directory,
\* and while unlink() keeps its directory locked the name stays in it.
Found(p) ==
  /\ pc[p] \in {"link", "unlink", "remove", "create"} => type[at[p]] = "dir"
  /\ pc[p] # "remove" /\ src[p] # None => type[src[p]] # "dir"
  /\ pc[p] = "remove" => Last(p) \in Name /\ entry[at[p]][Last(p)] = src[p]

Finds == \A p \in Proc : Found(p)

Holding == {"remove", "opening"}

OneLocker ==
  \A p, q \in Proc : pc[p] \in Holding /\ pc[q] \in Holding /\ at[p] = at[q] => p = q

\* What is not a directory has no names; a directory has its "..", and only
\* the root, which stays, is without a name.
Directories ==
  /\ \A d \in Inode : IF type[d] = "dir" THEN entry[d][".."] # None ELSE entry[d] = NoNames
  /\ Live(Root) /\ entry[Root][".."] = Root
  /\ \A d \in Inode, n \in Name :
       /\ entry[d][n] # Root
       /\ entry[d][n] # None => Live(d)
  /\ \A d \in Inode : Live(d) /\ d # Root =>
       Live(entry[d][".."]) /\ \E n \in Name : entry[entry[d][".."]][n] = d

OneName ==
  \A d, b, c \in Inode, m, n \in Name :
    type[d] = "dir" /\ entry[b][m] = d /\ entry[c][n] = d => b = c /\ m = n

\* Following names one comes to an end.
Acyclic ==
  \A S \in SUBSET Inode :
    (\A d \in S : \E n \in Name : entry[d][n] \in S) => S = {}

\* The links of an inode: the names that stand for it, and those that link()
\* has counted in advance.
NamesOf(i) == {x \in Inode \X Names : Live(x[1]) /\ entry[x[1]][x[2]] = i}
Advance(i) == {p \in Proc : src[p] = i /\ pc[p] # "remove"}

Links ==
  \A i \in Inode : /\ nlink[i] = Cardinality(NamesOf(i)) + Cardinality(Advance(i))
                   /\ nlink[i] <= NLINK_MAX

TreePart == Directories /\ OneName /\ Acyclic /\ Links

FileInv ==
  /\ InodeTypes /\ WalkTypes /\ FilePart
  /\ References
  /\ Places /\ Finds /\ OneLocker
  /\ TreePart

-------------------------------------------------------------------------------
(***************************************************************************)
(* Counting                                                                *)
(***************************************************************************)
Bit(b) == IF b THEN 1 ELSE 0

\* Two sets that agree but for x.
LEMMA Toggle ==
  ASSUME NEW A, NEW B, NEW x, IsFiniteSet(A), A \ {x} = B \ {x}
  PROVE  /\ IsFiniteSet(B) /\ Cardinality(A) \in Nat /\ Cardinality(B) \in Nat
         /\ Cardinality(B) = Cardinality(A) + Bit(x \in B) - Bit(x \in A)
<1> DEFINE C == A \ {x}
<1>1. IsFiniteSet(C) /\ Cardinality(C) \in Nat
  BY FS_RemoveElement, FS_CardinalityType
<1>2. A = IF x \in A THEN C \cup {x} ELSE C
  OBVIOUS
<1>3. B = IF x \in B THEN C \cup {x} ELSE C
  OBVIOUS
<1>4. IsFiniteSet(C \cup {x}) /\ Cardinality(C \cup {x}) = Cardinality(C) + 1
  BY <1>1, FS_AddElement
<1> HIDE DEF C
<1> QED
  BY <1>1, <1>2, <1>3, <1>4 DEF Bit

\* But for x and for y.
LEMMA ToggleTwo ==
  ASSUME NEW A, NEW B, NEW x, NEW y, x # y, IsFiniteSet(A), A \ {x, y} = B \ {x, y}
  PROVE  /\ IsFiniteSet(B) /\ Cardinality(A) \in Nat /\ Cardinality(B) \in Nat
         /\ Cardinality(B) = Cardinality(A) + Bit(x \in B) - Bit(x \in A)
                              + Bit(y \in B) - Bit(y \in A)
<1> DEFINE C == {z \in A : z # x} \cup {z \in {x} : x \in B}
<1>1. A \ {x} = C \ {x} /\ C \ {y} = B \ {y}
  OBVIOUS
<1>2. (x \in C <=> x \in B) /\ (y \in C <=> y \in A)
  OBVIOUS
<1> HIDE DEF C
<1>3. /\ IsFiniteSet(C) /\ Cardinality(A) \in Nat /\ Cardinality(C) \in Nat
      /\ Cardinality(C) = Cardinality(A) + Bit(x \in C) - Bit(x \in A)
  BY <1>1, Toggle
<1>4. /\ IsFiniteSet(B) /\ Cardinality(B) \in Nat
      /\ Cardinality(B) = Cardinality(C) + Bit(y \in B) - Bit(y \in C)
  BY <1>1, <1>3, Toggle
<1> QED
  BY <1>2, <1>3, <1>4 DEF Bit

\* Min(), by its definition, is the least element of a set of numbers.
LEMMA LeastIn ==
  ASSUME NEW S \in SUBSET Nat, S # {}
  PROVE  Min(S) \in S /\ \A y \in S : Min(S) <= y
<1>1. PICK x \in S : \A y \in S : <<y, x>> \notin OpToRel(<, Nat)
  BY NatLessThanWellFounded, WFMin
<1>2. \A y \in S : ~(y < x)
  BY <1>1 DEF OpToRel
<1>3. \A y \in S : x <= y
  BY <1>2
<1> QED
  BY <1>3 DEF Min

\* The descriptors and the pages of arguments are finitely many.
LEMMA Interval ==
  ASSUME NEW n \in Nat
  PROVE  IsFiniteSet(1 .. n) /\ Cardinality(1 .. n) = n
<1>1. 1 \in Int /\ n \in Int
  OBVIOUS
<1>2. IsFiniteSet(1 .. n) /\ Cardinality(1 .. n) = IF 1 > n THEN 0 ELSE n - 1 + 1
  BY ONLY <1>1, FS_Interval
<1> QED
  BY <1>2

\* The pairs of a set and one element.
LEMMA RowOf ==
  ASSUME NEW A, IsFiniteSet(A), NEW x
  PROVE  IsFiniteSet({x} \X A) /\ Cardinality({x} \X A) = Cardinality(A)
<1>1. IsFiniteSet({x}) /\ Cardinality({x}) = 1 /\ Cardinality(A) \in Nat
  BY FS_Singleton, FS_CardinalityType
<1>2. /\ IsFiniteSet({x} \X A)
      /\ Cardinality({x} \X A) = Cardinality({x}) * Cardinality(A)
  BY <1>1, FS_Product
<1> QED
  BY <1>1, <1>2

\* Two sets without a common element.
LEMMA Disjoint ==
  ASSUME NEW A, NEW B, IsFiniteSet(A), IsFiniteSet(B), A \cap B = {}
  PROVE  /\ IsFiniteSet(A \cup B)
         /\ Cardinality(A \cup B) = Cardinality(A) + Cardinality(B)
         /\ Cardinality(A) \in Nat /\ Cardinality(B) \in Nat
<1>1. /\ IsFiniteSet(A \cup B)
      /\ Cardinality(A \cup B) = Cardinality(A) + Cardinality(B) - Cardinality(A \cap B)
  BY FS_Union
<1>2. Cardinality(A \cap B) = 0
  BY FS_EmptySet
<1>3. Cardinality(A) \in Nat /\ Cardinality(B) \in Nat
  BY FS_CardinalityType
<1> QED
  BY <1>1, <1>2, <1>3

\* The null pointer is no inode and no file, and the root is an inode.
LEMMA Basics ==
  /\ Name \subseteq Names /\ ".." \in Names /\ ".." \notin Name /\ "." \notin Name
  /\ Root \in Inode /\ None \notin Inode /\ None \notin File /\ Root # None
<1>1. 1 \in 1 .. 3
  OBVIOUS
<1>2. Root \in Inode
  BY <1>1, FilesAssumption DEF Root
<1>3. None \notin Inode /\ None \notin File
  BY FilesAssumption
<1>4. Name \cap {".", ".."} = {}
  BY FilesAssumption
<1> QED
  BY <1>2, <1>3, <1>4 DEF Names, Root, None

\* The sets that the invariant counts are finite.
LEMMA Finite ==
  /\ IsFiniteSet(Proc) /\ IsFiniteSet(File) /\ IsFiniteSet(Proc \X Fd)
  /\ IsFiniteSet(Proc \X (1 .. MAXARG)) /\ IsFiniteSet(Inode \X Names)
<1>1. IsFiniteSet(Fd) /\ IsFiniteSet(1 .. MAXARG)
  BY Interval, FilesAssumption DEF Fd
<1>2. IsFiniteSet(Names)
  BY FS_AddElement, FilesAssumption DEF Names
<1> QED
  BY <1>1, <1>2, FS_Product, FilesAssumption

-------------------------------------------------------------------------------
(***************************************************************************)
(* What a step of p leaves to the others                                   *)
(***************************************************************************)
Alone(p) ==
  \A q \in Proc : q # p =>
    /\ pc'[q] = pc[q] /\ call'[q] = call[q] /\ path'[q] = path[q]
    /\ at'[q] = at[q] /\ src'[q] = src[q] /\ cwd'[q] = cwd[q]

\* The references of an inode change with what p holds and with the open files.
Balanced(p) ==
  \A i \in Inode :
    ref'[i] = ref[i] + Bit(at'[p] = i) - Bit(at[p] = i) + Bit(src'[p] = i) - Bit(src[p] = i)
              + Bit(cwd'[p] = i) - Bit(cwd[p] = i)
              + Cardinality(Opens(i)') - Cardinality(Opens(i))

\* References are counted, and change, with their holders.
LEMMA HoldersMove ==
  ASSUME NEW p \in Proc, Alone(p), Balanced(p), \A i \in Inode : ref[i] = Holders(i)
  PROVE  \A i \in Inode : ref'[i] = Holders(i)'
<1> SUFFICES ASSUME NEW i \in Inode PROVE ref'[i] = Holders(i)'
  OBVIOUS
<1>1. /\ Cardinality(Cwds(i)) \in Nat
      /\ Cardinality(Cwds(i)') = Cardinality(Cwds(i)) + Bit(cwd'[p] = i) - Bit(cwd[p] = i)
  <2>1. IsFiniteSet(Cwds(i)) /\ Cwds(i) \ {p} = Cwds(i)' \ {p}
    BY Finite, FS_Subset DEF Alone, Cwds
  <2>2. (p \in Cwds(i) <=> cwd[p] = i) /\ (p \in Cwds(i)' <=> cwd'[p] = i)
    BY DEF Cwds
  <2> QED
    BY <2>1, <2>2, Toggle DEF Bit
<1>2. /\ Cardinality(Ats(i)) \in Nat
      /\ Cardinality(Ats(i)') = Cardinality(Ats(i)) + Bit(at'[p] = i) - Bit(at[p] = i)
  <2>1. IsFiniteSet(Ats(i)) /\ Ats(i) \ {p} = Ats(i)' \ {p}
    BY Finite, FS_Subset DEF Alone, Ats
  <2>2. (p \in Ats(i) <=> at[p] = i) /\ (p \in Ats(i)' <=> at'[p] = i)
    BY DEF Ats
  <2> QED
    BY <2>1, <2>2, Toggle DEF Bit
<1>3. /\ Cardinality(Srcs(i)) \in Nat
      /\ Cardinality(Srcs(i)') = Cardinality(Srcs(i)) + Bit(src'[p] = i) - Bit(src[p] = i)
  <2>1. IsFiniteSet(Srcs(i)) /\ Srcs(i) \ {p} = Srcs(i)' \ {p}
    BY Finite, FS_Subset DEF Alone, Srcs
  <2>2. (p \in Srcs(i) <=> src[p] = i) /\ (p \in Srcs(i)' <=> src'[p] = i)
    BY DEF Srcs
  <2> QED
    BY <2>1, <2>2, Toggle DEF Bit
<1>4. Cardinality(Opens(i)) \in Nat /\ Cardinality(Opens(i)') \in Nat
  BY Finite, FS_Subset, FS_CardinalityType DEF Opens
<1>5. Holders(i)' = Cardinality(Cwds(i)') + Cardinality(Ats(i)') + Cardinality(Srcs(i)')
                    + Cardinality(Opens(i)')
  BY DEF Holders
<1> QED
  BY <1>1, <1>2, <1>3, <1>4, <1>5 DEF Holders, Balanced, Bit

\* A number of holders, and one for each that has the inode.
Counted ==
  \A i \in Inode :
    /\ Holders(i) \in Nat
    /\ \A p \in Proc : at[p] = i \/ src[p] = i \/ cwd[p] = i => Holders(i) > 0

\* Counted holds of every state, whatever the invariant says.
LEMMA HolderCounts == Counted
<1> SUFFICES ASSUME NEW i \in Inode
             PROVE  /\ Holders(i) \in Nat
                    /\ \A p \in Proc : at[p] = i \/ src[p] = i \/ cwd[p] = i => Holders(i) > 0
  BY DEF Counted
<1>1. /\ IsFiniteSet(Cwds(i)) /\ IsFiniteSet(Ats(i))
      /\ IsFiniteSet(Srcs(i)) /\ IsFiniteSet(Opens(i))
  BY Finite, FS_Subset DEF Cwds, Ats, Srcs, Opens
<1>2. /\ Cardinality(Cwds(i)) \in Nat /\ (Cwds(i) # {} => Cardinality(Cwds(i)) # 0)
      /\ Cardinality(Ats(i)) \in Nat /\ (Ats(i) # {} => Cardinality(Ats(i)) # 0)
      /\ Cardinality(Srcs(i)) \in Nat /\ (Srcs(i) # {} => Cardinality(Srcs(i)) # 0)
      /\ Cardinality(Opens(i)) \in Nat
  BY <1>1, FS_CardinalityType, FS_EmptySet
<1>3. ASSUME NEW p \in Proc, at[p] = i \/ src[p] = i \/ cwd[p] = i
      PROVE  Cwds(i) # {} \/ Ats(i) # {} \/ Srcs(i) # {}
  BY <1>3 DEF Cwds, Ats, Srcs
<1> QED
  BY <1>2, <1>3 DEF Holders

\* So it does of the next one.
LEMMA HolderCountsNext == Counted'
BY HolderCounts, PTL

\* A step that takes references to inodes in use and gives some back.
Referral ==
  \E taken, given \in SUBSET Inode :
    Refer(taken, given) /\ \A i \in taken : type[i] # "free"

\* What it may do beyond: free an inode that has no links.
Kept ==
  /\ nlink' = nlink
  /\ \A i \in Inode :
       \/ type'[i] = type[i] /\ entry'[i] = entry[i]
       \/ nlink[i] = 0 /\ ref'[i] = 0 /\ type'[i] = "free" /\ entry'[i] = NoNames

\* Such a step keeps the types and, when the references are again those of the
\* holders, the rule that what has neither references nor links is free.
LEMMA ReferStep ==
  ASSUME InodeTypes, References, Referral, \A i \in Inode : ref'[i] = Holders(i)'
  PROVE  InodeTypes' /\ References' /\ Kept
<1>1. PICK taken \in SUBSET Inode, given \in SUBSET Inode :
        Refer(taken, given) /\ \A i \in taken : type[i] # "free"
  BY DEF Referral
<1> DEFINE Gone(i) == i \in given /\ ref'[i] = 0 /\ nlink[i] = 0
<1>2. /\ nlink' = nlink
      /\ ref' = [i \in Inode |-> ref[i] + (IF i \in taken THEN 1 ELSE 0)
                                        - (IF i \in given THEN 1 ELSE 0)]
      /\ type' = [i \in Inode |-> IF Gone(i) THEN "free" ELSE type[i]]
      /\ entry' = [i \in Inode |-> IF Gone(i) THEN NoNames ELSE entry[i]]
  BY <1>1 DEF Refer, Inodes, InodeTypes
<1>3. ref \in [Inode -> Int] /\ nlink \in [Inode -> Int] /\ type \in [Inode -> Kinds]
      /\ entry \in [Inode -> [Names -> Inode \cup {None}]]
  BY DEF InodeTypes
<1>4. NoNames \in [Names -> Inode \cup {None}] /\ "free" \in Kinds
  BY DEF NoNames, Kinds
<1>5. InodeTypes'
  BY <1>2, <1>3, <1>4 DEF InodeTypes
<1>6. Kept
  BY <1>2 DEF Kept
<1>7. ASSUME NEW i \in Inode
      PROVE  type'[i] = "free" <=> ref'[i] = 0 /\ nlink'[i] = 0
  <2>1. ref'[i] \in Nat /\ ref[i] \in Nat
    BY HolderCounts, HolderCountsNext DEF Counted, References
  <2>2. /\ ref'[i] = ref[i] + Bit(i \in taken) - Bit(i \in given)
        /\ type'[i] = IF Gone(i) THEN "free" ELSE type[i]
        /\ nlink'[i] = nlink[i]
    BY <1>2 DEF Bit
  <2>3. type[i] = "free" <=> ref[i] = 0 /\ nlink[i] = 0
    BY DEF References
  <2>4. i \in taken => type[i] # "free"
    BY <1>1
  <2> QED
    BY <1>3, <2>1, <2>2, <2>3, <2>4 DEF Bit
<1> QED
  BY <1>5, <1>6, <1>7 DEF References

-------------------------------------------------------------------------------
(***************************************************************************)
(* The tree                                                                *)
(***************************************************************************)

\* The names do not change, but for those of inodes that are freed.
SameShape ==
  \A i \in Inode :
    /\ Live(i)' <=> Live(i)
    /\ \/ type'[i] = type[i] /\ entry'[i] = entry[i]
       \/ ~Live(i) /\ type'[i] = "free" /\ entry'[i] = NoNames

\* Then the tree and the names of every inode stay what they are.
LEMMA ShapeKept ==
  ASSUME InodeTypes, SameShape, Directories, OneName, Acyclic
  PROVE  /\ Directories' /\ OneName' /\ Acyclic'
         /\ \A i \in Inode : NamesOf(i)' = NamesOf(i)
<1>1. Name \subseteq Names /\ ".." \in Names /\ Root \in Inode /\ None \notin Inode
  BY Basics
<1>2. \A i \in Inode, n \in Name : entry'[i][n] = entry[i][n]
  BY <1>1 DEF SameShape, Directories, NoNames
<1>3. \A i \in Inode : Live(i) => entry'[i] = entry[i] /\ type'[i] = type[i]
  BY DEF SameShape
<1>4. \A i \in Inode : type'[i] = "dir" => type[i] = "dir" /\ entry'[i] = entry[i]
  BY DEF SameShape
<1>5. \A i \in Inode : Live(i)' <=> Live(i)
  BY DEF SameShape
<1>6. \A i \in Inode : entry[i][".."] \in Inode \cup {None}
  BY <1>1 DEF InodeTypes
<1>7. Directories'
  <2>1. \A d \in Inode : IF type'[d] = "dir" THEN entry'[d][".."] # None ELSE entry'[d] = NoNames
    BY DEF SameShape, Directories
  <2>2. Live(Root)' /\ entry'[Root][".."] = Root
    BY <1>1, <1>3, <1>5 DEF Directories
  <2>3. \A d \in Inode, n \in Name : entry'[d][n] # Root /\ (entry'[d][n] # None => Live(d)')
    BY <1>2, <1>5 DEF Directories
  <2>4. ASSUME NEW d \in Inode, Live(d)', d # Root
        PROVE  Live(entry[d][".."])' /\ \E n \in Name : entry'[entry'[d][".."]][n] = d
    <3>1. Live(d) /\ entry'[d][".."] = entry[d][".."]
      BY <1>3, <1>5, <2>4
    <3>2. PICK n \in Name : entry[entry[d][".."]][n] = d
      BY <2>4, <3>1 DEF Directories
    <3>3. Live(entry[d][".."]) /\ entry[d][".."] # None
      BY <2>4, <3>1 DEF Directories, Live
    <3>4. entry[d][".."] \in Inode
      BY <1>6, <3>3
    <3> QED
      BY <1>2, <1>5, <3>1, <3>2, <3>3, <3>4 DEF Live
  <2> QED
    BY <2>1, <2>2, <2>3, <2>4 DEF Directories
<1>8. OneName'
  BY <1>2, <1>4 DEF OneName
<1>9. Acyclic'
  BY <1>2 DEF Acyclic
<1>10. ASSUME NEW i \in Inode
       PROVE  NamesOf(i)' = NamesOf(i)
  BY <1>3, <1>5 DEF NamesOf
<1> QED
  BY <1>7, <1>8, <1>9, <1>10

\* The inode whose new link p has counted in advance.
Advancing(p) == IF src[p] # None /\ pc[p] # "remove" THEN src[p] ELSE None

\* Nor do the links counted in advance, when no process changes its own.
LEMMA AdvanceKept ==
  ASSUME \A q \in Proc : Advancing(q)' = Advancing(q)
  PROVE  \A i \in Inode : Advance(i)' = Advance(i)
<1>1. \A i \in Inode : i # None
  BY Basics
<1>2. \A i \in Inode : Advance(i) = {q \in Proc : Advancing(q) = i}
  BY <1>1 DEF Advance, Advancing
<1>3. \A i \in Inode : Advance(i)' = {q \in Proc : Advancing(q)' = i}
  BY <1>1 DEF Advance, Advancing
<1> QED
  BY <1>2, <1>3

-------------------------------------------------------------------------------
(***************************************************************************)
(* One step of one call                                                    *)
(***************************************************************************)

\* p locks no inode that another has locked.
Unlocked(p) ==
  pc'[p] \in Holding => \A q \in Proc : q # p /\ pc[q] \in Holding => at[q] # at'[p]

\* The inodes of the other calls stay what they are.
Steady(p) ==
  \A q \in Proc : q # p =>
    /\ at[q] # None => type'[at[q]] = type[at[q]]
    /\ src[q] # None => type'[src[q]] = type[src[q]]
    /\ pc[q] = "remove" => entry'[at[q]][Last(q)] = entry[at[q]][Last(q)]

\* What has to be shown of p alone to have the invariant of all of them.
LEMMA CallStep ==
  ASSUME FileInv, NEW p \in Proc, Alone(p), Unlocked(p), Steady(p),
         InodeTypes', WalkTypes', FilePart', References', TreePart', Place(p)', Found(p)'
  PROVE  FileInv'
<1>1. Places'
  <2>1. \A q \in Proc : Place(q)
    BY DEF FileInv, Places
  <2>2. ASSUME NEW q \in Proc, q # p
        PROVE  Place(q)'
    BY <2>1, <2>2 DEF Alone, Place, ByParent
  <2> QED
    BY <2>2 DEF Places
<1>2. Finds'
  <2>1. ASSUME NEW q \in Proc, q # p
        PROVE  Found(q)'
    <3>1. Found(q) /\ Place(q)
      BY DEF FileInv, Finds, Places
    <3>2. pc[q] \in {"link", "unlink", "remove", "create"} => at[q] # None
      BY <3>1 DEF Place, AtInode
    <3>3. /\ pc'[q] = pc[q] /\ at'[q] = at[q] /\ src'[q] = src[q] /\ Last(q)' = Last(q)
          /\ at[q] # None => type'[at[q]] = type[at[q]]
          /\ src[q] # None => type'[src[q]] = type[src[q]]
          /\ pc[q] = "remove" => entry'[at[q]][Last(q)] = entry[at[q]][Last(q)]
      BY <2>1 DEF Alone, Steady, Last
    <3> QED
      BY <3>1, <3>2, <3>3 DEF Found
  <2> QED
    BY <2>1 DEF Finds
<1>3. OneLocker'
  <2>1. \A q, r \in Proc : pc[q] \in Holding /\ pc[r] \in Holding /\ at[q] = at[r] => q = r
    BY DEF FileInv, OneLocker
  <2> QED
    BY <2>1 DEF OneLocker, Alone, Unlocked
<1> QED
  BY <1>1, <1>2, <1>3 DEF FileInv

\* What a quiet step of p, which changes no name, brings p to.
Founded(p) ==
  /\ pc'[p] \in {"link", "unlink", "remove", "create"} => type[at'[p]] = "dir"
  /\ pc'[p] # "remove" /\ src'[p] # None => type[src'[p]] # "dir"
  /\ pc'[p] = "remove" =>
       Head(path'[p]) \in Name /\ entry[at'[p]][Head(path'[p])] = src'[p]

\* The same for a step that changes no name: iget(), iput() and the place of p.
LEMMA QuietStep ==
  ASSUME FileInv, NEW p \in Proc, Alone(p), Unlocked(p), Referral, Balanced(p), Founded(p),
         Advancing(p)' = Advancing(p), WalkTypes', FilePart', Place(p)'
  PROVE  FileInv'
<1>1. \A i \in Inode : ref'[i] = Holders(i)'
  BY HoldersMove DEF FileInv, References
<1>2. InodeTypes' /\ References' /\ Kept
  BY <1>1, ReferStep DEF FileInv
<1>3. \A i \in Inode : Live(i) => nlink[i] # 0
  BY DEF Live, FileInv, InodeTypes
<1>4. SameShape
  BY <1>2, <1>3 DEF SameShape, Kept, Live
<1>5. /\ Directories' /\ OneName' /\ Acyclic'
      /\ \A i \in Inode : NamesOf(i)' = NamesOf(i)
  BY <1>4, ShapeKept DEF FileInv, TreePart
<1>6. \A q \in Proc : Advancing(q)' = Advancing(q)
  BY DEF Alone, Advancing
<1>7. Links'
  BY <1>2, <1>5, <1>6, AdvanceKept DEF Links, Kept, FileInv, TreePart
<1>8. \A i \in Inode, q \in Proc : at'[q] = i \/ src'[q] = i =>
        type'[i] = type[i] /\ entry'[i] = entry[i]
  <2>1. \A i \in Inode, q \in Proc : at'[q] = i \/ src'[q] = i => ref'[i] > 0
    BY <1>1, HolderCountsNext DEF Counted
  <2> QED
    BY <1>2, <2>1 DEF Kept
<1>9. /\ \A q \in Proc : at[q] \in Inode \cup {None} /\ src[q] \in Inode \cup {None}
      /\ \A q \in Proc : at'[q] \in Inode \cup {None} /\ src'[q] \in Inode \cup {None}
  BY DEF FileInv, WalkTypes
<1>10. Steady(p)
  <2>1. \A q \in Proc : pc[q] = "remove" => at[q] # None
    BY DEF FileInv, Places, Place, AtInode
  <2> QED
    BY <1>8, <1>9, <2>1 DEF Steady, Alone
<1>11. Found(p)'
  <2>1. pc'[p] \in {"link", "unlink", "remove", "create"} => at'[p] # None
    BY DEF Place, AtInode
  <2> QED
    BY <1>8, <1>9, <2>1 DEF Found, Founded, Last
<1> QED
  BY <1>2, <1>5, <1>7, <1>10, <1>11, CallStep DEF TreePart

-------------------------------------------------------------------------------
(***************************************************************************)
(* Calls with paths: what their steps share                                *)
(***************************************************************************)
fileVars == <<file, ofile, cwd, ends, pageVars>>

\* They leave the files alone.
LEMMA FilesQuiet ==
  ASSUME FilePart, NEW p \in Proc, UNCHANGED fileVars, cwd[p] # None, Alone(p),
         pc[p] \notin {"pipe", "args", "free"}, pc'[p] \notin {"pipe", "args", "free"}
  PROVE  FilePart'
<1>1. file' = file /\ ofile' = ofile /\ cwd' = cwd /\ ends' = ends /\ args' = args
      /\ freePages' = freePages
  BY DEF fileVars, pageVars
<1>2. \A q \in Proc : q # p => pc'[q] = pc[q]
  BY DEF Alone
<1>3. FileTypes'
  BY <1>1 DEF FilePart, FileTypes
<1>4. FilesHeld'
  BY <1>1 DEF FilePart, FilesHeld, Slots, Makings
<1>5. Pipes'
  BY <1>1, <1>2 DEF FilePart, Pipes
<1>6. Unstarted'
  BY <1>1, <1>2 DEF FilePart, Unstarted
<1>7. PagesHeld'
  BY <1>1, <1>2 DEF FilePart, PagesHeld, ArgPages
<1> QED
  BY <1>3, <1>4, <1>5, <1>6, <1>7 DEF FilePart

\* The end of a call.
LEMMA Returned ==
  ASSUME WalkTypes, NEW p \in Proc, Return(p), \A q \in Proc : q # p => cwd'[q] = cwd[q]
  PROVE  /\ Alone(p) /\ Unlocked(p) /\ Founded(p) /\ WalkTypes' /\ Place(p)' /\ Found(p)'
         /\ pc'[p] = "user" /\ at'[p] = None /\ src'[p] = None /\ Advancing(p)' = None
<1>1. /\ pc \in [Proc -> AtInode \cup Resting \cup {"undo"}]
      /\ at \in [Proc -> Inode \cup {None}] /\ src \in [Proc -> Inode \cup {None}]
      /\ path \in [Proc -> Seq(Words)] /\ call \in [Proc -> PathCall \cup {NoCall}]
  BY DEF WalkTypes
<1>2. /\ pc' = [pc EXCEPT ![p] = "user"] /\ call' = [call EXCEPT ![p] = NoCall]
      /\ at' = [at EXCEPT ![p] = None] /\ path' = [path EXCEPT ![p] = <<>>]
      /\ src' = [src EXCEPT ![p] = None]
  BY DEF Return, Goto
<1>3. /\ pc'[p] = "user" /\ call'[p] = NoCall /\ at'[p] = None /\ src'[p] = None
      /\ path'[p] = <<>>
  BY <1>1, <1>2
<1>4. Alone(p)
  BY <1>1, <1>2 DEF Alone
<1>5. "user" \in Resting /\ <<>> \in Seq(Words)
  BY DEF Resting
<1>6. WalkTypes'
  BY <1>1, <1>2, <1>5 DEF WalkTypes
<1>7. NoCall.op = "none"
  BY DEF NoCall
<1>8. Place(p)'
  BY <1>3, <1>7 DEF Place, AtInode, Resting
<1> QED
  BY <1>3, <1>4, <1>6, <1>8 DEF Unlocked, Founded, Found, Advancing, Holding

\* The call goes on at the next of its places.
LEMMA Continued ==
  ASSUME WalkTypes, NEW p \in Proc, NEW l \in AtInode \cup {"undo"},
         NEW i \in Inode \cup {None}, Continue(p, l, i), UNCHANGED cwd
  PROVE  /\ Alone(p) /\ WalkTypes'
         /\ pc'[p] = l /\ at'[p] = i /\ src'[p] = src[p] /\ path'[p] = path[p]
         /\ call'[p] = call[p] /\ ByParent(p)' = ByParent(p)
<1>1. /\ pc \in [Proc -> AtInode \cup Resting \cup {"undo"}]
      /\ at \in [Proc -> Inode \cup {None}] /\ src \in [Proc -> Inode \cup {None}]
      /\ path \in [Proc -> Seq(Words)] /\ call \in [Proc -> PathCall \cup {NoCall}]
  BY DEF WalkTypes
<1>2. /\ pc' = [pc EXCEPT ![p] = l] /\ call' = call /\ at' = [at EXCEPT ![p] = i]
      /\ path' = path /\ src' = src
  BY DEF Continue, Goto
<1>3. Alone(p)
  BY <1>1, <1>2 DEF Alone
<1>4. WalkTypes'
  BY <1>1, <1>2 DEF WalkTypes
<1> QED
  BY <1>1, <1>2, <1>3, <1>4 DEF ByParent

\* Where a call is, and that what it refers to is in use.
LEMMA Placed ==
  ASSUME FileInv, NEW p \in Proc
  PROVE  /\ Place(p) /\ Found(p)
         /\ at[p] \in Inode \cup {None} /\ src[p] \in Inode \cup {None}
         /\ pc[p] \in AtInode => at[p] \in Inode
         /\ pc[p] # "user" => cwd[p] # None
         /\ cwd[p] # None => cwd[p] \in Inode
         /\ \A i \in Inode : at[p] = i \/ src[p] = i \/ cwd[p] = i =>
              ref[i] > 0 /\ type[i] # "free"
<1>1. Place(p) /\ Found(p)
  BY DEF FileInv, Places, Finds
<1>2. at[p] \in Inode \cup {None} /\ src[p] \in Inode \cup {None} /\ cwd[p] \in Inode \cup {None}
  BY DEF FileInv, WalkTypes, FilePart, FileTypes
<1>3. pc[p] \in AtInode => at[p] \in Inode
  BY <1>1, <1>2 DEF Place
<1>4. pc[p] # "user" => cwd[p] # None
  BY DEF FileInv, FilePart, Unstarted
<1>5. ASSUME NEW i \in Inode, at[p] = i \/ src[p] = i \/ cwd[p] = i
      PROVE  ref[i] > 0 /\ type[i] # "free"
  <2>1. ref[i] > 0
    BY <1>5, HolderCounts DEF Counted, FileInv, References
  <2> QED
    BY <2>1 DEF FileInv, References
<1> QED
  BY <1>1, <1>2, <1>3, <1>4, <1>5

\* References of the inode table, under Refer.
LEMMA Referred ==
  ASSUME FileInv, NEW taken \in SUBSET Inode, NEW given \in SUBSET Inode,
         Refer(taken, given), \A i \in taken : type[i] # "free"
  PROVE  /\ Referral
         /\ \A i \in Inode : ref'[i] = ref[i] + Bit(i \in taken) - Bit(i \in given)
<1>1. ref' = [i \in Inode |-> ref[i] + (IF i \in taken THEN 1 ELSE 0)
                                     - (IF i \in given THEN 1 ELSE 0)]
  BY DEF Refer, Inodes
<1> QED
  BY <1>1 DEF Referral, Bit

\* Without a change of the files, the open ones stay as they are.
LEMMA OpensKept ==
  ASSUME UNCHANGED file
  PROVE  \A i : Cardinality(Opens(i)') - Cardinality(Opens(i)) = 0
<1> SUFFICES ASSUME NEW i PROVE Cardinality(Opens(i)') - Cardinality(Opens(i)) = 0
  OBVIOUS
<1>1. Opens(i)' = Opens(i)
  BY DEF Opens
<1>2. Cardinality(Opens(i)) \in Nat
  BY Finite, FS_Subset, FS_CardinalityType DEF Opens
<1> QED
  BY <1>1, <1>2

\* iunlockput() and -1, at whatever place of a call.
LEMMA FailStep ==
  ASSUME FileInv, NEW p \in Proc, Fail(p), UNCHANGED fileVars, pc[p] \in AtInode, src[p] = None
  PROVE  FileInv'
<1>1. /\ at[p] \in Inode /\ cwd[p] # None /\ cwd[p] \in Inode
      /\ pc[p] \notin {"user", "pipe", "args", "free"}
  BY Placed DEF AtInode
<1>2. cwd' = cwd /\ file' = file
  BY DEF fileVars
<1>3. /\ Alone(p) /\ Unlocked(p) /\ Founded(p) /\ WalkTypes' /\ Place(p)'
      /\ pc'[p] = "user" /\ at'[p] = None /\ src'[p] = None /\ Advancing(p)' = None
  BY <1>2, Returned DEF Fail, FileInv
<1>4. FilePart'
  BY <1>1, <1>3, FilesQuiet DEF FileInv
<1>5. PICK given \in SUBSET Inode : given = {at[p]} /\ Refer({}, given)
  BY <1>1 DEF Fail
<1>6. Referral /\ \A i \in Inode : ref'[i] = ref[i] + Bit(i \in {}) - Bit(i \in given)
  BY <1>5, Referred
<1>7. \A i \in Inode : ref[i] \in Int
  BY DEF FileInv, InodeTypes
<1>8. Balanced(p)
  BY <1>1, <1>2, <1>3, <1>5, <1>6, <1>7, OpensKept, Basics DEF Balanced, Bit
<1>9. Advancing(p) = None
  BY DEF Advancing
<1> QED
  BY <1>3, <1>4, <1>6, <1>8, <1>9, QuietStep

\* A path that leads nowhere, also when link() has a link to take back.
LEMMA LostStep ==
  ASSUME FileInv, NEW p \in Proc, Lost(p), UNCHANGED fileVars, pc[p] \in {"walk", "link"}
  PROVE  FileInv'
<1>1. CASE src[p] = None
  BY <1>1, FailStep DEF Lost, Fail, AtInode
<1>2. CASE src[p] # None
  <2>1. Refer({}, {at[p]}) /\ Continue(p, "undo", None)
    BY <1>2 DEF Lost
  <2>2. /\ at[p] \in Inode /\ cwd[p] # None /\ src[p] \in Inode /\ Place(p) /\ Found(p)
        /\ pc[p] \notin {"user", "pipe", "args", "free"}
    BY <1>2, Placed DEF AtInode
  <2>3. cwd' = cwd /\ file' = file
    BY DEF fileVars
  <2>4. /\ Alone(p) /\ WalkTypes' /\ pc'[p] = "undo" /\ at'[p] = None /\ src'[p] = src[p]
        /\ path'[p] = path[p] /\ call'[p] = call[p]
    BY <2>1, <2>3, Continued DEF FileInv
  <2>5. FilePart'
    BY <2>2, <2>4, FilesQuiet DEF FileInv
  <2>6. PICK given \in SUBSET Inode : given = {at[p]} /\ Refer({}, given)
    BY <2>1, <2>2
  <2>7. Referral /\ \A i \in Inode : ref'[i] = ref[i] + Bit(i \in {}) - Bit(i \in given)
    BY <2>6, Referred
  <2>8. \A i \in Inode : ref[i] \in Int
    BY DEF FileInv, InodeTypes
  <2>9. Balanced(p)
    BY <2>2, <2>3, <2>4, <2>6, <2>7, <2>8, OpensKept, Basics DEF Balanced, Bit
  <2>10. Advancing(p)' = Advancing(p)
    BY <2>4 DEF Advancing
  <2>11. Place(p)'
    BY <1>2, <2>2, <2>4 DEF Place, AtInode, Resting, ByParent
  <2>12. Founded(p) /\ Unlocked(p)
    BY <1>2, <2>2, <2>4 DEF Founded, Found, Unlocked, Holding
  <2> QED
    BY <2>4, <2>5, <2>7, <2>9, <2>10, <2>11, <2>12, QuietStep
<1> QED
  BY <1>1, <1>2

\* No reference taken or given back is no change of the inodes.
LEMMA Unreferred ==
  ASSUME FileInv, UNCHANGED inodeVars
  PROVE  Refer({}, {})
<1>1. /\ type \in [Inode -> Kinds] /\ nlink \in [Inode -> Int] /\ ref \in [Inode -> Int]
      /\ entry \in [Inode -> [Names -> Inode \cup {None}]]
  BY DEF FileInv, InodeTypes
<1>2. type' = type /\ nlink' = nlink /\ ref' = ref /\ entry' = entry
  BY DEF inodeVars
<1>3. ref = [i \in Inode |-> ref[i] + (IF i \in {} THEN 1 ELSE 0) - (IF i \in {} THEN 1 ELSE 0)]
  BY <1>1
<1> QED
  BY <1>1, <1>2, <1>3 DEF Refer, Inodes

\* A step to another place, with a lock or to an inode that was found.
LEMMA ContinueStep ==
  ASSUME FileInv, NEW p \in Proc, NEW l \in AtInode, NEW i \in Inode, Continue(p, l, i),
         UNCHANGED fileVars, pc[p] \in AtInode, pc[p] # "remove", l # "remove",
         \/ Refer({i}, {at[p]}) /\ type[i] # "free"
         \/ i = at[p] /\ UNCHANGED inodeVars,
         Place(p)', Founded(p), Unlocked(p)
  PROVE  FileInv'
<1>1. /\ at[p] \in Inode /\ cwd[p] # None
      /\ pc[p] \notin {"user", "pipe", "args", "free"} /\ l \notin {"pipe", "args", "free"}
  BY Placed DEF AtInode
<1>2. cwd' = cwd /\ file' = file
  BY DEF fileVars
<1>3. /\ Alone(p) /\ WalkTypes' /\ pc'[p] = l /\ at'[p] = i /\ src'[p] = src[p]
      /\ path'[p] = path[p] /\ call'[p] = call[p]
  BY <1>2, Continued DEF FileInv
<1>4. FilePart'
  BY <1>1, <1>3, FilesQuiet DEF FileInv
<1>5. \A j \in Inode : ref[j] \in Int
  BY DEF FileInv, InodeTypes
<1>6. Referral /\ \A j \in Inode : ref'[j] = ref[j] + Bit(i = j) - Bit(at[p] = j)
  <2>1. CASE i = at[p] /\ UNCHANGED inodeVars
    <3>1. Refer({}, {})
      BY <2>1, Unreferred
    <3>2. ref' = ref
      BY <2>1 DEF inodeVars
    <3> QED
      BY <1>5, <2>1, <3>1, <3>2, Referred DEF Bit
  <2>2. CASE Refer({i}, {at[p]}) /\ type[i] # "free"
    <3>1. PICK given \in SUBSET Inode : given = {at[p]} /\ Refer({i}, given)
      BY <1>1, <2>2
    <3>2. /\ Referral
          /\ \A j \in Inode : ref'[j] = ref[j] + Bit(j \in {i}) - Bit(j \in given)
      BY <2>2, <3>1, Referred
    <3> QED
      BY <3>1, <3>2 DEF Bit
  <2> QED
    BY <2>1, <2>2
<1>7. Balanced(p)
  BY <1>1, <1>2, <1>3, <1>5, <1>6, OpensKept DEF Balanced, Bit
<1>8. Advancing(p)' = Advancing(p)
  BY <1>3 DEF Advancing
<1> QED
  BY <1>3, <1>4, <1>6, <1>7, <1>8, QuietStep

-------------------------------------------------------------------------------
(***************************************************************************)
(* What names lead to                                                      *)
(***************************************************************************)
LEMMA NamesCounted ==
  ASSUME FileInv, NEW i \in Inode
  PROVE  /\ IsFiniteSet(NamesOf(i)) /\ IsFiniteSet(Advance(i))
         /\ Cardinality(NamesOf(i)) \in Nat /\ Cardinality(Advance(i)) \in Nat
         /\ nlink[i] = Cardinality(NamesOf(i)) + Cardinality(Advance(i))
         /\ nlink[i] <= NLINK_MAX /\ nlink[i] \in Nat
         /\ NamesOf(i) # {} \/ Advance(i) # {} => nlink[i] > 0
         /\ nlink[i] > 0 => type[i] # "free"
<1>1. IsFiniteSet(NamesOf(i)) /\ IsFiniteSet(Advance(i))
  BY Finite, FS_Subset DEF NamesOf, Advance
<1>2. /\ Cardinality(NamesOf(i)) \in Nat /\ (NamesOf(i) # {} => Cardinality(NamesOf(i)) # 0)
      /\ Cardinality(Advance(i)) \in Nat /\ (Advance(i) # {} => Cardinality(Advance(i)) # 0)
  BY <1>1, FS_CardinalityType, FS_EmptySet
<1>3. /\ nlink[i] = Cardinality(NamesOf(i)) + Cardinality(Advance(i))
      /\ nlink[i] <= NLINK_MAX
  BY DEF FileInv, TreePart, Links
<1>4. type[i] = "free" => nlink[i] = 0
  BY DEF FileInv, References
<1> QED
  BY <1>1, <1>2, <1>3, <1>4

\* dirlookup() finds only inodes that are in use.
LEMMA LookupFound ==
  ASSUME FileInv, NEW d \in Inode, type[d] = "dir", NEW n \in Words, Lookup(d, n) # None
  PROVE  Lookup(d, n) \in Inode /\ type[Lookup(d, n)] # "free"
<1>1. CASE n = "."
  BY <1>1 DEF Lookup
<1>2. CASE n = ".."
  <2>1. nlink[d] # 0 /\ Lookup(d, n) = entry[d][".."]
    BY <1>2 DEF Lookup
  <2>2. Live(d)
    BY <2>1, NamesCounted DEF Live
  <2>3. Live(entry[d][".."])
    BY <2>2 DEF FileInv, TreePart, Directories
  <2>4. entry[d][".."] \in Inode
    BY <2>1, Basics DEF FileInv, InodeTypes
  <2> QED
    BY <2>1, <2>3, <2>4 DEF Live
<1>3. CASE n \in Name
  <2>1. Lookup(d, n) = entry[d][n]
    BY <1>3, Basics DEF Lookup
  <2>2. PICK i \in Inode : i = entry[d][n]
    BY <1>3, <2>1, Basics DEF FileInv, InodeTypes
  <2>3. Live(d)
    BY <1>3, <2>1 DEF FileInv, TreePart, Directories
  <2>4. <<d, n>> \in NamesOf(i)
    BY <1>3, <2>2, <2>3, Basics DEF NamesOf
  <2> QED
    BY <2>1, <2>2, <2>4, NamesCounted
<1> QED
  BY <1>1, <1>2, <1>3 DEF Words

-------------------------------------------------------------------------------
(***************************************************************************)
(* Paths                                                                   *)
(***************************************************************************)
Ops == {"link", "unlink", "mkdir", "mknod", "openCreate", "open", "openWrite", "chdir"}

\* What is known of the arguments of a call.
LEMMA PathCalls ==
  ASSUME NEW c \in PathCall
  PROVE  /\ c.op \in Ops /\ c # NoCall
         /\ c.path \in Paths /\ c.path \in Seq(Words) /\ c.path # <<>>
         /\ c.op = "link" => c.to \in Paths
<1>1. /\ c.op \in Ops /\ c.path \in Paths
      /\ c.op = "link" => c.to \in Paths
  BY DEF PathCall, Ops
<1>2. c # NoCall
  <2>1. NoCall.op = "none" /\ "none" \notin Ops
    BY DEF NoCall, Ops
  <2> QED
    BY <1>1, <2>1
<1>3. c.path \in Seq(Words) \ {<<>>}
  BY <1>1, FilesAssumption DEF Words
<1> QED
  BY <1>1, <1>2, <1>3

\* A call begins with a reference to the directory of its process.
LEMMA StartPathStep ==
  ASSUME FileInv, NEW p \in Proc, NEW c \in Calls, StartPath(p, c)
  PROVE  FileInv'
<1>1. c \in PathCall
  BY CallsAssumption
<1>2. /\ c.op \in Ops /\ c # NoCall /\ c.path \in Seq(Words) /\ c.path # <<>>
      /\ c.op = "link" => c.to \in Paths
  BY <1>1, PathCalls
<1>3. /\ pc[p] = "user" /\ cwd[p] # None
      /\ call' = [call EXCEPT ![p] = c] /\ path' = [path EXCEPT ![p] = c.path]
      /\ at' = [at EXCEPT ![p] = cwd[p]] /\ pc' = [pc EXCEPT ![p] = "walk"]
      /\ src' = src /\ file' = file /\ cwd' = cwd /\ UNCHANGED fileVars
      /\ Refer({cwd[p]}, {})
  BY DEF StartPath, Enter, Goto, fileVars
<1>4. /\ pc \in [Proc -> AtInode \cup Resting \cup {"undo"}]
      /\ at \in [Proc -> Inode \cup {None}] /\ src \in [Proc -> Inode \cup {None}]
      /\ path \in [Proc -> Seq(Words)] /\ call \in [Proc -> PathCall \cup {NoCall}]
  BY DEF FileInv, WalkTypes
<1>5. /\ pc'[p] = "walk" /\ call'[p] = c /\ at'[p] = cwd[p] /\ path'[p] = c.path
      /\ src'[p] = src[p]
  BY <1>3, <1>4
<1>6. /\ cwd[p] \in Inode /\ type[cwd[p]] # "free" /\ at[p] = None /\ src[p] = None
      /\ cwd[p] # None
  <2>1. Place(p) /\ cwd[p] \in Inode /\ type[cwd[p]] # "free" /\ cwd[p] # None
    BY <1>3, Placed
  <2> QED
    BY <1>3, <2>1 DEF Place, AtInode, Resting
<1>7. Alone(p)
  BY <1>3, <1>4 DEF Alone
<1>8. "walk" \in AtInode
  BY DEF AtInode
<1>9. WalkTypes'
  BY <1>1, <1>2, <1>3, <1>4, <1>6, <1>8 DEF WalkTypes
<1>10. FilePart'
  BY <1>3, <1>5, <1>7, FilesQuiet DEF FileInv
<1>11. PICK taken \in SUBSET Inode : taken = {cwd[p]} /\ Refer(taken, {})
  BY <1>3, <1>6
<1>12. Referral /\ \A i \in Inode : ref'[i] = ref[i] + Bit(i \in taken) - Bit(i \in {})
  BY <1>6, <1>11, Referred
<1>13. \A i \in Inode : ref[i] \in Int
  BY DEF FileInv, InodeTypes
<1>14. Balanced(p)
  BY <1>3, <1>5, <1>6, <1>11, <1>12, <1>13, OpensKept, Basics DEF Balanced, Bit
<1>15. Place(p)'
  BY <1>2, <1>5, <1>6 DEF Place, AtInode, Resting, ByParent
<1>16. Founded(p) /\ Unlocked(p) /\ Advancing(p)' = Advancing(p)
  BY <1>5, <1>6 DEF Founded, Unlocked, Holding, Advancing
<1> QED
  BY <1>7, <1>9, <1>10, <1>12, <1>14, <1>15, <1>16, QuietStep

\* The end of a walk: at a directory when the last name is kept.
LEMMA ArrivedStep ==
  ASSUME FileInv, NEW p \in Proc, pc[p] = "walk", Continue(p, Arrived(p), at[p]),
         UNCHANGED inodeVars, UNCHANGED fileVars, ByParent(p) => type[at[p]] = "dir"
  PROVE  FileInv'
<1>1. PICK l : l = Arrived(p)
  OBVIOUS
<1>2. PICK i : i = at[p]
  OBVIOUS
<1>3. Continue(p, l, i)
  BY <1>1, <1>2
<1>4. i \in Inode /\ Place(p) /\ Found(p) /\ src[p] \in Inode \cup {None}
  BY <1>2, Placed DEF AtInode
<1>5. /\ call[p].op \in Ops
      /\ call[p].op = "link" => call[p].to \in Paths
  <2>1. call[p] \in PathCall
    BY <1>4 DEF FileInv, WalkTypes, Place, Resting
  <2> QED
    BY <2>1, PathCalls
<1>6. /\ call[p].op = "link" /\ src[p] = None => l = "target"
      /\ call[p].op = "link" /\ src[p] # None => l = "link"
      /\ call[p].op \in Makers => l = "create"
      /\ call[p].op \in {"open", "openWrite"} => l = "lock"
      /\ call[p].op = "unlink" => l = "unlink"
      /\ call[p].op = "chdir" => l = "chdir"
  BY <1>1 DEF Arrived, Makers
<1>7. l \in AtInode /\ l # "remove" /\ l \notin Holding
  BY <1>5, <1>6 DEF Ops, Makers, AtInode, Holding
<1>8. /\ pc'[p] = l /\ at'[p] = i /\ src'[p] = src[p] /\ path'[p] = path[p]
      /\ call'[p] = call[p] /\ ByParent(p)' = ByParent(p)
  <2>1. WalkTypes /\ UNCHANGED cwd
    BY DEF FileInv, fileVars
  <2> QED
    BY <1>3, <1>4, <1>7, <2>1, Continued
<1>9. l \in {"link", "unlink", "create"} => ByParent(p)
  BY <1>5, <1>6 DEF ByParent, Ops, Makers
<1>10. Place(p)'
  <2>1. ByParent(p) => path[p] # <<>>
    BY <1>4 DEF Place
  <2>2. call[p] # NoCall /\ i # None
    BY <1>4, Basics DEF Place, Resting
  <2>3. l = "link" => src[p] # None
    BY <1>5, <1>6 DEF Ops, Makers
  <2>4. src[p] # None => l = "link"
    BY <1>4, <1>6 DEF Place
  <2>5. /\ l \in {"target", "link"} => call[p].op = "link"
        /\ l = "target" => src[p] = None
        /\ l = "create" => call[p].op \in Makers
    BY <1>5, <1>6 DEF Ops, Makers
  <2>6. l \notin Resting /\ l \notin {"walk", "undo", "remove"}
    BY <1>5, <1>6 DEF Ops, Makers, Resting
  <2> QED
    BY <1>5, <1>7, <1>8, <1>9, <2>1, <2>2, <2>3, <2>4, <2>5, <2>6 DEF Place
<1>11. Founded(p) /\ Unlocked(p)
  BY <1>2, <1>4, <1>7, <1>8, <1>9 DEF Founded, Found, Unlocked
<1> QED
  BY <1>2, <1>3, <1>4, <1>7, <1>10, <1>11, ContinueStep DEF AtInode

\* namex().
LEMMA WalkStep ==
  ASSUME FileInv, NEW p \in Proc, Walk(p), UNCHANGED fileVars
  PROVE  FileInv'
<1> DEFINE d == at[p]
           last == IF ByParent(p) THEN 1 ELSE 0
           next == Lookup(d, Head(path[p]))
<1>1. /\ pc[p] = "walk" /\ d \in Inode /\ Place(p) /\ Found(p) /\ cwd[p] # None
      /\ path[p] \in Seq(Words)
  BY Placed DEF Walk, AtInode, FileInv, WalkTypes
<1>2. CASE path[p] = <<>>
  <2>1. Continue(p, Arrived(p), at[p]) /\ UNCHANGED inodeVars
    BY <1>2 DEF Walk
  <2>2. ~ByParent(p)
    BY <1>1, <1>2 DEF Place
  <2> QED
    BY <1>1, <2>1, <2>2, ArrivedStep
<1>3. CASE path[p] # <<>> /\ Lost(p)
  BY <1>1, <1>3, LostStep
<1>4. CASE /\ path[p] # <<>> /\ type[d] = "dir"
           /\ Continue(p, Arrived(p), d) /\ UNCHANGED inodeVars
  BY <1>1, <1>4, ArrivedStep
<1>5. CASE /\ path[p] # <<>> /\ type[d] = "dir" /\ Len(path[p]) > last /\ next # None
           /\ Refer({next}, {d})
           /\ at' = [at EXCEPT ![p] = next] /\ path' = [path EXCEPT ![p] = Tail(@)]
           /\ UNCHANGED <<pc, call, src>>
  <2>1. Head(path[p]) \in Words /\ Tail(path[p]) \in Seq(Words)
        /\ Len(Tail(path[p])) = Len(path[p]) - 1
    BY <1>1, <1>5
  <2>2. next \in Inode /\ type[next] # "free"
    BY <1>1, <1>5, <2>1, LookupFound
  <2>3. PICK i \in Inode : i = next
    BY <2>2
  <2>4. /\ pc \in [Proc -> AtInode \cup Resting \cup {"undo"}]
        /\ at \in [Proc -> Inode \cup {None}] /\ src \in [Proc -> Inode \cup {None}]
        /\ path \in [Proc -> Seq(Words)] /\ call \in [Proc -> PathCall \cup {NoCall}]
    BY DEF FileInv, WalkTypes
  <2>5. /\ pc' = pc /\ call' = call /\ src' = src /\ at' = [at EXCEPT ![p] = i]
        /\ path' = [path EXCEPT ![p] = Tail(path[p])]
        /\ cwd' = cwd /\ file' = file
    BY <1>5, <2>3 DEF fileVars
  <2>6. at'[p] = i /\ path'[p] = Tail(path[p])
    BY <2>4, <2>5
  <2>7. Alone(p)
    BY <2>4, <2>5 DEF Alone
  <2>8. WalkTypes'
    BY <2>1, <2>4, <2>5 DEF WalkTypes
  <2>9. FilePart'
    BY <1>1, <2>5, <2>7, FilesQuiet DEF FileInv
  <2>10. PICK taken \in SUBSET Inode, given \in SUBSET Inode :
           taken = {next} /\ given = {d} /\ Refer(taken, given)
    BY <1>1, <1>5, <2>2
  <2>11. /\ Referral
         /\ \A j \in Inode : ref'[j] = ref[j] + Bit(j \in taken) - Bit(j \in given)
    BY <2>2, <2>10, Referred
  <2>12. \A j \in Inode : ref[j] \in Int
    BY DEF FileInv, InodeTypes
  <2>13. Balanced(p)
    BY <2>3, <2>5, <2>6, <2>10, <2>11, <2>12, OpensKept DEF Balanced, Bit
  <2>14. ByParent(p) => Tail(path[p]) # <<>>
    <3>1. Len(path[p]) \in Nat /\ (ByParent(p) => Len(path[p]) > 1)
      BY <1>1, <1>5
    <3>2. PICK t : t = Tail(path[p])
      OBVIOUS
    <3>3. Len(t) = Len(path[p]) - 1 /\ (t = <<>> => Len(t) = 0)
      BY <2>1, <3>2
    <3>4. ByParent(p) => t # <<>>
      BY ONLY <3>1, <3>3
    <3> QED
      BY <3>2, <3>4
  <2>15. Place(p)'
    BY <1>1, <2>5, <2>6, <2>14, Basics DEF Place, ByParent, AtInode, Resting
  <2>16. Founded(p) /\ Unlocked(p) /\ Advancing(p)' = Advancing(p)
    BY <1>1, <2>5 DEF Founded, Found, Unlocked, Holding, Advancing
  <2> QED
    BY <2>7, <2>8, <2>9, <2>11, <2>13, <2>15, <2>16, QuietStep
<1> QED
  BY <1>2, <1>3, <1>4, <1>5 DEF Walk

-------------------------------------------------------------------------------
(***************************************************************************)
(* Steps that look without changing a name                                 *)
(***************************************************************************)
LEMMA UnlinkEntryStep ==
  ASSUME FileInv, NEW p \in Proc, UnlinkEntry(p), UNCHANGED fileVars
  PROVE  FileInv'
<1>1. /\ pc[p] = "unlink" /\ ~Locked(at[p]) /\ at[p] \in Inode /\ Place(p) /\ Found(p)
      /\ cwd[p] # None /\ path[p] \in Seq(Words) /\ path[p] # <<>> /\ type[at[p]] = "dir"
      /\ src[p] = None
  BY Placed DEF UnlinkEntry, AtInode, FileInv, WalkTypes, Place, Found
<1>2. CASE Fail(p)
  BY <1>1, <1>2, FailStep DEF AtInode
<1>3. CASE ~Fail(p)
  <2>1. Last(p) \in Words
    BY <1>1 DEF Last
  <2>2. PICK ip : ip = Lookup(at[p], Last(p))
    OBVIOUS
  <2>3. Last(p) \in Name /\ ip # None /\ RemoveLater(p, ip)
    BY <1>3, <2>1, <2>2 DEF UnlinkEntry, Words
  <2>4. ip = entry[at[p]][Last(p)]
    BY <2>2, <2>3, Basics DEF Lookup
  <2>5. ip \in Inode /\ type[ip] # "free"
    BY <1>1, <2>1, <2>2, <2>3, LookupFound
  <2>6. /\ pc \in [Proc -> AtInode \cup Resting \cup {"undo"}]
        /\ at \in [Proc -> Inode \cup {None}] /\ src \in [Proc -> Inode \cup {None}]
        /\ path \in [Proc -> Seq(Words)] /\ call \in [Proc -> PathCall \cup {NoCall}]
    BY DEF FileInv, WalkTypes
  <2>7. /\ pc' = [pc EXCEPT ![p] = "remove"] /\ src' = [src EXCEPT ![p] = ip]
        /\ call' = call /\ at' = at /\ path' = path /\ cwd' = cwd /\ file' = file
        /\ Refer({ip}, {})
    BY <2>3 DEF RemoveLater, Goto, fileVars
  <2>8. pc'[p] = "remove" /\ src'[p] = ip
    BY <2>6, <2>7
  <2>9. Alone(p)
    BY <2>6, <2>7 DEF Alone
  <2>10. WalkTypes'
    BY <2>5, <2>6, <2>7 DEF WalkTypes, AtInode
  <2>11. FilePart'
    BY <1>1, <2>8, <2>9, FilesQuiet DEF FileInv
  <2>12. /\ Referral
         /\ \A j \in Inode : ref'[j] = ref[j] + Bit(j \in {ip}) - Bit(j \in {})
    BY <2>5, <2>7, Referred
  <2>13. \A j \in Inode : ref[j] \in Int
    BY DEF FileInv, InodeTypes
  <2>14. Balanced(p)
    BY <1>1, <2>5, <2>7, <2>8, <2>12, <2>13, OpensKept, Basics DEF Balanced, Bit
  <2>15. Place(p)'
    BY <1>1, <2>5, <2>7, <2>8, Basics DEF Place, AtInode, Resting
  <2>16. Founded(p)
    BY <1>1, <2>3, <2>4, <2>7, <2>8 DEF Founded, Last
  <2>17. Unlocked(p)
    BY <1>1, <2>7 DEF Unlocked, Locked, Holding
  <2>18. Advancing(p)' = Advancing(p)
    BY <1>1, <2>8 DEF Advancing
  <2> QED
    BY <2>9, <2>10, <2>11, <2>12, <2>14, <2>15, <2>16, <2>17, <2>18, QuietStep
<1> QED
  BY <1>2, <1>3

\* create() found the inode, or open() has its lock.
LEMMA OpeningStep ==
  ASSUME FileInv, NEW p \in Proc, UNCHANGED fileVars, UNCHANGED inodeVars,
         pc[p] \in {"exists", "lock"}, ~Locked(at[p]), Continue(p, "opening", at[p])
  PROVE  FileInv'
<1>1. at[p] \in Inode /\ Place(p) /\ Found(p)
  BY Placed DEF AtInode
<1>2. src[p] = None /\ call[p] # NoCall
  BY <1>1 DEF Place, Resting
<1>3. PICK i \in Inode : i = at[p]
  BY <1>1
<1>4. WalkTypes /\ UNCHANGED cwd /\ "opening" \in AtInode
  BY DEF FileInv, fileVars, AtInode
<1>5. Continue(p, "opening", i)
  BY <1>3
<1>6. /\ pc'[p] = "opening" /\ at'[p] = i /\ src'[p] = src[p] /\ path'[p] = path[p]
      /\ call'[p] = call[p] /\ \A q \in Proc : q # p => pc'[q] = pc[q] /\ at'[q] = at[q]
  BY <1>4, <1>5, Continued DEF Alone
<1>7. Place(p)'
  BY <1>1, <1>2, <1>6, Basics DEF Place, AtInode, Resting
<1>8. Founded(p)
  BY <1>2, <1>6 DEF Founded
<1>9. Unlocked(p)
  BY <1>3, <1>6 DEF Unlocked, Locked, Holding
<1> QED
  BY <1>3, <1>4, <1>5, <1>7, <1>8, <1>9, ContinueStep DEF AtInode

\* create() has found the name: only open() wants it, and no directory.
LEMMA ExistsStep ==
  ASSUME FileInv, NEW p \in Proc, Exists(p), UNCHANGED fileVars
  PROVE  FileInv'
<1>1. pc[p] = "exists" /\ ~Locked(at[p]) /\ src[p] = None
  BY Placed DEF Exists, Place
<1>2. CASE Fail(p)
  BY <1>1, <1>2, FailStep DEF AtInode
<1>3. CASE Continue(p, "opening", at[p]) /\ UNCHANGED inodeVars
  BY <1>1, <1>3, OpeningStep
<1> QED
  BY <1>2, <1>3 DEF Exists

\* open() without O_CREATE locks what it found.
LEMMA OpenLockStep ==
  ASSUME FileInv, NEW p \in Proc, OpenLock(p), UNCHANGED fileVars
  PROVE  FileInv'
<1>1. pc[p] = "lock" /\ ~Locked(at[p]) /\ src[p] = None
  BY Placed DEF OpenLock, Place
<1>2. CASE Fail(p)
  BY <1>1, <1>2, FailStep DEF AtInode
<1>3. CASE Continue(p, "opening", at[p]) /\ UNCHANGED inodeVars
  BY <1>1, <1>3, OpeningStep
<1> QED
  BY <1>2, <1>3 DEF OpenLock

-------------------------------------------------------------------------------
(***************************************************************************)
(* link()                                                                  *)
(***************************************************************************)
LEMMA AdvanceMoves ==
  ASSUME NEW p \in Proc, Alone(p), NEW i \in Inode
  PROVE  /\ Cardinality(Advance(i)) \in Nat
         /\ Cardinality(Advance(i)') = Cardinality(Advance(i)) + Bit(Advancing(p)' = i)
                                         - Bit(Advancing(p) = i)
<1>1. IsFiniteSet(Advance(i)) /\ Advance(i) \ {p} = Advance(i)' \ {p}
  BY Finite, FS_Subset DEF Alone, Advance
<1>2. i # None
  BY Basics
<1>3. (p \in Advance(i) <=> Advancing(p) = i) /\ (p \in Advance(i)' <=> Advancing(p)' = i)
  BY <1>2 DEF Advance, Advancing
<1> QED
  BY <1>1, <1>3, Toggle DEF Bit

\* link() counts the new link before the name exists.
LEMMA LinkTargetStep ==
  ASSUME FileInv, NEW p \in Proc, LinkTarget(p), UNCHANGED fileVars
  PROVE  FileInv'
<1>1. /\ pc[p] = "target" /\ at[p] \in Inode /\ Place(p) /\ src[p] = None
      /\ cwd[p] # None /\ cwd[p] \in Inode
      /\ call[p].op = "link" /\ call[p] # NoCall /\ call[p].to \in Paths
  BY Placed DEF LinkTarget, Place, AtInode, Resting
<1>2. CASE type[at[p]] = "dir" \/ nlink[at[p]] >= NLINK_MAX
  BY <1>1, <1>2, FailStep DEF LinkTarget, AtInode
<1>3. CASE type[at[p]] # "dir" /\ ~(nlink[at[p]] >= NLINK_MAX)
  <2> PICK i0 \in Inode : i0 = at[p]
    BY <1>1
  <2> PICK nl : nl = [nlink EXCEPT ![i0] = nlink[i0] + 1]
    OBVIOUS
  <2> PICK taken \in SUBSET Inode : taken = {cwd[p]}
    BY <1>1
  <2>1. /\ i0 = at[p] /\ nl = [nlink EXCEPT ![i0] = nlink[i0] + 1] /\ taken = {cwd[p]}
        /\ Inodes(nl, type, entry, taken, {})
    BY <1>3 DEF LinkTarget
  <2>2. /\ pc \in [Proc -> AtInode \cup Resting \cup {"undo"}]
        /\ at \in [Proc -> Inode \cup {None}] /\ src \in [Proc -> Inode \cup {None}]
        /\ path \in [Proc -> Seq(Words)] /\ call \in [Proc -> PathCall \cup {NoCall}]
    BY DEF FileInv, WalkTypes
  <2>3. /\ type \in [Inode -> Kinds] /\ nlink \in [Inode -> Int] /\ ref \in [Inode -> Int]
        /\ entry \in [Inode -> [Names -> Inode \cup {None}]]
    BY DEF FileInv, InodeTypes
  <2>4. /\ pc' = [pc EXCEPT ![p] = "walk"] /\ src' = [src EXCEPT ![p] = i0]
        /\ at' = [at EXCEPT ![p] = cwd[p]] /\ path' = [path EXCEPT ![p] = call[p].to]
        /\ call' = call /\ cwd' = cwd /\ file' = file
    BY <1>3, <2>1 DEF LinkTarget, Goto, fileVars
  <2>5. /\ pc'[p] = "walk" /\ src'[p] = i0 /\ at'[p] = cwd[p] /\ path'[p] = call[p].to
    BY <2>2, <2>4
  <2>6. Alone(p)
    BY <2>2, <2>4 DEF Alone
  <2>7. call[p].to \in Seq(Words) /\ call[p].to # <<>>
    BY <1>1, FilesAssumption DEF Words
  <2>8. WalkTypes'
    BY <1>1, <2>1, <2>2, <2>4, <2>7 DEF WalkTypes, AtInode
  <2>9. FilePart'
    BY <1>1, <2>5, <2>6, FilesQuiet DEF FileInv
  <2>10. /\ nlink' = nl /\ type' = type /\ entry' = entry
         /\ \A i \in Inode : ref'[i] = ref[i] + Bit(i \in taken)
         /\ ref' \in [Inode -> Int]
    BY <2>1, <2>3 DEF Inodes, Bit
  <2>11. /\ nl \in [Inode -> Int] /\ nl[i0] = nlink[i0] + 1
         /\ \A i \in Inode : i # i0 => nl[i] = nlink[i]
    BY <2>1, <2>3
  <2>12. InodeTypes'
    BY <2>3, <2>10, <2>11 DEF InodeTypes
  <2>13. Balanced(p)
    <3>1. \A i \in Inode : ref[i] \in Int /\ ref'[i] = ref[i] + Bit(cwd[p] = i) /\ i # None
      BY <2>1, <2>3, <2>10, Basics DEF Bit
    <3> QED
      BY <1>1, <2>1, <2>4, <2>5, <3>1, OpensKept DEF Balanced, Bit
  <2>14. \A i \in Inode : ref'[i] = Holders(i)'
    BY <2>6, <2>13, HoldersMove DEF FileInv, References
  <2>15. type[i0] # "free" /\ type[i0] # "dir" /\ type[cwd[p]] # "free" /\ nlink[i0] \in Nat
    BY <1>1, <1>3, <2>1, Placed, NamesCounted
  <2>16. References'
    <3>1. ASSUME NEW i \in Inode
          PROVE  type'[i] = "free" <=> ref'[i] = 0 /\ nlink'[i] = 0
      <4>1. type[i] = "free" <=> ref[i] = 0 /\ nlink[i] = 0
        BY DEF FileInv, References
      <4>2. ref[i] \in Nat
        BY HolderCounts DEF Counted, FileInv, References
      <4>3. i \in taken => type[i] # "free"
        BY <2>1, <2>15
      <4> QED
        BY <2>10, <2>11, <2>15, <4>1, <4>2, <4>3 DEF Bit
    <3> QED
      BY <2>14, <3>1 DEF References
  <2>17. SameShape
    BY <2>10, <2>11, <2>15 DEF SameShape, Live
  <2>18. Links'
    <3>1. ASSUME NEW i \in Inode
          PROVE  /\ nlink'[i] = Cardinality(NamesOf(i)') + Cardinality(Advance(i)')
                 /\ nlink'[i] <= NLINK_MAX
      <4>1. NamesOf(i)' = NamesOf(i)
        BY <2>17, ShapeKept DEF FileInv, TreePart
      <4>2. Advancing(p) = None /\ Advancing(p)' = i0 /\ i # None
        BY <1>1, <2>1, <2>5, Basics DEF Advancing
      <4>3. /\ Cardinality(Advance(i)) \in Nat
            /\ Cardinality(Advance(i)') = Cardinality(Advance(i)) + Bit(i0 = i)
        BY <2>6, <4>2, AdvanceMoves DEF Bit
      <4>4. /\ Cardinality(NamesOf(i)) \in Nat /\ nlink[i] <= NLINK_MAX
            /\ nlink[i] = Cardinality(NamesOf(i)) + Cardinality(Advance(i))
        BY NamesCounted
      <4>5. nlink[i] \in Int /\ NLINK_MAX \in Int /\ (i = i0 => nlink[i] < NLINK_MAX)
        BY <1>3, <2>1, <2>3, FilesAssumption
      <4>6. nlink'[i] = nlink[i] + Bit(i0 = i)
        BY <2>10, <2>11, <4>5 DEF Bit
      <4> QED
        BY <4>1, <4>3, <4>4, <4>5, <4>6 DEF Bit
    <3> QED
      BY <3>1 DEF Links
  <2>19. TreePart'
    BY <2>17, <2>18, ShapeKept DEF FileInv, TreePart
  <2>20. Place(p)'
    BY <1>1, <2>1, <2>4, <2>5, <2>7, Basics DEF Place, ByParent, AtInode, Resting
  <2>21. Found(p)' /\ Unlocked(p) /\ Steady(p)
    BY <2>5, <2>10, <2>15 DEF Found, Unlocked, Steady, Holding
  <2> QED
    BY <2>6, <2>8, <2>9, <2>12, <2>16, <2>19, <2>20, <2>21, CallStep
<1> QED
  BY <1>2, <1>3

\* The label bad takes the link back.
LEMMA LinkUndoStep ==
  ASSUME FileInv, NEW p \in Proc, LinkUndo(p), UNCHANGED fileVars
  PROVE  FileInv'
<1>1. /\ pc[p] = "undo" /\ Place(p) /\ src[p] # None /\ src[p] \in Inode /\ cwd[p] # None
      /\ at[p] = None /\ type[src[p]] # "dir" /\ type[src[p]] # "free"
  BY Placed DEF LinkUndo, Place, AtInode, Resting, Found
<1> PICK s \in Inode : s = src[p]
  BY <1>1
<1> PICK nl : nl = [nlink EXCEPT ![s] = nlink[s] - 1]
  OBVIOUS
<1> PICK given \in SUBSET Inode : given = {s}
  OBVIOUS
<1>2. /\ s = src[p] /\ nl = [nlink EXCEPT ![s] = nlink[s] - 1] /\ given = {s}
      /\ Inodes(nl, type, entry, {}, given) /\ Return(p)
  BY DEF LinkUndo
<1>3. /\ type \in [Inode -> Kinds] /\ nlink \in [Inode -> Int] /\ ref \in [Inode -> Int]
      /\ entry \in [Inode -> [Names -> Inode \cup {None}]]
  BY DEF FileInv, InodeTypes
<1>4. cwd' = cwd /\ file' = file
  BY DEF fileVars
<1>5. /\ Alone(p) /\ Unlocked(p) /\ WalkTypes' /\ Place(p)' /\ Found(p)'
      /\ pc'[p] = "user" /\ at'[p] = None /\ src'[p] = None /\ Advancing(p)' = None
  BY <1>2, <1>4, Returned DEF FileInv
<1>6. FilePart'
  BY <1>1, <1>5, FilesQuiet DEF FileInv
<1> DEFINE Gone(i) == i = s /\ ref'[i] = 0 /\ nl[i] = 0
<1>7. /\ nlink' = nl
      /\ ref' = [i \in Inode |-> ref[i] + 0 - (IF i \in given THEN 1 ELSE 0)]
      /\ type' = [i \in Inode |-> IF Gone(i) THEN "free" ELSE type[i]]
      /\ entry' = [i \in Inode |-> IF Gone(i) THEN NoNames ELSE entry[i]]
  BY <1>2, <1>3 DEF Inodes
<1>8. /\ nl \in [Inode -> Int] /\ nl[s] = nlink[s] - 1
      /\ \A i \in Inode : i # s => nl[i] = nlink[i]
  BY <1>2, <1>3
<1>9. NoNames \in [Names -> Inode \cup {None}] /\ "free" \in Kinds
  BY DEF NoNames, Kinds
<1>10. InodeTypes'
  BY <1>3, <1>7, <1>8, <1>9 DEF InodeTypes
<1>11. \A i \in Inode : ref'[i] = ref[i] - Bit(i = s)
  BY <1>2, <1>3, <1>7 DEF Bit
<1>12. Balanced(p)
  BY <1>1, <1>2, <1>3, <1>4, <1>5, <1>11, OpensKept, Basics DEF Balanced, Bit
<1>13. \A i \in Inode : ref'[i] = Holders(i)'
  BY <1>5, <1>12, HoldersMove DEF FileInv, References
<1>14. \A i \in Inode : i # s => type'[i] = type[i] /\ entry'[i] = entry[i]
  BY <1>7
<1>15. /\ ref'[s] = 0 /\ nl[s] = 0 => type'[s] = "free" /\ entry'[s] = NoNames
       /\ ~(ref'[s] = 0 /\ nl[s] = 0) => type'[s] = type[s] /\ entry'[s] = entry[s]
  BY <1>7
<1>16. References'
  <2>1. ASSUME NEW i \in Inode, i # s
        PROVE  type'[i] = "free" <=> ref'[i] = 0 /\ nlink'[i] = 0
    <3>1. type[i] = "free" <=> ref[i] = 0 /\ nlink[i] = 0
      BY DEF FileInv, References
    <3> QED
      BY <1>3, <1>7, <1>8, <1>11, <1>14, <2>1, <3>1 DEF Bit
  <2>2. type'[s] = "free" <=> ref'[s] = 0 /\ nlink'[s] = 0
    BY <1>1, <1>2, <1>7, <1>15
  <2> QED
    BY <1>13, <2>1, <2>2 DEF References
<1>17. SameShape
  <2>1. ASSUME NEW i \in Inode, i # s
        PROVE  (Live(i)' <=> Live(i)) /\ type'[i] = type[i] /\ entry'[i] = entry[i]
    BY <1>7, <1>8, <1>14, <2>1 DEF Live
  <2>2. ~Live(s) /\ ~Live(s)'
    BY <1>1, <1>2, <1>15 DEF Live
  <2> QED
    BY <1>15, <2>1, <2>2 DEF SameShape
<1>18. Links'
  <2>1. ASSUME NEW i \in Inode
        PROVE  /\ nlink'[i] = Cardinality(NamesOf(i)') + Cardinality(Advance(i)')
               /\ nlink'[i] <= NLINK_MAX
    <3>1. NamesOf(i)' = NamesOf(i)
      BY <1>17, ShapeKept DEF FileInv, TreePart
    <3>2. Advancing(p) = s /\ Advancing(p)' = None /\ i # None
      BY <1>1, <1>2, <1>5, Basics DEF Advancing
    <3>3. /\ Cardinality(Advance(i)) \in Nat
          /\ Cardinality(Advance(i)') = Cardinality(Advance(i)) - Bit(s = i)
      BY <1>5, <3>2, AdvanceMoves DEF Bit
    <3>4. /\ Cardinality(NamesOf(i)) \in Nat /\ nlink[i] <= NLINK_MAX
          /\ nlink[i] = Cardinality(NamesOf(i)) + Cardinality(Advance(i))
      BY NamesCounted
    <3>5. nlink[i] \in Int /\ NLINK_MAX \in Int
      BY <1>3, FilesAssumption
    <3>6. nlink'[i] = nlink[i] - Bit(s = i)
      BY <1>7, <1>8, <3>5 DEF Bit
    <3> QED
      BY <3>1, <3>3, <3>4, <3>5, <3>6 DEF Bit
  <2> QED
    BY <2>1 DEF Links
<1>19. TreePart'
  BY <1>17, <1>18, ShapeKept DEF FileInv, TreePart
<1>20. Steady(p)
  <2>1. ASSUME NEW q \in Proc, q # p, NEW i \in Inode, at[q] = i \/ src[q] = i
        PROVE  type'[i] = type[i] /\ entry'[i] = entry[i]
    <3>1. ref'[i] > 0
      BY <1>5, <1>13, <2>1, HolderCountsNext DEF Counted, Alone
    <3> QED
      BY <1>14, <1>15, <3>1
  <2>2. ASSUME NEW q \in Proc
        PROVE  /\ at[q] \in Inode \cup {None} /\ src[q] \in Inode \cup {None}
               /\ pc[q] = "remove" => at[q] \in Inode
    BY Placed DEF AtInode
  <2> QED
    BY <2>1, <2>2 DEF Steady
<1> QED
  BY <1>5, <1>6, <1>10, <1>16, <1>19, <1>20, CallStep

\* A name that a directory in use does not have is neither "." nor "..".
LEMMA FreeName ==
  ASSUME FileInv, NEW d \in Inode, type[d] = "dir", nlink[d] # 0, NEW n \in Words,
         Lookup(d, n) = None
  PROVE  n \in Name /\ entry[d][n] = None /\ Live(d)
<1>1. d # None /\ entry[d][".."] # None
  BY Basics DEF FileInv, TreePart, Directories
<1>2. n # "." /\ n # ".."
  BY <1>1 DEF Lookup
<1>3. Live(d)
  BY NamesCounted DEF Live
<1> QED
  BY <1>2, <1>3 DEF Words, Lookup

\* The new name makes the link that was counted in advance a real one.
LEMMA LinkEntryStep ==
  ASSUME FileInv, NEW p \in Proc, LinkEntry(p), UNCHANGED fileVars
  PROVE  FileInv'
<1>1. /\ pc[p] = "link" /\ Place(p) /\ src[p] # None /\ src[p] \in Inode /\ cwd[p] # None
      /\ at[p] \in Inode /\ type[src[p]] # "dir" /\ type[src[p]] # "free"
      /\ type[at[p]] = "dir" /\ path[p] \in Seq(Words) /\ path[p] # <<>> /\ ~Locked(at[p])
  BY Placed DEF LinkEntry, Place, AtInode, Resting, Found, FileInv, WalkTypes
<1>2. CASE Lost(p)
  BY <1>1, <1>2, LostStep
<1>3. CASE ~Lost(p)
  <2> PICK d \in Inode : d = at[p]
    BY <1>1
  <2> PICK s \in Inode : s = src[p]
    BY <1>1
  <2> PICK n \in Words : n = Last(p)
    BY <1>1 DEF Last
  <2> PICK en : en = [entry EXCEPT ![d][n] = s]
    OBVIOUS
  <2> PICK given \in SUBSET Inode : given = {d, s}
    OBVIOUS
  <2>1. /\ d = at[p] /\ s = src[p] /\ n = Last(p) /\ given = {d, s}
        /\ en = [entry EXCEPT ![d][n] = s]
        /\ nlink[d] > 0 /\ Lookup(d, n) = None
        /\ Inodes(nlink, type, en, {}, given) /\ Return(p)
    BY <1>3 DEF LinkEntry
  <2>2. /\ type \in [Inode -> Kinds] /\ nlink \in [Inode -> Int] /\ ref \in [Inode -> Int]
        /\ entry \in [Inode -> [Names -> Inode \cup {None}]]
    BY DEF FileInv, InodeTypes
  <2>3. n \in Name /\ n \in Names /\ entry[d][n] = None /\ Live(d) /\ d # s
    BY <1>1, <2>1, FreeName, Basics
  <2>4. cwd' = cwd /\ file' = file
    BY DEF fileVars
  <2>5. /\ Alone(p) /\ Unlocked(p) /\ WalkTypes' /\ Place(p)' /\ Found(p)'
        /\ pc'[p] = "user" /\ at'[p] = None /\ src'[p] = None /\ Advancing(p)' = None
    BY <2>1, <2>4, Returned DEF FileInv
  <2>6. FilePart'
    BY <1>1, <2>5, FilesQuiet DEF FileInv
  <2>7. Advancing(p) = s
    BY <1>1, <2>1 DEF Advancing
  <2>8. nlink[s] > 0 /\ nlink[s] \in Nat
    <3>1. p \in Advance(s)
      BY <1>1, <2>1 DEF Advance
    <3> QED
      BY <3>1, NamesCounted
  <2>9. nlink' = nlink /\ type' = type /\ entry' = en
        /\ ref' = [i \in Inode |-> ref[i] + 0 - (IF i \in given THEN 1 ELSE 0)]
    <3>1. \A i \in given : nlink[i] # 0
      BY <2>1, <2>2, <2>8
    <3>2. en \in [Inode -> [Names -> Inode \cup {None}]]
      BY <2>1, <2>2, <2>3
    <3> QED
      BY <2>1, <2>2, <3>1, <3>2 DEF Inodes
  <2>10. /\ en \in [Inode -> [Names -> Inode \cup {None}]]
         /\ \A i \in Inode, m \in Names :
              en[i][m] = IF i = d /\ m = n THEN s ELSE entry[i][m]
         /\ \A i \in Inode : i # d => en[i] = entry[i]
    BY <2>1, <2>2, <2>3
  <2>11. InodeTypes'
    BY <2>2, <2>9, <2>10 DEF InodeTypes
  <2>12. \A i \in Inode : ref'[i] = ref[i] - Bit(i = d) - Bit(i = s)
    BY <2>1, <2>2, <2>3, <2>9 DEF Bit
  <2>13. Balanced(p)
    <3>1. \A i \in Inode : ref[i] \in Int /\ i # None
      BY <2>2, Basics
    <3>2. d = at[p] /\ s = src[p] /\ cwd' = cwd /\ file' = file /\ at'[p] = None /\ src'[p] = None
      BY <2>1, <2>4, <2>5
    <3> QED
      BY ONLY <2>12, <3>1, <3>2, OpensKept DEF Balanced, Bit
  <2>14. \A i \in Inode : ref'[i] = Holders(i)'
    BY <2>5, <2>13, HoldersMove DEF FileInv, References
  <2>15. References'
    <3>1. ASSUME NEW i \in Inode
          PROVE  type'[i] = "free" <=> ref'[i] = 0 /\ nlink'[i] = 0
      <4>1. type[i] = "free" <=> ref[i] = 0 /\ nlink[i] = 0
        BY DEF FileInv, References
      <4>2. i \in {d, s} => type[i] # "free" /\ nlink[i] # 0
        BY <1>1, <2>1, <2>2, <2>8
      <4> QED
        BY <2>2, <2>9, <2>12, <4>1, <4>2 DEF Bit
    <3> QED
      BY <2>14, <3>1 DEF References
  <2>16. \A i \in Inode : Live(i)' <=> Live(i)
    BY <2>9 DEF Live
  <2>17. entry[s] = NoNames /\ \A m \in Name : entry[s][m] = None
    BY <1>1, <2>1, Basics DEF FileInv, TreePart, Directories, NoNames
  <2>18. Directories /\ OneName /\ Acyclic
    BY DEF FileInv, TreePart
  <2>19. \A i \in Inode : en[i][".."] = entry[i][".."]
    BY <2>3, <2>10, Basics
  <2>20. s # Root /\ s # None
    BY <1>1, <2>1, <2>18, Basics DEF Directories, Live
  <2>21. Directories'
    <3>1. ASSUME NEW i \in Inode
          PROVE  IF type'[i] = "dir" THEN entry'[i][".."] # None ELSE entry'[i] = NoNames
      BY <1>1, <2>1, <2>9, <2>10, <2>18, <2>19 DEF Directories
    <3>2. Live(Root)' /\ entry'[Root][".."] = Root
      BY <2>9, <2>16, <2>18, <2>19, Basics DEF Directories
    <3>3. ASSUME NEW i \in Inode, NEW m \in Name
          PROVE  entry'[i][m] # Root /\ (entry'[i][m] # None => Live(i)')
      BY <2>3, <2>9, <2>10, <2>16, <2>18, <2>20, Basics DEF Directories
    <3>4. ASSUME NEW i \in Inode, Live(i)', i # Root
          PROVE  Live(entry[i][".."])' /\ \E m \in Name : entry'[entry'[i][".."]][m] = i
      <4>1. Live(i) /\ entry'[i][".."] = entry[i][".."]
        BY <2>9, <2>16, <2>19, <3>4
      <4>2. PICK m \in Name : entry[entry[i][".."]][m] = i
        BY <2>18, <3>4, <4>1 DEF Directories
      <4>3. Live(entry[i][".."]) /\ entry[i][".."] \in Inode
        <5>1. Live(entry[i][".."]) /\ entry[i][".."] # None
          BY <2>18, <3>4, <4>1 DEF Directories, Live
        <5>2. entry[i][".."] \in Inode \cup {None}
          BY <2>2, Basics
        <5> QED
          BY <5>1, <5>2
      <4>4. entry'[entry[i][".."]][m] = i
        <5>1. i # None /\ m \in Names
          BY Basics
        <5> QED
          BY <2>3, <2>9, <2>10, <4>2, <4>3, <5>1
      <4> QED
        BY <2>16, <4>1, <4>3, <4>4 DEF Live
    <3> QED
      BY <3>1, <3>2, <3>3, <3>4 DEF Directories
  <2>22. OneName'
    <3>1. \A i, c \in Inode, m \in Name :
            type[i] = "dir" /\ entry'[c][m] = i => entry[c][m] = i
      BY <1>1, <2>1, <2>9, <2>10, Basics
    <3> QED
      BY <2>9, <2>18, <3>1 DEF OneName
  <2>23. Acyclic'
    <3>1. ASSUME NEW S \in SUBSET Inode, \A i \in S : \E m \in Name : entry'[i][m] \in S
          PROVE  S = {}
      <4>1. s \notin S
        <5>1. \A m \in Name : entry'[s][m] = None
          BY <2>3, <2>9, <2>10, <2>17
        <5> QED
          BY <3>1, <5>1, Basics
      <4>2. \A i \in S : \E m \in Name : entry[i][m] \in S
        BY <2>9, <2>10, <3>1, <4>1, Basics
      <4> QED
        BY <2>18, <4>2 DEF Acyclic
    <3> QED
      BY <3>1 DEF Acyclic
  <2>24. Links'
    <3>1. ASSUME NEW i \in Inode
          PROVE  /\ nlink'[i] = Cardinality(NamesOf(i)') + Cardinality(Advance(i)')
                 /\ nlink'[i] <= NLINK_MAX
      <4>1. /\ Cardinality(NamesOf(i)) \in Nat /\ nlink[i] <= NLINK_MAX
            /\ nlink[i] = Cardinality(NamesOf(i)) + Cardinality(Advance(i))
            /\ IsFiniteSet(NamesOf(i))
        BY NamesCounted
      <4>2. Cardinality(NamesOf(i)') = Cardinality(NamesOf(i)) + Bit(i = s)
        <5>1. NamesOf(i) \ {<<d, n>>} = NamesOf(i)' \ {<<d, n>>}
          BY <2>9, <2>10, <2>16 DEF NamesOf
        <5>2. <<d, n>> \notin NamesOf(i)
          BY <2>3, Basics DEF NamesOf
        <5>3. <<d, n>> \in NamesOf(i)' <=> i = s
          BY <2>3, <2>9, <2>10, <2>16 DEF NamesOf
        <5> QED
          BY <4>1, <5>1, <5>2, <5>3, Toggle DEF Bit
      <4>3. /\ Cardinality(Advance(i)) \in Nat
            /\ Cardinality(Advance(i)') = Cardinality(Advance(i)) - Bit(i = s)
        BY <2>5, <2>7, AdvanceMoves, Basics DEF Bit
      <4> QED
        BY <2>9, <4>1, <4>2, <4>3 DEF Bit
    <3> QED
      BY <3>1 DEF Links
  <2>25. TreePart'
    BY <2>21, <2>22, <2>23, <2>24 DEF TreePart
  <2>26. Steady(p)
    <3>1. ASSUME NEW q \in Proc, q # p, pc[q] = "remove"
          PROVE  entry'[at[q]][Last(q)] = entry[at[q]][Last(q)]
      <4>1. at[q] \in Inode /\ at[q] # d
        BY <1>1, <2>1, <3>1, Placed DEF Locked, AtInode
      <4> QED
        BY <2>9, <2>10, <4>1
    <3> QED
      BY <2>9, <3>1 DEF Steady
  <2> QED
    BY <2>5, <2>6, <2>11, <2>15, <2>25, <2>26, CallStep
<1> QED
  BY <1>2, <1>3

-------------------------------------------------------------------------------
(***************************************************************************)
(* unlink()                                                                *)
(***************************************************************************)

\* What holds while unlink() has found name n of inode ip in directory d.
LEMMA Removing ==
  ASSUME FileInv, NEW p \in Proc, pc[p] = "remove"
  PROVE  /\ at[p] \in Inode /\ src[p] \in Inode /\ cwd[p] # None
         /\ at[p] # src[p] /\ src[p] # Root
         /\ Last(p) \in Name /\ entry[at[p]][Last(p)] = src[p]
         /\ Live(at[p]) /\ type[src[p]] # "free" /\ Advancing(p) = None
<1>1. /\ at[p] \in Inode /\ src[p] \in Inode /\ cwd[p] # None /\ type[src[p]] # "free"
      /\ Last(p) \in Name /\ entry[at[p]][Last(p)] = src[p]
  BY Placed DEF AtInode, Place, Found
<1>2. /\ Directories /\ Acyclic
  BY DEF FileInv, TreePart
<1>3. src[p] # Root /\ Live(at[p])
  BY <1>1, <1>2, Basics DEF Directories
<1>4. at[p] # src[p]
  <2>1. SUFFICES ASSUME at[p] = src[p] PROVE FALSE
    OBVIOUS
  <2>2. {at[p]} \in SUBSET Inode /\ \A d \in {at[p]} : \E n \in Name : entry[d][n] \in {at[p]}
    BY <1>1, <2>1
  <2> QED
    BY <1>2, <2>2 DEF Acyclic
<1> QED
  BY <1>1, <1>3, <1>4 DEF Advancing

\* A directory with no names is ".." of nothing that is in use.
LEMMA EmptyDirectory ==
  ASSUME FileInv, NEW ip \in Inode, ip # Root, \A n \in Name : entry[ip][n] = None
  PROVE  \A b \in Inode : Live(b) => entry[b][".."] # ip
<1> SUFFICES ASSUME NEW b \in Inode, Live(b), entry[b][".."] = ip PROVE FALSE
  OBVIOUS
<1>1. b # Root
  BY DEF FileInv, TreePart, Directories
<1>2. \E n \in Name : entry[ip][n] = b
  BY <1>1 DEF FileInv, TreePart, Directories
<1> QED
  BY <1>2, Basics

\* It has one link, from the directory that its ".." says, which has two.
LEMMA RemovedDirectory ==
  ASSUME FileInv, NEW ip \in Inode, NEW d \in Inode, NEW n \in Name, ip # d,
         entry[d][n] = ip, type[ip] = "dir", \A m \in Name : entry[ip][m] = None
  PROVE  entry[ip][".."] = d /\ nlink[ip] = 1 /\ nlink[d] > 1 /\ Live(ip)
<1>1. Directories /\ OneName /\ ip # Root
  BY DEF FileInv, TreePart, Directories
<1>2. ip # None /\ n \in Names /\ ".." \in Names
  BY Basics
<1>3. Live(d)
  BY <1>1, <1>2 DEF Directories
<1>4. <<d, n>> \in NamesOf(ip)
  BY <1>2, <1>3 DEF NamesOf
<1>5. Live(ip)
  BY <1>4, NamesCounted DEF Live
<1>6. entry[ip][".."] = d
  <2>1. PICK m \in Name : entry[entry[ip][".."]][m] = ip
    BY <1>1, <1>5 DEF Directories
  <2>2. entry[ip][".."] \in Inode
    <3>1. entry[ip][".."] # None /\ entry[ip][".."] \in Inode \cup {None}
      BY <1>1, <1>2 DEF Directories, FileInv, InodeTypes
    <3> QED
      BY <3>1
  <2> QED
    BY <1>1, <2>1, <2>2 DEF OneName
<1>7. nlink[ip] = 1
  <2>1. NamesOf(ip) = {<<d, n>>}
    <3>1. ASSUME NEW b \in Inode, NEW m \in Names, Live(b), entry[b][m] = ip
          PROVE  b = d /\ m = n
      <4>1. m # ".."
        BY <1>1, <3>1, EmptyDirectory
      <4>2. m \in Name
        BY <4>1 DEF Names
      <4> QED
        BY <1>1, <3>1, <4>2 DEF OneName
    <3> QED
      BY <1>4, <3>1 DEF NamesOf
  <2>2. Advance(ip) = {}
    <3>1. ASSUME NEW q \in Proc, src[q] = ip, pc[q] # "remove" PROVE FALSE
      BY <1>2, <3>1 DEF FileInv, Finds, Found
    <3> QED
      BY <3>1 DEF Advance
  <2> QED
    <3>1. Cardinality(NamesOf(ip)) = 1
      BY <2>1, FS_Singleton
    <3>2. Cardinality(Advance(ip)) = 0
      BY <2>2, FS_EmptySet
    <3> QED
      BY <3>1, <3>2, NamesCounted
<1>8. nlink[d] > 1
  <2>1. <<ip, "..">> \in NamesOf(d)
    BY <1>2, <1>5, <1>6 DEF NamesOf
  <2>2. PICK x \in NamesOf(d) : x # <<ip, "..">>
    <3>1. CASE d = Root
      <4>1. <<Root, "..">> \in NamesOf(d)
        BY <1>1, <1>2, <3>1, Basics DEF NamesOf, Directories
      <4> QED
        BY <1>1, <4>1
    <3>2. CASE d # Root
      <4>1. PICK m \in Name : entry[entry[d][".."]][m] = d /\ Live(entry[d][".."])
        BY <1>1, <1>3, <3>2 DEF Directories
      <4>2. entry[d][".."] \in Inode
        <5>1. entry[d][".."] # None /\ entry[d][".."] \in Inode \cup {None}
          BY <1>1, <1>2, <1>3 DEF Directories, FileInv, InodeTypes, Live
        <5> QED
          BY <5>1
      <4>3. <<entry[d][".."], m>> \in NamesOf(d)
        BY <4>1, <4>2, Basics DEF NamesOf
      <4> QED
        BY <4>3, Basics
    <3> QED
      BY <3>1, <3>2
  <2>3. /\ IsFiniteSet(NamesOf(d) \ {<<ip, "..">>})
        /\ Cardinality(NamesOf(d) \ {<<ip, "..">>}) = Cardinality(NamesOf(d)) - 1
    BY <2>1, NamesCounted, FS_RemoveElement
  <2>4. NamesOf(d) \ {<<ip, "..">>} # {}
    BY <2>2
  <2>5. Cardinality(NamesOf(d) \ {<<ip, "..">>}) > 0
    <3>1. Cardinality(NamesOf(d) \ {<<ip, "..">>}) \in Nat
      BY <2>3, FS_CardinalityType
    <3>2. Cardinality(NamesOf(d) \ {<<ip, "..">>}) # 0
      BY <2>3, <2>4, FS_EmptySet
    <3> QED
      BY <3>1, <3>2
  <2> QED
    BY <2>3, <2>5, NamesCounted
<1> QED
  BY <1>5, <1>6, <1>7, <1>8

\* unlink() of a directory that is not empty gives both inodes back.
LEMMA RemoveFailStep ==
  ASSUME FileInv, NEW p \in Proc, pc[p] = "remove", Refer({}, {at[p], src[p]}), Return(p),
         UNCHANGED fileVars
  PROVE  FileInv'
<1>1. /\ at[p] \in Inode /\ src[p] \in Inode /\ at[p] # src[p] /\ cwd[p] # None
      /\ Advancing(p) = None
  BY Removing
<1>2. cwd' = cwd /\ file' = file
  BY DEF fileVars
<1>3. /\ Alone(p) /\ Unlocked(p) /\ Founded(p) /\ WalkTypes' /\ Place(p)'
      /\ pc'[p] = "user" /\ at'[p] = None /\ src'[p] = None /\ Advancing(p)' = None
  BY <1>2, Returned DEF FileInv
<1>4. FilePart'
  BY <1>1, <1>3, FilesQuiet DEF FileInv
<1>5. PICK given \in SUBSET Inode : given = {at[p], src[p]} /\ Refer({}, given)
  BY <1>1
<1>6. Referral /\ \A i \in Inode : ref'[i] = ref[i] + Bit(i \in {}) - Bit(i \in given)
  BY <1>5, Referred
<1>7. \A i \in Inode : ref[i] \in Int /\ i # None
  BY Basics DEF FileInv, InodeTypes
<1>8. \A i \in Inode : ref'[i] = ref[i] - Bit(at[p] = i) - Bit(src[p] = i)
  BY <1>1, <1>5, <1>6, <1>7 DEF Bit
<1>9. Balanced(p)
  BY ONLY <1>2, <1>3, <1>7, <1>8, OpensKept DEF Balanced, Bit
<1> QED
  BY <1>1, <1>3, <1>4, <1>6, <1>9, QuietStep

\* unlink() of a file or an empty directory: the name and the link go together,
\* and the parent loses the ".." of the directory.
LEMMA RemoveStep ==
  ASSUME FileInv, NEW p \in Proc, Remove(p), UNCHANGED fileVars
  PROVE  FileInv'
<1>1. pc[p] = "remove" /\ ~Locked(src[p]) /\ Return(p)
  BY DEF Remove
<1>2. /\ at[p] \in Inode /\ src[p] \in Inode /\ cwd[p] # None /\ at[p] # src[p]
      /\ src[p] # Root /\ Last(p) \in Name /\ entry[at[p]][Last(p)] = src[p]
      /\ Live(at[p]) /\ type[src[p]] # "free" /\ Advancing(p) = None
  BY <1>1, Removing
<1>3. CASE type[src[p]] = "dir" /\ \E n \in Name : entry[src[p]][n] # None
  BY <1>1, <1>3, RemoveFailStep DEF Remove
<1>4. CASE ~(type[src[p]] = "dir" /\ \E n \in Name : entry[src[p]][n] # None)
  <2> PICK d \in Inode : d = at[p]
    BY <1>2
  <2> PICK ip \in Inode : ip = src[p]
    BY <1>2
  <2> PICK n \in Name : n = Last(p)
    BY <1>2
  <2> PICK up : up = IF type[ip] = "dir" THEN 1 ELSE 0
    OBVIOUS
  <2> PICK nl : nl = [nlink EXCEPT ![ip] = nlink[ip] - 1, ![d] = nlink[d] - up]
    OBVIOUS
  <2> PICK en : en = [entry EXCEPT ![d][n] = None]
    OBVIOUS
  <2> PICK given \in SUBSET Inode : given = {d, ip}
    OBVIOUS
  <2>1. /\ d = at[p] /\ ip = src[p] /\ n = Last(p) /\ given = {d, ip}
        /\ up = Bit(type[ip] = "dir") /\ d # ip /\ ip # Root /\ n \in Names
        /\ entry[d][n] = ip /\ Live(d) /\ type[ip] # "free"
    BY <1>2, Basics DEF Bit
  <2>2. /\ type \in [Inode -> Kinds] /\ nlink \in [Inode -> Int] /\ ref \in [Inode -> Int]
        /\ entry \in [Inode -> [Names -> Inode \cup {None}]]
    BY DEF FileInv, InodeTypes
  <2>3. nl = [nlink EXCEPT ![ip] = @ - 1, ![d] = @ - up]
    BY <2>1, <2>2
  <2>4. Inodes(nl, type, en, {}, given)
    BY <1>4, <2>1, <2>3 DEF Remove, Bit
  <2>5. cwd' = cwd /\ file' = file
    BY DEF fileVars
  <2>6. /\ Alone(p) /\ Unlocked(p) /\ WalkTypes' /\ Place(p)' /\ Found(p)'
        /\ pc'[p] = "user" /\ at'[p] = None /\ src'[p] = None /\ Advancing(p)' = None
    BY <1>1, <2>5, Returned DEF FileInv
  <2>7. FilePart'
    BY <1>1, <1>2, <2>6, FilesQuiet DEF FileInv
  \* What the inodes become.
  <2>8. /\ nl \in [Inode -> Int] /\ nl[ip] = nlink[ip] - 1 /\ nl[d] = nlink[d] - up
        /\ \A i \in Inode : i # ip /\ i # d => nl[i] = nlink[i]
    BY <2>1, <2>2 DEF Bit
  <2>9. /\ en \in [Inode -> [Names -> Inode \cup {None}]]
        /\ \A i \in Inode, m \in Names :
             en[i][m] = IF i = d /\ m = n THEN None ELSE entry[i][m]
        /\ \A i \in Inode : i # d => en[i] = entry[i]
    BY <2>1, <2>2
  <2>10. \A m \in Name : entry[ip][m] = None
    <3>1. CASE type[ip] = "dir"
      BY <1>4, <2>1, <3>1
    <3>2. CASE type[ip] # "dir"
      BY <3>2, Basics DEF FileInv, TreePart, Directories, NoNames
    <3> QED
      BY <3>1, <3>2
  <2>11. type[ip] = "dir" => /\ entry[ip][".."] = d /\ nlink[ip] = 1 /\ nlink[d] > 1
                             /\ Live(ip)
    BY <2>1, <2>10, RemovedDirectory
  <2>12. nl[d] > 0 /\ (type[ip] = "dir" => nl[ip] = 0)
    BY <2>1, <2>2, <2>8, <2>11 DEF Bit, Live
  <2> DEFINE gone == ref'[ip] = 0 /\ nl[ip] = 0
  <2>13. /\ nlink' = nl
         /\ ref' = [i \in Inode |-> ref[i] + 0 - (IF i \in given THEN 1 ELSE 0)]
         /\ type' = [i \in Inode |-> IF i = ip /\ gone THEN "free" ELSE type[i]]
         /\ entry' = [i \in Inode |-> IF i = ip /\ gone THEN NoNames ELSE en[i]]
    <3>1. \A i \in given : nl[i] = 0 => i = ip
      BY <2>1, <2>12
    <3> QED
      BY <2>1, <2>2, <2>4, <3>1 DEF Inodes
  <2>14. /\ \A i \in Inode : i # ip => type'[i] = type[i] /\ entry'[i] = en[i]
         /\ gone => type'[ip] = "free" /\ entry'[ip] = NoNames
         /\ ~gone => type'[ip] = type[ip] /\ entry'[ip] = entry[ip]
    BY <2>1, <2>9, <2>13
  <2> HIDE DEF gone
  <2>15. InodeTypes'
    <3>1. NoNames \in [Names -> Inode \cup {None}] /\ "free" \in Kinds
      BY DEF NoNames, Kinds
    <3> QED
      BY <2>2, <2>8, <2>9, <2>13, <3>1 DEF InodeTypes
  <2>16. \A i \in Inode : ref[i] \in Int /\ i # None
                          /\ ref'[i] = ref[i] - Bit(d = i) - Bit(ip = i)
    BY <2>1, <2>2, <2>13, Basics DEF Bit
  <2>17. Balanced(p)
    <3>1. d = at[p] /\ ip = src[p]
      BY <2>1
    <3> QED
      BY ONLY <2>5, <2>6, <2>16, <3>1, OpensKept DEF Balanced, Bit
  <2>18. \A i \in Inode : ref'[i] = Holders(i)'
    BY <2>6, <2>17, HoldersMove DEF FileInv, References
  <2>19. References'
    <3>1. ASSUME NEW i \in Inode, i # ip, i # d
          PROVE  type'[i] = "free" <=> ref'[i] = 0 /\ nlink'[i] = 0
      <4>1. type[i] = "free" <=> ref[i] = 0 /\ nlink[i] = 0
        BY DEF FileInv, References
      <4> QED
        BY <2>8, <2>13, <2>14, <2>16, <3>1, <4>1 DEF Bit
    <3>2. type'[ip] = "free" <=> ref'[ip] = 0 /\ nlink'[ip] = 0
      BY <2>1, <2>13, <2>14 DEF gone
    <3>3. type'[d] # "free" /\ nlink'[d] # 0
      BY <2>1, <2>12, <2>13, <2>14 DEF Live
    <3> QED
      BY <2>18, <3>1, <3>2, <3>3 DEF References
  \* What the names become.
  <2>20. \A i \in Inode : Live(i)' <=> Live(i) /\ i # ip
    <3>1. ASSUME NEW i \in Inode, i # ip, i # d
          PROVE  Live(i)' <=> Live(i)
      BY <2>8, <2>13, <2>14, <3>1 DEF Live
    <3>2. Live(d)'
      BY <2>1, <2>12, <2>13, <2>14 DEF Live
    <3>3. ~Live(ip)'
      BY <2>12, <2>13, <2>14 DEF Live
    <3> QED
      BY <2>1, <3>1, <3>2, <3>3
  <2>21. \A i \in Inode, m \in Name :
           entry'[i][m] = IF i = d /\ m = n THEN None ELSE entry[i][m]
    <3>1. \A m \in Name : entry'[ip][m] = None
      BY <2>10, <2>14, Basics DEF NoNames
    <3> QED
      BY <2>1, <2>9, <2>10, <2>14, <3>1, Basics
  <2>22. \A i \in Inode : i # ip => entry'[i][".."] = entry[i][".."]
    BY <2>9, <2>14, Basics
  <2>23. Directories /\ OneName /\ Acyclic
    BY DEF FileInv, TreePart
  <2>24. \A b \in Inode : Live(b) => entry[b][".."] # ip
    BY <2>1, <2>10, EmptyDirectory
  <2>25. Directories'
    <3>1. ASSUME NEW i \in Inode
          PROVE  IF type'[i] = "dir" THEN entry'[i][".."] # None ELSE entry'[i] = NoNames
      <4>1. CASE i = ip
        BY <2>14, <2>23, <4>1 DEF Directories
      <4>2. CASE i = d
        BY <2>1, <2>14, <2>22, <2>23, <4>2 DEF Directories, Live
      <4>3. CASE i # ip /\ i # d
        BY <2>9, <2>14, <2>23, <4>3 DEF Directories
      <4> QED
        BY <4>1, <4>2, <4>3
    <3>2. Live(Root)' /\ entry'[Root][".."] = Root
      BY <2>1, <2>20, <2>22, <2>23, Basics DEF Directories
    <3>3. ASSUME NEW i \in Inode, NEW m \in Name
          PROVE  entry'[i][m] # Root /\ (entry'[i][m] # None => Live(i)')
      BY <2>10, <2>20, <2>21, <2>23, Basics DEF Directories
    <3>4. ASSUME NEW i \in Inode, Live(i)', i # Root
          PROVE  Live(entry[i][".."])' /\ \E m \in Name : entry'[entry'[i][".."]][m] = i
      <4>1. Live(i) /\ i # ip /\ entry'[i][".."] = entry[i][".."] /\ i # None
        BY <2>20, <2>22, <3>4, Basics
      <4>2. PICK m \in Name : entry[entry[i][".."]][m] = i
        BY <2>23, <3>4, <4>1 DEF Directories
      <4>3. Live(entry[i][".."]) /\ entry[i][".."] \in Inode /\ entry[i][".."] # ip
        <5>1. Live(entry[i][".."]) /\ entry[i][".."] # None
          BY <2>23, <3>4, <4>1 DEF Directories, Live
        <5>2. entry[i][".."] \in Inode \cup {None}
          BY <2>2, Basics
        <5> QED
          BY <2>24, <4>1, <5>1, <5>2
      <4>4. entry'[entry[i][".."]][m] = i
        BY <2>1, <2>21, <4>1, <4>2, <4>3
      <4>5. PICK b \in Inode : b = entry[i][".."]
        BY <4>3
      <4>6. Live(b)'
        BY <2>20, <4>3, <4>5
      <4> QED
        BY <4>1, <4>4, <4>5, <4>6 DEF Live
    <3> QED
      BY <3>1, <3>2, <3>3, <3>4 DEF Directories
  <2>26. OneName'
    <3>1. \A i, c \in Inode, m \in Name :
            /\ entry'[c][m] = i => entry[c][m] = i
            /\ type'[i] = "dir" => type[i] = "dir"
      BY <2>14, <2>21, Basics
    <3> QED
      BY <2>23, <3>1 DEF OneName
  <2>27. Acyclic'
    <3>1. ASSUME NEW S \in SUBSET Inode, \A i \in S : \E m \in Name : entry'[i][m] \in S
          PROVE  S = {}
      <4>1. \A i \in S : \E m \in Name : entry[i][m] \in S
        BY <2>21, <3>1, Basics
      <4> QED
        BY <2>23, <4>1 DEF Acyclic
    <3> QED
      BY <3>1 DEF Acyclic
  <2>28. Links'
    <3>1. ASSUME NEW i \in Inode
          PROVE  /\ nlink'[i] = Cardinality(NamesOf(i)') + Cardinality(Advance(i)')
                 /\ nlink'[i] <= NLINK_MAX
      <4>1. /\ Cardinality(NamesOf(i)) \in Nat /\ nlink[i] <= NLINK_MAX
            /\ nlink[i] = Cardinality(NamesOf(i)) + Cardinality(Advance(i))
            /\ IsFiniteSet(NamesOf(i)) /\ nlink[i] \in Nat
        BY NamesCounted
      <4> DEFINE x == <<d, n>>
                 y == <<ip, "..">>
                 less == NamesOf(i) \ {x}
      <4>2. x # y
        BY <2>1
      <4>3. (x \in NamesOf(i) <=> i = ip) /\ (y \in NamesOf(i) <=> type[ip] = "dir" /\ i = d)
        <5>1. x \in NamesOf(i) <=> i = ip
          BY <2>1 DEF NamesOf
        <5>2. y \in NamesOf(i) <=> Live(ip) /\ entry[ip][".."] = i
          BY Basics DEF NamesOf
        <5>3. Live(ip) => type[ip] = "dir"
          BY DEF Live
        <5> QED
          BY <2>11, <5>1, <5>2, <5>3
      <4>4. NamesOf(i)' = less \ {y}
        <5>1. ASSUME NEW b \in Inode, NEW m \in Names
              PROVE  <<b, m>> \in NamesOf(i)' <=> <<b, m>> \in less \ {y}
          <6>1. CASE b = ip
            <7>1. <<b, m>> \notin NamesOf(i)'
              BY <2>20, <6>1 DEF NamesOf
            <7>2. m # ".." => <<b, m>> \notin NamesOf(i)
              BY <2>10, <6>1, Basics DEF NamesOf, Names
            <7> QED
              BY <6>1, <7>1, <7>2
          <6>2. CASE b # ip
            <7>1. entry'[b] = en[b] /\ (Live(b)' <=> Live(b))
              BY <2>14, <2>20, <6>2
            <7> QED
              BY <2>9, <2>16, <6>2, <7>1 DEF NamesOf
          <6> QED
            BY <6>1, <6>2
        <5>2. \A z \in NamesOf(i)' : \E b \in Inode, m \in Names : z = <<b, m>>
          BY DEF NamesOf
        <5>3. \A z \in less \ {y} : \E b \in Inode, m \in Names : z = <<b, m>>
          BY DEF NamesOf
        <5> HIDE DEF x, y, less
        <5> QED
          BY <5>1, <5>2, <5>3
      <4> HIDE DEF x, y
      <4>5. /\ IsFiniteSet(less) /\ Cardinality(less) = Cardinality(NamesOf(i)) - Bit(i = ip)
        BY <4>1, <4>3, FS_RemoveElement DEF Bit
      <4>6. y \in less <=> type[ip] = "dir" /\ i = d
        BY <4>2, <4>3
      <4> HIDE DEF less
      <4>7. Cardinality(NamesOf(i)') = Cardinality(less) - Bit(type[ip] = "dir" /\ i = d)
        <5>1. Cardinality(less) \in Nat
          BY <4>5, FS_CardinalityType
        <5>2. Cardinality(less \ {y}) = IF y \in less THEN Cardinality(less) - 1
                                         ELSE Cardinality(less)
          BY <4>5, FS_RemoveElement
        <5> QED
          BY <4>4, <4>6, <5>1, <5>2 DEF Bit
      <4>8. /\ Cardinality(Advance(i)) \in Nat /\ Cardinality(Advance(i)') = Cardinality(Advance(i))
        BY <1>2, <2>6, AdvanceMoves, Basics DEF Bit
      <4>9. nlink'[i] = nlink[i] - Bit(i = ip) - Bit(type[ip] = "dir" /\ i = d)
        BY <2>1, <2>8, <2>13, <4>1 DEF Bit
      <4>10. NLINK_MAX \in Int
        BY FilesAssumption
      <4> QED
        BY <4>1, <4>5, <4>7, <4>8, <4>9, <4>10 DEF Bit
    <3> QED
      BY <3>1 DEF Links
  <2>29. TreePart'
    BY <2>25, <2>26, <2>27, <2>28 DEF TreePart
  <2>30. Steady(p)
    <3>1. ASSUME NEW q \in Proc, q # p, NEW i \in Inode, at[q] = i \/ src[q] = i
          PROVE  type'[i] = type[i] /\ (i # d => entry'[i] = entry[i])
      <4>1. ref'[i] > 0
        BY <2>6, <2>18, <3>1, HolderCountsNext DEF Counted, Alone
      <4>2. ~(i = ip /\ gone)
        BY <4>1 DEF gone
      <4> QED
        BY <2>9, <2>14, <4>2
    <3>2. ASSUME NEW q \in Proc
          PROVE  /\ at[q] \in Inode \cup {None} /\ src[q] \in Inode \cup {None}
                 /\ pc[q] = "remove" => at[q] \in Inode
      BY Placed DEF AtInode
    <3>3. ASSUME NEW q \in Proc, q # p, pc[q] = "remove"
          PROVE  at[q] # d
      BY <1>1, <2>1, <3>3 DEF FileInv, OneLocker, Holding
    <3> QED
      BY <3>1, <3>2, <3>3 DEF Steady
  <2> QED
    BY <2>6, <2>7, <2>15, <2>19, <2>29, <2>30, CallStep
<1> QED
  BY <1>3, <1>4

-------------------------------------------------------------------------------
(***************************************************************************)
(* create()                                                                *)
(***************************************************************************)

\* Nothing refers to a free inode, and no name leads to it.
LEMMA FreeInode ==
  ASSUME FileInv, NEW ip \in Inode, type[ip] = "free"
  PROVE  /\ ref[ip] = 0 /\ nlink[ip] = 0 /\ ip # Root
         /\ \A q \in Proc : at[q] # ip /\ src[q] # ip /\ cwd[q] # ip
         /\ entry[ip] = NoNames /\ ~Live(ip)
         /\ NamesOf(ip) = {} /\ Advance(ip) = {}
         /\ \A b \in Inode, m \in Name : entry[b][m] # ip
<1>1. ref[ip] = 0 /\ nlink[ip] = 0
  BY DEF FileInv, References
<1>2. \A q \in Proc : at[q] # ip /\ src[q] # ip /\ cwd[q] # ip
  BY Placed
<1>3. entry[ip] = NoNames /\ ip # Root
  BY DEF FileInv, TreePart, Directories, Live
<1>4. NamesOf(ip) = {} /\ Advance(ip) = {}
  BY NamesCounted
<1>5. ASSUME NEW b \in Inode, NEW m \in Name, entry[b][m] = ip
      PROVE  FALSE
  <2>1. Live(b)
    BY <1>5, Basics DEF FileInv, TreePart, Directories
  <2>2. <<b, m>> \in NamesOf(ip)
    BY <1>5, <2>1, Basics DEF NamesOf
  <2> QED
    BY <1>4, <2>2
<1> QED
  BY <1>1, <1>2, <1>3, <1>4, <1>5 DEF Live

\* Where create() goes on.
LEMMA NewInodeWalk ==
  ASSUME FileInv, NEW p \in Proc, pc[p] = "create", NEW ip \in Inode, type[ip] = "free",
         NewInode(p, ip), UNCHANGED fileVars
  PROVE  /\ Alone(p) /\ Unlocked(p) /\ WalkTypes' /\ FilePart' /\ Place(p)' /\ Found(p)'
         /\ Makes(p) \in {"dir", "device", "file"} /\ src[p] = None /\ src'[p] = None
         /\ at'[p] = IF Makes(p) = "file" THEN ip ELSE None
         /\ Advancing(p) = None /\ Advancing(p)' = None
<1>1. /\ at[p] \in Inode /\ Place(p) /\ cwd[p] # None /\ src[p] = None
      /\ call[p].op \in Makers /\ call[p] # NoCall
  BY Placed DEF AtInode, Place, Resting
<1>2. cwd' = cwd /\ WalkTypes
  BY DEF fileVars, FileInv
<1>3. Makes(p) \in {"dir", "device", "file"}
  BY DEF Makes
<1>4. CASE Makes(p) = "file"
  <2>1. Continue(p, "opening", ip) /\ "opening" \in AtInode
    BY <1>4 DEF NewInode, AtInode
  <2>2. /\ Alone(p) /\ WalkTypes' /\ pc'[p] = "opening" /\ at'[p] = ip /\ src'[p] = src[p]
        /\ path'[p] = path[p] /\ call'[p] = call[p]
    BY <1>2, <2>1, Continued
  <2>3. FilePart'
    BY <1>1, <2>2, FilesQuiet DEF FileInv
  <2>4. Place(p)'
    BY <1>1, <2>2, Basics DEF Place, AtInode, Resting
  <2>5. Found(p)' /\ Unlocked(p)
    BY <1>1, <2>2, FreeInode DEF Found, Unlocked
  <2> QED
    BY <1>1, <1>4, <2>2, <2>3, <2>4, <2>5 DEF Advancing
<1>5. CASE Makes(p) # "file"
  <2>1. Return(p)
    BY <1>5 DEF NewInode
  <2>2. /\ Alone(p) /\ Unlocked(p) /\ WalkTypes' /\ Place(p)' /\ Found(p)'
        /\ pc'[p] = "user" /\ at'[p] = None /\ src'[p] = None /\ Advancing(p)' = None
    BY <1>2, <2>1, Returned
  <2>3. FilePart'
    BY <1>1, <2>2, FilesQuiet DEF FileInv
  <2> QED
    BY <1>1, <1>3, <1>5, <2>2, <2>3 DEF Advancing
<1> QED
  BY <1>4, <1>5

\* create() gives a free inode a name, and a directory its "..".
LEMMA NewInodeStep ==
  ASSUME FileInv, NEW p \in Proc, pc[p] = "create", ~Locked(at[p]),
         nlink[at[p]] # 0, ~(Makes(p) = "dir" /\ nlink[at[p]] >= NLINK_MAX),
         Lookup(at[p], Last(p)) = None,
         NEW ip \in Inode, type[ip] = "free", NewInode(p, ip), UNCHANGED fileVars
  PROVE  FileInv'
<1>1. /\ at[p] \in Inode /\ type[at[p]] = "dir" /\ path[p] \in Seq(Words) /\ path[p] # <<>>
  BY Placed DEF AtInode, Place, Found, FileInv, WalkTypes
<1> PICK d \in Inode : d = at[p]
  BY <1>1
<1> PICK n \in Words : n = Last(p)
  BY <1>1 DEF Last
<1> PICK t : t = Makes(p)
  OBVIOUS
<1> PICK up : up = IF t = "dir" THEN 1 ELSE 0
  OBVIOUS
<1> PICK parent : parent = IF t = "dir" THEN d ELSE None
  OBVIOUS
<1> PICK nl : nl = [nlink EXCEPT ![ip] = 1, ![d] = @ + up]
  OBVIOUS
<1> PICK ty : ty = [type EXCEPT ![ip] = t]
  OBVIOUS
<1> PICK en : en = [entry EXCEPT ![d][n] = ip, ![ip][".."] = parent]
  OBVIOUS
<1> PICK taken \in SUBSET Inode : taken = IF t = "file" THEN {ip} ELSE {}
  OBVIOUS
<1> PICK given \in SUBSET Inode : given = {d}
  OBVIOUS
<1>2. Inodes(nl, ty, en, taken, given)
  BY DEF NewInode
<1>3. /\ Alone(p) /\ Unlocked(p) /\ WalkTypes' /\ FilePart' /\ Place(p)' /\ Found(p)'
      /\ t \in {"dir", "device", "file"} /\ src[p] = None /\ src'[p] = None
      /\ at'[p] = IF t = "file" THEN ip ELSE None
      /\ Advancing(p) = None /\ Advancing(p)' = None
  BY NewInodeWalk
<1>4. /\ type \in [Inode -> Kinds] /\ nlink \in [Inode -> Int] /\ ref \in [Inode -> Int]
      /\ entry \in [Inode -> [Names -> Inode \cup {None}]]
  BY DEF FileInv, InodeTypes
<1>5. /\ ref[ip] = 0 /\ nlink[ip] = 0 /\ ip # Root
      /\ \A q \in Proc : at[q] # ip /\ src[q] # ip /\ cwd[q] # ip
      /\ entry[ip] = NoNames /\ ~Live(ip)
      /\ NamesOf(ip) = {} /\ Advance(ip) = {}
      /\ \A b \in Inode, m \in Name : entry[b][m] # ip
  BY FreeInode
<1>6. /\ n \in Name /\ n \in Names /\ entry[d][n] = None /\ Live(d) /\ d # ip
      /\ nlink[d] \in Nat /\ nlink[d] > 0 /\ ip # None /\ d # None
      /\ parent \in Inode \cup {None} /\ up = Bit(t = "dir")
  <2>1. n \in Name /\ entry[d][n] = None /\ Live(d)
    BY <1>1, FreeName
  <2> QED
    BY <1>5, <2>1, NamesCounted, Basics DEF Live, Bit
\* What the inodes become.
<1>7. /\ nl \in [Inode -> Int] /\ nl[ip] = 1 /\ nl[d] = nlink[d] + up
      /\ \A i \in Inode : i # ip /\ i # d => nl[i] = nlink[i]
  BY <1>4, <1>6 DEF Bit
<1>8. /\ ty \in [Inode -> Kinds] /\ ty[ip] = t
      /\ \A i \in Inode : i # ip => ty[i] = type[i]
  BY <1>3, <1>4 DEF Kinds
<1>9. /\ en \in [Inode -> [Names -> Inode \cup {None}]]
      /\ \A i \in Inode : i # ip /\ i # d => en[i] = entry[i]
      /\ \A m \in Names : en[d][m] = IF m = n THEN ip ELSE entry[d][m]
      /\ \A m \in Names : en[ip][m] = IF m = ".." THEN parent ELSE entry[ip][m]
  BY <1>4, <1>6, Basics
<1>10. \A m \in Names : entry[ip][m] = None
  BY <1>5 DEF NoNames
<1>11. /\ nlink' = nl /\ type' = ty /\ entry' = en
       /\ ref' = [i \in Inode |-> ref[i] + (IF i \in taken THEN 1 ELSE 0)
                                         - (IF i \in given THEN 1 ELSE 0)]
  <2>1. \A i \in given : nl[i] # 0
    BY <1>6, <1>7 DEF Bit
  <2> QED
    BY <1>2, <1>7, <1>8, <1>9, <2>1 DEF Inodes
<1>12. InodeTypes'
  <2>1. ref' \in [Inode -> Int]
    BY <1>4, <1>11
  <2> QED
    BY <1>7, <1>8, <1>9, <1>11, <2>1 DEF InodeTypes
<1>13. \A i \in Inode : /\ ref[i] \in Int /\ i # None
                        /\ ref'[i] = ref[i] + Bit(t = "file" /\ ip = i) - Bit(d = i)
  BY <1>4, <1>11, Basics DEF Bit
<1>14. Balanced(p)
  <2>1. d = at[p] /\ cwd' = cwd /\ file' = file
    BY DEF fileVars
  <2> QED
    BY ONLY <1>3, <1>13, <2>1, OpensKept DEF Balanced, Bit
<1>15. \A i \in Inode : ref'[i] = Holders(i)'
  BY <1>3, <1>14, HoldersMove DEF FileInv, References
<1>16. References'
  <2>1. ASSUME NEW i \in Inode, i # ip, i # d
        PROVE  type'[i] = "free" <=> ref'[i] = 0 /\ nlink'[i] = 0
    <3>1. type[i] = "free" <=> ref[i] = 0 /\ nlink[i] = 0
      BY DEF FileInv, References
    <3> QED
      BY <1>7, <1>8, <1>11, <1>13, <2>1, <3>1 DEF Bit
  <2>2. type'[ip] # "free" /\ nlink'[ip] # 0
    BY <1>3, <1>7, <1>8, <1>11
  <2>3. type'[d] # "free" /\ nlink'[d] # 0
    BY <1>1, <1>6, <1>7, <1>8, <1>11 DEF Bit
  <2> QED
    BY <1>15, <2>1, <2>2, <2>3 DEF References
\* What the names become.
<1>17. \A i \in Inode : Live(i)' <=> Live(i) \/ (i = ip /\ t = "dir")
  <2>1. ASSUME NEW i \in Inode, i # ip, i # d
        PROVE  Live(i)' <=> Live(i)
    BY <1>7, <1>8, <1>11, <2>1 DEF Live
  <2>2. Live(d)'
    BY <1>1, <1>6, <1>7, <1>8, <1>11 DEF Live, Bit
  <2>3. Live(ip)' <=> t = "dir"
    BY <1>7, <1>8, <1>11 DEF Live
  <2> QED
    BY <1>5, <1>6, <2>1, <2>2, <2>3
<1>18. \A i \in Inode, m \in Name :
         entry'[i][m] = IF i = d /\ m = n THEN ip ELSE entry[i][m]
  BY <1>6, <1>9, <1>10, <1>11, Basics
<1>19. /\ \A i \in Inode : i # ip => entry'[i][".."] = entry[i][".."]
       /\ entry'[ip][".."] = parent
  BY <1>6, <1>9, <1>11, Basics
<1>20. Directories /\ OneName /\ Acyclic
  BY DEF FileInv, TreePart
<1>21. Directories'
  <2>1. ASSUME NEW i \in Inode
        PROVE  IF type'[i] = "dir" THEN entry'[i][".."] # None ELSE entry'[i] = NoNames
    <3>1. CASE i = ip /\ t = "dir"
      BY <1>6, <1>8, <1>11, <1>19, <3>1
    <3>2. CASE i = ip /\ t # "dir"
      <4>1. \A m \in Names : en[ip][m] = None
        BY <1>9, <1>10, <3>2
      <4>2. en[ip] = [m \in Names |-> en[ip][m]]
        BY <1>9
      <4>3. en[ip] = NoNames
        BY <4>1, <4>2 DEF NoNames
      <4> QED
        BY <1>8, <1>11, <3>2, <4>3
    <3>3. CASE i = d
      <4>1. entry[d][".."] # None
        BY <1>1, <1>20 DEF Directories
      <4>2. type'[d] = "dir" /\ entry'[d][".."] = entry[d][".."]
        BY <1>1, <1>6, <1>8, <1>11, <1>19
      <4> QED
        BY <3>3, <4>1, <4>2
    <3>4. CASE i # ip /\ i # d
      BY <1>8, <1>9, <1>11, <1>20, <3>4 DEF Directories
    <3> QED
      BY <3>1, <3>2, <3>3, <3>4
  <2>2. Live(Root)' /\ entry'[Root][".."] = Root
    BY <1>5, <1>17, <1>19, <1>20, Basics DEF Directories
  <2>3. ASSUME NEW i \in Inode, NEW m \in Name
        PROVE  entry'[i][m] # Root /\ (entry'[i][m] # None => Live(i)')
    BY <1>5, <1>6, <1>17, <1>18, <1>20 DEF Directories
  <2>4. ASSUME NEW i \in Inode, Live(i)', i # Root
        PROVE  Live(entry[i][".."])' /\ \E m \in Name : entry'[entry'[i][".."]][m] = i
    <3>1. CASE i = ip
      <4>1. t = "dir" /\ entry'[i][".."] = d
        BY <1>5, <1>17, <1>19, <2>4, <3>1
      <4>2. Live(d)' /\ entry'[d][n] = i
        BY <1>6, <1>17, <1>18, <3>1
      <4> QED
        BY <1>6, <4>1, <4>2 DEF Live
    <3>2. CASE i # ip
      <4>1. Live(i) /\ entry'[i][".."] = entry[i][".."] /\ i # None
        BY <1>17, <1>19, <2>4, <3>2, Basics
      <4>2. PICK m \in Name : entry[entry[i][".."]][m] = i
        BY <1>20, <2>4, <4>1 DEF Directories
      <4>3. Live(entry[i][".."]) /\ entry[i][".."] \in Inode
        <5>1. Live(entry[i][".."]) /\ entry[i][".."] # None
          BY <1>20, <2>4, <4>1 DEF Directories, Live
        <5>2. entry[i][".."] \in Inode \cup {None}
          BY <1>4, Basics
        <5> QED
          BY <5>1, <5>2
      <4>4. PICK b \in Inode : b = entry[i][".."]
        BY <4>3
      <4>5. entry'[b][m] = i /\ Live(b)'
        BY <1>6, <1>17, <1>18, <4>1, <4>2, <4>3, <4>4
      <4> QED
        BY <4>1, <4>4, <4>5 DEF Live
    <3> QED
      BY <3>1, <3>2
  <2> QED
    BY <2>1, <2>2, <2>3, <2>4 DEF Directories
<1>22. OneName'
  <2> SUFFICES ASSUME NEW i \in Inode, NEW b \in Inode, NEW c \in Inode,
                      NEW m \in Name, NEW k \in Name,
                      type'[i] = "dir", entry'[b][m] = i, entry'[c][k] = i
               PROVE  b = c /\ m = k
    BY DEF OneName
  <2>1. CASE i = ip
    BY <1>5, <1>18, <2>1
  <2>2. CASE i # ip
    <3>1. type[i] = "dir"
      BY <1>8, <1>11, <2>2
    <3>2. entry[b][m] = i /\ entry[c][k] = i
      BY <1>18, <2>2
    <3> QED
      BY <1>20, <3>1, <3>2 DEF OneName
  <2> QED
    BY <2>1, <2>2
<1>23. Acyclic'
  <2>1. ASSUME NEW S \in SUBSET Inode, \A i \in S : \E m \in Name : entry'[i][m] \in S
        PROVE  S = {}
    <3>1. ip \notin S
      <4>1. \A m \in Name : entry'[ip][m] = None
        BY <1>6, <1>10, <1>18, Basics
      <4> QED
        BY <2>1, <4>1, Basics
    <3>2. \A i \in S : \E m \in Name : entry[i][m] \in S
      BY <1>18, <2>1, <3>1
    <3> QED
      BY <1>20, <3>2 DEF Acyclic
  <2> QED
    BY <2>1 DEF Acyclic
<1>24. Links'
  <2>1. ASSUME NEW i \in Inode
        PROVE  /\ nlink'[i] = Cardinality(NamesOf(i)') + Cardinality(Advance(i)')
               /\ nlink'[i] <= NLINK_MAX
    <3>1. /\ Cardinality(NamesOf(i)) \in Nat /\ nlink[i] <= NLINK_MAX
          /\ nlink[i] = Cardinality(NamesOf(i)) + Cardinality(Advance(i))
          /\ IsFiniteSet(NamesOf(i)) /\ nlink[i] \in Nat
      BY NamesCounted
    <3> DEFINE x == <<d, n>>
               y == <<ip, "..">>
    <3>2. x # y
      BY <1>6
    <3>3. x \notin NamesOf(i) /\ y \notin NamesOf(i)
      BY <1>5, <1>6, <1>13 DEF NamesOf
    <3>4. x \in NamesOf(i)' <=> i = ip
      BY <1>6, <1>17, <1>18 DEF NamesOf
    <3>5. y \in NamesOf(i)' <=> t = "dir" /\ i = d
      <4>1. y \in NamesOf(i)' <=> Live(ip)' /\ entry'[ip][".."] = i
        BY Basics DEF NamesOf
      <4> QED
        BY <1>5, <1>17, <1>19, <4>1
    <3>6. NamesOf(i) \ {x, y} = NamesOf(i)' \ {x, y}
      <4>1. ASSUME NEW b \in Inode, NEW m \in Names, <<b, m>> # x, <<b, m>> # y
            PROVE  <<b, m>> \in NamesOf(i)' <=> <<b, m>> \in NamesOf(i)
        <5>1. CASE b = ip
          <6>1. m # ".."
            BY <4>1, <5>1
          <6>2. entry'[ip][m] = None /\ entry[ip][m] = None
            BY <1>9, <1>10, <1>11, <6>1
          <6> QED
            BY <1>13, <5>1, <6>2 DEF NamesOf
        <5>2. CASE b = d
          BY <1>6, <1>9, <1>11, <1>17, <4>1, <5>2 DEF NamesOf
        <5>3. CASE b # ip /\ b # d
          BY <1>9, <1>11, <1>17, <5>3 DEF NamesOf
        <5> QED
          BY <5>1, <5>2, <5>3
      <4>2. \A z \in NamesOf(i)' \cup NamesOf(i) : \E b \in Inode, m \in Names : z = <<b, m>>
        BY DEF NamesOf
      <4> HIDE DEF x, y
      <4> QED
        BY <4>1, <4>2
    <3> HIDE DEF x, y
    <3>7. Cardinality(NamesOf(i)') = Cardinality(NamesOf(i)) + Bit(i = ip)
                                      + Bit(t = "dir" /\ i = d)
      BY <3>1, <3>2, <3>3, <3>4, <3>5, <3>6, ToggleTwo DEF Bit
    <3>8. /\ Cardinality(Advance(i)) \in Nat /\ Cardinality(Advance(i)') = Cardinality(Advance(i))
      BY <1>3, AdvanceMoves, Basics DEF Bit
    <3>9. nlink'[i] = nlink[i] + Bit(i = ip) + Bit(t = "dir" /\ i = d)
      BY <1>5, <1>6, <1>7, <1>11, <3>1 DEF Bit
    <3>10. NLINK_MAX \in Int /\ NLINK_MAX >= 3
      BY FilesAssumption
    <3>11. t = "dir" => nlink[d] < NLINK_MAX
      BY <1>6, <3>10
    <3> QED
      BY <1>5, <1>6, <3>1, <3>7, <3>8, <3>9, <3>10, <3>11 DEF Bit
  <2> QED
    BY <2>1 DEF Links
<1>25. TreePart'
  BY <1>21, <1>22, <1>23, <1>24 DEF TreePart
<1>26. Steady(p)
  <2>1. ASSUME NEW q \in Proc
        PROVE  /\ at[q] \in Inode \cup {None} /\ src[q] \in Inode \cup {None}
               /\ pc[q] = "remove" => at[q] \in Inode /\ at[q] # d /\ at[q] # ip
    BY <1>5, Placed DEF AtInode, Locked
  <2> QED
    BY <1>5, <1>8, <1>9, <1>11, <2>1 DEF Steady
<1> QED
  BY <1>3, <1>12, <1>16, <1>25, <1>26, CallStep

\* create(), with its ways to fail.
LEMMA CreateStep ==
  ASSUME FileInv, NEW p \in Proc, Create(p), UNCHANGED fileVars
  PROVE  FileInv'
<1>1. /\ pc[p] = "create" /\ ~Locked(at[p]) /\ at[p] \in Inode /\ type[at[p]] = "dir"
      /\ Place(p) /\ src[p] = None /\ path[p] \in Seq(Words) /\ path[p] # <<>>
      /\ call[p].op \in Makers /\ call[p] # NoCall
  BY Placed DEF Create, AtInode, Place, Found, FileInv, WalkTypes, Resting
<1> PICK d \in Inode : d = at[p]
  BY <1>1
<1> PICK n \in Words : n = Last(p)
  BY <1>1 DEF Last
<1> PICK found : found = Lookup(d, n)
  OBVIOUS
<1>2. CASE Fail(p)
  BY <1>1, <1>2, FailStep DEF AtInode
<1>3. CASE found # None /\ Refer({found}, {d}) /\ Continue(p, "exists", found)
  <2>1. found \in Inode /\ type[found] # "free"
    BY <1>1, <1>3, LookupFound
  <2>2. WalkTypes /\ UNCHANGED cwd /\ "exists" \in AtInode
    BY DEF FileInv, fileVars, AtInode
  <2>3. /\ pc'[p] = "exists" /\ at'[p] = found /\ src'[p] = src[p] /\ path'[p] = path[p]
        /\ call'[p] = call[p]
    BY <1>3, <2>1, <2>2, Continued
  <2>4. Place(p)'
    BY <1>1, <2>1, <2>3, Basics DEF Place, AtInode, Resting
  <2>5. Founded(p) /\ Unlocked(p)
    BY <1>1, <2>3 DEF Founded, Unlocked, Holding
  <2>6. Refer({found}, {at[p]}) /\ Continue(p, "exists", found)
    BY <1>3
  <2> QED
    BY <1>1, <2>1, <2>4, <2>5, <2>6, ContinueStep DEF AtInode
<1>4. CASE /\ nlink[d] # 0 /\ ~(Makes(p) = "dir" /\ nlink[d] >= NLINK_MAX)
           /\ found = None /\ Unused # {} /\ NewInode(p, Min(Unused))
  <2>1. Unused \in SUBSET Nat
    BY FilesAssumption DEF Unused
  <2>2. Min(Unused) \in Unused
    BY <1>4, <2>1, LeastIn
  <2>3. PICK ip \in Inode : ip = Min(Unused) /\ type[ip] = "free"
    BY <2>2 DEF Unused
  <2> QED
    BY <1>1, <1>4, <2>3, NewInodeStep
<1> QED
  BY <1>2, <1>3, <1>4 DEF Create

-------------------------------------------------------------------------------
(***************************************************************************)
(* Calls without paths: what their steps share                             *)
(***************************************************************************)
LEMMA FilesStep ==
  ASSUME FileInv, NEW p \in Proc, Referral, Balanced(p), UNCHANGED walkVars, Alone(p),
         pc \in [Proc -> AtInode \cup Resting \cup {"undo"}]
           => pc' \in [Proc -> AtInode \cup Resting \cup {"undo"}],
         pc[p] \in Resting, pc'[p] \in Resting, FilePart'
  PROVE  FileInv'
<1>1. call' = call /\ at' = at /\ path' = path /\ src' = src
  BY DEF walkVars
<1>2. Place(p)
  BY Placed
<1>3. at[p] = None /\ src[p] = None /\ call[p] = NoCall
  BY <1>2 DEF Place, AtInode, Resting
<1>4. WalkTypes'
  BY <1>1 DEF FileInv, WalkTypes
<1>5. NoCall.op = "none"
  BY DEF NoCall
<1>6. pc[p] \notin AtInode /\ pc'[p] \notin AtInode
      /\ pc'[p] \notin {"walk", "target", "link", "undo", "remove", "unlink", "create", "opening"}
  BY DEF Resting, AtInode
<1>7. Place(p)'
  BY <1>1, <1>3, <1>5, <1>6 DEF Place
<1>8. Founded(p) /\ Unlocked(p) /\ Advancing(p)' = Advancing(p)
  BY <1>1, <1>3, <1>6 DEF Founded, Unlocked, Holding, Advancing
<1> QED
  BY <1>4, <1>7, <1>8, QuietStep

\* A step that moves references among descriptors and pipe ends, and p among the
\* places that hold no inode.
LEMMA FilesOnlyStep ==
  ASSUME FileInv, NEW p \in Proc, NEW l \in Resting, pc' = [pc EXCEPT ![p] = l],
         UNCHANGED <<inodeVars, walkVars, cwd>>, pc[p] \in Resting,
         \A i \in Inode : Cardinality(Opens(i)') = Cardinality(Opens(i)), FilePart'
  PROVE  FileInv'
<1>1. /\ call' = call /\ at' = at /\ path' = path /\ src' = src /\ cwd' = cwd /\ ref' = ref
      /\ UNCHANGED inodeVars /\ UNCHANGED walkVars
  BY DEF walkVars, inodeVars
<1>2. pc \in [Proc -> AtInode \cup Resting \cup {"undo"}] /\ ref \in [Inode -> Int]
  BY DEF FileInv, WalkTypes, InodeTypes
<1>3. /\ pc' \in [Proc -> AtInode \cup Resting \cup {"undo"}] /\ pc'[p] = l
      /\ \A q \in Proc : q # p => pc'[q] = pc[q]
  BY <1>2
<1>4. Alone(p)
  BY <1>1, <1>3 DEF Alone
<1>5. Referral
  BY <1>1, Unreferred DEF Referral
<1>6. Balanced(p)
  <2>1. \A i \in Inode : Cardinality(Opens(i)) \in Nat
    BY Finite, FS_Subset, FS_CardinalityType DEF Opens
  <2> QED
    BY <1>1, <1>2, <2>1 DEF Balanced, Bit
<1> QED
  BY <1>1, <1>3, <1>4, <1>5, <1>6, FilesStep

\* Without a change of the files no inode loses an open file.
LEMMA OpenCountKept ==
  ASSUME UNCHANGED file
  PROVE  \A i \in Inode : Cardinality(Opens(i)') = Cardinality(Opens(i))
BY DEF Opens

\* What is not exec() leaves the pages alone.
LEMMA PagesKept ==
  ASSUME PagesHeld, NEW p \in Proc, UNCHANGED pageVars,
         \A q \in Proc : q # p => pc'[q] = pc[q],
         pc[p] \notin {"args", "free"} \/ pc'[p] \in {"args", "free"}
  PROVE  PagesHeld'
BY DEF PagesHeld, ArgPages, pageVars

\* The ends of the pipes stay without an inode.
LEMMA PipesKept ==
  ASSUME Pipes, UNCHANGED ends, \A q \in Proc : pc'[q] = "pipe" <=> pc[q] = "pipe",
         \A q \in Proc : \A f \in ends[q] : file'[f].ip = None
  PROVE  Pipes'
BY DEF Pipes

-------------------------------------------------------------------------------
(***************************************************************************)
(* exec()                                                                  *)
(***************************************************************************)
LEMMA BeginStep ==
  ASSUME FileInv, NEW p \in Proc, Begin(p)
  PROVE  FileInv'
<1>1. PICK l \in {"args", "exit"} : pc' = [pc EXCEPT ![p] = l]
  BY DEF Begin, Goto
<1>2. /\ pc[p] = "user" /\ cwd[p] # None /\ UNCHANGED <<inodeVars, walkVars, cwd>>
      /\ UNCHANGED fileVars /\ file' = file
  BY DEF Begin, Enter, fileVars
<1>3. pc \in [Proc -> AtInode \cup Resting \cup {"undo"}]
  BY DEF FileInv, WalkTypes
<1>4. pc'[p] = l /\ \A q \in Proc : q # p => pc'[q] = pc[q]
  BY <1>1, <1>3
<1>5. /\ file' = file /\ ofile' = ofile /\ cwd' = cwd /\ ends' = ends /\ args' = args
      /\ freePages' = freePages
  BY <1>2 DEF fileVars, pageVars
<1>6. FileTypes' /\ FilesHeld'
  BY <1>5 DEF FileInv, FilePart, FileTypes, FilesHeld, Slots, Makings
<1>7. Pipes'
  BY <1>2, <1>4, <1>5 DEF FileInv, FilePart, Pipes
<1>8. Unstarted'
  BY <1>2, <1>4, <1>5 DEF FileInv, FilePart, Unstarted
<1>9. PagesHeld'
  BY <1>2, <1>4, <1>5, PagesKept DEF FileInv, FilePart, pageVars
<1>10. FilePart'
  BY <1>6, <1>7, <1>8, <1>9 DEF FilePart
<1>11. \A i \in Inode : Cardinality(Opens(i)') = Cardinality(Opens(i))
  BY <1>2, OpenCountKept
<1> QED
  BY <1>1, <1>2, <1>10, <1>11, FilesOnlyStep DEF Resting

\* exec() only moves pages between the allocator and its arguments.
LEMMA PagesStep ==
  ASSUME FileInv, NEW p \in Proc, NEW l \in {"args", "free", "user"},
         pc[p] \in {"args", "free"}, pc' = [pc EXCEPT ![p] = l],
         UNCHANGED <<inodeVars, file, ofile, cwd, walkVars, ends>>,
         args' \in [Proc -> 0 .. MAXARG], freePages' \in Int, PagesHeld'
  PROVE  FileInv'
<1>1. pc \in [Proc -> AtInode \cup Resting \cup {"undo"}]
  BY DEF FileInv, WalkTypes
<1>2. pc'[p] = l /\ \A q \in Proc : q # p => pc'[q] = pc[q]
  BY <1>1
<1>3. /\ file' = file /\ ofile' = ofile /\ cwd' = cwd /\ ends' = ends
      /\ UNCHANGED <<inodeVars, walkVars, cwd>>
  OBVIOUS
<1>4. FileTypes' /\ FilesHeld'
  BY <1>3 DEF FileInv, FilePart, FileTypes, FilesHeld, Slots, Makings
<1>5. Pipes'
  BY <1>2, <1>3 DEF FileInv, FilePart, Pipes
<1>6. cwd[p] # None
  BY Placed
<1>7. Unstarted'
  BY <1>2, <1>3, <1>6 DEF FileInv, FilePart, Unstarted
<1>8. FilePart'
  BY <1>4, <1>5, <1>7 DEF FilePart
<1>9. \A i \in Inode : Cardinality(Opens(i)') = Cardinality(Opens(i))
  BY <1>3, OpenCountKept
<1> QED
  BY <1>3, <1>8, <1>9, FilesOnlyStep DEF Resting

\* A page moves from the allocator to the arguments.
LEMMA ExecArgStep ==
  ASSUME FileInv, NEW p \in Proc, ExecArg(p),
         UNCHANGED <<inodeVars, file, ofile, cwd, walkVars, ends>>
  PROVE  FileInv'
<1>1. /\ args \in [Proc -> 0 .. MAXARG] /\ freePages \in Int /\ pc[p] = "args"
      /\ MAXARG \in Nat /\ pc \in [Proc -> AtInode \cup Resting \cup {"undo"}]
  BY FilesAssumption DEF FileInv, FilePart, FileTypes, ExecArg, WalkTypes
<1>2. CASE UNCHANGED pageVars /\ Goto(p, "free")
  <2>1. args' = args /\ freePages' = freePages /\ pc' = [pc EXCEPT ![p] = "free"]
    BY <1>2 DEF pageVars, Goto
  <2>2. pc'[p] = "free" /\ \A q \in Proc : q # p => pc'[q] = pc[q]
    BY <1>1, <2>1
  <2>3. PagesHeld'
    BY <1>2, <2>2, PagesKept DEF FileInv, FilePart
  <2> QED
    BY <1>1, <2>1, <2>3, PagesStep
<1>3. CASE /\ args[p] < MAXARG /\ args' = [args EXCEPT ![p] = @ + 1]
           /\ freePages' = freePages - 1 /\ \E l \in {"args", "free"} : Goto(p, l)
  <2>1. PICK l \in {"args", "free"} : pc' = [pc EXCEPT ![p] = l]
    BY <1>3 DEF Goto
  <2>2. pc'[p] = l /\ \A q \in Proc : q # p => pc'[q] = pc[q]
    BY <1>1, <2>1
  <2>3. /\ args' \in [Proc -> 0 .. MAXARG] /\ args'[p] = args[p] + 1
        /\ args[p] \in Nat /\ args[p] < MAXARG
        /\ \A q \in Proc : q # p => args'[q] = args[q]
    BY <1>1, <1>3
  <2>4. Cardinality(ArgPages') = Cardinality(ArgPages) + 1 /\ Cardinality(ArgPages) \in Nat
    <3> DEFINE x == <<p, args[p] + 1>>
    <3>1. IsFiniteSet(ArgPages)
      BY Finite, FS_Subset DEF ArgPages
    <3>2. x \notin ArgPages /\ x \in ArgPages'
      BY <1>1, <2>3 DEF ArgPages
    <3>3. ArgPages \ {x} = ArgPages' \ {x}
      <4>1. ASSUME NEW q \in Proc, NEW k \in 1 .. MAXARG, <<q, k>> # x
            PROVE  k <= args'[q] <=> k <= args[q]
        <5>1. CASE q = p
          <6>1. k # args[p] + 1 /\ k \in Nat
            BY <1>1, <4>1, <5>1
          <6> QED
            BY <2>3, <5>1, <6>1
        <5>2. CASE q # p
          BY <2>3, <5>2
        <5> QED
          BY <5>1, <5>2
      <4> HIDE DEF x
      <4> QED
        BY <4>1 DEF ArgPages
    <3> HIDE DEF x
    <3> QED
      BY <3>1, <3>2, <3>3, Toggle DEF Bit
  <2>5. PagesHeld'
    BY <1>1, <1>3, <2>2, <2>4 DEF FileInv, FilePart, PagesHeld
  <2>6. freePages' \in Int
    BY <1>1, <1>3
  <2> QED
    BY <1>1, <2>1, <2>3, <2>5, <2>6, PagesStep
<1> QED
  BY <1>2, <1>3 DEF ExecArg

\* They all go back.
LEMMA FreeArgsStep ==
  ASSUME FileInv, NEW p \in Proc, FreeArgs(p),
         UNCHANGED <<inodeVars, file, ofile, cwd, walkVars, ends>>
  PROVE  FileInv'
<1>1. /\ args \in [Proc -> 0 .. MAXARG] /\ freePages \in Int /\ pc[p] = "free"
      /\ MAXARG \in Nat /\ pc \in [Proc -> AtInode \cup Resting \cup {"undo"}]
      /\ pc' = [pc EXCEPT ![p] = "user"]
      /\ freePages' = freePages + args[p] /\ args' = [args EXCEPT ![p] = 0]
  BY FilesAssumption DEF FileInv, FilePart, FileTypes, FreeArgs, WalkTypes, Goto
<1>2. /\ pc'[p] = "user" /\ args' \in [Proc -> 0 .. MAXARG] /\ args'[p] = 0
      /\ \A q \in Proc : q # p => pc'[q] = pc[q] /\ args'[q] = args[q]
      /\ args[p] \in Nat /\ args[p] <= MAXARG
  BY <1>1
<1> DEFINE row == {p} \X (1 .. args[p])
<1>3. IsFiniteSet(row) /\ Cardinality(row) = args[p]
  BY <1>2, Interval, RowOf
<1>4. /\ IsFiniteSet(ArgPages') /\ ArgPages = ArgPages' \cup row /\ ArgPages' \cap row = {}
  <2>1. IsFiniteSet(ArgPages')
    BY Finite, FS_Subset DEF ArgPages
  <2>2. ASSUME NEW q \in Proc, NEW k \in 1 .. MAXARG
        PROVE  /\ k <= args[q] <=> k <= args'[q] \/ <<q, k>> \in row
               /\ ~(k <= args'[q] /\ <<q, k>> \in row)
    BY <1>1, <1>2
  <2>3. \A z \in row : \E q \in Proc, k \in 1 .. MAXARG : z = <<q, k>>
    BY <1>1, <1>2
  <2> HIDE DEF row
  <2> QED
    BY <2>1, <2>2, <2>3 DEF ArgPages
<1> HIDE DEF row
<1>5. /\ Cardinality(ArgPages) = Cardinality(ArgPages') + args[p]
      /\ Cardinality(ArgPages') \in Nat
  BY <1>3, <1>4, Disjoint
<1>6. PagesHeld'
  BY <1>1, <1>2, <1>5 DEF FileInv, FilePart, PagesHeld
<1>7. freePages' \in Int
  BY <1>1, <1>2
<1> QED
  BY <1>1, <1>2, <1>6, <1>7, PagesStep

-------------------------------------------------------------------------------
(***************************************************************************)
(* Descriptors and files                                                   *)
(***************************************************************************)

\* What changes one descriptor, or the ends of one pipe, changes the counts by
\* one.
LEMMA SlotMoves ==
  ASSUME NEW p \in Proc, NEW fd \in Fd, NEW f,
         \A q \in Proc, e \in Fd : <<q, e>> # <<p, fd>> => ofile'[q][e] = ofile[q][e]
  PROVE  /\ Cardinality(Slots(f)) \in Nat
         /\ Cardinality(Slots(f)') = Cardinality(Slots(f)) + Bit(ofile'[p][fd] = f)
                                       - Bit(ofile[p][fd] = f)
<1> DEFINE x == <<p, fd>>
<1>1. IsFiniteSet(Slots(f))
  BY Finite, FS_Subset DEF Slots
<1>2. (x \in Slots(f) <=> ofile[p][fd] = f) /\ (x \in Slots(f)' <=> ofile'[p][fd] = f)
  BY DEF Slots
<1>3. Slots(f) \ {x} = Slots(f)' \ {x}
  <2>1. ASSUME NEW q \in Proc, NEW e \in Fd, <<q, e>> # x
        PROVE  <<q, e>> \in Slots(f) <=> <<q, e>> \in Slots(f)'
    BY <2>1 DEF Slots
  <2>2. \A z \in Slots(f) \cup Slots(f)' : \E q \in Proc, e \in Fd : z = <<q, e>>
    BY DEF Slots
  <2> HIDE DEF x
  <2> QED
    BY <2>1, <2>2
<1> HIDE DEF x
<1> QED
  BY <1>1, <1>2, <1>3, Toggle DEF Bit

\* The same for the pipe ends of a process.
LEMMA MakingMoves ==
  ASSUME NEW p \in Proc, NEW f, \A q \in Proc : q # p => ends'[q] = ends[q]
  PROVE  /\ Cardinality(Makings(f)) \in Nat
         /\ Cardinality(Makings(f)') = Cardinality(Makings(f)) + Bit(f \in ends'[p])
                                         - Bit(f \in ends[p])
<1>1. IsFiniteSet(Makings(f))
  BY Finite, FS_Subset DEF Makings
<1>2. (p \in Makings(f) <=> f \in ends[p]) /\ (p \in Makings(f)' <=> f \in ends'[p])
  BY DEF Makings
<1>3. Makings(f) \ {p} = Makings(f)' \ {p}
  BY DEF Makings
<1> QED
  BY <1>1, <1>2, <1>3, Toggle DEF Bit

\* A file with a descriptor, or that is an end of a pipe, is not free.
LEMMA HeldFiles ==
  ASSUME FilePart, NEW f \in File
  PROVE  /\ Cardinality(Slots(f)) \in Nat /\ Cardinality(Makings(f)) \in Nat
         /\ file[f].refs \in Nat /\ file[f].ip \in Inode \cup {None}
         /\ file[f].refs = Cardinality(Slots(f)) + Cardinality(Makings(f))
         /\ file[f].refs = 0 => file[f] = NoFile
         /\ \A q \in Proc, e \in Fd : ofile[q][e] = f => file[f].refs > 0
         /\ \A q \in Proc : f \in ends[q] => file[f].refs > 0
<1>1. IsFiniteSet(Slots(f)) /\ IsFiniteSet(Makings(f))
  BY Finite, FS_Subset DEF Slots, Makings
<1>2. /\ Cardinality(Slots(f)) \in Nat /\ (Slots(f) # {} => Cardinality(Slots(f)) # 0)
      /\ Cardinality(Makings(f)) \in Nat /\ (Makings(f) # {} => Cardinality(Makings(f)) # 0)
  BY <1>1, FS_CardinalityType, FS_EmptySet
<1>3. /\ file[f].refs \in Nat /\ file[f].ip \in Inode \cup {None}
      /\ file[f].refs = Cardinality(Slots(f)) + Cardinality(Makings(f))
      /\ file[f].refs = 0 => file[f] = NoFile
  BY DEF FilePart, FileTypes, FilesHeld
<1>4. \A q \in Proc, e \in Fd : ofile[q][e] = f => Slots(f) # {}
  <2>1. \A q \in Proc, e \in Fd : ofile[q][e] = f => <<q, e>> \in Slots(f)
    BY DEF Slots
  <2> QED
    BY <2>1
<1>5. \A q \in Proc : f \in ends[q] => Makings(f) # {}
  BY DEF Makings
<1> QED
  BY <1>2, <1>3, <1>4, <1>5

\* The first descriptor and the first file that are free.
LEMMA FirstFree ==
  /\ FreeFiles # {} => Min(FreeFiles) \in FreeFiles
  /\ FreeFiles \subseteq File
  /\ \A p : FreeFds(p) # {} => Min(FreeFds(p)) \in FreeFds(p)
  /\ \A p : FreeFds(p) \subseteq Fd
<1>1. FreeFiles \in SUBSET Nat /\ FreeFiles \subseteq File
  BY FilesAssumption DEF FreeFiles
<1>2. \A p : FreeFds(p) \in SUBSET Nat /\ FreeFds(p) \subseteq Fd
  BY FilesAssumption DEF FreeFds, Fd
<1> QED
  BY <1>1, <1>2, LeastIn

\* dup(): one descriptor and one reference more.
LEMMA DupStep ==
  ASSUME FileInv, NEW p \in Proc, NEW fd \in Fd, Dup(p, fd)
  PROVE  FileInv'
<1>1. /\ file \in [File -> [refs : Nat, ip : Inode \cup {None}]]
      /\ ofile \in [Proc -> [Fd -> File \cup {None}]]
      /\ cwd \in [Proc -> Inode \cup {None}] /\ ends \in [Proc -> SUBSET File]
      /\ FilePart
  BY DEF FileInv, FilePart, FileTypes
<1>2. /\ pc[p] = "user" /\ cwd[p] # None /\ ofile[p][fd] # None /\ FreeFds(p) # {}
      /\ UNCHANGED <<inodeVars, cwd, pc, ends, walkVars, pageVars>>
  BY DEF Dup, Enter
<1>3. PICK f \in File : f = ofile[p][fd]
  BY <1>1, <1>2
<1>4. PICK e \in Fd : e = Min(FreeFds(p)) /\ ofile[p][e] = None
  BY <1>2, FirstFree DEF FreeFds
<1>5. /\ file' = [file EXCEPT ![f].refs = @ + 1] /\ ofile' = [ofile EXCEPT ![p][e] = f]
      /\ ends' = ends /\ pc' = pc /\ cwd' = cwd /\ f # None
  BY <1>2, <1>3, <1>4 DEF Dup
<1>6. /\ file' \in [File -> [refs : Nat, ip : Inode \cup {None}]]
      /\ \A g \in File : /\ file'[g].refs = file[g].refs + Bit(g = f)
                         /\ file'[g].ip = file[g].ip
                         /\ g # f => file'[g] = file[g]
  BY <1>1, <1>5 DEF Bit
<1>7. /\ ofile' \in [Proc -> [Fd -> File \cup {None}]]
      /\ ofile'[p][e] = f
      /\ \A q \in Proc, c \in Fd : <<q, c>> # <<p, e>> => ofile'[q][c] = ofile[q][c]
  BY <1>1, <1>5
<1>8. FileTypes'
  BY <1>1, <1>2, <1>5, <1>6, <1>7 DEF FilePart, FileTypes, pageVars
<1>9. FilesHeld'
  <2>1. ASSUME NEW g \in File
        PROVE  /\ file'[g].refs = Cardinality(Slots(g)') + Cardinality(Makings(g)')
               /\ file'[g].refs = 0 => file'[g] = NoFile
    <3>1. /\ Cardinality(Slots(g)) \in Nat /\ Cardinality(Makings(g)) \in Nat
          /\ file[g].refs = Cardinality(Slots(g)) + Cardinality(Makings(g))
          /\ file[g].refs = 0 => file[g] = NoFile
      BY <1>1, HeldFiles
    <3>2. Cardinality(Slots(g)') = Cardinality(Slots(g)) + Bit(g = f)
      <4>1. g # None
        BY Basics
      <4> QED
        BY <1>4, <1>7, <3>1, <4>1, SlotMoves DEF Bit
    <3>3. Makings(g)' = Makings(g)
      BY <1>5 DEF Makings
    <3>4. file'[g].refs = Cardinality(Slots(g)') + Cardinality(Makings(g)')
      BY <1>6, <3>1, <3>2, <3>3 DEF Bit
    <3>5. g = f => file'[g].refs # 0
      BY <1>6, <3>1 DEF Bit
    <3>6. g # f => file'[g] = file[g]
      BY <1>6
    <3> QED
      BY <3>1, <3>4, <3>5, <3>6
  <2> QED
    BY <2>1 DEF FilesHeld
<1>10. Pipes'
  <2>1. \A q \in Proc : \A g \in ends[q] : file'[g].ip = None
    BY <1>1, <1>6 DEF FilePart, Pipes
  <2> QED
    BY <1>1, <1>5, <2>1, PipesKept DEF FilePart
<1>11. Unstarted'
  BY <1>2, <1>5, <1>7 DEF FileInv, FilePart, Unstarted
<1>12. PagesHeld'
  BY <1>1, <1>2, <1>5, PagesKept DEF FilePart
<1>13. FilePart'
  BY <1>8, <1>9, <1>10, <1>11, <1>12 DEF FilePart
<1>14. \A i \in Inode : Cardinality(Opens(i)') = Cardinality(Opens(i))
  <2>1. file[f].refs > 0 /\ \A g \in File : file[g].refs \in Nat
    BY <1>1, <1>3, HeldFiles
  <2>2. \A g \in File : file'[g].refs > 0 <=> file[g].refs > 0
    BY <1>6, <2>1 DEF Bit
  <2> QED
    BY <1>6, <2>2 DEF Opens
<1>15. "user" \in Resting /\ pc' = [pc EXCEPT ![p] = "user"]
  BY <1>2, <1>5 DEF FileInv, WalkTypes, Resting
<1> QED
  BY <1>2, <1>13, <1>14, <1>15, FilesOnlyStep

\* fileclose(): a file loses its last reference with its inode.
LEMMA CloseFiles ==
  ASSUME FileInv, NEW gone \in SUBSET File, FileClose(gone),
         \A f \in gone : file[f].refs > 0
  PROVE  /\ file' \in [File -> [refs : Nat, ip : Inode \cup {None}]]
         /\ \A f \in File : /\ file'[f].refs = file[f].refs - Bit(f \in gone)
                            /\ file'[f].refs > 0 => file'[f].ip = file[f].ip
                            /\ file'[f].refs = 0 => file'[f] = NoFile
<1>1. file \in [File -> [refs : Nat, ip : Inode \cup {None}]] /\ FilePart
  BY DEF FileInv, FilePart, FileTypes
<1> DEFINE last == {f \in gone : file[f].refs = 1}
<1>2. file' = [f \in File |-> IF f \in last THEN NoFile
                              ELSE IF f \in gone THEN [file[f] EXCEPT !.refs = @ - 1]
                              ELSE file[f]]
  BY DEF FileClose
<1>3. /\ NoFile \in [refs : Nat, ip : Inode \cup {None}] /\ NoFile.refs = 0
  BY DEF NoFile
<1>4. ASSUME NEW f \in File
      PROVE  /\ file'[f] \in [refs : Nat, ip : Inode \cup {None}]
             /\ file'[f].refs = file[f].refs - Bit(f \in gone)
             /\ file'[f].refs > 0 => file'[f].ip = file[f].ip
             /\ file'[f].refs = 0 => file'[f] = NoFile
  <2>1. /\ file[f] \in [refs : Nat, ip : Inode \cup {None}] /\ file[f].refs \in Nat
        /\ file[f].refs = 0 => file[f] = NoFile
    BY <1>1, HeldFiles
  <2>2. CASE f \in last
    BY <1>2, <1>3, <2>1, <2>2 DEF Bit
  <2>3. CASE f \in gone /\ f \notin last
    <3>1. file'[f] = [file[f] EXCEPT !.refs = file[f].refs - 1] /\ file[f].refs > 1
      BY <1>2, <2>1, <2>3
    <3> QED
      BY <2>1, <2>3, <3>1 DEF Bit
  <2>4. CASE f \notin gone
    BY <1>2, <2>1, <2>4 DEF Bit
  <2> QED
    BY <2>2, <2>3, <2>4
<1>5. file' \in [File -> [refs : Nat, ip : Inode \cup {None}]]
  <2>1. file' = [f \in File |-> file'[f]]
    BY <1>2
  <2> HIDE DEF last
  <2> QED
    BY <1>4, <2>1
<1> QED
  BY <1>4, <1>5

\* The inode of a file that is closed for the last time loses one open file and
\* one reference.
LEMMA CloseOne ==
  ASSUME FileInv, NEW g \in File, FileClose({g}), file[g].refs > 0
  PROVE  /\ Referral
         /\ \A i \in Inode : /\ ref[i] \in Int
                             /\ ref'[i] = ref[i] + Cardinality(Opens(i)')
                                            - Cardinality(Opens(i))
<1>1. /\ file' \in [File -> [refs : Nat, ip : Inode \cup {None}]]
      /\ \A f \in File : /\ file'[f].refs = file[f].refs - Bit(f \in {g})
                         /\ file'[f].refs > 0 => file'[f].ip = file[f].ip
                         /\ file'[f].refs = 0 => file'[f] = NoFile
  <2>1. PICK gone \in SUBSET File : gone = {g}
    OBVIOUS
  <2> QED
    BY <2>1, CloseFiles
<1>2. /\ file[g].refs \in Nat /\ file[g].ip \in Inode \cup {None}
      /\ \A f \in File : file[f].refs \in Nat
  BY HeldFiles DEF FileInv
<1>3. PICK given \in SUBSET Inode :
        /\ given = {file[f].ip : f \in {h \in {g} : file[h].refs = 1}} \ {None}
        /\ Refer({}, given)
  BY <1>2 DEF FileClose
<1>4. \A i \in Inode : i \in given <=> file[g].refs = 1 /\ file[g].ip = i
  BY <1>3, Basics
<1>5. /\ Referral
      /\ \A i \in Inode : ref'[i] = ref[i] + Bit(i \in {}) - Bit(i \in given)
  BY <1>3, Referred
<1>6. ASSUME NEW i \in Inode
      PROVE  /\ Cardinality(Opens(i)) \in Nat
             /\ Cardinality(Opens(i)') = Cardinality(Opens(i)) - Bit(i \in given)
  <2>1. IsFiniteSet(Opens(i))
    BY Finite, FS_Subset DEF Opens
  <2>2. g \in Opens(i) <=> file[g].ip = i
    BY DEF Opens
  <2>3. g \in Opens(i)' <=> file[g].refs # 1 /\ file[g].ip = i
    BY <1>1, <1>2 DEF Opens, Bit
  <2>4. Opens(i) \ {g} = Opens(i)' \ {g}
    <3>1. \A f \in File : f # g => file'[f].refs = file[f].refs
      BY <1>1, <1>2 DEF Bit
    <3> QED
      BY <1>1, <3>1 DEF Opens
  <2> QED
    BY <1>4, <2>1, <2>2, <2>3, <2>4, Toggle DEF Bit
<1>7. \A i \in Inode : ref[i] \in Int
  BY DEF FileInv, InodeTypes
<1> QED
  BY <1>5, <1>6, <1>7 DEF Bit

\* close(), and exit() for each of its descriptors.
LEMMA CloseFd ==
  ASSUME FileInv, NEW p \in Proc, NEW fd \in Fd, pc[p] \in Resting, cwd[p] # None,
         ofile[p][fd] # None, FileClose({ofile[p][fd]}),
         ofile' = [ofile EXCEPT ![p][fd] = None],
         UNCHANGED <<cwd, pc, ends, walkVars, pageVars>>
  PROVE  FileInv'
<1>1. /\ file \in [File -> [refs : Nat, ip : Inode \cup {None}]]
      /\ ofile \in [Proc -> [Fd -> File \cup {None}]]
      /\ cwd \in [Proc -> Inode \cup {None}] /\ ends \in [Proc -> SUBSET File]
      /\ FilePart
  BY DEF FileInv, FilePart, FileTypes
<1>2. PICK g \in File : g = ofile[p][fd]
  BY <1>1
<1>3. file[g].refs > 0 /\ FileClose({g})
  BY <1>1, <1>2, HeldFiles
<1>4. /\ file' \in [File -> [refs : Nat, ip : Inode \cup {None}]]
      /\ \A f \in File : /\ file'[f].refs = file[f].refs - Bit(f \in {g})
                         /\ file'[f].refs > 0 => file'[f].ip = file[f].ip
                         /\ file'[f].refs = 0 => file'[f] = NoFile
  <2>1. PICK gone \in SUBSET File : gone = {g}
    OBVIOUS
  <2> QED
    BY <1>3, <2>1, CloseFiles
<1>5. /\ Referral
      /\ \A i \in Inode : /\ ref[i] \in Int
                          /\ ref'[i] = ref[i] + Cardinality(Opens(i)')
                                         - Cardinality(Opens(i))
  BY <1>3, CloseOne
<1>6. /\ call' = call /\ at' = at /\ path' = path /\ src' = src /\ cwd' = cwd /\ pc' = pc
      /\ ends' = ends
  BY DEF walkVars
<1>7. Alone(p) /\ Balanced(p)
  <2>1. \A i \in Inode : /\ Cardinality(Opens(i)) \in Nat /\ Cardinality(Opens(i)') \in Nat
    BY Finite, FS_Subset, FS_CardinalityType DEF Opens
  <2> QED
    BY <1>5, <1>6, <2>1 DEF Alone, Balanced, Bit
<1>8. /\ ofile' \in [Proc -> [Fd -> File \cup {None}]]
      /\ ofile'[p][fd] = None
      /\ \A q \in Proc, c \in Fd : <<q, c>> # <<p, fd>> => ofile'[q][c] = ofile[q][c]
  BY <1>1
<1>9. FileTypes'
  BY <1>1, <1>4, <1>6, <1>8 DEF FilePart, FileTypes, pageVars
<1>10. FilesHeld'
  <2>1. ASSUME NEW f \in File
        PROVE  /\ file'[f].refs = Cardinality(Slots(f)') + Cardinality(Makings(f)')
               /\ file'[f].refs = 0 => file'[f] = NoFile
    <3>1. /\ Cardinality(Slots(f)) \in Nat /\ Cardinality(Makings(f)) \in Nat
          /\ file[f].refs = Cardinality(Slots(f)) + Cardinality(Makings(f))
      BY <1>1, HeldFiles
    <3>2. Cardinality(Slots(f)') = Cardinality(Slots(f)) - Bit(f = g)
      <4>1. f # None
        BY Basics
      <4> QED
        BY <1>2, <1>8, <3>1, <4>1, SlotMoves DEF Bit
    <3>3. Makings(f)' = Makings(f)
      BY <1>6 DEF Makings
    <3> QED
      BY <1>4, <3>1, <3>2, <3>3 DEF Bit
  <2> QED
    BY <2>1 DEF FilesHeld
<1>11. Pipes'
  <2>1. ASSUME NEW q \in Proc, NEW f \in ends[q]
        PROVE  file'[f].ip = None
    <3>1. file[f].ip = None /\ f \in File /\ NoFile.ip = None /\ file'[f].refs \in Nat
      BY <1>1, <1>4 DEF FilePart, Pipes, NoFile
    <3> QED
      BY <1>4, <3>1
  <2> QED
    BY <1>1, <1>6, <2>1, PipesKept DEF FilePart
<1>12. Unstarted'
  BY <1>6, <1>8 DEF FileInv, FilePart, Unstarted
<1>13. PagesHeld'
  BY <1>1, <1>6, PagesKept DEF FilePart
<1>14. FilePart'
  BY <1>9, <1>10, <1>11, <1>12, <1>13 DEF FilePart
<1> QED
  BY <1>5, <1>6, <1>7, <1>14, FilesStep

\* close().
LEMMA CloseStep ==
  ASSUME FileInv, NEW p \in Proc, NEW fd \in Fd, Close(p, fd)
  PROVE  FileInv'
BY CloseFd DEF Close, Enter, Resting

-------------------------------------------------------------------------------
(***************************************************************************)
(* pipe()                                                                  *)
(***************************************************************************)

\* Of two elements of a set, the least and the least of the others.
LEMMA LeastTwo ==
  ASSUME NEW S \in SUBSET Nat, IsFiniteSet(S), Cardinality(S) >= 2
  PROVE  /\ Min(S) \in S /\ Min(S \ {Min(S)}) \in S
         /\ Min(S) < Min(S \ {Min(S)})
<1>1. S # {}
  BY FS_EmptySet
<1>2. Min(S) \in S /\ \A y \in S : Min(S) <= y
  BY <1>1, LeastIn
<1>3. PICK m \in S : m = Min(S)
  BY <1>2
<1>4. S \ {m} # {}
  <2>1. /\ Cardinality(S \ {m}) = Cardinality(S) - 1 /\ IsFiniteSet(S \ {m})
        /\ Cardinality(S) \in Nat
    BY FS_RemoveElement, FS_CardinalityType
  <2> QED
    BY <2>1, FS_EmptySet
<1>5. PICK k : k = Min(S \ {m}) /\ k \in S \ {m}
  BY <1>4, LeastIn
<1>6. m \in Nat /\ k \in Nat /\ m <= k /\ m # k
  BY <1>2, <1>3, <1>5
<1>7. m < k
  BY <1>6
<1>8. Min(S) = m /\ Min(S \ {Min(S)}) = k
  BY <1>3, <1>5
<1> QED
  BY ONLY <1>2, <1>5, <1>7, <1>8

\* pipealloc() takes two files that nobody refers to.
LEMMA PipeAllocStep ==
  ASSUME FileInv, NEW p \in Proc, PipeAlloc(p)
  PROVE  FileInv'
<1>1. /\ file \in [File -> [refs : Nat, ip : Inode \cup {None}]]
      /\ ends \in [Proc -> SUBSET File] /\ FilePart
      /\ pc \in [Proc -> AtInode \cup Resting \cup {"undo"}]
  BY DEF FileInv, FilePart, FileTypes, WalkTypes
<1>2. PICK rf \in FreeFiles, wf \in FreeFiles :
        rf = Min(FreeFiles) /\ wf = Min(FreeFiles \ {rf}) /\ rf < wf
  <2>1. FreeFiles \in SUBSET Nat /\ IsFiniteSet(FreeFiles)
    BY Finite, FS_Subset, FilesAssumption DEF FreeFiles
  <2>2. Cardinality(FreeFiles) >= 2
    BY DEF PipeAlloc
  <2> QED
    BY <2>1, <2>2, LeastTwo
<1>3. /\ rf \in File /\ wf \in File /\ rf < wf /\ rf # wf
      /\ file[rf].refs = 0 /\ file[wf].refs = 0
      /\ file[rf] = NoFile /\ file[wf] = NoFile
  <2>1. /\ rf \in File /\ wf \in File /\ file[rf].refs = 0 /\ file[wf].refs = 0
    BY <1>2 DEF FreeFiles
  <2>2. rf \in Nat /\ wf \in Nat
    BY <2>1, FilesAssumption
  <2> QED
    BY <1>1, <1>2, <2>1, <2>2, HeldFiles
<1>4. /\ file' = [file EXCEPT ![rf].refs = 1, ![wf].refs = 1]
      /\ ends' = [ends EXCEPT ![p] = {rf, wf}] /\ pc' = [pc EXCEPT ![p] = "pipe"]
      /\ pc[p] = "user" /\ cwd[p] # None
      /\ UNCHANGED <<inodeVars, ofile, cwd, walkVars, pageVars>>
  BY <1>2 DEF PipeAlloc, Enter, Goto
<1>5. /\ file' \in [File -> [refs : Nat, ip : Inode \cup {None}]]
      /\ \A f \in File : /\ f \in {rf, wf} => file'[f].refs = 1
                         /\ f \notin {rf, wf} => file'[f] = file[f]
                         /\ file'[f].ip = file[f].ip
  BY <1>1, <1>3, <1>4
<1>6. /\ ends' \in [Proc -> SUBSET File] /\ ends'[p] = {rf, wf} /\ pc'[p] = "pipe"
      /\ \A q \in Proc : q # p => ends'[q] = ends[q] /\ pc'[q] = pc[q]
  BY <1>1, <1>3, <1>4
<1>7. /\ ofile' = ofile /\ cwd' = cwd /\ UNCHANGED pageVars /\ UNCHANGED inodeVars
      /\ UNCHANGED walkVars
  BY <1>4
<1>8. FileTypes'
  BY <1>5, <1>6, <1>7 DEF FileInv, FilePart, FileTypes, pageVars
<1>9. ends[p] = {}
  BY <1>1, <1>4 DEF FilePart, Pipes
<1>10. FilesHeld'
  <2>1. ASSUME NEW f \in File
        PROVE  /\ file'[f].refs = Cardinality(Slots(f)') + Cardinality(Makings(f)')
               /\ file'[f].refs = 0 => file'[f] = NoFile
    <3>1. /\ Cardinality(Slots(f)) \in Nat /\ Cardinality(Makings(f)) \in Nat
          /\ file[f].refs = Cardinality(Slots(f)) + Cardinality(Makings(f))
          /\ file[f].refs = 0 => file[f] = NoFile
      BY <1>1, HeldFiles
    <3>2. Slots(f)' = Slots(f)
      BY <1>7 DEF Slots
    <3>3. Cardinality(Makings(f)') = Cardinality(Makings(f)) + Bit(f \in {rf, wf})
      BY <1>6, <1>9, <3>1, MakingMoves DEF Bit
    <3>4. file'[f].refs = file[f].refs + Bit(f \in {rf, wf})
      BY <1>3, <1>5, <3>1 DEF Bit
    <3>5. f \notin {rf, wf} => file'[f] = file[f]
      BY <1>5
    <3>6. f \in {rf, wf} => file'[f].refs = 1
      BY <1>5
    <3>7. file'[f].refs = Cardinality(Slots(f)') + Cardinality(Makings(f)')
      BY <3>1, <3>2, <3>3, <3>4 DEF Bit
    <3> QED
      BY ONLY <3>1, <3>5, <3>6, <3>7
  <2> QED
    BY <2>1 DEF FilesHeld
<1>11. Pipes'
  <2>1. ASSUME NEW q \in Proc
        PROVE  /\ pc'[q] = "pipe" => \E r, w \in File : r < w /\ ends'[q] = {r, w}
               /\ pc'[q] # "pipe" => ends'[q] = {}
               /\ \A f \in ends'[q] : file'[f].ip = None
    <3>1. /\ pc[q] = "pipe" => \E r, w \in File : r < w /\ ends[q] = {r, w}
          /\ pc[q] # "pipe" => ends[q] = {}
          /\ \A f \in ends[q] : file[f].ip = None /\ f \in File
      BY <1>1 DEF FilePart, Pipes
    <3>2. NoFile.ip = None
      BY DEF NoFile
    <3>3. CASE q = p
      BY <1>3, <1>5, <1>6, <3>2, <3>3
    <3>4. CASE q # p
      BY <1>5, <1>6, <3>1, <3>4
    <3> QED
      BY <3>3, <3>4
  <2> QED
    BY <2>1 DEF Pipes
<1>12. Unstarted'
  BY <1>4, <1>6, <1>7 DEF FileInv, FilePart, Unstarted
<1>13. PagesHeld'
  BY <1>1, <1>4, <1>6, <1>7, PagesKept DEF FilePart
<1>14. FilePart'
  BY <1>8, <1>10, <1>11, <1>12, <1>13 DEF FilePart
<1>15. \A i \in Inode : Cardinality(Opens(i)') = Cardinality(Opens(i))
  <2>1. ASSUME NEW i \in Inode, NEW f \in File
        PROVE  f \in Opens(i)' <=> f \in Opens(i)
    <3>1. CASE f \in {rf, wf}
      <4>1. file[f].ip = None /\ file'[f].ip = None /\ i # None
        BY <1>3, <1>5, <3>1, Basics DEF NoFile
      <4> QED
        BY <4>1 DEF Opens
    <3>2. CASE f \notin {rf, wf}
      BY <1>5, <3>2 DEF Opens
    <3> QED
      BY <3>1, <3>2
  <2>2. \A i \in Inode : Opens(i)' = Opens(i)
    BY <2>1 DEF Opens
  <2> QED
    BY <2>2
<1> QED
  BY <1>4, <1>14, <1>15, FilesOnlyStep DEF Resting

\* The ends of a pipe are found again by their order.
LEMMA OfTwo ==
  ASSUME NEW r \in Nat, NEW w \in Nat, r < w
  PROVE  Min({r, w}) = r /\ Max({r, w}) = w
<1>1. \A x \in {r, w} : (\A y \in {r, w} : x <= y) <=> x = r
  OBVIOUS
<1>2. \A x \in {r, w} : (\A y \in {r, w} : x >= y) <=> x = w
  OBVIOUS
<1>3. Min({r, w}) = r
  <2>1. \E x \in {r, w} : \A y \in {r, w} : x <= y
    BY <1>1
  <2>2. Min({r, w}) \in {r, w} /\ \A y \in {r, w} : Min({r, w}) <= y
    BY <2>1 DEF Min
  <2> QED
    BY <1>1, <2>2
<1>4. Max({r, w}) = w
  <2>1. \E x \in {r, w} : \A y \in {r, w} : x >= y
    BY <1>2
  <2>2. Max({r, w}) \in {r, w} /\ \A y \in {r, w} : Max({r, w}) >= y
    BY <2>1 DEF Max
  <2> QED
    BY <1>2, <2>2
<1> QED
  BY <1>3, <1>4

\* The ends go to descriptors, or are closed.
LEMMA PipeFinishStep ==
  ASSUME FileInv, NEW p \in Proc, PipeFinish(p), UNCHANGED pageVars
  PROVE  FileInv'
<1>1. /\ file \in [File -> [refs : Nat, ip : Inode \cup {None}]]
      /\ ofile \in [Proc -> [Fd -> File \cup {None}]]
      /\ ends \in [Proc -> SUBSET File] /\ FilePart
      /\ pc \in [Proc -> AtInode \cup Resting \cup {"undo"}]
  BY DEF FileInv, FilePart, FileTypes, WalkTypes
<1>2. /\ pc[p] = "pipe" /\ ends' = [ends EXCEPT ![p] = {}] /\ pc' = [pc EXCEPT ![p] = "user"]
      /\ cwd' = cwd /\ UNCHANGED walkVars /\ UNCHANGED pageVars
  BY DEF PipeFinish, Goto
<1>3. /\ ends' \in [Proc -> SUBSET File] /\ ends'[p] = {} /\ pc'[p] = "user"
      /\ \A q \in Proc : q # p => ends'[q] = ends[q] /\ pc'[q] = pc[q]
      /\ pc' \in [Proc -> AtInode \cup Resting \cup {"undo"}]
  BY <1>1, <1>2 DEF Resting
<1>4. PICK r \in File, w \in File : r < w /\ ends[p] = {r, w}
  BY <1>1, <1>2 DEF FilePart, Pipes
<1>5. /\ r # w /\ Min(ends[p]) = r /\ Max(ends[p]) = w /\ r # None /\ w # None
      /\ file[r].ip = None /\ file[w].ip = None
      /\ file[r].refs > 0 /\ file[w].refs > 0
  <2>1. r \in Nat /\ w \in Nat
    BY FilesAssumption
  <2>2. Min({r, w}) = r /\ Max({r, w}) = w /\ r # w
    BY <1>4, <2>1, OfTwo
  <2>3. file[r].ip = None /\ file[w].ip = None
    BY <1>1, <1>4 DEF FilePart, Pipes
  <2> QED
    BY <1>1, <1>4, <2>2, <2>3, HeldFiles, Basics
<1>6. PagesHeld'
  BY <1>1, <1>2, <1>3, PagesKept DEF FilePart
<1>7. cwd[p] # None
  BY <1>2, Placed
<1>8. ASSUME NEW f \in File
      PROVE  /\ Cardinality(Slots(f)) \in Nat /\ Cardinality(Makings(f)) \in Nat
             /\ file[f].refs = Cardinality(Slots(f)) + Cardinality(Makings(f))
             /\ file[f].refs = 0 => file[f] = NoFile
             /\ Cardinality(Makings(f)') = Cardinality(Makings(f)) - Bit(f \in {r, w})
  <2>1. /\ Cardinality(Slots(f)) \in Nat /\ Cardinality(Makings(f)) \in Nat
        /\ file[f].refs = Cardinality(Slots(f)) + Cardinality(Makings(f))
        /\ file[f].refs = 0 => file[f] = NoFile
    BY <1>1, HeldFiles
  <2>2. Cardinality(Makings(f)') = Cardinality(Makings(f)) - Bit(f \in {r, w})
    BY <1>3, <1>4, <2>1, MakingMoves DEF Bit
  <2> QED
    BY <2>1, <2>2
<1>9. ASSUME \A q \in Proc : \A f \in ends[q] : file'[f].ip = None
      PROVE  Pipes'
  BY <1>1, <1>2, <1>3, <1>9 DEF FilePart, Pipes
<1>10. CASE PipeGiven(p)
  <2>1. PICK a \in FreeFds(p), b \in FreeFds(p) :
          a = Min(FreeFds(p)) /\ b = Min(FreeFds(p) \ {a}) /\ a < b
    <3>1. FreeFds(p) \in SUBSET Nat /\ IsFiniteSet(FreeFds(p))
      <4>1. IsFiniteSet(Fd) /\ Fd \subseteq Nat
        BY Interval, FilesAssumption DEF Fd
      <4> QED
        BY <4>1, FS_Subset DEF FreeFds
    <3>2. Cardinality(FreeFds(p)) >= 2
      BY <1>10 DEF PipeGiven
    <3> QED
      BY <3>1, <3>2, LeastTwo
  <2>2. a \in Fd /\ b \in Fd /\ a # b /\ ofile[p][a] = None /\ ofile[p][b] = None
    <3>1. a \in Fd /\ b \in Fd /\ ofile[p][a] = None /\ ofile[p][b] = None
      BY <2>1 DEF FreeFds
    <3>2. a \in Nat /\ b \in Nat
      BY <3>1, FilesAssumption DEF Fd
    <3> QED
      BY <2>1, <3>1, <3>2
  <2>3. /\ ofile' = [ofile EXCEPT ![p][a] = r, ![p][b] = w]
        /\ file' = file /\ UNCHANGED inodeVars
    BY <1>5, <1>10, <2>1 DEF PipeGiven
  <2>4. /\ ofile' \in [Proc -> [Fd -> File \cup {None}]]
        /\ ofile'[p][a] = r /\ ofile'[p][b] = w
        /\ \A q \in Proc, c \in Fd : <<q, c>> # <<p, a>> /\ <<q, c>> # <<p, b>> =>
             ofile'[q][c] = ofile[q][c]
    BY <1>1, <2>2, <2>3
  <2>5. FileTypes'
    BY <1>2, <1>3, <2>3, <2>4 DEF FileInv, FilePart, FileTypes, pageVars
  <2>6. FilesHeld'
    <3>1. ASSUME NEW f \in File
          PROVE  Cardinality(Slots(f)') = Cardinality(Slots(f)) + Bit(f \in {r, w})
      <4> DEFINE x == <<p, a>>
                 y == <<p, b>>
      <4>1. IsFiniteSet(Slots(f)) /\ x # y /\ f # None
        BY <2>2, Finite, FS_Subset, Basics DEF Slots
      <4>2. x \notin Slots(f) /\ y \notin Slots(f)
        BY <2>2, <4>1 DEF Slots
      <4>3. (x \in Slots(f)' <=> r = f) /\ (y \in Slots(f)' <=> w = f)
        BY <2>2, <2>4 DEF Slots
      <4>4. Slots(f) \ {x, y} = Slots(f)' \ {x, y}
        <5>1. ASSUME NEW q \in Proc, NEW e \in Fd, <<q, e>> # x, <<q, e>> # y
              PROVE  <<q, e>> \in Slots(f) <=> <<q, e>> \in Slots(f)'
          BY <2>4, <5>1 DEF Slots
        <5>2. \A z \in Slots(f) \cup Slots(f)' : \E q \in Proc, e \in Fd : z = <<q, e>>
          BY DEF Slots
        <5> HIDE DEF x, y
        <5> QED
          BY <5>1, <5>2
      <4> HIDE DEF x, y
      <4>5. /\ Cardinality(Slots(f)) \in Nat
            /\ Cardinality(Slots(f)') = Cardinality(Slots(f)) + Bit(r = f) + Bit(w = f)
        BY <4>1, <4>2, <4>3, <4>4, ToggleTwo DEF Bit
      <4> QED
        BY <1>5, <4>5 DEF Bit
    <3>2. ASSUME NEW f \in File
          PROVE  /\ file'[f].refs = Cardinality(Slots(f)') + Cardinality(Makings(f)')
                 /\ file'[f].refs = 0 => file'[f] = NoFile
      BY <1>8, <2>3, <3>1 DEF Bit
    <3> QED
      BY <3>2 DEF FilesHeld
  <2>7. Pipes'
    BY <1>1, <1>9, <2>3 DEF FilePart, Pipes
  <2>8. Unstarted'
    BY <1>2, <1>3, <1>7, <2>4 DEF FileInv, FilePart, Unstarted
  <2>9. FilePart'
    BY <1>6, <2>5, <2>6, <2>7, <2>8 DEF FilePart
  <2>10. \A i \in Inode : Cardinality(Opens(i)') = Cardinality(Opens(i))
    BY <2>3, OpenCountKept
  <2> QED
    BY <1>2, <2>3, <2>9, <2>10, FilesOnlyStep DEF Resting
<1>11. CASE FileClose(ends[p]) /\ UNCHANGED ofile
  <2>1. PICK gone \in SUBSET File : gone = {r, w} /\ FileClose(gone)
    BY <1>4, <1>11
  <2>2. /\ file' \in [File -> [refs : Nat, ip : Inode \cup {None}]]
        /\ \A f \in File : /\ file'[f].refs = file[f].refs - Bit(f \in gone)
                           /\ file'[f].refs > 0 => file'[f].ip = file[f].ip
                           /\ file'[f].refs = 0 => file'[f] = NoFile
    BY <1>5, <2>1, CloseFiles
  <2>3. Refer({}, {})
    <3>1. \A f \in gone : file[f].ip = None
      BY <1>5, <2>1
    <3>2. {file[f].ip : f \in {h \in gone : file[h].refs = 1}} \ {None} = {}
      BY <3>1
    <3> QED
      BY <2>1, <3>2 DEF FileClose
  <2>4. Referral /\ \A i \in Inode : ref'[i] = ref[i] + Bit(i \in {}) - Bit(i \in {})
    BY <2>3, Referred
  <2>5. \A i \in Inode : Cardinality(Opens(i)') = Cardinality(Opens(i))
    <3>1. ASSUME NEW i \in Inode, NEW f \in File
          PROVE  f \in Opens(i)' <=> f \in Opens(i)
      <4>1. i # None /\ file[f].refs \in Nat /\ file'[f].refs \in Nat
        BY <1>1, <2>2, Basics
      <4>2. CASE f \in gone
        <5>1. file[f].ip = None
          BY <1>5, <2>1, <4>2
        <5> QED
          BY <2>2, <4>1, <5>1 DEF Opens
      <4>3. CASE f \notin gone
        <5>1. file'[f].refs = file[f].refs
          BY <2>2, <4>1, <4>3 DEF Bit
        <5> QED
          BY <2>2, <4>1, <5>1 DEF Opens
      <4> QED
        BY <4>2, <4>3
    <3>2. \A i \in Inode : Opens(i)' = Opens(i)
      BY <3>1 DEF Opens
    <3> QED
      BY <3>2
  <2>6. /\ call' = call /\ at' = at /\ path' = path /\ src' = src /\ cwd' = cwd
        /\ ofile' = ofile
    BY <1>2, <1>11 DEF walkVars
  <2>7. Alone(p)
    BY <1>3, <2>6 DEF Alone
  <2>8. Balanced(p)
    <3>1. \A i \in Inode : Cardinality(Opens(i)) \in Nat /\ ref[i] \in Int
      BY Finite, FS_Subset, FS_CardinalityType DEF Opens, FileInv, InodeTypes
    <3> QED
      BY <2>4, <2>5, <2>6, <3>1 DEF Balanced, Bit
  <2>9. FileTypes'
    BY <1>2, <1>3, <2>2, <2>6 DEF FileInv, FilePart, FileTypes, pageVars
  <2>10. FilesHeld'
    <3>1. ASSUME NEW f \in File
          PROVE  /\ file'[f].refs = Cardinality(Slots(f)') + Cardinality(Makings(f)')
                 /\ file'[f].refs = 0 => file'[f] = NoFile
      <4>1. Slots(f)' = Slots(f)
        BY <2>6 DEF Slots
      <4>2. file'[f].refs = file[f].refs - Bit(f \in {r, w})
        BY <2>1, <2>2
      <4>3. file'[f].refs = Cardinality(Slots(f)') + Cardinality(Makings(f)')
        BY <1>8, <4>1, <4>2 DEF Bit
      <4> QED
        BY <2>2, <4>3
    <3> QED
      BY <3>1 DEF FilesHeld
  <2>11. Pipes'
    <3>1. ASSUME NEW q \in Proc, NEW f \in ends[q]
          PROVE  file'[f].ip = None
      <4>1. file[f].ip = None /\ f \in File /\ NoFile.ip = None /\ file'[f].refs \in Nat
        BY <1>1, <2>2 DEF FilePart, Pipes, NoFile
      <4> QED
        BY <2>2, <4>1
    <3> QED
      BY <1>9, <3>1
  <2>12. Unstarted'
    BY <1>2, <1>3, <1>7, <2>6 DEF FileInv, FilePart, Unstarted
  <2>13. FilePart'
    BY <1>6, <2>9, <2>10, <2>11, <2>12 DEF FilePart
  <2> QED
    BY <1>2, <1>3, <2>4, <2>7, <2>8, <2>13, FilesStep DEF Resting
<1> QED
  BY <1>10, <1>11 DEF PipeFinish

-------------------------------------------------------------------------------
(***************************************************************************)
(* exit() and fork()                                                       *)
(***************************************************************************)
LEMMA ExitFilesStep ==
  ASSUME FileInv, NEW p \in Proc, ExitFiles(p), UNCHANGED pageVars
  PROVE  FileInv'
<1>1. /\ ofile \in [Proc -> [Fd -> File \cup {None}]]
      /\ cwd \in [Proc -> Inode \cup {None}] /\ ends \in [Proc -> SUBSET File]
      /\ FilePart /\ ref \in [Inode -> Int]
      /\ pc \in [Proc -> AtInode \cup Resting \cup {"undo"}]
  BY DEF FileInv, FilePart, FileTypes, WalkTypes, InodeTypes
<1>2. pc[p] = "exit" /\ UNCHANGED walkVars /\ ends' = ends /\ cwd[p] # None /\ cwd[p] \in Inode
  BY Placed DEF ExitFiles
<1> DEFINE open == Fd \ FreeFds(p)
<1>3. CASE /\ open # {} /\ ofile' = [ofile EXCEPT ![p][Min(open)] = None]
           /\ FileClose({ofile[p][Min(open)]}) /\ UNCHANGED <<cwd, pc>>
  <2>1. open \in SUBSET Nat
    BY FilesAssumption DEF Fd
  <2>2. PICK fd \in Fd : fd = Min(open) /\ ofile[p][fd] # None
    <3>1. Min(open) \in open
      BY <1>3, <2>1, LeastIn
    <3> QED
      BY <3>1 DEF FreeFds
  <2> HIDE DEF open
  <2> QED
    BY <1>2, <1>3, <2>2, CloseFd DEF Resting
<1>4. CASE /\ open = {} /\ Refer({}, {cwd[p]}) /\ cwd' = [cwd EXCEPT ![p] = None]
           /\ Goto(p, "user") /\ UNCHANGED <<file, ofile>>
  <2>1. \A fd \in Fd : ofile[p][fd] = None
    BY <1>4 DEF FreeFds
  <2> HIDE DEF open
  <2>2. pc' = [pc EXCEPT ![p] = "user"]
    BY <1>4 DEF Goto
  <2>3. /\ cwd' \in [Proc -> Inode \cup {None}] /\ cwd'[p] = None /\ pc'[p] = "user"
        /\ \A q \in Proc : q # p => cwd'[q] = cwd[q] /\ pc'[q] = pc[q]
        /\ pc' \in [Proc -> AtInode \cup Resting \cup {"undo"}]
    BY <1>1, <1>4, <2>2 DEF Resting
  <2>4. /\ call' = call /\ at' = at /\ path' = path /\ src' = src
        /\ file' = file /\ ofile' = ofile /\ ends' = ends
    BY <1>2, <1>4 DEF walkVars
  <2>5. PICK given \in SUBSET Inode : given = {cwd[p]} /\ Refer({}, given)
    BY <1>2, <1>4
  <2>6. Referral /\ \A i \in Inode : ref'[i] = ref[i] + Bit(i \in {}) - Bit(i \in given)
    BY <2>5, Referred
  <2>7. Alone(p)
    BY <2>3, <2>4 DEF Alone
  <2>8. Balanced(p)
    <3>1. \A i \in Inode : ref[i] \in Int /\ i # None /\ ref'[i] = ref[i] - Bit(cwd[p] = i)
      BY <1>1, <2>5, <2>6, Basics DEF Bit
    <3> QED
      BY <2>3, <2>4, <3>1, OpensKept DEF Balanced, Bit
  <2>9. FileTypes' /\ FilesHeld'
    <3>1. FileTypes'
      BY <1>1, <2>3, <2>4 DEF FilePart, FileTypes, pageVars
    <3>2. \A f \in File : Slots(f)' = Slots(f) /\ Makings(f)' = Makings(f)
      BY <2>4 DEF Slots, Makings
    <3>3. FilesHeld'
      BY <1>1, <2>4, <3>2 DEF FilePart, FilesHeld
    <3> QED
      BY <3>1, <3>3
  <2>10. Pipes'
    <3>1. \A q \in Proc : pc'[q] = "pipe" <=> pc[q] = "pipe"
      BY <1>2, <2>3
    <3>2. \A q \in Proc : \A f \in ends[q] : file'[f].ip = None
      BY <1>1, <2>4 DEF FilePart, Pipes
    <3> QED
      BY <1>1, <2>4, <3>1, <3>2, PipesKept DEF FilePart
  <2>11. Unstarted'
    BY <1>1, <2>1, <2>3, <2>4 DEF FilePart, Unstarted
  <2>12. PagesHeld'
    BY <1>1, <1>2, <2>3, PagesKept DEF FilePart
  <2>13. FilePart'
    BY <2>9, <2>10, <2>11, <2>12 DEF FilePart
  <2> QED
    BY <1>2, <2>3, <2>6, <2>7, <2>8, <2>13, FilesStep DEF Resting
<1> QED
  BY <1>3, <1>4 DEF ExitFiles

\* The child counts for each file as often as the parent.
LEMMA ForkStep ==
  ASSUME FileInv, NEW p \in Proc, NEW q \in Proc, Fork(p, q)
  PROVE  FileInv'
<1>1. /\ file \in [File -> [refs : Nat, ip : Inode \cup {None}]]
      /\ ofile \in [Proc -> [Fd -> File \cup {None}]]
      /\ cwd \in [Proc -> Inode \cup {None}] /\ ends \in [Proc -> SUBSET File]
      /\ FilePart /\ ref \in [Inode -> Int]
      /\ pc \in [Proc -> AtInode \cup Resting \cup {"undo"}]
  BY DEF FileInv, FilePart, FileTypes, WalkTypes, InodeTypes
<1>2. /\ cwd[p] # None /\ cwd[q] = None /\ p # q /\ pc' = pc /\ ends' = ends
      /\ UNCHANGED walkVars /\ UNCHANGED pageVars /\ Refer({cwd[p]}, {})
      /\ cwd' = [cwd EXCEPT ![q] = cwd[p]] /\ ofile' = [ofile EXCEPT ![q] = ofile[p]]
      /\ file' = [f \in File |-> [file[f] EXCEPT !.refs =
                    @ + Cardinality({fd \in Fd : ofile[p][fd] = f})]]
  BY DEF Fork, Enter
<1>3. cwd[p] \in Inode /\ type[cwd[p]] # "free"
  BY <1>2, Placed
<1>4. pc[q] = "user" /\ \A fd \in Fd : ofile[q][fd] = None
  BY <1>1, <1>2 DEF FilePart, Unstarted
<1>5. /\ cwd' \in [Proc -> Inode \cup {None}] /\ cwd'[q] = cwd[p]
      /\ \A r \in Proc : r # q => cwd'[r] = cwd[r]
      /\ ofile' \in [Proc -> [Fd -> File \cup {None}]]
      /\ \A fd \in Fd : ofile'[q][fd] = ofile[p][fd]
      /\ \A r \in Proc : r # q => ofile'[r] = ofile[r]
  BY <1>1, <1>2
<1> DEFINE row(f) == {fd \in Fd : ofile[p][fd] = f}
<1>6. ASSUME NEW f \in File
      PROVE  /\ IsFiniteSet(row(f)) /\ Cardinality(row(f)) \in Nat
             /\ file[f].refs = 0 => row(f) = {} /\ Cardinality(row(f)) = 0
  <2>1. IsFiniteSet(row(f))
    BY Interval, FilesAssumption, FS_Subset DEF Fd
  <2>2. Cardinality(row(f)) \in Nat /\ (row(f) = {} => Cardinality(row(f)) = 0)
    BY <2>1, FS_CardinalityType, FS_EmptySet
  <2>3. file[f].refs = 0 => row(f) = {}
    BY <1>1, HeldFiles
  <2> QED
    BY <2>1, <2>2, <2>3
<1>7. ASSUME NEW f \in File
      PROVE  /\ file'[f] \in [refs : Nat, ip : Inode \cup {None}]
             /\ file'[f].refs = file[f].refs + Cardinality(row(f))
             /\ file'[f].ip = file[f].ip
             /\ file'[f].refs = 0 <=> file[f].refs = 0
             /\ file'[f].refs \in Nat /\ file[f].refs \in Nat
             /\ file'[f].refs = 0 => file'[f] = NoFile
  <2>1. /\ file[f] \in [refs : Nat, ip : Inode \cup {None}] /\ file[f].refs \in Nat
        /\ file[f].refs = 0 => file[f] = NoFile
    BY <1>1, HeldFiles
  <2>2. file'[f] = [file[f] EXCEPT !.refs = file[f].refs + Cardinality(row(f))]
    BY <1>2
  <2>3. Cardinality(row(f)) \in Nat /\ (file[f].refs = 0 => Cardinality(row(f)) = 0)
    BY <1>6
  <2> HIDE DEF row
  <2>4. /\ file'[f] \in [refs : Nat, ip : Inode \cup {None}]
        /\ file'[f].refs = file[f].refs + Cardinality(row(f))
        /\ file'[f].ip = file[f].ip
    BY <2>1, <2>2, <2>3
  <2>5. file'[f].refs = 0 <=> file[f].refs = 0
    BY <2>1, <2>3, <2>4
  <2>6. file[f].refs = 0 => file'[f] = NoFile
    BY <2>1, <2>2, <2>3 DEF NoFile
  <2> QED
    BY <2>1, <2>4, <2>5, <2>6
<1>8. file' \in [File -> [refs : Nat, ip : Inode \cup {None}]]
  <2>1. file' = [f \in File |-> file'[f]]
    BY <1>2
  <2> QED
    BY <1>7, <2>1
<1>9. ASSUME NEW f \in File
      PROVE  Cardinality(Slots(f)') = Cardinality(Slots(f)) + Cardinality(row(f))
  <2> DEFINE new == {q} \X row(f)
  <2>1. IsFiniteSet(new) /\ Cardinality(new) = Cardinality(row(f))
    BY <1>6, RowOf
  <2>2. IsFiniteSet(Slots(f))
    BY Finite, FS_Subset DEF Slots
  <2>3. Slots(f)' = Slots(f) \cup new /\ Slots(f) \cap new = {}
    <3>1. ASSUME NEW r \in Proc, NEW e \in Fd
          PROVE  /\ <<r, e>> \in Slots(f)' <=> <<r, e>> \in Slots(f) \/ <<r, e>> \in new
                 /\ ~(<<r, e>> \in Slots(f) /\ <<r, e>> \in new)
      <4>1. f # None
        BY Basics
      <4>2. (<<r, e>> \in Slots(f) <=> ofile[r][e] = f)
            /\ (<<r, e>> \in Slots(f)' <=> ofile'[r][e] = f)
        BY DEF Slots
      <4>3. <<r, e>> \in new <=> r = q /\ ofile[p][e] = f
        OBVIOUS
      <4>4. CASE r = q
        BY <1>4, <1>5, <4>1, <4>2, <4>3, <4>4
      <4>5. CASE r # q
        BY <1>5, <4>2, <4>3, <4>5
      <4> QED
        BY <4>4, <4>5
    <3>2. \A z \in Slots(f) \cup Slots(f)' \cup new : \E r \in Proc, e \in Fd : z = <<r, e>>
      BY DEF Slots
    <3> HIDE DEF new
    <3> QED
      BY <3>1, <3>2
  <2> HIDE DEF new
  <2> QED
    BY <2>1, <2>2, <2>3, Disjoint
<1>10. FilesHeld'
  <2>1. ASSUME NEW f \in File
        PROVE  /\ file'[f].refs = Cardinality(Slots(f)') + Cardinality(Makings(f)')
               /\ file'[f].refs = 0 => file'[f] = NoFile
    <3>1. /\ Cardinality(Slots(f)) \in Nat /\ Cardinality(Makings(f)) \in Nat
          /\ file[f].refs = Cardinality(Slots(f)) + Cardinality(Makings(f))
      BY <1>1, HeldFiles
    <3>2. Makings(f)' = Makings(f)
      BY <1>2 DEF Makings
    <3>3. Cardinality(row(f)) \in Nat
      BY <1>6
    <3>4. file'[f].refs = file[f].refs + Cardinality(row(f))
      BY <1>7
    <3>5. Cardinality(Slots(f)') = Cardinality(Slots(f)) + Cardinality(row(f))
      BY <1>9
    <3> HIDE DEF row
    <3>6. file'[f].refs = Cardinality(Slots(f)') + Cardinality(Makings(f)')
      BY <3>1, <3>2, <3>3, <3>4, <3>5
    <3> QED
      BY <1>7, <3>6
  <2> QED
    BY <2>1 DEF FilesHeld
<1> HIDE DEF row
<1>11. FileTypes'
  BY <1>1, <1>2, <1>5, <1>8 DEF FilePart, FileTypes, pageVars
<1>12. Pipes'
  <2>1. \A r \in Proc : \A f \in ends[r] : file'[f].ip = None
    BY <1>1, <1>7 DEF FilePart, Pipes
  <2> QED
    BY <1>1, <1>2, <2>1, PipesKept DEF FilePart
<1>13. Unstarted'
  BY <1>1, <1>2, <1>5 DEF FilePart, Unstarted
<1>14. PagesHeld'
  BY <1>1, <1>2, <1>4, PagesKept DEF FilePart
<1>15. FilePart'
  BY <1>10, <1>11, <1>12, <1>13, <1>14 DEF FilePart
<1>16. \A i \in Inode : Opens(i)' = Opens(i)
  <2>1. \A f \in File : (file'[f].refs > 0 <=> file[f].refs > 0) /\ file'[f].ip = file[f].ip
    BY <1>7
  <2> QED
    BY <2>1 DEF Opens
<1>17. PICK taken \in SUBSET Inode : taken = {cwd[p]} /\ Refer(taken, {})
  BY <1>2, <1>3
<1>18. Referral /\ \A i \in Inode : ref'[i] = ref[i] + Bit(i \in taken) - Bit(i \in {})
  BY <1>3, <1>17, Referred
<1>19. call' = call /\ at' = at /\ path' = path /\ src' = src
  BY <1>2 DEF walkVars
<1>20. Alone(q)
  BY <1>2, <1>5, <1>19 DEF Alone
<1>21. Balanced(q)
  <2>1. \A i \in Inode : ref[i] \in Int /\ i # None /\ ref'[i] = ref[i] + Bit(cwd[p] = i)
    BY <1>1, <1>17, <1>18, Basics DEF Bit
  <2>2. \A i \in Inode : Cardinality(Opens(i)') - Cardinality(Opens(i)) = 0
    <3>1. \A i \in Inode : Cardinality(Opens(i)) \in Nat
      BY Finite, FS_Subset, FS_CardinalityType DEF Opens
    <3> QED
      BY <1>16, <3>1
  <2> QED
    BY <1>2, <1>5, <1>19, <2>1, <2>2 DEF Balanced, Bit
<1> QED
  BY <1>2, <1>4, <1>15, <1>18, <1>20, <1>21, FilesStep DEF Resting

-------------------------------------------------------------------------------
(***************************************************************************)
(* open() and chdir(): the reference of the walk is kept                   *)
(***************************************************************************)
LEMMA OpenFileStep ==
  ASSUME FileInv, NEW p \in Proc, OpenFile(p), UNCHANGED pageVars
  PROVE  FileInv'
<1>1. /\ file \in [File -> [refs : Nat, ip : Inode \cup {None}]]
      /\ ofile \in [Proc -> [Fd -> File \cup {None}]]
      /\ FilePart /\ ref \in [Inode -> Int] /\ WalkTypes
      /\ pc \in [Proc -> AtInode \cup Resting \cup {"undo"}]
  BY DEF FileInv, FilePart, FileTypes, WalkTypes, InodeTypes
<1>2. /\ pc[p] = "opening" /\ cwd' = cwd /\ ends' = ends /\ args' = args
      /\ freePages' = freePages
  BY DEF OpenFile, pageVars
<1>3. at[p] \in Inode /\ src[p] = None /\ cwd[p] # None /\ pc[p] \in AtInode
  <2>1. pc[p] \in AtInode /\ Place(p)
    BY <1>2, Placed DEF AtInode
  <2> QED
    BY <1>2, <2>1, Placed DEF Place
<1>4. CASE Fail(p) /\ UNCHANGED <<file, ofile>>
  BY <1>2, <1>3, <1>4, FailStep DEF fileVars, pageVars
<1>5. CASE /\ FreeFiles # {} /\ FreeFds(p) # {}
           /\ file' = [file EXCEPT ![Min(FreeFiles)] = [refs |-> 1, ip |-> at[p]]]
           /\ ofile' = [ofile EXCEPT ![p][Min(FreeFds(p))] = Min(FreeFiles)]
           /\ Return(p) /\ UNCHANGED inodeVars
  <2>1. PICK g \in File : g = Min(FreeFiles) /\ file[g].refs = 0
    BY <1>5, FirstFree DEF FreeFiles
  <2>2. PICK e \in Fd : e = Min(FreeFds(p)) /\ ofile[p][e] = None
    BY <1>5, FirstFree DEF FreeFds
  <2>3. /\ file' = [file EXCEPT ![g] = [refs |-> 1, ip |-> at[p]]]
        /\ ofile' = [ofile EXCEPT ![p][e] = g] /\ Return(p) /\ UNCHANGED inodeVars
    BY <1>5, <2>1, <2>2
  <2>4. /\ file' \in [File -> [refs : Nat, ip : Inode \cup {None}]]
        /\ file'[g].refs = 1 /\ file'[g].ip = at[p]
        /\ \A f \in File : f # g => file'[f] = file[f]
    BY <1>1, <1>3, <2>3
  <2>5. /\ ofile' \in [Proc -> [Fd -> File \cup {None}]]
        /\ ofile'[p][e] = g
        /\ \A q \in Proc, c \in Fd : <<q, c>> # <<p, e>> => ofile'[q][c] = ofile[q][c]
    BY <1>1, <2>3
  <2>6. /\ Alone(p) /\ Unlocked(p) /\ Founded(p) /\ WalkTypes' /\ Place(p)'
        /\ pc'[p] = "user" /\ at'[p] = None /\ src'[p] = None /\ Advancing(p)' = None
    BY <1>1, <1>2, <2>3, Returned
  <2>7. \A q \in Proc : q # p => pc'[q] = pc[q]
    BY <2>6 DEF Alone
  <2>8. FileTypes'
    BY <1>1, <1>2, <2>4, <2>5 DEF FilePart, FileTypes
  <2>9. FilesHeld'
    <3>1. ASSUME NEW f \in File
          PROVE  /\ file'[f].refs = Cardinality(Slots(f)') + Cardinality(Makings(f)')
                 /\ file'[f].refs = 0 => file'[f] = NoFile
      <4>1. /\ Cardinality(Slots(f)) \in Nat /\ Cardinality(Makings(f)) \in Nat
            /\ file[f].refs = Cardinality(Slots(f)) + Cardinality(Makings(f))
            /\ file[f].refs = 0 => file[f] = NoFile
        BY <1>1, HeldFiles
      <4>2. Cardinality(Slots(f)') = Cardinality(Slots(f)) + Bit(f = g)
        <5>1. f # None
          BY Basics
        <5> QED
          BY <2>2, <2>5, <4>1, <5>1, SlotMoves DEF Bit
      <4>3. Makings(f)' = Makings(f)
        BY <1>2 DEF Makings
      <4>4. file'[f].refs = file[f].refs + Bit(f = g)
        <5>1. f # g => file'[f].refs = file[f].refs /\ file[f].refs \in Nat
          BY <1>1, <2>4
        <5> QED
          BY <2>1, <2>4, <5>1 DEF Bit
      <4>5. file'[f].refs = Cardinality(Slots(f)') + Cardinality(Makings(f)')
        BY <4>1, <4>2, <4>3, <4>4 DEF Bit
      <4>6. file'[f].refs = 0 => file'[f] = NoFile
        BY <2>4, <4>1
      <4> QED
        BY <4>5, <4>6
    <3> QED
      BY <3>1 DEF FilesHeld
  <2>10. Pipes'
    <3>1. \A q \in Proc : \A f \in ends[q] : file'[f].ip = None
      <4>1. ASSUME NEW q \in Proc, NEW f \in ends[q]
            PROVE  file'[f].ip = None
        <5>1. f \in File /\ file[f].ip = None
          BY <1>1 DEF FilePart, FileTypes, Pipes
        <5>2. f # g
          BY <1>1, <2>1, <5>1, HeldFiles
        <5> QED
          BY <2>4, <5>1, <5>2
      <4> QED
        BY <4>1
    <3>2. \A q \in Proc : pc'[q] = "pipe" <=> pc[q] = "pipe"
      BY <1>2, <2>6, <2>7
    <3> QED
      BY <1>1, <1>2, <3>1, <3>2, PipesKept DEF FilePart
  <2>11. Unstarted'
    BY <1>1, <1>2, <1>3, <2>5, <2>7 DEF FilePart, Unstarted
  <2>12. PagesHeld'
    BY <1>1, <1>2, <2>7, PagesKept DEF FilePart, pageVars
  <2>13. FilePart'
    BY <2>8, <2>9, <2>10, <2>11, <2>12 DEF FilePart
  <2>14. Referral
    BY <2>3, Unreferred DEF Referral
  <2>15. Balanced(p)
    <3>1. ASSUME NEW i \in Inode
          PROVE  /\ Cardinality(Opens(i)) \in Nat
                 /\ Cardinality(Opens(i)') = Cardinality(Opens(i)) + Bit(at[p] = i)
      <4>1. IsFiniteSet(Opens(i))
        BY Finite, FS_Subset DEF Opens
      <4>2. g \notin Opens(i) /\ (g \in Opens(i)' <=> at[p] = i)
        BY <2>1, <2>4 DEF Opens
      <4>3. Opens(i) \ {g} = Opens(i)' \ {g}
        BY <2>4 DEF Opens
      <4> QED
        BY <4>1, <4>2, <4>3, Toggle DEF Bit
    <3>2. \A i \in Inode : ref[i] \in Int /\ i # None /\ ref'[i] = ref[i]
      BY <1>1, <2>3, Basics DEF inodeVars
    <3> QED
      BY <1>2, <1>3, <2>6, <3>1, <3>2 DEF Balanced, Bit
  <2>16. Advancing(p) = None
    BY <1>3 DEF Advancing
  <2> QED
    BY <2>6, <2>13, <2>14, <2>15, <2>16, QuietStep
<1> QED
  BY <1>4, <1>5 DEF OpenFile

\* chdir(): the old directory is given back, the walk's is kept.
LEMMA ChdirStep ==
  ASSUME FileInv, NEW p \in Proc, Chdir(p), UNCHANGED pageVars
  PROVE  FileInv'
<1>1. /\ cwd \in [Proc -> Inode \cup {None}]
      /\ FilePart /\ ref \in [Inode -> Int] /\ WalkTypes
  BY DEF FileInv, FilePart, FileTypes, InodeTypes
<1>2. /\ pc[p] = "chdir" /\ file' = file /\ ofile' = ofile /\ ends' = ends /\ args' = args
      /\ freePages' = freePages
  BY DEF Chdir, pageVars
<1>3. /\ at[p] \in Inode /\ src[p] = None /\ cwd[p] # None /\ cwd[p] \in Inode
      /\ pc[p] \in AtInode
  <2>1. pc[p] \in AtInode /\ Place(p)
    BY <1>2, Placed DEF AtInode
  <2> QED
    BY <1>2, <2>1, Placed DEF Place
<1>4. CASE Fail(p) /\ UNCHANGED cwd
  BY <1>2, <1>3, <1>4, FailStep DEF fileVars, pageVars
<1>5. CASE Refer({}, {cwd[p]}) /\ cwd' = [cwd EXCEPT ![p] = at[p]] /\ Return(p)
  <2>1. /\ cwd' \in [Proc -> Inode \cup {None}] /\ cwd'[p] = at[p]
        /\ \A q \in Proc : q # p => cwd'[q] = cwd[q]
    BY <1>1, <1>3, <1>5
  <2>2. /\ Alone(p) /\ Unlocked(p) /\ Founded(p) /\ WalkTypes' /\ Place(p)'
        /\ pc'[p] = "user" /\ at'[p] = None /\ src'[p] = None /\ Advancing(p)' = None
    BY <1>1, <1>5, <2>1, Returned
  <2>3. \A q \in Proc : q # p => pc'[q] = pc[q]
    BY <2>2 DEF Alone
  <2>4. FileTypes' /\ FilesHeld'
    BY <1>1, <1>2, <2>1 DEF FilePart, FileTypes, FilesHeld, Slots, Makings
  <2>5. Pipes'
    <3>1. \A q \in Proc : \A f \in ends[q] : file'[f].ip = None
      BY <1>1, <1>2 DEF FilePart, Pipes
    <3>2. \A q \in Proc : pc'[q] = "pipe" <=> pc[q] = "pipe"
      BY <1>2, <2>2, <2>3
    <3> QED
      BY <1>1, <1>2, <3>1, <3>2, PipesKept DEF FilePart
  <2>6. Unstarted'
    <3>1. at[p] # None
      BY <1>3, Basics
    <3> QED
      BY <1>1, <1>2, <2>1, <2>3, <3>1 DEF FilePart, Unstarted
  <2>7. PagesHeld'
    BY <1>1, <1>2, <2>3, PagesKept DEF FilePart, pageVars
  <2>8. FilePart'
    BY <2>4, <2>5, <2>6, <2>7 DEF FilePart
  <2>9. PICK given \in SUBSET Inode : given = {cwd[p]} /\ Refer({}, given)
    BY <1>3, <1>5
  <2>10. Referral /\ \A i \in Inode : ref'[i] = ref[i] + Bit(i \in {}) - Bit(i \in given)
    BY <2>9, Referred
  <2>11. Balanced(p)
    <3>1. \A i \in Inode : ref[i] \in Int /\ i # None /\ ref'[i] = ref[i] - Bit(cwd[p] = i)
      BY <1>1, <2>9, <2>10, Basics DEF Bit
    <3> QED
      BY <1>2, <1>3, <2>1, <2>2, <3>1, OpensKept DEF Balanced, Bit
  <2>12. Advancing(p) = None
    BY <1>3 DEF Advancing
  <2> QED
    BY <2>2, <2>8, <2>10, <2>11, <2>12, QuietStep
<1> QED
  BY <1>4, <1>5 DEF Chdir

-------------------------------------------------------------------------------
(***************************************************************************)
(* The initial states                                                      *)
(***************************************************************************)

\* The files and the calls: there are none.
LEMMA InitFiles ==
  ASSUME Init
  PROVE  WalkTypes /\ FilePart /\ Places /\ OneLocker
<1>1. /\ file = [f \in File |-> NoFile] /\ ofile = [p \in Proc |-> [fd \in Fd |-> None]]
      /\ pc = [p \in Proc |-> "user"] /\ call = [p \in Proc |-> NoCall]
      /\ at = [p \in Proc |-> None] /\ src = [p \in Proc |-> None]
      /\ path = [p \in Proc |-> <<>>] /\ ends = [p \in Proc |-> {}]
      /\ args = [p \in Proc |-> 0] /\ freePages = PAGES
      /\ cwd \in [Proc -> {i \in Inode : type[i] = "dir"}]
  BY DEF Init
<1>2. <<>> \in Seq(Words) /\ "user" \in Resting
  BY DEF Resting
<1>3. WalkTypes
  BY <1>1, <1>2 DEF WalkTypes
<1>4. NoFile \in [refs : Nat, ip : Inode \cup {None}] /\ NoFile.refs = 0 /\ NoCall.op = "none"
  BY DEF NoFile, NoCall
<1>5. FileTypes
  BY <1>1, <1>4, FilesAssumption DEF FileTypes
<1>6. FilesHeld
  <2>1. \A f \in File : Slots(f) = {} /\ Makings(f) = {}
    BY <1>1, Basics DEF Slots, Makings
  <2>2. \A f \in File : Cardinality(Slots(f)) = 0 /\ Cardinality(Makings(f)) = 0
    BY <2>1, FS_EmptySet
  <2>3. \A f \in File : file[f] = NoFile
    BY <1>1
  <2> QED
    BY <1>4, <2>2, <2>3 DEF FilesHeld
<1>7. Pipes /\ Unstarted
  BY <1>1 DEF Pipes, Unstarted
<1>8. PagesHeld
  <2>1. ArgPages = {}
    BY <1>1, FilesAssumption DEF ArgPages
  <2> QED
    BY <1>1, <2>1, FS_EmptySet, FilesAssumption DEF PagesHeld
<1>9. Places
  BY <1>1, <1>4 DEF Places, Place, AtInode, Resting
<1>10. OneLocker
  BY <1>1 DEF OneLocker, Holding
<1> QED
  BY <1>3, <1>5, <1>6, <1>7, <1>8, <1>9, <1>10 DEF FilePart

\* The directories: at most the root, and two inodes of which the second is in
\* the root or in the first.
FirstTree(parent) ==
  /\ type \in [Inode -> Kinds] /\ entry \in [Inode -> [Names -> Inode \cup {None}]]
  /\ type[1] = "dir" /\ type[2] \in {"free", "dir"} /\ type[3] \in {"free", "file", "dir"}
  /\ type[2] = "free" <=> type[3] = "free"
  /\ \A i \in Inode : i \notin {1, 2, 3} => type[i] = "free"
  /\ \A i \in Inode :
       entry[i][".."] = IF type[i] # "dir" THEN None ELSE IF i = 3 THEN parent ELSE 1
  /\ \A i \in Inode, n \in Name :
       entry[i][n] = IF i = 1 /\ n = "a" /\ type[2] # "free" THEN 2
                     ELSE IF i = parent /\ n = "b" /\ type[3] # "free" THEN 3
                     ELSE None

AllNames(i) == {x \in Inode \X Names : entry[x[1]][x[2]] = i}

\* Init makes such a tree, with the links counted from its names.
LEMMA InitTree ==
  ASSUME Init
  PROVE  /\ \E parent \in {1, 2} : FirstTree(parent)
         /\ nlink = [i \in Inode |-> Cardinality(AllNames(i))]
<1>1. PICK t \in Tree, parent \in 1 .. 2 :
        /\ type = [i \in Inode |->
                     IF i = Root THEN "dir" ELSE IF i <= 3 THEN t[i - 1] ELSE "free"]
        /\ entry = [i \in Inode |-> [n \in Names |->
             CASE n = ".." -> IF type[i] # "dir" THEN None ELSE IF i = 3 THEN parent ELSE Root
               [] i = Root /\ n = "a" /\ type[2] # "free" -> 2
               [] i = parent /\ n = "b" /\ type[3] # "free" -> 3
               [] OTHER -> None]]
        /\ nlink = [i \in Inode |->
                      Cardinality({x \in Inode \X Names : entry[x[1]][x[2]] = i})]
  BY DEF Init
<1>2. parent \in {1, 2} /\ 1 \in Inode /\ 2 \in Inode /\ 3 \in Inode
  <2>1. 1 \in 1 .. 3 /\ 2 \in 1 .. 3 /\ 3 \in 1 .. 3
    OBVIOUS
  <2> QED
    BY <2>1, FilesAssumption
<1>3. /\ t[1] \in {"free", "dir"} /\ t[2] \in {"free", "file", "dir"}
      /\ t[1] = "free" <=> t[2] = "free"
  BY DEF Tree
<1>4. ASSUME NEW i \in Inode
      PROVE  type[i] = IF i = 1 THEN "dir" ELSE IF i = 2 THEN t[1]
                       ELSE IF i = 3 THEN t[2] ELSE "free"
  <2>1. i \in Nat /\ i # 0
    BY FilesAssumption DEF None
  <2>2. CASE i = 1
    BY <1>1, <2>2 DEF Root
  <2>3. CASE i = 2
    BY <1>1, <2>3 DEF Root
  <2>4. CASE i = 3
    BY <1>1, <2>4 DEF Root
  <2>5. CASE i \notin {1, 2, 3}
    <3>1. ~(i <= 3)
      BY <2>1, <2>5
    <3> QED
      BY <1>1, <2>5, <3>1 DEF Root
  <2> QED
    BY <2>2, <2>3, <2>4, <2>5
<1>5. type \in [Inode -> Kinds]
  <2>1. type = [i \in Inode |-> type[i]]
    BY <1>1
  <2>2. \A i \in Inode : type[i] \in Kinds
    BY <1>3, <1>4 DEF Kinds
  <2> QED
    BY ONLY <2>1, <2>2
<1>6. \A i \in Inode :
        entry[i][".."] = IF type[i] # "dir" THEN None ELSE IF i = 3 THEN parent ELSE 1
  BY <1>1, Basics DEF Root
<1>7. \A i \in Inode, n \in Name :
        entry[i][n] = IF i = 1 /\ n = "a" /\ type[2] # "free" THEN 2
                      ELSE IF i = parent /\ n = "b" /\ type[3] # "free" THEN 3
                      ELSE None
  <2>1. \A i \in Inode, n \in Name : n # ".." /\ n \in Names
    BY Basics
  <2> QED
    BY <1>1, <2>1 DEF Root
<1>8. entry \in [Inode -> [Names -> Inode \cup {None}]]
  <2>1. entry = [i \in Inode |-> [n \in Names |-> entry[i][n]]]
    BY <1>1
  <2>2. \A i \in Inode, n \in Names : entry[i][n] \in Inode \cup {None}
    BY <1>2, <1>6, <1>7 DEF Names
  <2> QED
    BY ONLY <2>1, <2>2
<1>9. FirstTree(parent)
  BY <1>2, <1>3, <1>4, <1>5, <1>6, <1>7, <1>8 DEF FirstTree
<1> QED
  BY <1>1, <1>2, <1>9 DEF AllNames

\* Adding an element adds at most one.
LEMMA OneMore ==
  ASSUME NEW S, IsFiniteSet(S), NEW n \in Nat, Cardinality(S) <= n, NEW x
  PROVE  IsFiniteSet(S \cup {x}) /\ Cardinality(S \cup {x}) <= n + 1
<1>1. /\ IsFiniteSet(S \cup {x})
      /\ Cardinality(S \cup {x}) = IF x \in S THEN Cardinality(S) ELSE Cardinality(S) + 1
  BY FS_AddElement
<1>2. Cardinality(S) \in Nat
  BY FS_CardinalityType
<1> QED
  BY <1>1, <1>2

\* A set of at most three elements.
LEMMA Three ==
  ASSUME NEW a, NEW b, NEW c, NEW S \in SUBSET {a, b, c}
  PROVE  IsFiniteSet(S) /\ Cardinality(S) \in Nat /\ Cardinality(S) <= 3
<1>1. PICK A : A = {a}
  OBVIOUS
<1>2. PICK B : B = A \cup {b}
  OBVIOUS
<1>3. PICK C : C = B \cup {c}
  OBVIOUS
<1>4. IsFiniteSet(A) /\ Cardinality(A) <= 1
  <2>1. IsFiniteSet({a}) /\ Cardinality({a}) = 1
    BY FS_Singleton
  <2> QED
    BY <1>1, <2>1
<1>5. IsFiniteSet(B) /\ Cardinality(B) <= 1 + 1
  BY <1>2, <1>4, OneMore
<1>6. Cardinality(B) <= 2
  BY <1>5
<1>7. IsFiniteSet(C) /\ Cardinality(C) <= 2 + 1
  BY <1>3, <1>5, <1>6, OneMore
<1>8. S \subseteq C
  BY <1>1, <1>2, <1>3
<1>9. /\ IsFiniteSet(S) /\ Cardinality(S) <= Cardinality(C)
      /\ Cardinality(S) \in Nat /\ Cardinality(C) \in Nat
  BY <1>7, <1>8, FS_Subset, FS_CardinalityType
<1> QED
  BY <1>7, <1>9

\* The initial states satisfy the invariant.
LEMMA InitInv ==
  ASSUME Init
  PROVE  FileInv
<1>1. PICK parent \in {1, 2} : FirstTree(parent)
  BY InitTree
<1>2. nlink = [i \in Inode |-> Cardinality(AllNames(i))]
  BY InitTree
<1>3. /\ 1 \in Inode /\ 2 \in Inode /\ 3 \in Inode /\ "a" \in Name /\ "b" \in Name
      /\ Root = 1 /\ None = 0
  <2>1. 1 \in 1 .. 3 /\ 2 \in 1 .. 3 /\ 3 \in 1 .. 3
    OBVIOUS
  <2> QED
    BY <2>1, FilesAssumption DEF Root, None
<1>4. /\ type[1] = "dir" /\ type[2] \in {"free", "dir"} /\ type[3] \in {"free", "file", "dir"}
      /\ type[2] = "free" <=> type[3] = "free"
      /\ \A i \in Inode : i \notin {1, 2, 3} => type[i] = "free"
      /\ type \in [Inode -> Kinds] /\ entry \in [Inode -> [Names -> Inode \cup {None}]]
  BY <1>1 DEF FirstTree
<1>5. \A i \in Inode :
        entry[i][".."] = IF type[i] # "dir" THEN None ELSE IF i = 3 THEN parent ELSE 1
  BY <1>1 DEF FirstTree
<1>6. \A i \in Inode, n \in Name :
        entry[i][n] = IF i = 1 /\ n = "a" /\ type[2] # "free" THEN 2
                      ELSE IF i = parent /\ n = "b" /\ type[3] # "free" THEN 3
                      ELSE None
  BY <1>1 DEF FirstTree
<1>7. \A i \in Inode, n \in Names :
        entry[i][n] # None => type[i] = "dir" /\ type[entry[i][n]] # "free"
  <2>1. \A i \in Inode, n \in Name :
          entry[i][n] # None => type[i] = "dir" /\ type[entry[i][n]] # "free"
    BY <1>3, <1>4, <1>6
  <2>2. \A i \in Inode :
          entry[i][".."] # None => type[i] = "dir" /\ type[entry[i][".."]] # "free"
    BY <1>3, <1>4, <1>5
  <2> QED
    BY <2>1, <2>2 DEF Names
<1>8. \A i \in Inode : type[i] # "free" => AllNames(i) # {}
  <2>1. <<1, "..">> \in AllNames(1)
    BY <1>3, <1>4, <1>5, Basics DEF AllNames
  <2>2. type[2] # "free" => <<1, "a">> \in AllNames(2)
    BY <1>3, <1>6, Basics DEF AllNames
  <2>3. type[3] # "free" => <<parent, "b">> \in AllNames(3)
    BY <1>3, <1>6, Basics DEF AllNames
  <2> QED
    BY <1>4, <2>1, <2>2, <2>3
<1>9. \A i \in Inode : type[i] = "free" => AllNames(i) = {}
  <2>1. \A d, i \in Inode, n \in Names : entry[d][n] = i => type[i] # "free"
    BY <1>7, Basics
  <2> QED
    BY <2>1 DEF AllNames
<1>10. ASSUME NEW i \in Inode
       PROVE  /\ IsFiniteSet(AllNames(i)) /\ Cardinality(AllNames(i)) \in Nat
              /\ Cardinality(AllNames(i)) <= 3
              /\ Cardinality(AllNames(i)) = 0 <=> type[i] = "free"
  <2>1. CASE i = 1
    <3>1. AllNames(1) \subseteq {<<1, "..">>, <<2, "..">>, <<3, "..">>}
      <4>1. \A d \in Inode, n \in Names : entry[d][n] = 1 => n = ".." /\ d \in {1, 2, 3}
        BY <1>3, <1>4, <1>5, <1>6 DEF Names
      <4> QED
        BY <4>1 DEF AllNames
    <3> QED
      BY <1>8, <1>9, <2>1, <3>1, Three, FS_EmptySet
  <2>2. CASE i = 2
    <3>1. AllNames(2) \subseteq {<<1, "a">>, <<3, "..">>, <<3, "..">>}
      <4>1. \A d \in Inode, n \in Names :
              entry[d][n] = 2 => (d = 1 /\ n = "a") \/ (d = 3 /\ n = "..")
        BY <1>3, <1>4, <1>5, <1>6 DEF Names
      <4> QED
        BY <4>1 DEF AllNames
    <3>2. /\ IsFiniteSet(AllNames(2)) /\ Cardinality(AllNames(2)) \in Nat
          /\ Cardinality(AllNames(2)) <= 3
      BY <3>1, Three
    <3> QED
      BY <1>3, <1>8, <1>9, <2>2, <3>2, FS_EmptySet
  <2>3. CASE i \notin {1, 2}
    <3>1. AllNames(i) \subseteq {<<parent, "b">>, <<parent, "b">>, <<parent, "b">>}
      <4>1. \A d \in Inode, n \in Names : entry[d][n] = i => d = parent /\ n = "b"
        <5>1. i # 0
          BY <1>3, Basics
        <5> QED
          BY <1>3, <1>5, <1>6, <2>3, <5>1 DEF Names
      <4> QED
        BY <4>1 DEF AllNames
    <3> QED
      BY <1>8, <1>9, <3>1, Three, FS_EmptySet
  <2> QED
    BY <2>1, <2>2, <2>3
<1>11. \A i \in Inode : /\ nlink[i] = Cardinality(AllNames(i)) /\ nlink[i] \in Nat
                        /\ nlink[i] > 0 <=> type[i] # "free"
  BY <1>2, <1>10
<1>12. \A i \in Inode : Live(i) <=> type[i] = "dir"
  BY <1>11 DEF Live
<1>13. InodeTypes
  <2>1. nlink \in [Inode -> Int]
    BY <1>2, <1>11
  <2>2. ref \in [Inode -> Int]
    <3>1. /\ ref = [i \in Inode |-> Cardinality(Cwds(i))]
          /\ \A i \in Inode : Cardinality(Cwds(i)) \in Nat
      BY Finite, FS_Subset, FS_CardinalityType DEF Init, Cwds
    <3> QED
      BY <3>1
  <2> QED
    BY <1>4, <2>1, <2>2 DEF InodeTypes
<1>14. References
  <2>1. ASSUME NEW i \in Inode
        PROVE  ref[i] = Holders(i) /\ (type[i] = "free" => ref[i] = 0)
    <3>1. i # None
      BY Basics
    <3>2. ref[i] = Cardinality(Cwds(i)) /\ Cardinality(Cwds(i)) \in Nat
      BY Finite, FS_Subset, FS_CardinalityType DEF Init, Cwds
    <3>3. Ats(i) = {} /\ Srcs(i) = {} /\ Opens(i) = {}
      BY <3>1 DEF Init, Ats, Srcs, Opens, NoFile
    <3>4. type[i] = "free" => Cwds(i) = {}
      <4>1. \A p \in Proc : type[cwd[p]] = "dir"
        BY DEF Init
      <4> QED
        BY <4>1 DEF Cwds
    <3> QED
      BY <3>2, <3>3, <3>4, FS_EmptySet DEF Holders
  <2> QED
    BY <1>11, <2>1 DEF References
<1>15. Finds
  <2>1. \A p \in Proc : pc[p] = "user" /\ src[p] = None
    BY DEF Init
  <2> QED
    BY <2>1 DEF Finds, Found
<1>16. Directories
  <2>1. ASSUME NEW d \in Inode
        PROVE  IF type[d] = "dir" THEN entry[d][".."] # None ELSE entry[d] = NoNames
    <3>1. type[d] = "dir" => entry[d][".."] # None
      BY <1>3, <1>5
    <3>2. type[d] # "dir" => entry[d] = NoNames
      <4>1. type[d] # "dir" => \A n \in Names : entry[d][n] = None
        BY <1>7
      <4> QED
        BY <1>4, <4>1 DEF NoNames
    <3> QED
      BY <3>1, <3>2
  <2>2. Live(Root) /\ entry[Root][".."] = Root
    BY <1>3, <1>4, <1>5, <1>12
  <2>3. \A d \in Inode, n \in Name : entry[d][n] # Root /\ (entry[d][n] # None => Live(d))
    BY <1>3, <1>6, <1>7, <1>12, Basics
  <2>4. ASSUME NEW d \in Inode, Live(d), d # Root
        PROVE  Live(entry[d][".."]) /\ \E n \in Name : entry[entry[d][".."]][n] = d
    <3>1. d \in {2, 3} /\ type[d] = "dir"
      BY <1>3, <1>4, <1>12, <2>4
    <3>2. CASE d = 2
      BY <1>3, <1>4, <1>5, <1>6, <1>12, <3>1, <3>2
    <3>3. CASE d = 3
      <4>1. entry[d][".."] = parent /\ entry[parent]["b"] = 3 /\ type[parent] = "dir"
        BY <1>3, <1>4, <1>5, <1>6, <3>1, <3>3
      <4> QED
        BY <1>3, <1>12, <3>3, <4>1
    <3> QED
      BY <3>1, <3>2, <3>3
  <2> QED
    BY <2>1, <2>2, <2>3, <2>4 DEF Directories
<1>17. OneName
  <2>1. \A b \in Inode, m \in Name :
          /\ entry[b][m] \in {0, 2, 3}
          /\ entry[b][m] = 2 => b = 1 /\ m = "a"
          /\ entry[b][m] = 3 => b = parent /\ m = "b"
    BY <1>3, <1>6
  <2>2. \A d \in Inode : d # 0
    BY <1>3, Basics
  <2> QED
    BY <2>1, <2>2 DEF OneName
<1>18. Acyclic
  <2>1. ASSUME NEW S \in SUBSET Inode, \A d \in S : \E n \in Name : entry[d][n] \in S
        PROVE  S = {}
    <3>1. 0 \notin S
      BY <1>3, Basics
    <3>2. 3 \notin S
      BY <1>3, <1>6, <2>1, <3>1
    <3>3. 2 \notin S
      BY <1>3, <1>6, <2>1, <3>1, <3>2
    <3>4. \A d \in Inode, n \in Name : entry[d][n] \in {0, 2, 3}
      BY <1>3, <1>6
    <3> QED
      BY <2>1, <3>1, <3>2, <3>3, <3>4
  <2> QED
    BY <2>1 DEF Acyclic
<1>19. Links
  <2>1. ASSUME NEW i \in Inode
        PROVE  /\ nlink[i] = Cardinality(NamesOf(i)) + Cardinality(Advance(i))
               /\ nlink[i] <= NLINK_MAX
    <3>1. i # None
      BY Basics
    <3>2. NamesOf(i) = AllNames(i)
      BY <1>7, <1>12, <3>1 DEF NamesOf, AllNames
    <3>3. Advance(i) = {}
      BY <3>1 DEF Init, Advance
    <3>4. nlink[i] <= 3 /\ NLINK_MAX >= 3 /\ NLINK_MAX \in Nat
      BY <1>10, <1>11, FilesAssumption
    <3> QED
      BY <1>11, <3>2, <3>3, <3>4, FS_EmptySet
  <2> QED
    BY <2>1 DEF Links
<1> QED
  BY <1>13, <1>14, <1>15, <1>16, <1>17, <1>18, <1>19, InitFiles DEF FileInv, TreePart

-------------------------------------------------------------------------------
(***************************************************************************)
(* Every step                                                              *)
(***************************************************************************)
LEMMA NextInv ==
  ASSUME FileInv, [Next]_vars
  PROVE  FileInv'
<1>1. CASE UNCHANGED vars
  <2>1. /\ type' = type /\ nlink' = nlink /\ ref' = ref /\ entry' = entry /\ file' = file
        /\ ofile' = ofile /\ cwd' = cwd /\ pc' = pc /\ call' = call /\ at' = at
        /\ path' = path /\ src' = src /\ ends' = ends /\ args' = args
        /\ freePages' = freePages
    BY <1>1 DEF vars, inodeVars, walkVars, pageVars
  <2>2. InodeTypes' /\ WalkTypes' /\ OneLocker'
    BY <2>1 DEF FileInv, InodeTypes, WalkTypes, OneLocker
  <2>3. FilePart'
    BY <2>1 DEF FileInv, FilePart, FileTypes, FilesHeld, Slots, Makings, Pipes, Unstarted,
                PagesHeld, ArgPages
  <2>4. References'
    BY <2>1 DEF FileInv, References, Holders, Cwds, Ats, Srcs, Opens
  <2>5. Places' /\ Finds'
    BY <2>1 DEF FileInv, Places, Place, ByParent, Finds, Found, Last
  <2>6. TreePart'
    <3>1. \A i \in Inode : NamesOf(i)' = NamesOf(i) /\ Advance(i)' = Advance(i)
      BY <2>1 DEF NamesOf, Live, Advance
    <3>2. Links'
      BY <2>1, <3>1 DEF FileInv, TreePart, Links
    <3>3. Directories' /\ OneName' /\ Acyclic'
      BY <2>1 DEF FileInv, TreePart, Directories, Live, OneName, Acyclic
    <3> QED
      BY <3>2, <3>3 DEF TreePart
  <2> QED
    BY <2>2, <2>3, <2>4, <2>5, <2>6 DEF FileInv
<1>2. ASSUME NEW p \in Proc, Step(p)
      PROVE  FileInv'
  <2>1. CASE /\ \/ Walk(p) \/ LinkTarget(p) \/ LinkEntry(p) \/ LinkUndo(p)
                \/ UnlinkEntry(p) \/ Remove(p) \/ Create(p) \/ Exists(p) \/ OpenLock(p)
             /\ UNCHANGED <<file, ofile, cwd, ends, pageVars>>
    <3>1. UNCHANGED fileVars
      BY <2>1 DEF fileVars
    <3> QED
      BY <2>1, <3>1, WalkStep, LinkTargetStep, LinkEntryStep, LinkUndoStep, UnlinkEntryStep,
         RemoveStep, CreateStep, ExistsStep, OpenLockStep
  <2>2. CASE /\ OpenFile(p) \/ Chdir(p) \/ PipeFinish(p) \/ ExitFiles(p)
             /\ UNCHANGED pageVars
    BY <2>2, OpenFileStep, ChdirStep, PipeFinishStep, ExitFilesStep
  <2>3. CASE /\ ExecArg(p) \/ FreeArgs(p)
             /\ UNCHANGED <<inodeVars, file, ofile, cwd, walkVars, ends>>
    BY <2>3, ExecArgStep, FreeArgsStep
  <2> QED
    BY <1>2, <2>1, <2>2, <2>3 DEF Step
<1>3. ASSUME NEW p \in Proc, Start(p)
      PROVE  FileInv'
  BY <1>3, StartPathStep, DupStep, CloseStep, ForkStep, PipeAllocStep, BeginStep DEF Start
<1> QED
  BY <1>1, <1>2, <1>3 DEF Next

-------------------------------------------------------------------------------
(***************************************************************************)
(* The theorems                                                            *)
(***************************************************************************)

\* The calls of sysfile.c, interleaved lock by lock, keep FileInv: the types,
\* the counts of inodes, files and pages, and the tree.
THEOREM InductiveInvariant == Spec => []FileInv
<1>1. Init => FileInv
  BY InitInv
<1>2. FileInv /\ [Next]_vars => FileInv'
  BY NextInv
<1> QED
  BY <1>1, <1>2, PTL DEF Spec

\* The names of the directories that unlink() holds would lead round in a circle.
LEMMA NoCircle ==
  ASSUME FileInv
  PROVE  NoLockCycle
<1> SUFFICES ASSUME NEW S \in SUBSET Proc, S # {},
                    \A p \in S : pc[p] = "remove" /\ \E q \in S : at[q] = src[p]
             PROVE  FALSE
  BY DEF NoLockCycle
<1> DEFINE held == {at[p] : p \in S}
<1>1. \A p \in S : at[p] \in Inode
  BY Placed DEF AtInode
<1>2. \A d \in held : \E n \in Name : entry[d][n] \in held
  <2>1. ASSUME NEW p \in S
        PROVE  Last(p) \in Name /\ entry[at[p]][Last(p)] \in held
    BY DEF FileInv, Finds, Found
  <2> QED
    BY <2>1
<1>3. held \in SUBSET Inode /\ held # {}
  BY <1>1
<1> HIDE DEF held
<1> QED
  BY <1>2, <1>3 DEF FileInv, TreePart, Acyclic

\* unlink() takes the lock of an inode while it holds that of the directory:
\* two such calls, or more, never wait for each other.
THEOREM NoLockCycleCorrect == Spec => []NoLockCycle
<1>1. FileInv => NoLockCycle
  BY NoCircle
<1> QED
  BY <1>1, InductiveInvariant, PTL

\* At the commit of the log, when no call is under way, the links of an inode
\* are its names, on every error path of link(), unlink() and create().
THEOREM LinkCountsCorrect == Spec => []LinkCounts
<1>1. FileInv => LinkCounts
  <2> SUFFICES ASSUME FileInv, \A p \in Proc : call[p] = NoCall, NEW i \in Inode
               PROVE  nlink[i] = Cardinality(NamesOf(i)) /\ nlink[i] <= NLINK_MAX
    BY DEF LinkCounts, NamesOf, Count
  <2>1. \A p \in Proc : src[p] = None
    BY DEF FileInv, Places, Place
  <2>2. Advance(i) = {}
    BY <2>1, Basics DEF Advance
  <2>3. Cardinality(Advance(i)) = 0
    BY <2>2, FS_EmptySet
  <2> QED
    BY <2>3, NamesCounted
<1> QED
  BY <1>1, InductiveInvariant, PTL

\* The names form a tree at every moment, whatever calls are under way.
THEOREM TreeSoundCorrect == Spec => []TreeSound
<1>1. FileInv => TreeSound
  <2> SUFFICES ASSUME FileInv, NEW d \in Inode
               PROVE  /\ Live(d) /\ d # Root =>
                           /\ Count({x \in Inode \X Name : entry[x[1]][x[2]] = d}) = 1
                           /\ Live(entry[d][".."]) /\ \E n \in Name : entry[entry[d][".."]][n] = d
                      /\ \A n \in Name :
                           entry[d][n] # None => Live(d) /\ type[entry[d][n]] # "free"
    BY DEF TreeSound
  <2>1. Directories /\ OneName /\ entry \in [Inode -> [Names -> Inode \cup {None}]]
    BY DEF FileInv, TreePart, InodeTypes
  <2>2. ASSUME Live(d), d # Root
        PROVE  /\ Count({x \in Inode \X Name : entry[x[1]][x[2]] = d}) = 1
               /\ Live(entry[d][".."]) /\ \E n \in Name : entry[entry[d][".."]][n] = d
    <3>1. Live(entry[d][".."]) /\ entry[d][".."] # None /\ type[d] = "dir"
      BY <2>1, <2>2 DEF Directories, Live
    <3>2. PICK b \in Inode : b = entry[d][".."]
      BY <2>1, <3>1, Basics
    <3>3. PICK n \in Name : entry[b][n] = d
      BY <2>1, <2>2, <3>2 DEF Directories
    <3>4. {x \in Inode \X Name : entry[x[1]][x[2]] = d} = {<<b, n>>}
      <4>1. \A c \in Inode, m \in Name : entry[c][m] = d <=> c = b /\ m = n
        BY <2>1, <3>1, <3>3 DEF OneName
      <4> QED
        BY <4>1
    <3>5. Cardinality({<<b, n>>}) = 1
      BY FS_Singleton
    <3> QED
      BY <3>1, <3>2, <3>3, <3>4, <3>5 DEF Count
  <2>3. ASSUME NEW n \in Name, entry[d][n] # None
        PROVE  Live(d) /\ type[entry[d][n]] # "free"
    <3>1. Live(d) /\ type[d] = "dir"
      BY <2>1, <2>3 DEF Directories, Live
    <3>2. n \in Words /\ Lookup(d, n) = entry[d][n]
      BY Basics DEF Words, Lookup
    <3> QED
      BY <2>3, <3>1, <3>2, LookupFound
  <2> QED
    BY <2>2, <2>3
<1> QED
  BY <1>1, InductiveInvariant, PTL

\* No reference to an inode or a file and no page is lost or given back twice,
\* on every error path.
THEOREM NothingLostCorrect == Spec => []NothingLost
<1>1. FileInv => NothingLost
  <2> SUFFICES ASSUME FileInv
               PROVE  NothingLost
    OBVIOUS
  <2>1. References /\ FilesHeld /\ PagesHeld
    BY DEF FileInv, FilePart
  <2>2. \A p \in Proc : pc[p] = "user" => args[p] = 0
    BY <2>1 DEF PagesHeld
  <2> QED
    BY <2>1, <2>2 DEF NothingLost, References, Holders, Cwds, Ats, Srcs, Opens, FilesHeld,
                      Slots, Makings, PagesHeld, ArgPages, Count
<1> QED
  BY <1>1, InductiveInvariant, PTL

===============================================================================
