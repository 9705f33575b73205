------------------------------- MODULE FileCalls -------------------------------
(***************************************************************************)
(* The file system calls of the Assignment 4 kernel (sysfile.c), which     *)
(* several processes make at once on one tree of directories: link,        *)
(* unlink, open, mkdir, mknod, chdir, dup, close, pipe, exec, and what     *)
(* fork and exit do to the descriptors.                                    *)
(*                                                                         *)
(* The inode layer (namei, dirlookup, dirlink, ialloc, iput) and the file  *)
(* table are not in this repository: they appear here as the calls expect  *)
(* them to be.  Contents, sizes and offsets of files are left out.         *)
(*                                                                         *)
(* An action covers what happens under one inode lock, from ilock() to     *)
(* iunlock(); the two stretches in which a call waits or works with a lock *)
(* held are steps of their own, and Locked says which lock it is.          *)
(***************************************************************************)
EXTENDS Integers, Sequences, FiniteSets, FiniteSetsExt

CONSTANTS Proc, Inode, File, Name,
          Paths,             \* those the calls name, relative to the directory
          NOFILE,            \* descriptors of a process
          NLINK_MAX,         \* links of an inode
          MAXARG,            \* arguments of exec
          PAGES,             \* pages kalloc() can still give
          Calls,             \* bound: the calls with paths that are made
          MaxCalls           \* bound: calls made in a behaviour

VARIABLES type, nlink,       \* of every inode; "free" on the disk
          ref,               \* references to it, in the inode table
          entry,             \* what the names and ".." of a directory stand for
          file,              \* file[f]: references, inode (None: a pipe)
          ofile, cwd,        \* of every process
          pc, call,          \* what it does
          at, path,          \* where its walk is, the names it has left
          src,               \* the inode it links or removes
          ends,              \* pipe ends it has allocated
          args, freePages,   \* pages of its arguments; of the allocator
          calls

inodeVars == <<type, nlink, ref, entry>>
walkVars == <<call, at, path, src>>
pageVars == <<args, freePages>>
vars == <<inodeVars, file, ofile, cwd, pc, walkVars, ends, pageVars, calls>>

None == 0                    \* a null pointer
Root == 1
Fd == 1 .. NOFILE
Names == Name \cup {".."}
NoNames == [n \in Names |-> None]
NoFile == [refs |-> 0, ip |-> None]
NoCall == [op |-> "none"]

\* openCreate is open with O_CREATE; openWrite is open for more than reading.
PathCall ==
  [op : {"unlink", "mkdir", "mknod", "openCreate", "open", "openWrite", "chdir"},
   path : Paths, to : {<<>>}]
  \cup [op : {"link"}, path : Paths, to : Paths]

ASSUME CallsAssumption == Calls \subseteq PathCall

\* The trees of Init have three inodes, two names and three links of the root.
ASSUME FilesAssumption ==
  /\ IsFiniteSet(Proc) /\ IsFiniteSet(Name) /\ IsFiniteSet(Inode) /\ IsFiniteSet(File)
  /\ Inode \subseteq Nat \ {None} /\ File \subseteq Nat \ {None} /\ 1 .. 3 \subseteq Inode
  /\ {"a", "b"} \subseteq Name /\ Name \cap {".", ".."} = {}
  /\ Paths \subseteq Seq(Name \cup {".", ".."}) \ {<<>>}
  /\ NOFILE \in Nat /\ MAXARG \in Nat /\ PAGES \in Nat
  /\ NLINK_MAX \in Nat /\ NLINK_MAX >= 3

\* Initially: a root with nothing, a directory and a file, or two directories,
\* built by earlier calls, and processes in any of the directories.
Tree == {<<"free", "free">>, <<"dir", "file">>, <<"dir", "dir">>}

Init ==
  \E t \in Tree, parent \in 1 .. 2 :
    /\ type = [i \in Inode |->
                 IF i = Root THEN "dir" ELSE IF i <= 3 THEN t[i - 1] ELSE "free"]
    /\ entry = [i \in Inode |-> [n \in Names |->
         CASE n = ".." -> IF type[i] # "dir" THEN None ELSE IF i = 3 THEN parent ELSE Root
           [] i = Root /\ n = "a" /\ type[2] # "free" -> 2
           [] i = parent /\ n = "b" /\ type[3] # "free" -> 3
           [] OTHER -> None]]
    /\ nlink = [i \in Inode |-> Cardinality({x \in Inode \X Names : entry[x[1]][x[2]] = i})]
    /\ cwd \in [Proc -> {i \in Inode : type[i] = "dir"}]
    /\ ref = [i \in Inode |-> Cardinality({p \in Proc : cwd[p] = i})]
    /\ file = [f \in File |-> NoFile]
    /\ ofile = [p \in Proc |-> [fd \in Fd |-> None]]
    /\ pc = [p \in Proc |-> "user"] /\ call = [p \in Proc |-> NoCall]
    /\ at = [p \in Proc |-> None] /\ src = [p \in Proc |-> None]
    /\ path = [p \in Proc |-> <<>>]
    /\ ends = [p \in Proc |-> {}]
    /\ args = [p \in Proc |-> 0] /\ freePages = PAGES
    /\ calls = 0

-------------------------------------------------------------------------------
(***************************************************************************)
(* Inodes and paths                                                        *)
(***************************************************************************)

\* unlink() holds the directory while it waits for the inode to remove, and
\* open() the inode while it looks for a file and a descriptor.
Locked(i) == \E p \in Proc : pc[p] \in {"remove", "opening"} /\ at[p] = i

\* dirlookup(); nothing is looked up through the ".." of a removed directory.
Lookup(d, n) == IF n = "." THEN d
                ELSE IF n = ".." /\ nlink[d] = 0 THEN None ELSE entry[d][n]

\* References taken (iget, idup) and given back (iput), after the links have
\* become nl, the types ty and the entries en: the last iput() of an inode
\* without links truncates and frees it.
Inodes(nl, ty, en, taken, given) ==
  LET r == [i \in Inode |-> ref[i] + (IF i \in taken THEN 1 ELSE 0)
                                   - (IF i \in given THEN 1 ELSE 0)]
      gone == {i \in given : r[i] = 0 /\ nl[i] = 0}
  IN /\ ref' = r
     /\ nlink' = nl
     /\ type' = [i \in Inode |-> IF i \in gone THEN "free" ELSE ty[i]]
     /\ entry' = [i \in Inode |-> IF i \in gone THEN NoNames ELSE en[i]]

Refer(taken, given) == Inodes(nlink, type, entry, taken, given)

Goto(p, l) == pc' = [pc EXCEPT ![p] = l]

\* The call goes on, with its walk at inode i.
Continue(p, l, i) == /\ Goto(p, l)
                     /\ at' = [at EXCEPT ![p] = i]
                     /\ UNCHANGED <<call, path, src>>

\* The end of a call: end_op() and the return to the user.
Return(p) == /\ Goto(p, "user")
             /\ call' = [call EXCEPT ![p] = NoCall]
             /\ at' = [at EXCEPT ![p] = None]
             /\ path' = [path EXCEPT ![p] = <<>>]
             /\ src' = [src EXCEPT ![p] = None]

\* iput(), or iunlockput(), of the inode the walk is at, and -1 to the user.
Fail(p) == Refer({}, {at[p]}) /\ Return(p)

Enter(p) == /\ pc[p] = "user" /\ cwd[p] # None
            /\ calls < MaxCalls /\ calls' = calls + 1

\* begin_op(), and namex() starts from the directory of the process.
StartPath(p, c) ==
  /\ Enter(p)
  /\ call' = [call EXCEPT ![p] = c]
  /\ path' = [path EXCEPT ![p] = c.path]
  /\ at' = [at EXCEPT ![p] = cwd[p]]
  /\ Refer({cwd[p]}, {})
  /\ Goto(p, "walk")
  /\ UNCHANGED <<file, ofile, cwd, src, ends, pageVars>>

\* nameiparent() rather than namei(): the last name is not looked up.
ByParent(p) == \/ call[p].op \in {"unlink", "mkdir", "mknod", "openCreate"}
               \/ call[p].op = "link" /\ src[p] # None

\* Where the call goes on when its path has been walked.
Arrived(p) ==
  CASE call[p].op = "link" -> IF src[p] = None THEN "target" ELSE "link"
    [] call[p].op \in {"mkdir", "mknod", "openCreate"} -> "create"
    [] call[p].op \in {"open", "openWrite"} -> "lock"
    [] OTHER -> call[p].op

\* The path leads nowhere: link() still has to take back its link.
Lost(p) ==
  /\ Refer({}, {at[p]})
  /\ IF src[p] = None THEN Return(p) ELSE Continue(p, "undo", None)

\* namex(): one name, or the end of the path.
Walk(p) ==
  /\ pc[p] = "walk"
  /\ LET d == at[p]
         last == IF ByParent(p) THEN 1 ELSE 0
         next == Lookup(d, Head(path[p]))
     IN IF path[p] = <<>> THEN Continue(p, Arrived(p), d) /\ UNCHANGED inodeVars
        ELSE /\ ~Locked(d)
             /\ \/ /\ type[d] # "dir" \/ (Len(path[p]) > last /\ next = None)
                   /\ Lost(p)
                \/ /\ type[d] = "dir" /\ Len(path[p]) = last
                   /\ Continue(p, Arrived(p), d) /\ UNCHANGED inodeVars
                \/ /\ type[d] = "dir" /\ Len(path[p]) > last /\ next # None
                   /\ Refer({next}, {d})
                   /\ at' = [at EXCEPT ![p] = next]
                   /\ path' = [path EXCEPT ![p] = Tail(@)]
                   /\ UNCHANGED <<pc, call, src>>

Last(p) == Head(path[p])     \* the name nameiparent() gives back

-------------------------------------------------------------------------------
(***************************************************************************)
(* link() and unlink()                                                     *)
(***************************************************************************)

\* The old path: one more link before the new name exists.
LinkTarget(p) ==
  /\ pc[p] = "target" /\ ~Locked(at[p])
  /\ IF type[at[p]] = "dir" \/ nlink[at[p]] >= NLINK_MAX THEN Fail(p)
     ELSE /\ Inodes([nlink EXCEPT ![at[p]] = @ + 1], type, entry, {cwd[p]}, {})
          /\ src' = [src EXCEPT ![p] = at[p]]
          /\ at' = [at EXCEPT ![p] = cwd[p]]
          /\ path' = [path EXCEPT ![p] = call[p].to]
          /\ Goto(p, "walk")
          /\ UNCHANGED call

\* The new name: refused in a removed directory, when it exists, or when the
\* directory cannot grow.
LinkEntry(p) ==
  /\ pc[p] = "link" /\ ~Locked(at[p])
  /\ \/ Lost(p)
     \/ /\ nlink[at[p]] > 0 /\ Lookup(at[p], Last(p)) = None
        /\ Inodes(nlink, type, [entry EXCEPT ![at[p]][Last(p)] = src[p]], {}, {at[p], src[p]})
        /\ Return(p)

\* A mistake: the link counted in advance stays.
LinkUndoForgotten(p) ==
  /\ pc[p] = "undo" /\ ~Locked(src[p])
  /\ Refer({}, {src[p]})
  /\ Return(p)

\* The label bad.
LinkUndo(p) ==
  /\ pc[p] = "undo" /\ ~Locked(src[p])
  /\ Inodes([nlink EXCEPT ![src[p]] = @ - 1], type, entry, {}, {src[p]})
  /\ Return(p)

\* The directory keeps locked while the inode's lock is waited for.
RemoveLater(p, ip) ==
  /\ Refer({ip}, {})
  /\ src' = [src EXCEPT ![p] = ip]
  /\ Goto(p, "remove")
  /\ UNCHANGED <<call, at, path>>

\* A mistake: "." and ".." are entries like the others.
UnlinkAnyEntry(p) ==
  /\ pc[p] = "unlink" /\ ~Locked(at[p])
  /\ LET ip == Lookup(at[p], Last(p)) IN
       IF ip = None THEN Fail(p) ELSE RemoveLater(p, ip)

UnlinkEntry(p) ==
  /\ pc[p] = "unlink" /\ ~Locked(at[p])
  /\ LET ip == Lookup(at[p], Last(p)) IN
       IF Last(p) \in {".", ".."} \/ ip = None THEN Fail(p) ELSE RemoveLater(p, ip)

\* With both locks.
Remove(p) ==
  /\ pc[p] = "remove" /\ ~Locked(src[p])
  /\ LET d == at[p]
         ip == src[p]
         inParent == IF type[ip] = "dir" THEN 1 ELSE 0
     IN IF type[ip] = "dir" /\ \E n \in Name : entry[ip][n] # None
          THEN Refer({}, {d, ip})
          ELSE Inodes([nlink EXCEPT ![ip] = @ - 1, ![d] = @ - inParent], type,
                      [entry EXCEPT ![d][Last(p)] = None], {}, {d, ip})
  /\ Return(p)

-------------------------------------------------------------------------------
(***************************************************************************)
(* create(), for mkdir(), mknod() and open()                               *)
(***************************************************************************)
Makes(p) == CASE call[p].op = "mkdir" -> "dir"
              [] call[p].op = "mknod" -> "device"
              [] OTHER -> "file"

\* The new inode in the directory: open() goes on with its lock held.
NewInode(p, ip) ==
  LET d == at[p]
      t == Makes(p)
      inParent == IF t = "dir" THEN 1 ELSE 0
  IN /\ Inodes([nlink EXCEPT ![ip] = 1, ![d] = @ + inParent],
               [type EXCEPT ![ip] = t],
               [entry EXCEPT ![d][Last(p)] = ip, ![ip][".."] = IF t = "dir" THEN d ELSE None],
               IF t = "file" THEN {ip} ELSE {}, {d})
     /\ IF t = "file" THEN Continue(p, "opening", ip) ELSE Return(p)

Unused == {i \in Inode : type[i] = "free"}

\* A mistake: the removed directory is not noticed.
CreateUnguarded(p) ==
  /\ pc[p] = "create" /\ ~Locked(at[p])
  /\ LET found == Lookup(at[p], Last(p)) IN
       \/ Fail(p)
       \/ found = None /\ Unused # {} /\ NewInode(p, Min(Unused))

\* Refused in a removed directory, in one that has its share of ".." already,
\* and when no inode is free or a directory cannot grow: then the new inode is
\* freed again.  The lock of the directory is given back before the inode that
\* was found is locked.
Create(p) ==
  /\ pc[p] = "create" /\ ~Locked(at[p])
  /\ LET d == at[p]
         found == Lookup(d, Last(p))
         refused == nlink[d] = 0 \/ (Makes(p) = "dir" /\ nlink[d] >= NLINK_MAX)
     IN \/ (refused \/ found = None) /\ Fail(p)
        \/ ~refused /\ found # None /\ Refer({found}, {d}) /\ Continue(p, "exists", found)
        \/ ~refused /\ found = None /\ Unused # {} /\ NewInode(p, Min(Unused))

Exists(p) ==
  /\ pc[p] = "exists" /\ ~Locked(at[p])
  /\ IF call[p].op = "openCreate" /\ type[at[p]] \in {"file", "device"}
       THEN Continue(p, "opening", at[p]) /\ UNCHANGED inodeVars
       ELSE Fail(p)

\* open() without O_CREATE: a directory can only be read.
OpenLock(p) ==
  /\ pc[p] = "lock" /\ ~Locked(at[p])
  /\ IF type[at[p]] = "dir" /\ call[p].op = "openWrite"
       THEN Fail(p)
       ELSE Continue(p, "opening", at[p]) /\ UNCHANGED inodeVars

-------------------------------------------------------------------------------
(***************************************************************************)
(* Descriptors and files: open(), dup(), close(), pipe(), chdir()          *)
(***************************************************************************)
FreeFiles == {f \in File : file[f].refs = 0}
FreeFds(p) == {fd \in Fd : ofile[p][fd] = None}

\* fileclose() of the files of gone, of which each loses one reference.
FileClose(gone) ==
  LET last == {f \in gone : file[f].refs = 1} IN
  /\ file' = [f \in File |-> IF f \in last THEN NoFile
                             ELSE IF f \in gone THEN [file[f] EXCEPT !.refs = @ - 1]
                             ELSE file[f]]
  /\ Refer({}, {file[f].ip : f \in last} \ {None})

\* filealloc() and fdalloc(), which take the first free one; the reference to
\* the inode becomes the file's.  The major number of a device may be bad.
OpenFile(p) ==
  /\ pc[p] = "opening"
  /\ \/ /\ type[at[p]] = "device" \/ FreeFiles = {} \/ FreeFds(p) = {}
        /\ Fail(p) /\ UNCHANGED <<file, ofile>>
     \/ /\ FreeFiles # {} /\ FreeFds(p) # {}
        /\ file' = [file EXCEPT ![Min(FreeFiles)] = [refs |-> 1, ip |-> at[p]]]
        /\ ofile' = [ofile EXCEPT ![p][Min(FreeFds(p))] = Min(FreeFiles)]
        /\ Return(p) /\ UNCHANGED inodeVars
  /\ UNCHANGED <<cwd, ends>>

\* The reference of the walk becomes the process's.
Chdir(p) ==
  /\ pc[p] = "chdir" /\ ~Locked(at[p])
  /\ IF type[at[p]] # "dir"
       THEN Fail(p) /\ UNCHANGED cwd
       ELSE Refer({}, {cwd[p]}) /\ cwd' = [cwd EXCEPT ![p] = at[p]] /\ Return(p)
  /\ UNCHANGED <<file, ofile, ends>>

Dup(p, fd) ==
  /\ Enter(p) /\ ofile[p][fd] # None /\ FreeFds(p) # {}
  /\ file' = [file EXCEPT ![ofile[p][fd]].refs = @ + 1]
  /\ ofile' = [ofile EXCEPT ![p][Min(FreeFds(p))] = ofile[p][fd]]
  /\ UNCHANGED <<inodeVars, cwd, pc, ends, walkVars, pageVars>>

Close(p, fd) ==
  /\ Enter(p) /\ ofile[p][fd] # None
  /\ ofile' = [ofile EXCEPT ![p][fd] = None]
  /\ FileClose({ofile[p][fd]})
  /\ UNCHANGED <<cwd, pc, ends, walkVars, pageVars>>

\* pipealloc(): two files.
PipeAlloc(p) ==
  /\ Enter(p) /\ Cardinality(FreeFiles) >= 2
  /\ LET rf == Min(FreeFiles)
         wf == Min(FreeFiles \ {rf})
     IN /\ file' = [file EXCEPT ![rf].refs = 1, ![wf].refs = 1]
        /\ ends' = [ends EXCEPT ![p] = {rf, wf}]
  /\ Goto(p, "pipe")
  /\ UNCHANGED <<inodeVars, ofile, cwd, walkVars, pageVars>>

\* Both ends have a descriptor.
PipeGiven(p) ==
  /\ Cardinality(FreeFds(p)) >= 2
  /\ LET fd0 == Min(FreeFds(p))
         fd1 == Min(FreeFds(p) \ {fd0})
     IN ofile' = [ofile EXCEPT ![p][fd0] = Min(ends[p]), ![p][fd1] = Max(ends[p])]
  /\ UNCHANGED <<inodeVars, file>>

\* A mistake: when there is a descriptor for one end only, it stays.
PipeKeepsOne(p) ==
  /\ pc[p] = "pipe"
  /\ \/ PipeGiven(p)
     \/ /\ FileClose(ends[p])
        /\ ofile' = IF Cardinality(FreeFds(p)) # 1 THEN ofile
                    ELSE [ofile EXCEPT ![p][Min(FreeFds(p))] = Min(ends[p])]
  /\ ends' = [ends EXCEPT ![p] = {}]
  /\ Goto(p, "user")
  /\ UNCHANGED <<cwd, walkVars>>

\* When there are not two descriptors, or the user's array is not writable,
\* none is left and both ends are closed.
PipeFinish(p) ==
  /\ pc[p] = "pipe"
  /\ PipeGiven(p) \/ (FileClose(ends[p]) /\ UNCHANGED ofile)
  /\ ends' = [ends EXCEPT ![p] = {}]
  /\ Goto(p, "user")
  /\ UNCHANGED <<cwd, walkVars>>

-------------------------------------------------------------------------------
(***************************************************************************)
(* exec(), and the files of fork() and exit()                              *)
(***************************************************************************)

\* exec() and exit() begin.
Begin(p) ==
  /\ Enter(p)
  /\ \E l \in {"args", "exit"} : Goto(p, l)
  /\ UNCHANGED <<inodeVars, file, ofile, cwd, walkVars, ends, pageVars>>

\* A page for one argument, whose string may be bad; or the arguments end
\* (kexec() runs, and may fail), are too many or in no memory of the process,
\* or there is no page.
ExecArg(p) ==
  /\ pc[p] = "args"
  /\ \/ /\ args[p] < MAXARG /\ freePages > 0
        /\ args' = [args EXCEPT ![p] = @ + 1]
        /\ freePages' = freePages - 1
        /\ \E l \in {"args", "free"} : Goto(p, l)
     \/ Goto(p, "free") /\ UNCHANGED pageVars

FreeArgs(p) ==
  /\ pc[p] = "free"
  /\ freePages' = freePages + args[p]
  /\ args' = [args EXCEPT ![p] = 0]
  /\ Goto(p, "user")

\* The child, on an unused entry, has the parent's files and directory.
Fork(p, q) ==
  /\ Enter(p) /\ cwd[q] = None
  /\ file' = [f \in File |-> [file[f] EXCEPT !.refs =
                @ + Cardinality({fd \in Fd : ofile[p][fd] = f})]]
  /\ ofile' = [ofile EXCEPT ![q] = ofile[p]]
  /\ cwd' = [cwd EXCEPT ![q] = cwd[p]]
  /\ Refer({cwd[p]}, {})
  /\ UNCHANGED <<pc, walkVars, ends, pageVars>>

\* One descriptor after the other, then the directory.
ExitFiles(p) ==
  /\ pc[p] = "exit"
  /\ LET open == Fd \ FreeFds(p) IN
       \/ /\ open # {}
          /\ ofile' = [ofile EXCEPT ![p][Min(open)] = None]
          /\ FileClose({ofile[p][Min(open)]})
          /\ UNCHANGED <<cwd, pc>>
       \/ /\ open = {}
          /\ Refer({}, {cwd[p]})
          /\ cwd' = [cwd EXCEPT ![p] = None]
          /\ Goto(p, "user")
          /\ UNCHANGED <<file, ofile>>
  /\ UNCHANGED <<walkVars, ends>>

-------------------------------------------------------------------------------
Step(p) ==
  /\ \/ /\ \/ Walk(p) \/ LinkTarget(p) \/ LinkEntry(p) \/ LinkUndo(p)
           \/ UnlinkEntry(p) \/ Remove(p) \/ Create(p) \/ Exists(p) \/ OpenLock(p)
        /\ UNCHANGED <<file, ofile, cwd, ends, pageVars>>
     \/ /\ OpenFile(p) \/ Chdir(p) \/ PipeFinish(p) \/ ExitFiles(p)
        /\ UNCHANGED pageVars
     \/ /\ ExecArg(p) \/ FreeArgs(p)
        /\ UNCHANGED <<inodeVars, file, ofile, cwd, walkVars, ends>>
  /\ UNCHANGED calls

Start(p) ==
  \/ \E c \in Calls : StartPath(p, c)
  \/ \E fd \in Fd : Dup(p, fd) \/ Close(p, fd)
  \/ \E q \in Proc : Fork(p, q)
  \/ PipeAlloc(p) \/ Begin(p)

Next == \E p \in Proc : Step(p) \/ Start(p)

Spec == Init /\ [][Next]_vars

-------------------------------------------------------------------------------
(***************************************************************************)
(* Properties                                                              *)
(***************************************************************************)
Count(S) == Cardinality(S)

Live(d) == type[d] = "dir" /\ nlink[d] > 0

\* What a commit of the log can write: when no call is between begin_op() and
\* end_op(), the link count of every inode is the number of entries of
\* directories, ".." included, that stand for it, and never above NLINK_MAX.
\* A crash at any moment leaves such a tree: no name outlives its inode.
LinkCounts ==
  (\A p \in Proc : call[p] = NoCall) =>
    \A i \in Inode :
      /\ nlink[i] = Count({x \in Inode \X Names : Live(x[1]) /\ entry[x[1]][x[2]] = i})
      /\ nlink[i] <= NLINK_MAX

\* The names form a tree at every moment, whatever create(), link() and
\* unlink() run at once: a directory has one name, in the directory its ".."
\* says, which is not removed; no name is left in a removed directory; and a
\* name never leads to an inode that is free.
TreeSound ==
  \A d \in Inode :
    /\ Live(d) /\ d # Root =>
         /\ Count({x \in Inode \X Name : entry[x[1]][x[2]] = d}) = 1
         /\ Live(entry[d][".."]) /\ \E n \in Name : entry[entry[d][".."]][n] = d
    /\ \A n \in Name : entry[d][n] # None => Live(d) /\ type[entry[d][n]] # "free"

\* Every reference has its holder and every holder its reference, on every
\* error path: an inode's are the current directories, the open files and the
\* calls under way; a file's are the descriptors and the pipe ends under way;
\* each page of an argument goes back; and an inode with neither references
\* nor links is free.
NothingLost ==
  /\ \A i \in Inode :
       /\ ref[i] = Count({p \in Proc : cwd[p] = i}) + Count({p \in Proc : at[p] = i})
                   + Count({p \in Proc : src[p] = i})
                   + Count({f \in File : file[f].refs > 0 /\ file[f].ip = i})
       /\ type[i] = "free" <=> ref[i] = 0 /\ nlink[i] = 0
  /\ \A f \in File :
       file[f].refs = Count({x \in Proc \X Fd : ofile[x[1]][x[2]] = f})
                      + Count({p \in Proc : f \in ends[p]})
  /\ freePages + Count({x \in Proc \X (1 .. MAXARG) : x[2] <= args[x[1]]}) = PAGES
  /\ \A p \in Proc : pc[p] = "user" => args[p] = 0

\* No circle of calls, each holding the lock of a directory and waiting for an
\* inode that another of them, or itself, has locked.
NoLockCycle ==
  ~ \E S \in SUBSET Proc :
      /\ S # {}
      /\ \A p \in S : /\ pc[p] = "remove"
                      /\ \E q \in S : pc[q] = "remove" /\ at[q] = src[p]

===============================================================================
