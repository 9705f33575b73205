----------------------------- MODULE ReadersWriters -----------------------------
(***************************************************************************)
(* user/readwrite.c of Assignment 4: readers and writers on a shared page, *)
(* with a mutex for the number of readers, a lock for the data and a       *)
(* turnstile that everybody passes on the way in and that a writer keeps   *)
(* until it has written.  The increment and the test of read_count are     *)
(* steps of their own; the pauses are left out.                            *)
(***************************************************************************)
EXTENDS SemaphoreClient, Integers, FiniteSets

CONSTANTS Reader, Writer,    \* 3 and 2 processes in the code
          ROUNDS             \* 2 in the code

MUTEX == 0
RW_LOCK == 1
TURNSTILE == 2

VARIABLES shared_data, read_count,     \* struct shared_memory
          round,                       \* rounds completed
          late                         \* history: see NotOvertaken

dataVars == <<shared_data, read_count>>

RWInit ==
  /\ ClientInit([s \in Sem |-> IF s \in {MUTEX, RW_LOCK, TURNSTILE} THEN 1 ELSE 0],
                [p \in Process |-> IF p \in Reader \cup Writer THEN "enter" ELSE "absent"])
  /\ shared_data = 0 /\ read_count = 0
  /\ round = [p \in Process |-> 0]
  /\ late = [w \in Writer |-> {}]

\* Steps that leave everything but the semaphores and the pc alone.
Plain == UNCHANGED <<dataVars, round, late>>

EndRound(p) == round' = [round EXCEPT ![p] = @ + 1]

\* A writer has passed the turnstile and has not written yet.
NextWriter == {w \in Writer : pc[w] = "lock"}

-------------------------------------------------------------------------------
(***************************************************************************)
(* reader()                                                                *)
(***************************************************************************)
\* A mistake: readers do not stop at the turnstile, and leave it alone.
ReaderSkipsTurnstile(r) == round[r] < ROUNDS /\ Local(r, "enter", "mutex") /\ Plain

ReaderEnters(r) == round[r] < ROUNDS /\ Down(r, "enter", TURNSTILE, "mutex") /\ Plain

ReaderLocksCount(r) == Down(r, "mutex", MUTEX, "count") /\ Plain

CountReader(r) ==
  /\ Local(r, "count", IF read_count = 0 THEN "lock" ELSE "counted")
  /\ read_count' = read_count + 1
  /\ UNCHANGED <<shared_data, round, late>>

\* The first reader locks the writers out, with the mutex in its hands.
FirstReader(r) == Down(r, "lock", RW_LOCK, "counted") /\ Plain

\* A mistake: the mutex is kept during the read.
ReaderKeepsCount(r) == Local(r, "counted", "through") /\ Plain

ReaderUnlocksCount(r) == Up(r, "counted", MUTEX, "through") /\ Plain

\* The turnstile opens for the next process; r is inside for good.
ReaderThrough(r) ==
  /\ Up(r, "through", TURNSTILE, "read")
  /\ late' = [w \in Writer |-> IF w \in NextWriter THEN late[w] \cup {r} ELSE late[w]]
  /\ UNCHANGED <<dataVars, round>>

\* The read and the pause; then sem_down(MUTEX).
ReaderLeaves(r) == Down(r, "read", MUTEX, "uncount") /\ Plain

UncountReader(r) ==
  /\ Local(r, "uncount", IF read_count = 1 THEN "unlock" ELSE "left")
  /\ read_count' = read_count - 1
  /\ UNCHANGED <<shared_data, round, late>>

LastReader(r) == Up(r, "unlock", RW_LOCK, "left") /\ Plain

ReaderRests(r) ==
  /\ Up(r, "left", MUTEX, "enter")
  /\ EndRound(r)
  /\ UNCHANGED <<dataVars, late>>

-------------------------------------------------------------------------------
(***************************************************************************)
(* writer()                                                                *)
(***************************************************************************)
WriterEnters(w) == round[w] < ROUNDS /\ Down(w, "enter", TURNSTILE, "lock") /\ Plain

WriterLocks(w) == Down(w, "lock", RW_LOCK, "write") /\ Plain

Write(w) ==
  /\ Local(w, "write", "written")
  /\ shared_data' = shared_data + 1
  /\ late' = [late EXCEPT ![w] = {}]
  /\ UNCHANGED <<read_count, round>>

WriterUnlocks(w) == Up(w, "written", RW_LOCK, "leave") /\ Plain

WriterRests(w) ==
  /\ Up(w, "leave", TURNSTILE, "enter")
  /\ EndRound(w)
  /\ UNCHANGED <<dataVars, late>>

-------------------------------------------------------------------------------
Read(r) ==
  \/ ReaderEnters(r) \/ ReaderLocksCount(r) \/ CountReader(r) \/ FirstReader(r)
  \/ ReaderUnlocksCount(r) \/ ReaderThrough(r) \/ ReaderLeaves(r)
  \/ UncountReader(r) \/ LastReader(r) \/ ReaderRests(r)

WriteRound(w) ==
  WriterEnters(w) \/ WriterLocks(w) \/ Write(w) \/ WriterUnlocks(w) \/ WriterRests(w)

Run(p) == (p \in Reader /\ Read(p)) \/ (p \in Writer /\ WriteRound(p))

-------------------------------------------------------------------------------
Reading ==
  {r \in Reader : pc[r] \in {"counted", "through", "read", "uncount", "unlock"}}
Writing == {w \in Writer : pc[w] \in {"write", "written"}}

(***************************************************************************)
(* A writer is alone with the data ("EXCLUSIVE ACCESS", readwrite.c:56):   *)
(* no reader, from the moment it is counted and the data is locked until   *)
(* the last one unlocks it, and no other writer is there.                  *)
(***************************************************************************)
WritersAlone == \A w \in Writing : Writing = {w} /\ Reading = {}

(***************************************************************************)
(* The turnstile is fair to a writer (README.md:21): once a writer is past *)
(* it, no reader gets in before the writer has written.  late[w] collects  *)
(* the readers that do.                                                    *)
(***************************************************************************)
NotOvertaken == \A w \in Writer : late[w] = {}

\* All processes have ended, and every write counts.
Completed ==
  /\ \A p \in Reader \cup Writer : round[p] = ROUNDS
  /\ shared_data = ROUNDS * Cardinality(Writer)
===============================================================================
