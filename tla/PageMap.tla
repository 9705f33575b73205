--------------------------------- MODULE PageMap --------------------------------
(***************************************************************************)
(* What the kernel promises about the memory of processes: a space is a    *)
(* function from pages to their bytes and rights.  Memory that sbrk() adds *)
(* holds zeros, lazily or not; a call on it fails only for a byte that the *)
(* process has no right to, or because memory is short (vm.c, proc.c).     *)
(***************************************************************************)
EXTENDS Integers, Sequences

CONSTANTS WIDTH, PGSIZE, WORD, Proc, Amounts, Addresses, Data

VARIABLES space, sz, reply

vars == <<space, sz, reply>>

Top == WIDTH ^ 3 - 2         \* the first page that is the kernel's

PagesOf(size) == 0 .. (size + PGSIZE - 1) \div PGSIZE - 1
Fresh(w, u) ==
  [kind |-> "own", w |-> w, u |-> u, bytes |-> [i \in 0 .. PGSIZE - 1 |-> 0]]
Shared == [Fresh(TRUE, TRUE) EXCEPT !.kind = "shared"]
Nothing == [v \in {} |-> Fresh(TRUE, TRUE)]

\* The pages of the new size keep what they had; new ones are zeros.
Resized(p, size) ==
  LET other == {v \in DOMAIN space[p] : space[p][v].kind = "shared"}
  IN [v \in PagesOf(size) \cup other |->
        IF v \in DOMAIN space[p] THEN space[p][v] ELSE Fresh(TRUE, TRUE)]

Page(a) == a \div PGSIZE
MayRead(p, a) == Page(a) \in DOMAIN space[p] /\ space[p][Page(a)].u
MayWrite(p, a) == MayRead(p, a) /\ space[p][Page(a)].w
Byte(p, a) == space[p][Page(a)].bytes[a % PGSIZE]

\* The space of p after the first k bytes of data were written from a on.
Written(p, a, data, k) ==
  [v \in DOMAIN space[p] |->
     [space[p][v] EXCEPT !.bytes =
        [i \in DOMAIN @ |-> LET x == v * PGSIZE + i - a
                            IN IF x \in 0 .. k - 1 THEN data[x + 1] ELSE @[i]]]]

Reply(call, p, args, ok, nomem, bytes) ==
  reply' = [call |-> call, p |-> p, args |-> args, ok |-> ok, nomem |-> nomem,
            bytes |-> bytes]
Same == UNCHANGED <<space, sz>>
Becomes(p, map, size) == /\ space' = [space EXCEPT ![p] = map]
                         /\ sz' = [sz EXCEPT ![p] = size]

Init == /\ space = [p \in Proc |-> Nothing]
        /\ sz = [p \in Proc |-> 0]
        /\ reply = [call |-> "none"]

\* A call that succeeds, one that memory is too short for, one that must fail.
Succeeds(call, p, args, bytes) == Reply(call, p, args, TRUE, FALSE, bytes)
RunsShort(call, p, args) == Reply(call, p, args, FALSE, TRUE, <<>>) /\ Same
Refused(call, p, args) == Reply(call, p, args, FALSE, FALSE, <<>>) /\ Same

Exec(p) ==
  \/ /\ Succeeds("exec", p, <<>>, <<>>)
     /\ Becomes(p, [v \in 0 .. 2 |-> Fresh(v # 0, v # 1)], 3 * PGSIZE)
  \/ RunsShort("exec", p, <<>>)

Grow(p, n) ==
  LET fits == sz[p] + n <= Top * PGSIZE IN
    \/ /\ Succeeds("grow", p, <<n>>, <<>>) /\ fits
       /\ Becomes(p, Resized(p, sz[p] + n), sz[p] + n)
    \/ RunsShort("grow", p, <<n>>) /\ fits
    \/ Refused("grow", p, <<n>>) /\ ~fits

Shrink(p, n) ==
  LET size == IF n <= sz[p] THEN sz[p] - n ELSE sz[p]
  IN Succeeds("shrink", p, <<n>>, <<>>) /\ Becomes(p, Resized(p, size), size)

Share(p) ==
  \/ /\ Succeeds("shm", p, <<>>, <<>>)
     /\ Becomes(p, [v \in DOMAIN space[p] \cup {Top - 1} |->
                      IF v \in DOMAIN space[p] THEN space[p][v] ELSE Shared], sz[p])
  \/ RunsShort("shm", p, <<>>)

\* The child sees the same bytes with the same rights.
Fork(p, np) ==
  \/ Succeeds("fork", p, <<np>>, <<>>) /\ space[np] = Nothing /\ Becomes(np, space[p], sz[p])
  \/ RunsShort("fork", p, <<np>>)

Exit(p) == Succeeds("exit", p, <<>>, <<>>) /\ Becomes(p, Nothing, 0)

\* A page that was touched is the page that was there before.
Fault(p, a) ==
  \/ Succeeds("fault", p, <<a>>, <<>>) /\ a < sz[p] /\ MayRead(p, a) /\ Same
  \/ RunsShort("fault", p, <<a>>) /\ a < sz[p]
  \/ Refused("fault", p, <<a>>)

\* The bytes from a on, all of them or none.
Reads(call, p, args, a, n) ==
  LET legal == \A x \in a .. a + n - 1 : MayRead(p, x) IN
    \/ /\ reply'.call = call /\ legal /\ Same
       /\ Succeeds(call, p, args, [i \in 1 .. n |-> Byte(p, a + i - 1)])
    \/ RunsShort(call, p, args)
    \/ Refused(call, p, args) /\ ~legal

Load(p, a, n) == Reads("load", p, <<a, n>>, a, n)

Word(p, a) ==
  \/ a + WORD <= sz[p] /\ Reads("word", p, <<a>>, a, WORD)
  \/ a + WORD > sz[p] /\ Refused("word", p, <<a>>)

\* A string ends at the first zero, which lies within max bytes.
String(p, a, max) ==
  LET Ends(n) == Byte(p, a + n - 1) = 0
      before(n) == \A x \in a .. a + n - 1 : MayRead(p, x)
      ends == {n \in 1 .. max : before(n) /\ Ends(n)}
  IN \/ /\ reply'.call = "string" /\ reply'.ok
        /\ \E n \in ends : /\ \A k \in ends : n <= k
                           /\ Reads("string", p, <<a, max>>, a, n)
     \/ RunsShort("string", p, <<a, max>>)
     \/ Refused("string", p, <<a, max>>) /\ ends = {}

\* All bytes are written, or those before the page at which the call fails.
Store(p, a, data) ==
  LET n == Len(data)
      bad == {k \in 0 .. n - 1 : ~MayWrite(p, a + k)}
      Stops(k) == (k = 0 \/ (a + k) % PGSIZE = 0) /\ \A j \in bad : k <= j
  IN \/ /\ Succeeds("store", p, <<a, data>>, <<>>)
        /\ bad = {} /\ Becomes(p, Written(p, a, data, n), sz[p])
     \/ \E k \in 0 .. n - 1, short \in BOOLEAN :
          /\ Reply("store", p, <<a, data>>, FALSE, short, <<>>)
          /\ Stops(k) /\ (short \/ Page(a + k) \in {Page(a + j) : j \in bad})
          /\ Becomes(p, Written(p, a, data, k), sz[p])

Return == reply' = [call |-> "none"] /\ Same

\* The reply names the call and its process: the guard saves TLC the others.
Answered(p, calls) == reply'.call \in calls /\ reply'.p = p

Next ==
  \/ Return
  \/ \E p \in Proc :
       \/ Answered(p, {"exec", "shm", "exit"}) /\ (Exec(p) \/ Share(p) \/ Exit(p))
       \/ /\ Answered(p, {"grow", "shrink"})
          /\ \E n \in Amounts : Grow(p, n) \/ Shrink(p, n)
       \/ Answered(p, {"fork"}) /\ \E np \in Proc : Fork(p, np)
       \/ /\ Answered(p, {"fault", "word"})
          /\ \E a \in Addresses : Fault(p, a) \/ Word(p, a)
       \/ /\ Answered(p, {"store", "load", "string"})
          /\ \E a \in Addresses, data \in Data :
               Store(p, a, data) \/ Load(p, a, Len(data)) \/ String(p, a, Len(data))

Spec == Init /\ [][Next]_vars
===============================================================================
