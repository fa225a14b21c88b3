-------------------------------- MODULE Mem ---------------------------------
(***************************************************************************)
(* Physical pages (kalloc.c), address spaces (vm.c), and what builds,       *)
(* changes and frees them: fork() and growproc() (proc.c), sys_sbrk()      *)
(* (sysproc.c), the page fault handler (trap.c), exec() (exec.c), wait().  *)
(* fork() and exec() take one step per page, so the processes compete for  *)
(* pages in the middle of them, and run out of pages at every point.       *)
(* The contents of a page are one value; addresses wrap at 2^WIDTH.        *)
(***************************************************************************)
EXTENDS Integers, Sequences, FiniteSets, FiniteSetsExt

CONSTANTS
  Proc, First,
  NPAGE,       \* physical pages
  PGSIZE,
  NPTENTRIES,  \* pages that one page table maps
  KERNBASE,
  WIDTH,
  Pipes,       \* numbers of pages that pipes can hold
  Programs,    \* what exec() can be given
  Increments,  \* what sbrk() can be given
  NCALL        \* bound: operations of each process

MaxAddr == 2^WIDTH
TabSize == NPTENTRIES * PGSIZE
Page == 1..NPAGE
Vpn == 0..(KERNBASE \div PGSIZE - 1)
Pdx == 0..(MaxAddr \div TabSize - 1)
KernPdx == {x \in Pdx : x * TabSize >= KERNBASE}
PDX(a) == a \div TabSize
PGROUNDUP(a) == (((a + PGSIZE - 1) % MaxAddr) \div PGSIZE) * PGSIZE
PGROUNDDOWN(a) == (a \div PGSIZE) * PGSIZE

Zero == 0
Junk == 1   \* what kfree() leaves
Text == 2   \* what loaduvm() reads
Args == 3   \* what exec() pushes
Own == 4    \* what a program writes

VARIABLES
  kmem,     \* the free pages
  pipes,    \* pages that pipes hold
  mem,      \* the contents of every page
  proc,     \* state, kernel stack, page directory and size of each process
  loc,      \* the fork() or exec() each process is in
  image,    \* what each process should find in its pages
  calls, panic

vars == <<kmem, pipes, mem, proc, loc, image, calls, panic>>

NoPte == [pg |-> 0, u |-> FALSE]
NoDir == [dir |-> 0, tab |-> [x \in Pdx |-> 0], pte |-> [v \in Vpn |-> NoPte]]
Unused == [state |-> "unused", kstack |-> 0, pgdir |-> NoDir, sz |-> 0]
Idle == [op |-> "none", pgdir |-> NoDir, a |-> 0, sz |-> 0, np |-> First, prog |-> <<>>]
Blank == [v \in Vpn |-> Zero]

-----------------------------------------------------------------------------
(* Operators on m = [free, mem], and on m with a page directory d.          *)

\* The page kalloc() returns, when there is one, and what is left.
kalloc(m) == CHOOSE pg \in m.free : \A q \in m.free : pg <= q

taken(m, k) == [m EXCEPT !.free = @ \ {kalloc(m)}, !.mem[kalloc(m)] = k]

kfree(m, pages) ==
  [free |-> m.free \cup pages,
   mem |-> [pg \in Page |-> IF pg \in pages THEN Junk ELSE m.mem[pg]]]

\* walkpgdir(d, a, 1): the page table of a is there, or is allocated and zeroed.
HasTable(d, a) == d.tab[PDX(a)] # 0
walkpgdir(m, d, a) ==
  IF HasTable(d, a) THEN [ok |-> TRUE, m |-> m, d |-> d]
  ELSE IF m.free = {} THEN [ok |-> FALSE, m |-> m, d |-> d]
  ELSE [ok |-> TRUE, m |-> taken(m, Zero), d |-> [d EXCEPT !.tab[PDX(a)] = kalloc(m)]]

\* Allocate a page with contents k and map it at a.  A failure of mappages()
\* gives the page back.
Remap(d, a) == d.pte[a \div PGSIZE].pg # 0
allocmap(m, d, a, k, u) ==
  IF m.free = {} THEN [ok |-> FALSE, m |-> m, d |-> d]
  ELSE LET w == walkpgdir(taken(m, k), d, a)
       IN  IF w.ok THEN [w EXCEPT !.d.pte[a \div PGSIZE] = [pg |-> kalloc(m), u |-> u]]
           ELSE [ok |-> FALSE, m |-> kfree(w.m, {kalloc(m)}), d |-> d]

\* The pages deallocuvm()'s loop stops at; it goes to the next page table
\* when there is none.
RECURSIVE visited(_, _, _)

\* Variant of visited: the first page of the next page table is passed over.
visitedSkips(d, a, oldsz) ==
  IF a >= oldsz THEN {}
  ELSE IF ~HasTable(d, a) THEN visited(d, (PDX(a) + 1) * TabSize + PGSIZE, oldsz)
  ELSE {a \div PGSIZE} \cup visited(d, a + PGSIZE, oldsz)

visited(d, a, oldsz) ==
  IF a >= oldsz THEN {}
  ELSE IF ~HasTable(d, a) THEN visited(d, (PDX(a) + 1) * TabSize, oldsz)
  ELSE {a \div PGSIZE} \cup visited(d, a + PGSIZE, oldsz)

deallocuvm(m, d, oldsz, newsz) ==
  LET vs == IF newsz >= oldsz THEN {} ELSE visited(d, PGROUNDUP(newsz), oldsz)
  IN  [m |-> kfree(m, {d.pte[v].pg : v \in vs} \ {0}),
       d |-> [d EXCEPT !.pte = [v \in Vpn |-> IF v \in vs THEN NoPte ELSE @[v]]]]

\* Variant of freevm: page tables are not freed.
freevmUser(m, d) ==
  LET f == deallocuvm(m, d, KERNBASE, 0)
  IN  kfree(f.m, {d.dir})

freevm(m, d) ==
  LET f == deallocuvm(m, d, KERNBASE, 0)
  IN  kfree(f.m, ({d.tab[x] : x \in Pdx} \cup {d.dir}) \ {0})

\* The kernel part of a page table: the directory, then the tables kmap needs.
RECURSIVE kmap(_, _, _)
kmap(m, d, xs) ==
  IF xs = {} THEN [ok |-> TRUE, m |-> m, d |-> d]
  ELSE LET x == CHOOSE y \in xs : TRUE
           w == walkpgdir(m, d, x * TabSize)
       IN  IF w.ok THEN kmap(w.m, w.d, xs \ {x})
           ELSE [ok |-> FALSE, m |-> freevm(w.m, w.d), d |-> NoDir]

setupkvm(m) ==
  IF m.free = {} THEN [ok |-> FALSE, m |-> m, d |-> NoDir]
  ELSE kmap(taken(m, Zero), [NoDir EXCEPT !.dir = kalloc(m)], KernPdx)

-----------------------------------------------------------------------------
\* kinit1(), kinit2() and userinit(): one process with one page of initcode;
\* then pipealloc() took some pages.
Init ==
  LET all == [free |-> Page, mem |-> [pg \in Page |-> Junk]]
      s == setupkvm(taken(all, Junk))
      u == allocmap(s.m, s.d, 0, Text, TRUE)
  IN  /\ \E k \in Pipes : pipes = (NPAGE - k + 1)..NPAGE
      /\ kmem = u.m.free \ pipes /\ mem = u.m.mem
      /\ proc = [p \in Proc |-> IF p # First THEN Unused ELSE
                   [state |-> "run", kstack |-> kalloc(all), pgdir |-> u.d, sz |-> PGSIZE]]
      /\ loc = [p \in Proc |-> Idle]
      /\ image = [p \in Proc |-> IF p = First THEN [Blank EXCEPT ![0] = Text] ELSE Blank]
      /\ calls = [p \in Proc |-> 0]
      /\ panic = FALSE

M == [free |-> kmem, mem |-> mem]
Memory(m) == kmem' = m.free /\ mem' = m.mem

Panic == panic' = TRUE /\ UNCHANGED <<kmem, mem, proc, loc, image, calls, pipes>>
Return(p) == loc' = [loc EXCEPT ![p] = Idle]
CanCall(p) == ~panic /\ proc[p].state = "run" /\ loc[p] = Idle /\ calls[p] < NCALL
Called(p) == calls' = [calls EXCEPT ![p] = @ + 1]
In(p, op) == ~panic /\ loc[p].op = op

-----------------------------------------------------------------------------
\* sys_sbrk() gives no page when the size grows.  Programs keep the break
\* below KERNBASE: the code does not look.
grow(p, n) ==
  /\ CanCall(p) /\ n >= 0 /\ proc[p].sz + n < KERNBASE
  /\ proc' = [proc EXCEPT ![p].sz = @ + n]
  /\ Called(p)
  /\ UNCHANGED <<kmem, mem, loc, image, pipes, panic>>

\* growproc() of a negative number; a size of 0 is taken for a failure, after
\* the pages are gone.
growproc(p, n) ==
  LET sz == proc[p].sz
      newsz == (sz + n + MaxAddr) % MaxAddr
      f == deallocuvm(M, proc[p].pgdir, sz, newsz)
      ret == IF newsz >= sz THEN sz ELSE newsz
  IN  /\ CanCall(p) /\ n < 0
      /\ Memory(f.m)
      /\ proc' = [proc EXCEPT ![p].pgdir = f.d, ![p].sz = IF ret = 0 THEN @ ELSE ret]
      /\ image' = [image EXCEPT ![p] =
           [v \in Vpn |-> IF newsz < sz /\ v * PGSIZE \in PGROUNDUP(newsz)..(sz - 1) THEN Zero ELSE @[v]]]
      /\ Called(p)
      /\ UNCHANGED <<loc, pipes, panic>>

-----------------------------------------------------------------------------
(* Page faults *)

\* "¿Acceso a kernel o fuera del program break? Muerte"
Beyond(a, sz) == PGROUNDUP(a) > sz \/ PGROUNDDOWN(a) >= KERNBASE

\* T_PGFLT at a, by user code or (user = FALSE) by a system call that copies to
\* or from a buffer that argptr() found below sz.  User code that is killed
\* exits; the kernel comes back to the instruction.
trap(p, a, user) ==
  LET sz == proc[p].sz
      guard == user /\ a < KERNBASE /\ Remap(proc[p].pgdir, a)
      w == allocmap(M, proc[p].pgdir, a, Zero, TRUE)
      kill == Beyond(a, sz) \/ guard \/ ~w.ok
  IN  /\ IF kill
         THEN /\ proc' = [proc EXCEPT ![p].state = IF user THEN "zombie" ELSE @]
              /\ loc' = IF user THEN loc ELSE [loc EXCEPT ![p] = [Idle EXCEPT !.op = "fault", !.a = a]]
              /\ IF Beyond(a, sz) \/ guard THEN UNCHANGED <<kmem, mem>> ELSE Memory(w.m)
              /\ UNCHANGED image
         ELSE /\ proc' = [proc EXCEPT ![p].pgdir = w.d]
              /\ kmem' = w.m.free
              /\ mem' = [w.m.mem EXCEPT ![w.d.pte[a \div PGSIZE].pg] = Own]
              /\ image' = [image EXCEPT ![p][a \div PGSIZE] = Own]
              /\ UNCHANGED loc
      /\ UNCHANGED <<pipes, panic>>

\* The kernel's instruction faults again, and again, until there is a page;
\* only then is the process, killed already, at the end of its system call.
retry(p) ==
  LET w == allocmap(M, proc[p].pgdir, loc[p].a, Zero, TRUE)
  IN  /\ In(p, "fault") /\ ~Beyond(loc[p].a, proc[p].sz) /\ w.ok
      /\ Memory(w.m)
      /\ proc' = [proc EXCEPT ![p].pgdir = w.d, ![p].state = "zombie"]
      /\ Return(p)
      /\ UNCHANGED <<image, calls, pipes, panic>>

\* A program or a system call writes at address a.
write(p, a, user) ==
  LET pte == proc[p].pgdir.pte[a \div PGSIZE]
      ok == a < KERNBASE /\ pte.pg # 0 /\ (pte.u \/ ~user)
  IN  /\ CanCall(p) /\ (user \/ a < proc[p].sz)
      /\ Called(p)
      /\ \/ /\ ok
            /\ mem' = [mem EXCEPT ![pte.pg] = Own]
            /\ image' = [image EXCEPT ![p][a \div PGSIZE] = Own]
            /\ UNCHANGED <<kmem, proc, loc, pipes, panic>>
         \/ ~ok /\ trap(p, a, user)

-----------------------------------------------------------------------------
(* fork() *)

\* allocproc(), and setupkvm() in copyuvm().
fork(p, np) ==
  LET m == taken(M, Junk)
      s == setupkvm(m)
  IN  /\ CanCall(p) /\ proc[np].state = "unused"
      /\ Called(p)
      /\ \/ /\ kmem = {}
            /\ UNCHANGED <<kmem, mem, proc, loc>>
         \/ /\ kmem # {} /\ ~s.ok
            /\ Memory(kfree(s.m, {kalloc(M)}))
            /\ UNCHANGED <<proc, loc>>
         \/ /\ kmem # {} /\ s.ok
            /\ Memory(s.m)
            /\ proc' = [proc EXCEPT ![np] = [Unused EXCEPT !.state = "embryo", !.kstack = kalloc(M)]]
            /\ loc' = [loc EXCEPT ![p] = [Idle EXCEPT !.op = "fork", !.pgdir = s.d, !.np = np]]
      /\ UNCHANGED <<image, pipes, panic>>

\* One turn of copyuvm()'s loop: pages that are not there are not copied.
copyuvm(p) ==
  LET l == loc[p]
      pte == proc[p].pgdir.pte[l.a \div PGSIZE]
      w == allocmap(M, l.pgdir, l.a, mem[pte.pg], pte.u)
  IN  /\ In(p, "fork") /\ l.a < proc[p].sz
      /\ \/ /\ pte.pg = 0
            /\ loc' = [loc EXCEPT ![p].a = @ + PGSIZE]
            /\ UNCHANGED <<kmem, mem, proc>>
         \/ /\ pte.pg # 0 /\ w.ok
            /\ Memory(w.m)
            /\ loc' = [loc EXCEPT ![p].a = @ + PGSIZE, ![p].pgdir = w.d]
            /\ UNCHANGED proc
         \/ /\ pte.pg # 0 /\ ~w.ok
            /\ Memory(kfree(freevm(w.m, l.pgdir), {proc[l.np].kstack}))
            /\ proc' = [proc EXCEPT ![l.np] = Unused]
            /\ Return(p)
      /\ UNCHANGED <<image, calls, pipes, panic>>

\* The rest of fork().
forked(p) ==
  LET l == loc[p] IN
  /\ In(p, "fork") /\ l.a >= proc[p].sz
  /\ proc' = [proc EXCEPT ![l.np].state = "run", ![l.np].pgdir = l.pgdir, ![l.np].sz = proc[p].sz]
  /\ image' = [image EXCEPT ![l.np] = [v \in Vpn |-> IF v * PGSIZE < proc[p].sz THEN image[p][v] ELSE Zero]]
  /\ Return(p)
  /\ UNCHANGED <<kmem, mem, calls, pipes, panic>>

-----------------------------------------------------------------------------
(* exec().  prog is what is left to do: segments [vaddr, memsz, filesz, bad], *)
(* then the two pages of the stack.                                        *)

Stack == [vaddr |-> 0, memsz |-> 0, filesz |-> 0, bad |-> "stack"]

\* The header is read; setupkvm().
exec(p, prog) ==
  LET s == setupkvm(M) IN
  /\ CanCall(p)
  /\ Called(p)
  /\ Memory(s.m)
  /\ loc' = IF s.ok THEN [loc EXCEPT ![p] = [Idle EXCEPT !.op = "exec", !.pgdir = s.d,
                                                         !.prog = prog \o <<Stack>>]]
            ELSE loc
  /\ UNCHANGED <<proc, image, pipes, panic>>

\* Where allocuvm() is to stop for the first of prog.
Target(l) == IF Head(l.prog).bad = "stack" THEN PGROUNDUP(l.sz) + 2 * PGSIZE
             ELSE Head(l.prog).vaddr + Head(l.prog).memsz
From(l) == IF l.a = 0 THEN PGROUNDUP(l.sz) ELSE l.a

Bad(p, m, d) ==
  /\ Memory(freevm(m, d))
  /\ Return(p)
  /\ UNCHANGED <<proc, image, calls, pipes, panic>>

\* One turn of allocuvm()'s loop; a is 0 before the first.
allocuvm(p) ==
  LET l == loc[p]
      a == From(l)
      w == allocmap(M, l.pgdir, a, Zero, TRUE)
      f == deallocuvm(w.m, l.pgdir, Target(l), l.sz)
  IN  /\ In(p, "exec") /\ Head(l.prog).bad # "header" /\ Target(l) < KERNBASE /\ a < Target(l)
      /\ IF Remap(l.pgdir, a) THEN Panic
         ELSE IF ~w.ok THEN Bad(p, f.m, f.d)
         ELSE /\ Memory(w.m)
              /\ loc' = [loc EXCEPT ![p].a = a + PGSIZE, ![p].pgdir = w.d]
              /\ UNCHANGED <<proc, image, calls, pipes, panic>>

\* A segment is there: loaduvm().
loaduvm(p) ==
  LET l == loc[p]
      s == Head(l.prog)
      new == IF Target(l) < l.sz THEN l.sz ELSE Target(l)
      loaded == {l.pgdir.pte[v].pg : v \in {v \in Vpn : v * PGSIZE >= s.vaddr /\ v * PGSIZE < s.vaddr + s.filesz}}
  IN  /\ In(p, "exec") /\ s.bad \in {"none", "load"} /\ Target(l) < KERNBASE /\ From(l) >= Target(l)
      /\ IF s.bad = "load" THEN Bad(p, M, l.pgdir)
         ELSE /\ mem' = [pg \in Page |-> IF pg \in loaded THEN Text ELSE mem[pg]]
              /\ loc' = [loc EXCEPT ![p].sz = new, ![p].a = 0, ![p].prog = Tail(@)]
              /\ UNCHANGED <<kmem, proc, image, calls, pipes, panic>>

\* A header that is wrong, or a segment or stack past KERNBASE.
badheader(p) ==
  LET l == loc[p] IN
  /\ In(p, "exec") /\ (Head(l.prog).bad = "header" \/ Target(l) >= KERNBASE)
  /\ Bad(p, M, l.pgdir)

\* The stack is there.  Arguments that do not fit in it stop copyout() at the
\* guard page.  Else commit to the new image.
commit(p, fits) ==
  LET l == loc[p]
      sz == Target(l)
      guard == sz \div PGSIZE - 2
      d == [l.pgdir EXCEPT !.pte[guard].u = FALSE]
      m == [M EXCEPT !.mem[d.pte[guard + 1].pg] = Args]
  IN  /\ In(p, "exec") /\ Head(l.prog).bad = "stack" /\ sz < KERNBASE /\ From(l) >= sz
      /\ IF ~fits THEN Bad(p, m, d)
         ELSE /\ Memory(freevm(m, proc[p].pgdir))
              /\ proc' = [proc EXCEPT ![p].pgdir = d, ![p].sz = sz]
              /\ image' = [image EXCEPT ![p] = [v \in Vpn |-> IF d.pte[v].pg = 0 THEN Zero ELSE m.mem[d.pte[v].pg]]]
              /\ Return(p)
              /\ UNCHANGED <<calls, pipes, panic>>

-----------------------------------------------------------------------------
exit(p) ==
  /\ CanCall(p)
  /\ proc' = [proc EXCEPT ![p].state = "zombie"]
  /\ UNCHANGED <<kmem, mem, loc, image, calls, pipes, panic>>

\* wait() of the parent, or of init.
wait(p) ==
  /\ ~panic /\ proc[p].state = "zombie"
  /\ Memory(freevm(kfree(M, {proc[p].kstack}), proc[p].pgdir))
  /\ proc' = [proc EXCEPT ![p] = Unused]
  /\ image' = [image EXCEPT ![p] = Blank]
  /\ UNCHANGED <<loc, calls, pipes, panic>>

Next ==
  \E p \in Proc :
    \/ \E n \in Increments : grow(p, n) \/ growproc(p, n)
    \/ \E a \in 0..(MaxAddr - 1), user \in BOOLEAN : write(p, a, user)
    \/ retry(p)
    \/ \E np \in Proc : fork(p, np)
    \/ copyuvm(p) \/ forked(p)
    \/ \E prog \in Programs : exec(p, prog)
    \/ allocuvm(p) \/ loaduvm(p) \/ badheader(p)
    \/ \E fits \in BOOLEAN : commit(p, fits)
    \/ exit(p) \/ wait(p)

Spec == Init /\ [][Next]_vars

-----------------------------------------------------------------------------
(* Properties *)

PagesOf(d) == <<{d.dir}, {d.tab[x] : x \in Pdx}, {d.pte[v].pg : v \in Vpn}>>
Entries(d) == (IF d.dir = 0 THEN 0 ELSE 1) + Cardinality({x \in Pdx : d.tab[x] # 0})
                + Cardinality({v \in Vpn : d.pte[v].pg # 0})
InDir(d) == UNION {PagesOf(d)[k] : k \in 1..3} \ {0}
Stacks == {proc[p].kstack : p \in Proc} \ {0}
Dirs == [p \in Proc |-> proc[p].pgdir]
Building == [p \in Proc |-> loc[p].pgdir]

\* Every physical page is free, or is one kernel stack, page directory, page
\* table or user page of one process: none is lost and none used twice, also
\* after fork(), exec() or a page fault failed half way for want of pages.
OwnedOnce ==
  /\ kmem \cup pipes \cup Stacks \cup UNION {InDir(Dirs[p]) \cup InDir(Building[p]) : p \in Proc} = Page
  /\ Cardinality(kmem) + Cardinality(pipes) + Cardinality({p \in Proc : proc[p].kstack # 0})
       + MapThenSumSet(LAMBDA p : Entries(Dirs[p]) + Entries(Building[p]), Proc) = NPAGE

\* A process finds in its memory what it put there, what its parent had at the
\* fork() or what exec() loaded, and zeroes elsewhere: never the contents of a
\* page that was another's, and nothing of a page it gave back with sbrk().
OwnMemory ==
  \A p \in Proc : proc[p].state = "run" =>
    \A v \in Vpn : v * PGSIZE < proc[p].sz =>
      LET pg == proc[p].pgdir.pte[v].pg
      IN  image[p][v] = IF pg = 0 THEN Zero ELSE mem[pg]

\* mappages() never finds an entry in use ("remap").
NoPanic == ~panic
=============================================================================
