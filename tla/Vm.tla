--------------------------------- MODULE Vm ---------------------------------
(***************************************************************************)
(* Memory: kernel/kalloc.c, kernel/vm.c, and what sbrk(), fork(), exec(),  *)
(* exit() and page faults make of them (sysproc.c, proc.c, exec.c,         *)
(* trap.c).                                                                *)
(*                                                                         *)
(* A page table is its table pages and its leaf entries.  Every turn of    *)
(* the loops of uvmalloc() and uvmcopy() is a step, so that processes run  *)
(* out of memory under one another; freeing, and the set-up of an empty    *)
(* page table, are one step each.  Sizes are in bytes, PGSIZE of them to a *)
(* page; contents are kept by page.  mem says what a process expects.      *)
(***************************************************************************)
EXTENDS Integers, Sequences, FiniteSets, FiniteSetsExt

CONSTANTS
  Proc,      \* slots of the process table, numbers from 1; 1 is init
  NPAGE,     \* physical pages
  NV,        \* user pages below TRAPFRAME
  PGSIZE,    \* bytes of a page
  R0, R1,    \* pages under one table of level 0, and of level 1
  USERSTACK,
  Program,   \* what exec() loads: sequences of segments [va, file, end, w]
  MaxGrow,   \* bytes one sbrk() asks for or gives back
  MinSz      \* size below which no process shrinks

Page == 1 .. NPAGE
TRAPFRAME == NV
TRAMPOLINE == NV + 1
VPage == 0 .. TRAMPOLINE
Node == {<<1, v \div R1>> : v \in VPage} \cup {<<0, v \div R0>> : v \in VPage}
NoPte == [pa |-> 0, u |-> 0, w |-> 0, valid |-> 0]

ASSUME VmAssumption ==
  /\ {NPAGE, NV, PGSIZE, R0, R1, USERSTACK} \subseteq Nat \ {0} /\ R1 % R0 = 0
  /\ Proc = 1 .. Cardinality(Proc) /\ {MaxGrow, MinSz} \subseteq Nat
  /\ \A prog \in Program : \A i \in DOMAIN prog : prog[i].end \in 1 .. NV * PGSIZE

VARIABLES
  free,       \* kmem.freelist
  data,       \* contents of each page of user memory
  state,      \* p->state: "unused", "used", "running" or "zombie"
  trapframe,  \* p->trapframe
  pagetable,  \* p->pagetable
  new,        \* the page table that kexec() builds
  sz,         \* p->sz
  op,         \* the call each process is in
  mem,        \* history: the memory each process should see
  panic

vars == <<free, data, state, trapframe, pagetable, new, sz, op, mem, panic>>

Contents == {"junk", "zero", "text", "stored"}
Entry == [pa : 0 .. NPAGE, u : {0, 1}, w : {0, 1}, valid : {0, 1}]
NoTable == [root |-> 0, node |-> [n \in Node |-> 0], pte |-> [v \in VPage |-> NoPte]]
Idle == [call |-> "none", child |-> 0, prog |-> <<>>, seg |-> 0, a |-> 0, oldsz |-> 0,
         newsz |-> 0, w |-> 0, sz |-> 0]

TypeOK ==
  /\ free \subseteq Page /\ data \in [Page -> Contents]
  /\ state \in [Proc -> {"unused", "used", "running", "zombie"}]
  /\ trapframe \in [Proc -> 0 .. NPAGE]
  /\ \A p \in Proc : \A t \in {pagetable[p], new[p]} :
       /\ t.root \in 0 .. NPAGE /\ t.node \in [Node -> 0 .. NPAGE] /\ t.pte \in [VPage -> Entry]
  /\ sz \in [Proc -> 0 .. NV * PGSIZE]
  /\ \A p \in Proc : op[p].call \in {"none", "sbrk", "fork", "alloc", "load", "args"}
  /\ mem \in [Proc -> [0 .. NV - 1 -> Contents]]
  /\ panic \in {"none", "mappages: remap", "freewalk: leaf", "loadseg", "uvmclear"}

PGROUNDUP(n) == (n + PGSIZE - 1) \div PGSIZE
Zeroed == [v \in 0 .. NV - 1 |-> "zero"]

(***************************************************************************)
(* kalloc, walk, mappages                                                  *)
(***************************************************************************)

\* The i-th page that kalloc() returns from the pages s; which it is makes no
\* difference.
Kalloc(s, i) == CHOOSE pg \in s : Cardinality({q \in s : q < pg}) = i - 1

\* The tables that walk() goes through, from the top.
Path(v) == <<<<1, v \div R1>>, <<0, v \div R0>>>>
Missing(t, v) == SelectSeq(Path(v), LAMBDA n : t.node[n] = 0)

\* walk() takes the missing tables from s, as many as there are pages.
Walk(t, v, s) ==
  LET miss == Missing(t, v)
      at(n) == CHOOSE i \in DOMAIN miss : miss[i] = n
  IN  [t EXCEPT !.node = [n \in Node |->
         IF (\E i \in DOMAIN miss : miss[i] = n) /\ at(n) <= Cardinality(s)
         THEN Kalloc(s, at(n)) ELSE t.node[n]]]

TablePages(t) == ({t.root} \cup {t.node[n] : n \in Node}) \ {0}
Leaves(t, vs) == {t.pte[v].pa : v \in {x \in vs : t.pte[x].valid = 1}}
Unmap(t, vs) == [t EXCEPT !.pte = [v \in VPage |-> IF v \in vs THEN NoPte ELSE t.pte[v]]]

\* A fresh page mapped at v: kalloc(), and then mappages(), which may fail for
\* want of a table and leave the tables it did get.
Room(t, v) == Cardinality(free) > Len(Missing(t, v))
Mapped(t, v, u, w) ==
  IF free = {} THEN t
  ELSE LET pa == Kalloc(free, 1)
           after == Walk(t, v, free \ {pa})
       IN IF Room(t, v)
          THEN [after EXCEPT !.pte[v] = [pa |-> pa, u |-> u, w |-> w, valid |-> 1]] ELSE after

MutLeakPage(t, after) ==
  {pg \in free : \A q \in free : pg <= q} \cup (TablePages(after) \ TablePages(t))
\* What is gone from the free list: the tables, and the page if it was mapped.
Took(t, after) == (TablePages(after) \ TablePages(t)) \cup (Leaves(after, VPage) \ Leaves(t, VPage))

Remaps(t, v) == t.pte[v].valid = 1

MutJunk(c) == "junk"
\* memset(mem, 0, PGSIZE), or the copy of a parent's page.
Fill(c) == c

\* kfree() fills a page with junk.
Freed(pages) == [pg \in Page |-> IF pg \in pages THEN "junk" ELSE data[pg]]

\* uvmalloc() and uvmcopy(): v is mapped in t, with contents c.
FreshPage(t, v, u, w, c) ==
  LET after == Mapped(t, v, u, w) IN
  /\ free' = free \ Took(t, after)
  /\ data' = IF Room(t, v) THEN [data EXCEPT ![Kalloc(free, 1)] = Fill(c)] ELSE data
  /\ panic' = IF Room(t, v) /\ Remaps(t, v) THEN "mappages: remap" ELSE panic

(***************************************************************************)
(* proc_pagetable, proc_freepagetable                                      *)
(***************************************************************************)
EmptySize == 1 + Cardinality({Path(v)[i] : v \in {TRAPFRAME, TRAMPOLINE}, i \in 1 .. 2})

\* An empty page table made of the pages s: a root, the tables for the two
\* pages of the trampoline, and their entries.
EmptyTable(s, tf) ==
  LET root == [NoTable EXCEPT !.root = Kalloc(s, 1)]
      one == Walk(root, TRAMPOLINE, s \ TablePages(root))
      two == Walk(one, TRAPFRAME, s \ TablePages(one))
  IN  [two EXCEPT !.pte[TRAMPOLINE] = [pa |-> 0, u |-> 0, w |-> 0, valid |-> 1],
                  !.pte[TRAPFRAME] = [pa |-> tf, u |-> 0, w |-> 1, valid |-> 1]]

UserPages(n) == 0 .. PGROUNDUP(n) - 1

\* Everything that proc_freepagetable(t, n) frees, and what freewalk() thinks
\* of what is left.
TableAndMemory(t, n) == TablePages(t) \cup Leaves(t, UserPages(n))
LeafLeft(t, n) == \E v \in VPage \ (UserPages(n) \cup {TRAPFRAME, TRAMPOLINE}) : t.pte[v].valid = 1

FreePages(pages) ==
  /\ free' = free \cup pages
  /\ data' = Freed(pages)

\* freeproc()
Freeproc(q) ==
  /\ FreePages(TableAndMemory(pagetable[q], sz[q]) \cup ({trapframe[q]} \ {0}))
  /\ panic' = IF LeafLeft(pagetable[q], sz[q]) THEN "freewalk: leaf" ELSE panic
  /\ pagetable' = [pagetable EXCEPT ![q] = NoTable]
  /\ trapframe' = [trapframe EXCEPT ![q] = 0]
  /\ sz' = [sz EXCEPT ![q] = 0]
  /\ state' = [state EXCEPT ![q] = "unused"]
  /\ mem' = [mem EXCEPT ![q] = Zeroed]

Running(p) == state[p] = "running" /\ op[p].call = "none"

(***************************************************************************)
(* sbrk                                                                    *)
(***************************************************************************)

\* Nothing keeps a lazy sbrk() below TRAPFRAME but the bound here.
SbrkLazy(p, n) ==
  /\ Running(p) /\ sz[p] + n <= NV * PGSIZE
  /\ sz' = [sz EXCEPT ![p] = @ + n]
  /\ UNCHANGED <<free, data, state, trapframe, pagetable, new, op, mem, panic>>

\* The pages uvmdealloc() unmaps.
Dealloc(old, n) == PGROUNDUP(n) .. PGROUNDUP(old) - 1

\* newsz >= oldsz, for unsigned sizes
Underflow(p, n) == n > sz[p]

\* growproc() of a negative number; one that is too large changes nothing.
SbrkShrink(p, n) ==
  LET gone == Dealloc(sz[p], sz[p] - n) IN
  /\ Running(p) /\ ~Underflow(p, n) /\ sz[p] - n \notin 0 .. MinSz - 1
  /\ FreePages(Leaves(pagetable[p], gone))
  /\ pagetable' = [pagetable EXCEPT ![p] = Unmap(@, gone)]
  /\ sz' = [sz EXCEPT ![p] = @ - n]
  /\ mem' = [mem EXCEPT ![p] = [v \in 0 .. NV - 1 |->
                IF v \in PGROUNDUP(sz'[p]) .. NV - 1 THEN "zero" ELSE @[v]]]
  /\ UNCHANGED <<state, trapframe, new, op, panic>>

SbrkEager(p, n) ==
  /\ Running(p) /\ sz[p] + n <= NV * PGSIZE
  /\ op' = [op EXCEPT ![p] = [Idle EXCEPT !.call = "sbrk", !.a = PGROUNDUP(sz[p]),
                !.oldsz = PGROUNDUP(sz[p]), !.newsz = sz[p] + n, !.w = 1]]
  /\ UNCHANGED <<free, data, state, trapframe, pagetable, new, sz, mem, panic>>

(***************************************************************************)
(* uvmalloc, for sbrk() on the process's page table, for exec() on the new *)
(***************************************************************************)
Target(p) == IF op[p].call = "sbrk" THEN pagetable[p] ELSE new[p]

SetTarget(p, t) ==
  IF op[p].call = "sbrk" THEN pagetable' = [pagetable EXCEPT ![p] = t] /\ UNCHANGED new
  ELSE new' = [new EXCEPT ![p] = t] /\ UNCHANGED pagetable

Uvmalloc(p) == op[p].call \in {"sbrk", "alloc"} /\ op[p].a * PGSIZE < op[p].newsz

UvmallocPage(p) ==
  LET o == op[p] IN
  /\ Uvmalloc(p) /\ Room(Target(p), o.a)
  /\ FreshPage(Target(p), o.a, 1, o.w, "zero")
  /\ SetTarget(p, Mapped(Target(p), o.a, 1, o.w))
  /\ op' = [op EXCEPT ![p].a = @ + 1]
  /\ UNCHANGED <<state, trapframe, sz, mem>>

\* uvmdealloc(pagetable, a, oldsz)
Rollback(o) == o.oldsz .. o.a - 1

\* goto bad, with page table t and pages that uvmdealloc() has unmapped.
Bad(p, t, gone) ==
  /\ FreePages(TableAndMemory(t, op[p].sz) \cup gone)
  /\ panic' = IF LeafLeft(t, op[p].sz) THEN "freewalk: leaf" ELSE panic
  /\ new' = [new EXCEPT ![p] = NoTable]
  /\ op' = [op EXCEPT ![p] = Idle]
  /\ UNCHANGED <<state, trapframe, pagetable, sz, mem>>

UvmallocFails(p) ==
  LET o == op[p]
      gone == Leaves(Target(p), Rollback(o))
      kept == Mapped(Target(p), o.a, 1, o.w)
  IN
  /\ Uvmalloc(p) /\ ~Room(Target(p), o.a)
  /\ \/ /\ o.call = "sbrk"
        /\ free' = (free \ Took(pagetable[p], kept)) \cup gone
        /\ data' = Freed(gone)
        /\ pagetable' = [pagetable EXCEPT ![p] = Unmap(kept, Rollback(o))]
        /\ op' = [op EXCEPT ![p] = Idle]
        /\ UNCHANGED <<state, trapframe, new, sz, mem, panic>>
     \/ o.call = "alloc" /\ Bad(p, Unmap(new[p], Rollback(o)), gone)

SbrkDone(p) ==
  /\ op[p].call = "sbrk" /\ ~Uvmalloc(p)
  /\ sz' = [sz EXCEPT ![p] = op[p].newsz]
  /\ op' = [op EXCEPT ![p] = Idle]
  /\ UNCHANGED <<free, data, state, trapframe, pagetable, new, mem, panic>>

(***************************************************************************)
(* Page faults, and copying to and from user memory                        *)
(***************************************************************************)

\* vmfault() at page v, which is below sz and not mapped.
Lazy(p, va) == va < sz[p] /\ pagetable[p].pte[va \div PGSIZE].valid = 0

Vmfault(p, v) ==
  /\ FreshPage(pagetable[p], v, 1, 1, "zero")
  /\ pagetable' = [pagetable EXCEPT ![p] = Mapped(@, v, 1, 1)]

Writable(p, v) == LET e == pagetable[p].pte[v] IN e.valid = 1 /\ e.u = 1 /\ e.w = 1

\* usertrap() of a load or a store that the page table does not allow: vmfault(),
\* or the end of the process (init never gets here).
PageFault(p, va) ==
  LET v == va \div PGSIZE IN
  /\ Running(p) /\ ~Writable(p, v)
  /\ IF Lazy(p, va) THEN Vmfault(p, v) ELSE UNCHANGED <<free, data, pagetable, panic>>
  /\ IF Lazy(p, va) /\ Room(pagetable[p], v) THEN UNCHANGED state
     ELSE p # 1 /\ state' = [state EXCEPT ![p] = "zombie"]
  /\ UNCHANGED <<trapframe, new, sz, op, mem>>

\* copyin() and copyout() in a system call: the call fails if vmfault() does.
CopyFault(p, v) ==
  /\ Running(p) /\ Lazy(p, v * PGSIZE)
  /\ Vmfault(p, v)
  /\ UNCHANGED <<state, trapframe, new, sz, op, mem>>

\* A store of the process, or of copyout() for it, to a page that allows it.
Store(p, v) ==
  /\ Running(p) /\ Writable(p, v)
  /\ data' = [data EXCEPT ![pagetable[p].pte[v].pa] = "stored"]
  /\ mem' = [mem EXCEPT ![p][v] = "stored"]
  /\ UNCHANGED <<free, state, trapframe, pagetable, new, sz, op, panic>>

(***************************************************************************)
(* fork, exit, wait                                                        *)
(***************************************************************************)

\* allocproc(), which gives back what it got when it cannot get everything.
Fork(p, q) ==
  /\ Running(p)
  /\ state[q] = "unused" /\ \A r \in Proc : r < q => state[r] # "unused"
  /\ Cardinality(free) >= 1 + EmptySize
  /\ LET tf == Kalloc(free, 1)
         t == EmptyTable(free \ {tf}, tf)
     IN  /\ trapframe' = [trapframe EXCEPT ![q] = tf]
         /\ pagetable' = [pagetable EXCEPT ![q] = t]
         /\ free' = free \ (TablePages(t) \cup {tf})
  /\ state' = [state EXCEPT ![q] = "used"]
  /\ op' = [op EXCEPT ![p] = [Idle EXCEPT !.call = "fork", !.child = q]]
  /\ UNCHANGED <<data, new, sz, mem, panic>>

Uvmcopy(p) == op[p].call = "fork" /\ op[p].a * PGSIZE < sz[p]
Source(p) == pagetable[p].pte[op[p].a]

UvmcopySkip(p) ==
  /\ Uvmcopy(p) /\ Source(p).valid = 0
  /\ op' = [op EXCEPT ![p].a = @ + 1]
  /\ UNCHANGED <<free, data, state, trapframe, pagetable, new, sz, mem, panic>>

UvmcopyPage(p) ==
  LET q == op[p].child
      a == op[p].a
  IN
  /\ Uvmcopy(p) /\ Source(p).valid = 1 /\ Room(pagetable[q], a)
  /\ FreshPage(pagetable[q], a, Source(p).u, Source(p).w, data[Source(p).pa])
  /\ pagetable' = [pagetable EXCEPT ![q] = Mapped(@, a, Source(p).u, Source(p).w)]
  /\ op' = [op EXCEPT ![p].a = @ + 1]
  /\ UNCHANGED <<state, trapframe, new, sz, mem>>

\* uvmunmap(new, 0, i / PGSIZE, 1)
Copied(a) == 0 .. a - 1

\* uvmcopy() undoes its work, and kfork() frees the child.  The tables that
\* the last walk() may have got go the same way.
UvmcopyFails(p) ==
  LET q == op[p].child
      gone == Leaves(pagetable[q], Copied(op[p].a))
      left == Unmap(pagetable[q], Copied(op[p].a))
  IN
  /\ Uvmcopy(p) /\ Source(p).valid = 1 /\ ~Room(pagetable[q], op[p].a)
  /\ FreePages(TablePages(left) \cup gone \cup {trapframe[q]})
  /\ panic' = IF LeafLeft(left, 0) THEN "freewalk: leaf" ELSE panic
  /\ pagetable' = [pagetable EXCEPT ![q] = NoTable]
  /\ trapframe' = [trapframe EXCEPT ![q] = 0]
  /\ state' = [state EXCEPT ![q] = "unused"]
  /\ op' = [op EXCEPT ![p] = Idle]
  /\ UNCHANGED <<new, sz, mem>>

ForkDone(p) ==
  LET q == op[p].child IN
  /\ op[p].call = "fork" /\ ~Uvmcopy(p)
  /\ sz' = [sz EXCEPT ![q] = sz[p]]
  /\ mem' = [mem EXCEPT ![q] = mem[p]]
  /\ state' = [state EXCEPT ![q] = "running"]
  /\ op' = [op EXCEPT ![p] = Idle]
  /\ UNCHANGED <<free, data, trapframe, pagetable, new, panic>>

Exit(p) ==
  /\ Running(p) /\ p # 1
  /\ state' = [state EXCEPT ![p] = "zombie"]
  /\ UNCHANGED <<free, data, trapframe, pagetable, new, sz, op, mem, panic>>

\* kwait() of the parent.
Reap(q) ==
  /\ state[q] = "zombie"
  /\ Freeproc(q)
  /\ UNCHANGED <<new, op>>

(***************************************************************************)
(* exec                                                                    *)
(***************************************************************************)

\* The uvmalloc() for segment i, or for the guard page and the stack after the
\* last, when kexec() has come as far as size n.
Segment(prog, i, n) ==
  LET stack == i > Len(prog)
      end == IF stack THEN (PGROUNDUP(n) + USERSTACK + 1) * PGSIZE ELSE prog[i].end
  IN  [Idle EXCEPT !.call = "alloc", !.prog = prog, !.seg = i, !.sz = n,
                   !.a = PGROUNDUP(n), !.oldsz = PGROUNDUP(n),
                   !.newsz = IF end < n THEN n ELSE end,
                   !.w = IF stack THEN 1 ELSE prog[i].w]

\* proc_pagetable(); kexec() fails here without a trace if there is no memory.
Exec(p, prog) ==
  /\ Running(p) \/ (state[p] = "used" /\ p = 1 /\ op[p] = Idle)
  /\ Cardinality(free) >= EmptySize
  /\ new' = [new EXCEPT ![p] = EmptyTable(free, trapframe[p])]
  /\ free' = free \ TablePages(new'[p])
  /\ op' = [op EXCEPT ![p] = Segment(prog, 1, 0)]
  /\ UNCHANGED <<data, state, trapframe, pagetable, sz, mem, panic>>

\* uvmclear()
Guard(t, v) == [t EXCEPT !.pte[v].u = 0]

ExecAllocDone(p) ==
  LET o == op[p]
      stack == o.seg > Len(o.prog)
  IN
  /\ o.call = "alloc" /\ ~Uvmalloc(p)
  /\ op' = [op EXCEPT ![p].call = IF stack THEN "args" ELSE "load", ![p].sz = o.newsz]
  /\ IF stack THEN new' = [new EXCEPT ![p] = Guard(@, o.oldsz)] ELSE UNCHANGED new
  /\ panic' = IF stack /\ new[p].pte[o.oldsz].valid = 0 THEN "uvmclear" ELSE panic
  /\ UNCHANGED <<free, data, state, trapframe, pagetable, sz, mem>>

FilePages(s) == s.va .. s.va + s.file - 1

\* loadseg(), which panics where no page is mapped.
ExecLoad(p) ==
  LET o == op[p]
      vs == FilePages(o.prog[o.seg])
  IN
  /\ o.call = "load"
  /\ data' = [pg \in Page |-> IF pg \in Leaves(new[p], vs) THEN "text" ELSE data[pg]]
  /\ panic' = IF \E v \in vs : new[p].pte[v].valid = 0 THEN "loadseg" ELSE panic
  /\ op' = [op EXCEPT ![p] = Segment(o.prog, o.seg + 1, o.sz)]
  /\ UNCHANGED <<free, state, trapframe, pagetable, new, sz, mem>>

\* A short read of the file, or arguments that do not fit (the first exec()
\* must not fail).
ExecFails(p) ==
  /\ op[p].call \in {"load", "args"} /\ state[p] = "running"
  /\ Bad(p, new[p], {})

\* What a program sees when it starts.
Image(prog, top) ==
  [v \in 0 .. NV - 1 |->
     IF \E i \in DOMAIN prog : v \in FilePages(prog[i]) THEN "text"
     ELSE IF v = top THEN "stored" ELSE "zero"]

\* oldsz, read before p->sz is changed
OldSize(p) == sz[p]

\* The arguments go on top of the stack; then the new image is installed and
\* the old one freed.
ExecCommit(p) ==
  LET o == op[p]
      top == PGROUNDUP(o.sz) - 1
  IN
  /\ o.call = "args"
  /\ free' = free \cup TableAndMemory(pagetable[p], OldSize(p))
  /\ data' = [Freed(TableAndMemory(pagetable[p], OldSize(p))) EXCEPT ![new[p].pte[top].pa] = "stored"]
  /\ panic' = IF LeafLeft(pagetable[p], OldSize(p)) THEN "freewalk: leaf" ELSE panic
  /\ pagetable' = [pagetable EXCEPT ![p] = new[p]]
  /\ new' = [new EXCEPT ![p] = NoTable]
  /\ sz' = [sz EXCEPT ![p] = o.sz]
  /\ mem' = [mem EXCEPT ![p] = Image(o.prog, top)]
  /\ state' = [state EXCEPT ![p] = "running"]
  /\ op' = [op EXCEPT ![p] = Idle]
  /\ UNCHANGED trapframe

(***************************************************************************)
(* After userinit(), the first process about to call exec()                *)
(***************************************************************************)
Init ==
  /\ trapframe = [p \in Proc |-> IF p = 1 THEN 1 ELSE 0]
  /\ pagetable = [p \in Proc |-> IF p = 1 THEN EmptyTable(Page \ {1}, 1) ELSE NoTable]
  /\ free = Page \ (TablePages(pagetable[1]) \cup {1})
  /\ data = [pg \in Page |-> "junk"]
  /\ state = [p \in Proc |-> IF p = 1 THEN "used" ELSE "unused"]
  /\ new = [p \in Proc |-> NoTable] /\ sz = [p \in Proc |-> 0]
  /\ op = [p \in Proc |-> Idle] /\ mem = [p \in Proc |-> Zeroed]
  /\ panic = "none"

Next ==
  /\ panic = "none"
  /\ \E p \in Proc :
       \/ \E n \in 1 .. MaxGrow : SbrkLazy(p, n) \/ SbrkEager(p, n)
       \/ \E n \in 1 .. MaxGrow \cup {NV * PGSIZE + 1} : SbrkShrink(p, n)
       \/ UvmallocPage(p) \/ UvmallocFails(p) \/ SbrkDone(p)
       \/ \E va \in 0 .. NV * PGSIZE - 1 : PageFault(p, va)
       \/ \E v \in 0 .. NV - 1 : CopyFault(p, v) \/ Store(p, v)
       \/ \E q \in Proc : Fork(p, q)
       \/ UvmcopySkip(p) \/ UvmcopyPage(p) \/ UvmcopyFails(p) \/ ForkDone(p)
       \/ Exit(p) \/ Reap(p)
       \/ \E prog \in Program : Exec(p, prog)
       \/ ExecAllocDone(p) \/ ExecLoad(p) \/ ExecFails(p) \/ ExecCommit(p)

Spec == Init /\ [][Next]_vars

(***************************************************************************)
(* Properties                                                              *)
(***************************************************************************)

UserLeaves == VPage \ {TRAPFRAME, TRAMPOLINE}
Uses(t) ==
  (IF t.root = 0 THEN 0 ELSE 1) + Cardinality({n \in Node : t.node[n] # 0})
    + Cardinality({v \in UserLeaves : t.pte[v].valid = 1})

\* Every physical page is free or has exactly one use, as a trapframe, a page
\* table or user memory, of one process: none leaks and none is shared,
\* however sbrk(), fork(), exec() and page faults run out of memory; nor is a
\* page mapped twice, or a page table freed with a page in it.
PagesOwnedOnce ==
  LET tables == [p \in Proc |-> {pagetable[p], new[p]} \ {NoTable}]
      used == UNION {UNION {TablePages(t) \cup Leaves(t, UserLeaves) : t \in tables[p]} : p \in Proc}
                \cup ({trapframe[p] : p \in Proc} \ {0})
  IN
  /\ TypeOK /\ panic = "none" /\ used = Page \ free
  /\ Cardinality(used) = Cardinality({p \in Proc : trapframe[p] # 0})
       + MapThenSumSet(LAMBDA p : MapThenSumSet(Uses, tables[p]), Proc)

\* A running process sees its own memory: what it stored, zeros where it did
\* not, and nothing mapped for it above its size, whatever was allocated
\* lazily and whoever else is short of memory.
MemoryIsPrivate ==
  \A p \in Proc : state[p] = "running" /\ op[p].call # "sbrk" =>
    \A v \in 0 .. NV - 1 :
      LET e == pagetable[p].pte[v] IN
      /\ e.valid = 1 => v * PGSIZE < sz[p] /\ data[e.pa] = mem[p][v]
      /\ e.valid = 0 => mem[p][v] = "zero"
=============================================================================
