----------------------------- MODULE VirtioDisk -----------------------------
(***************************************************************************)
(* kernel/virtio_disk.c: the driver's descriptors and rings, the device on *)
(* the other side of them, and the completion interrupt.                   *)
(*                                                                         *)
(* vdisk_lock is held over each piece of virtio_disk_rw() between two      *)
(* sleeps, so each piece is one action, possible when no interrupt handler *)
(* is at work.  The handler holds the lock for many steps because the      *)
(* device adds to the used ring meanwhile.  The caller holds the sleep     *)
(* lock of its buffer, so no two requests concern the same block.          *)
(***************************************************************************)
EXTENDS Integers, FiniteSets

CONSTANTS
  Proc,    \* processes
  Block,   \* blocks, each with the buffer that caches it
  NUM,     \* descriptors
  RING,    \* entries of each ring: NUM in the code; chains of three need NUM / 3
  UINT16   \* number of values of the ring indexes (2^16)

ASSUME VirtioAssumption ==
  /\ NUM \in Nat /\ NUM >= 3 /\ RING \in Nat /\ RING >= NUM \div 3
  /\ UINT16 \in Nat /\ UINT16 > RING /\ UINT16 % RING = 0
  /\ IsFiniteSet(Proc) /\ NUM \notin Block

Desc == 0 .. NUM - 1
Entry == 0 .. RING - 1
Nil == NUM     \* "no descriptor", "no block"

VARIABLES
  free,       \* disk.free[]
  next,       \* disk.desc[].next, Nil where VRING_DESC_F_NEXT is not set
  ops,        \* disk.ops[] and the buffer address in the chain: what to do
  info,       \* disk.info[].b
  status,     \* disk.info[].status
  avail,      \* disk.avail->ring
  avail_idx,  \* disk.avail->idx
  used,       \* disk.used->ring
  dev_used,   \* disk.used->idx
  used_idx,   \* disk.used_idx
  bdisk,      \* b->disk
  irq,        \* the device's interrupt status
  handler,    \* the interrupt handler: "off", "ack" or "loop"
  seen,       \* device: how far it has read the available ring
  fetched,    \* device: heads of the chains it works on, in any order
  pc, req,    \* where each process is, and its request
  head,       \* idx[0] of each process
  moved,      \* per block: the transfer made for the current request (b->data)
  panic

driver == <<free, next, ops, info, avail, avail_idx>>
device == <<seen, fetched>>
vars == <<free, next, ops, info, status, avail, avail_idx, used, dev_used, used_idx,
          bdisk, irq, handler, seen, fetched, pc, req, head, moved, panic>>

Request == [b : Block, write : {0, 1}]
NoRequest == [b |-> Nil, write |-> 0]

TypeOK ==
  /\ free \in [Desc -> {0, 1}] /\ next \in [Desc -> Desc \cup {Nil}]
  /\ ops \in [Desc -> Request \cup {NoRequest}]
  /\ info \in [Desc -> Block \cup {Nil}]
  /\ status \in [Desc -> {0, 255}]
  /\ avail \in [Entry -> Desc] /\ used \in [Entry -> Desc]
  /\ {avail_idx, dev_used, used_idx, seen} \subseteq 0 .. UINT16 - 1
  /\ bdisk \in [Block -> {0, 1}]
  /\ irq \in {0, 1} /\ handler \in {"off", "ack", "loop"}
  /\ fetched \subseteq Desc
  /\ pc \in [Proc -> {"out", "alloc", "no_desc", "waiting", "woken"}]
  /\ req \in [Proc -> Request \cup {NoRequest}]
  /\ head \in [Proc -> Desc \cup {Nil}]
  /\ moved \in [Block -> {"no", "read", "write"}]
  /\ panic \in {"none", "free_desc", "status"}

Init ==
  /\ free = [d \in Desc |-> 1] /\ next = [d \in Desc |-> Nil]
  /\ ops = [d \in Desc |-> NoRequest] /\ info = [d \in Desc |-> Nil]
  /\ status = [d \in Desc |-> 0]
  /\ avail = [e \in Entry |-> 0] /\ used = [e \in Entry |-> 0]
  /\ avail_idx = 0 /\ dev_used = 0 /\ used_idx = 0 /\ seen = 0
  /\ bdisk = [b \in Block |-> 0]
  /\ irq = 0 /\ handler = "off" /\ fetched = {}
  /\ pc = [p \in Proc |-> "out"]
  /\ req = [p \in Proc |-> NoRequest] /\ head = [p \in Proc |-> Nil]
  /\ moved = [b \in Block |-> "no"]
  /\ panic = "none"

Bump(x) == (x + 1) % UINT16

(***************************************************************************)
(* Descriptors                                                             *)
(***************************************************************************)
Free == {d \in Desc : free[d] = 1}

\* alloc_desc() three times: the lowest free descriptors, in order.
Alloc3(i, j, k) ==
  /\ i < j /\ j < k
  /\ {i, j, k} \subseteq Free
  /\ \A d \in Free : d \in {i, j, k} \/ d > k

\* The descriptors free_chain(i) frees, following next while there is one.
Chain(i) ==
  {i} \cup (IF next[i] = Nil THEN {}
            ELSE {next[i]} \cup (IF next[next[i]] = Nil THEN {} ELSE {next[next[i]]}))

MutNoWakeAllocators(p, l) == pc' = [pc EXCEPT ![p] = l]
\* wakeup(&disk.free[0]), while p goes to l.
WakeAllocators(p, l) ==
  pc' = [q \in Proc |-> IF q = p THEN l ELSE IF pc[q] = "no_desc" THEN "alloc" ELSE pc[q]]

(***************************************************************************)
(* virtio_disk_rw                                                          *)
(***************************************************************************)

\* The call, for a buffer that p holds alone.
Call(p, b, w) ==
  /\ pc[p] = "out"
  /\ \A q \in Proc : req[q].b # b
  /\ req' = [req EXCEPT ![p] = [b |-> b, write |-> w]]
  /\ pc' = [pc EXCEPT ![p] = "alloc"]
  /\ UNCHANGED <<driver, status, used, dev_used, used_idx, bdisk, irq, handler, device,
                 head, moved, panic>>

\* alloc3_desc() succeeds: fill in the chain, and make it available.
Submit(p) ==
  LET r == req[p] IN
  /\ pc[p] = "alloc" /\ handler = "off"
  /\ \E i, j, k \in Desc :
       /\ Alloc3(i, j, k)
       /\ free' = [free EXCEPT ![i] = 0, ![j] = 0, ![k] = 0]
       /\ next' = [next EXCEPT ![i] = j, ![j] = k, ![k] = Nil]
       /\ ops' = [ops EXCEPT ![i] = r]
       /\ info' = [info EXCEPT ![i] = r.b]
       /\ status' = [status EXCEPT ![i] = 255]
       /\ avail' = [avail EXCEPT ![avail_idx % RING] = i]
       /\ head' = [head EXCEPT ![p] = i]
  /\ bdisk' = [bdisk EXCEPT ![r.b] = 1]
  /\ avail_idx' = Bump(avail_idx)
  /\ pc' = [pc EXCEPT ![p] = "waiting"]
  /\ UNCHANGED <<used, dev_used, used_idx, irq, handler, device, req, moved, panic>>

MutLeak == free' = [d \in Desc |-> 0]
GiveBack == UNCHANGED free

\* alloc3_desc() fails; what it had taken it frees, which wakes the others.
NoDescriptors(p) ==
  /\ pc[p] = "alloc" /\ handler = "off"
  /\ Cardinality(Free) < 3
  /\ IF Free = {} THEN pc' = [pc EXCEPT ![p] = "no_desc"] ELSE WakeAllocators(p, "no_desc")
  /\ GiveBack
  /\ UNCHANGED <<next, ops, info, avail, avail_idx, status, used, dev_used, used_idx, bdisk,
                 irq, handler, device, req, head, moved, panic>>

\* kkill() makes a sleeping process runnable, whatever it sleeps for.
Kill(p) ==
  /\ pc[p] \in {"waiting", "no_desc"}
  /\ pc' = [pc EXCEPT ![p] = IF pc[p] = "waiting" THEN "woken" ELSE "alloc"]
  /\ UNCHANGED <<driver, status, used, dev_used, used_idx, bdisk, irq, handler, device,
                 req, head, moved, panic>>

\* Awake with b->disk still 1: sleep again.
SleepAgain(p) ==
  /\ pc[p] = "woken" /\ handler = "off"
  /\ bdisk[req[p].b] = 1
  /\ pc' = [pc EXCEPT ![p] = "waiting"]
  /\ UNCHANGED <<driver, status, used, dev_used, used_idx, bdisk, irq, handler, device,
                 req, head, moved, panic>>

\* The request is done: free the chain and return.  (ops keeps its old contents
\* in the code; nothing reads them before the next Submit.)
Return(p) ==
  /\ pc[p] = "woken" /\ handler = "off"
  /\ bdisk[req[p].b] = 0
  /\ LET chain == Chain(head[p]) IN
     IF chain \cap Free # {}
     THEN panic' = "free_desc" /\ UNCHANGED <<driver, req, head, moved, pc>>
     ELSE /\ free' = [d \in Desc |-> IF d \in chain THEN 1 ELSE free[d]]
          /\ next' = [d \in Desc |-> IF d \in chain THEN Nil ELSE next[d]]
          /\ ops' = [ops EXCEPT ![head[p]] = NoRequest]
          /\ info' = [info EXCEPT ![head[p]] = Nil]
          /\ req' = [req EXCEPT ![p] = NoRequest]
          /\ head' = [head EXCEPT ![p] = Nil]
          /\ moved' = [moved EXCEPT ![req[p].b] = "no"]
          /\ WakeAllocators(p, "out")
          /\ UNCHANGED <<avail, avail_idx, panic>>
  /\ UNCHANGED <<status, used, dev_used, used_idx, bdisk, irq, handler, device>>

(***************************************************************************)
(* The device (external): it reads the available ring in order, works on   *)
(* the chains in any order, and interrupts.                                *)
(***************************************************************************)
Fetch ==
  /\ seen # avail_idx
  /\ fetched' = fetched \cup {avail[seen % RING]}
  /\ seen' = Bump(seen)
  /\ UNCHANGED <<driver, status, used, dev_used, used_idx, bdisk, irq, handler, pc, req,
                 head, moved, panic>>

Complete(i) ==
  LET r == ops[i] IN
  /\ i \in fetched
  /\ fetched' = fetched \ {i}
  /\ moved' = [moved EXCEPT ![r.b] = IF r.write = 1 THEN "write" ELSE "read"]
  /\ status' = [status EXCEPT ![i] = 0]
  /\ used' = [used EXCEPT ![dev_used % RING] = i]
  /\ dev_used' = Bump(dev_used)
  /\ irq' = 1
  /\ UNCHANGED <<driver, used_idx, bdisk, handler, seen, pc, req, head, panic>>

(***************************************************************************)
(* virtio_disk_intr                                                        *)
(***************************************************************************)

\* The handler acknowledges the interrupt before it reads the used ring; the
\* mutant acknowledges it after.
Then(h) == CASE h = "off" -> "ack" [] h = "ack" -> "loop" [] h = "loop" -> "off"

\* The interrupt is taken, and vdisk_lock with it.
Interrupt ==
  /\ irq = 1 /\ handler = "off"
  /\ handler' = Then(handler)
  /\ UNCHANGED <<driver, status, used, dev_used, used_idx, bdisk, irq, device, pc, req, head,
                 moved, panic>>

Ack ==
  /\ handler = "ack"
  /\ irq' = 0
  /\ handler' = Then(handler)
  /\ UNCHANGED <<driver, status, used, dev_used, used_idx, bdisk, device, pc, req, head,
                 moved, panic>>

WakeWaiter(b) ==
  pc' = [q \in Proc |-> IF pc[q] = "waiting" /\ req[q].b = b THEN "woken" ELSE pc[q]]

MutClearAll(b) == bdisk' = [c \in Block |-> 0]
ClearDisk(b) == bdisk' = [bdisk EXCEPT ![b] = 0]

UsedEntry == used[used_idx % RING]

\* One turn of the loop over the used ring.
Collect ==
  LET id == UsedEntry IN
  /\ handler = "loop" /\ used_idx # dev_used
  /\ IF status[id] # 0
     THEN panic' = "status" /\ UNCHANGED <<bdisk, pc, used_idx>>
     ELSE /\ ClearDisk(info[id])
          /\ WakeWaiter(info[id])
          /\ used_idx' = Bump(used_idx)
          /\ UNCHANGED panic
  /\ UNCHANGED <<driver, status, used, dev_used, irq, handler, device, req, head, moved>>

Leave ==
  /\ handler = "loop" /\ used_idx = dev_used
  /\ handler' = Then(handler)
  /\ UNCHANGED <<irq, driver, status, used, dev_used, used_idx, bdisk, device, pc, req, head,
                 moved, panic>>

Rw(p) == Submit(p) \/ NoDescriptors(p) \/ SleepAgain(p) \/ Return(p)

Intr == Interrupt \/ Ack \/ Collect \/ Leave

Next ==
  /\ panic = "none"
  /\ \/ \E p \in Proc : \/ \E b \in Block, w \in {0, 1} : Call(p, b, w)
                        \/ Rw(p) \/ Kill(p)
     \/ Fetch \/ (\E i \in Desc : Complete(i))
     \/ Intr

Spec == Init /\ [][Next]_vars

(***************************************************************************)
(* Properties                                                              *)
(***************************************************************************)

\* Every descriptor is free or belongs to the chain of exactly one request in
\* flight: none leaks, none is shared, none is freed twice ("free_desc 2"), and
\* the device reports on no other chain ("virtio_disk_intr status").
DescriptorsOwned ==
  /\ TypeOK /\ panic = "none"
  /\ \A d \in Desc : free[d] = 0 <=> \E p \in Proc : head[p] # Nil /\ d \in Chain(head[p])
  /\ \A p, q \in Proc : p # q /\ head[p] # Nil /\ head[q] # Nil
                          => Chain(head[p]) \cap Chain(head[q]) = {}
  /\ \A p \in Proc : head[p] # Nil => Cardinality(Chain(head[p])) = 3

\* When virtio_disk_rw() may return, the transfer of its own buffer has been
\* made: b->disk is cleared by the completion of this request and no other,
\* in whatever order the device completes.
TransferDone ==
  \A p \in Proc : pc[p] = "woken" /\ bdisk[req[p].b] = 0 =>
    moved[req[p].b] = IF req[p].write = 1 THEN "write" ELSE "read"

\* No process sleeps on what it already has: one asleep for descriptors lacks
\* them, and one asleep for its buffer is still owed a completion, which the
\* device or the used ring holds.  A request that the device has finished is
\* still announced by a pending interrupt or by the running handler.
SleepersOwed ==
  /\ used_idx # dev_used => irq = 1 \/ handler # "off"
  /\ \A p \in Proc :
       /\ pc[p] = "no_desc" => Cardinality(Free) < 3
       /\ pc[p] = "waiting" =>
            /\ bdisk[req[p].b] = 1
            /\ \/ head[p] \in fetched
               \/ \E n \in 0 .. RING - 1 :
                    \/ n < (avail_idx - seen + UINT16) % UINT16 /\ avail[(seen + n) % RING] = head[p]
                    \/ n < (dev_used - used_idx + UINT16) % UINT16 /\ used[(used_idx + n) % RING] = head[p]
=============================================================================
