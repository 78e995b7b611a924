----------------------------- MODULE VirtioBlk -----------------------------
(***************************************************************************)
(* The VirtIO MMIO transport, the split-virtqueue engine and the block     *)
(* front end of src/unnamed/part_000 (virtio.cc, virtio-block), driven by  *)
(* a guest that stores to the MMIO registers in any order and publishes    *)
(* heads on the available ring, and by a block backend whose read_async /  *)
(* write_async either complete synchronously or call back later.           *)
(*                                                                         *)
(* Every MMIO store, every backend callback and every iteration of the     *)
(* while loop of queue_notify is one step.  The simulator runs device      *)
(* callbacks to completion on one thread: while a queue_notify loop runs   *)
(* (nq # NoQueue) only its next iteration is enabled.                      *)
(*                                                                         *)
(* Guest memory holds, per guest-physical address, an available ring       *)
(* (index and slots) and the index of a used ring; the descriptor tables   *)
(* are the constant DescMem (the guest does not rewrite descriptors in     *)
(* this model).  The contents of used-ring entries, request data and the   *)
(* status byte are abstracted away.                                        *)
(***************************************************************************)
EXTENDS Integers, FiniteSets, VirtqDesc

CONSTANTS
  MaxQueue,     \* MAX_QUEUE: queues 0..MaxQueue-1
  MaxQueueNum,  \* MAX_QUEUE_NUM: the ring size a reset installs
  IdxMod,       \* 2^16: the modulus of the 16-bit ring indices
  HiVals,       \* values the guest writes to the QUEUE_*_HIGH registers
  LoVals,       \* values the guest writes to the QUEUE_*_LOW registers
  QueueVals,    \* values the guest writes to QUEUE_SEL and QUEUE_NOTIFY
  NumVals,      \* values the guest writes to QUEUE_NUM
  ReadyVals,    \* values the guest writes to QUEUE_READY
  StatusVals,   \* values the guest writes to STATUS
  AckVals,      \* bit sets the guest writes to INTERRUPT_ACK
  DescIdx,      \* descriptor indices
  Heads,        \* the heads the guest places on the available ring
  DescMem,      \* the descriptor table found at each guest address
  Outcomes      \* what read_async / write_async may do: "sync", "async"

IsPowerOfTwo(v) == \E k \in 0 .. v : 2 ^ k = v

\* virtio_mmio_write, QUEUE_NUM: "(val & (val - 1)) == 0 && val > 0".
AcceptedNum(v) == v > 0 /\ IsPowerOfTwo(v)

Addr == [hi : HiVals, lo : LoVals]
ZeroAddr == [hi |-> 0, lo |-> 0]

\* The ring sizes a queue can have: the reset value and accepted writes.
NumSet == {MaxQueueNum} \cup {v \in NumVals : AcceptedNum(v)}

\* The ring slots any of them can index.
Slots == UNION {0 .. v - 1 : v \in NumSet}

Queues == 0 .. MaxQueue - 1
NoQueue == -1

VIRTIO_BLK_T_IN  == 0
VIRTIO_BLK_T_OUT == 1

\* sizeof(BlockRequestHeader)
HdrSize == 16

ASSUME ConstantsAssumption ==
  /\ MaxQueue \in Nat \ {0}
  /\ IdxMod \in Nat \ {0}
  /\ MaxQueueNum \in Nat /\ AcceptedNum(MaxQueueNum)
  /\ 0 \in HiVals /\ 0 \in LoVals
  /\ HiVals \subseteq Nat /\ LoVals \subseteq Nat
  /\ QueueVals \subseteq Nat /\ NumVals \subseteq Nat
  /\ ReadyVals \subseteq Nat /\ StatusVals \subseteq Nat
  /\ AckVals \subseteq SUBSET {0, 1}
  /\ DescIdx \subseteq Nat /\ IsFiniteSet(DescIdx) /\ 0 \in DescIdx
  /\ Heads \subseteq DescIdx
  /\ DescMem \in [Addr -> DescTables(DescIdx, Nat, Nat)]
  /\ Outcomes \subseteq {"sync", "async"}

QueueState == [ready : {0, 1}, num : NumSet, lastAvail : 0 .. IdxMod - 1,
               desc : Addr, avail : Addr, used : Addr]


VARIABLES
  status,        \* s->status
  intStatus,     \* s->int_status, as the set of its set bits
  queueSel,      \* s->queue_sel
  queue,         \* s->queue[]
  irq,           \* the level driven on the interrupt line by set_irq
  reqInProgress, \* s1->req_in_progress
  req,           \* s1->req
  nq,            \* the queue whose queue_notify loop is running, or NoQueue
  availSnap,     \* the avail_idx that loop read on entry
  availIdx,      \* guest memory: avail->idx at each address
  availRing,     \* guest memory: avail->ring[] at each address
  usedIdx,       \* guest memory: used->idx at each address
  running,       \* "run", or "hang" / "abort" when the simulator stopped
  heapOk,        \* FALSE once the device wrote outside a heap buffer
  inflight,      \* ghost: heads taken from queue q not yet put on its used ring
  kickPending    \* ghost: a notify of queue q broke off on a busy device

dev == <<status, intStatus, queueSel, queue, irq, reqInProgress, req, nq, availSnap>>
mem == <<availIdx, availRing, usedIdx>>
ghost == <<inflight, kickPending>>
vars == <<dev, mem, running, heapOk, ghost>>

-----------------------------------------------------------------------------
\* get_desc_rw_size of every head of every table (DescMem is constant).
RwTable == [a \in Addr |-> [h \in DescIdx |-> GetDescRwSize(DescMem[a], h)]]

\* The request record: write_size is 0 or a size get_desc_rw_size returned.
WriteSizes == {0} \cup {RwTable[a][h].write : a \in Addr, h \in DescIdx}
BlockRequest == [type : Nat, queue : Queues, head : DescIdx, writeSize : WriteSizes]

\* Mutant: a reset that leaves num at 0, as memset would.
ResetQueueNoNum == [ready |-> 0, num |-> 0, lastAvail |-> 0,
                    desc |-> ZeroAddr, avail |-> ZeroAddr, used |-> ZeroAddr]

(* virtio_reset: every queue back to its reset state. *)
ResetQueue == [ready |-> 0, num |-> MaxQueueNum, lastAvail |-> 0,
               desc |-> ZeroAddr, avail |-> ZeroAddr, used |-> ZeroAddr]

(* virtio_block_init: mallocz, virtio_init (memset 0, virtio_reset). *)
Init ==
  /\ status = 0
  /\ intStatus = {}
  /\ queueSel = 0
  /\ queue = [q \in Queues |-> ResetQueue]
  /\ irq = FALSE
  /\ reqInProgress = FALSE
  /\ req = [type |-> 0, queue |-> 0, head |-> 0, writeSize |-> 0]
  /\ nq = NoQueue
  /\ availSnap = 0
  /\ availIdx = [a \in Addr |-> 0]
  /\ availRing = [a \in Addr |-> [s \in Slots |-> 0]]
  /\ usedIdx = [a \in Addr |-> 0]
  /\ running = "run"
  /\ heapOk = TRUE
  /\ inflight = [q \in Queues |-> 0]
  /\ kickPending = [q \in Queues |-> FALSE]

\* No device callback is running: the guest, or the backend, may act.
\* The guest's 4-byte store calls virtio_mmio_write on the simulator thread,
\* which runs queue_notify to its end before the next store can start.
Idle == nq = NoQueue /\ running = "run"

-----------------------------------------------------------------------------
(***************************************************************************)
(* Guest stores to the MMIO registers (virtio_mmio_write, size_log2 = 2).  *)
(***************************************************************************)
WriteQueueSel(v) ==
  /\ Idle
  /\ queueSel' = IF v < MaxQueue THEN v ELSE queueSel
  /\ UNCHANGED <<status, intStatus, queue, irq, reqInProgress, req, nq, availSnap,
                 mem, running, heapOk, ghost>>

WriteQueueNum(v) ==
  /\ Idle
  /\ queue' = IF AcceptedNum(v) THEN [queue EXCEPT ![queueSel].num = v]
                                ELSE queue
  /\ UNCHANGED <<status, intStatus, queueSel, irq, reqInProgress, req, nq, availSnap,
                 mem, running, heapOk, ghost>>

\* set_low32 / set_high32 on desc_addr, avail_addr or used_addr.
WriteQueueAddr(reg, half, v) ==
  /\ Idle
  /\ queue' = [queue EXCEPT ![queueSel][reg][half] = v]
  /\ UNCHANGED <<status, intStatus, queueSel, irq, reqInProgress, req, nq, availSnap,
                 mem, running, heapOk, ghost>>

WriteQueueReady(v) ==
  /\ Idle
  /\ queue' = [queue EXCEPT ![queueSel].ready = v % 2]
  /\ UNCHANGED <<status, intStatus, queueSel, irq, reqInProgress, req, nq, availSnap,
                 mem, running, heapOk, ghost>>

\* STATUS: a write of 0 lowers the line and runs virtio_reset, which leaves
\* the block front end's req_in_progress and req as they are.
WriteStatus(v) ==
  /\ Idle
  /\ IF v = 0
       THEN /\ status' = 0
            /\ intStatus' = {}
            /\ queueSel' = 0
            /\ queue' = [q \in Queues |-> ResetQueue]
            /\ irq' = FALSE
       ELSE /\ status' = v
            /\ UNCHANGED <<intStatus, queueSel, queue, irq>>
  /\ UNCHANGED <<reqInProgress, req, nq, availSnap, mem, running, heapOk, ghost>>

\* Mutant: the acknowledgement clears the bits but never lowers the line.
WriteInterruptAckNoLower(v) ==
  /\ Idle
  /\ intStatus' = intStatus \ v
  /\ UNCHANGED <<status, queueSel, queue, irq, reqInProgress, req, nq, availSnap,
                 mem, running, heapOk, ghost>>

\* INTERRUPT_ACK: int_status &= ~val; the line drops once it is 0.
WriteInterruptAck(v) ==
  /\ Idle
  /\ intStatus' = intStatus \ v
  /\ irq' = IF intStatus' = {} THEN FALSE ELSE irq
  /\ UNCHANGED <<status, queueSel, queue, reqInProgress, req, nq, availSnap,
                 mem, running, heapOk, ghost>>

\* queue_notify on entry: it reads avail->idx once (manual_recv is never
\* set for the block device).
StartNotify(q) ==
  /\ nq' = q
  /\ availSnap' = availIdx[queue[q].avail]

\* QUEUE_NOTIFY: "if (val < MAX_QUEUE) queue_notify(s, val)".
WriteQueueNotify(v) ==
  /\ Idle
  /\ IF v < MaxQueue THEN StartNotify(v) ELSE UNCHANGED <<nq, availSnap>>
  /\ UNCHANGED <<status, intStatus, queueSel, queue, irq, reqInProgress, req,
                 mem, running, heapOk, ghost>>

(***************************************************************************)
(* The guest publishes head h on the available ring of queue q: it stores  *)
(* the head in the next slot and then increments avail->idx.  Like a       *)
(* virtio driver, it keeps at most num heads outstanding (published and    *)
(* not yet seen on the used ring).                                         *)
(***************************************************************************)
DriverSubmit(q, h) ==
  LET a == queue[q].avail
  IN  /\ Idle
      /\ (availIdx[a] - usedIdx[queue[q].used]) % IdxMod < queue[q].num
      /\ availRing' = [availRing EXCEPT ![a][availIdx[a] % queue[q].num] = h]
      /\ availIdx' = [availIdx EXCEPT ![a] = (@ + 1) % IdxMod]
      /\ UNCHANGED <<dev, usedIdx, running, heapOk, ghost>>

-----------------------------------------------------------------------------
(***************************************************************************)
(* virtio_consume_desc(s, q, head, len): increment used->idx at used_addr, *)
(* write the entry, set bit 0 of int_status and raise the line.  It does   *)
(* not look at ready.  Both primes of usedIdx, intStatus and irq.          *)
(***************************************************************************)
ConsumeDesc(q) ==
  LET a == queue[q].used
  IN  /\ usedIdx' = [usedIdx EXCEPT ![a] = (@ + 1) % IdxMod]
      /\ intStatus' = intStatus \cup {0}
      /\ irq' = TRUE

\* virtio_block_req_end for request r: IN stores the status byte at
\* buf[write_size - 1], which is before the buffer when write_size is 0,
\* then both types publish the head.  (The default case aborts; r.type is
\* IN or OUT whenever req_end runs.)
ReqEndHeap(r) ==
  heapOk' = (heapOk /\ ~(r.type = VIRTIO_BLK_T_IN /\ r.writeSize = 0))

(***************************************************************************)
(* One iteration of the while loop of queue_notify on queue nq, with the   *)
(* call to virtio_block_recv_request it makes.                             *)
(***************************************************************************)
LoopHead == availRing[queue[nq].avail][queue[nq].lastAvail % queue[nq].num]
LoopTable == DescMem[queue[nq].desc]
LoopRw == RwTable[queue[nq].desc][LoopHead]
LoopType == LoopTable[LoopHead].type

\* The loop condition: last_avail_idx has caught up with avail_idx.
NotifyDone ==
  /\ nq # NoQueue /\ running = "run"
  /\ queue[nq].lastAvail = availSnap
  /\ nq' = NoQueue
  /\ kickPending' = [kickPending EXCEPT ![nq] = FALSE]
  /\ UNCHANGED <<status, intStatus, queueSel, queue, irq, reqInProgress, req,
                 availSnap, mem, running, heapOk, inflight>>

InLoop ==
  /\ nq # NoQueue /\ running = "run"
  /\ queue[nq].lastAvail # availSnap

\* last_avail_idx++ once the head was handed on (or passed over).
NextAvail == [queue EXCEPT ![nq].lastAvail = (@ + 1) % IdxMod]
Resumed == [kickPending EXCEPT ![nq] = FALSE]

\* The head leaves the available ring and nothing is published yet.
Advance ==
  /\ queue' = NextAvail
  /\ inflight' = [inflight EXCEPT ![nq] = @ + 1]
  /\ kickPending' = Resumed

\* get_desc_rw_size never returns: the chain is cyclic.
NotifyHang ==
  /\ InLoop
  /\ LoopRw.kind = "hang"
  /\ running' = "hang"
  /\ UNCHANGED <<dev, mem, heapOk, ghost>>

\* Mutant: a bad chain is passed over without last_avail_idx++.
NotifySkipBadChainNoAdvance ==
  /\ InLoop
  /\ LoopRw.kind = "bad"
  /\ inflight' = [inflight EXCEPT ![nq] = @ + 1]
  /\ kickPending' = Resumed
  /\ UNCHANGED <<status, intStatus, queueSel, queue, irq, reqInProgress, req, nq,
                 availSnap, mem, running, heapOk>>

\* get_desc_rw_size returned -1: the head is passed over, recv not called.
NotifySkipBadChain ==
  /\ InLoop
  /\ LoopRw.kind = "bad"
  /\ Advance
  /\ UNCHANGED <<status, intStatus, queueSel, irq, reqInProgress, req, nq,
                 availSnap, mem, running, heapOk>>

\* recv_request returns -1 while a request is in progress: the loop breaks
\* without advancing last_avail_idx.
RecvBusy ==
  /\ InLoop
  /\ LoopRw.kind = "ok"
  /\ reqInProgress
  /\ nq' = NoQueue
  /\ kickPending' = [kickPending EXCEPT ![nq] = TRUE]
  /\ UNCHANGED <<status, intStatus, queueSel, queue, irq, reqInProgress, req,
                 availSnap, mem, running, heapOk, inflight>>

RecvReady == InLoop /\ LoopRw.kind = "ok" /\ ~reqInProgress

\* memcpy_from_queue of the header failed: recv returns 0.
RecvNoHeader ==
  /\ RecvReady
  /\ ~CopyFromQueueOk(LoopRw, HdrSize)
  /\ Advance
  /\ UNCHANGED <<status, intStatus, queueSel, irq, reqInProgress, req, nq,
                 availSnap, mem, running, heapOk>>

RecvHeader == RecvReady /\ CopyFromQueueOk(LoopRw, HdrSize)

\* Header read: req.type, req.queue_idx, req.desc_idx are stored before the
\* switch on the type.
ReqFromHeader ==
  [req EXCEPT !.type = LoopType, !.queue = nq, !.head = LoopHead]

\* A type other than IN and OUT (FLUSH included): "default: break", recv
\* returns 0 and nothing is published.
RecvOtherType ==
  /\ RecvHeader
  /\ LoopType \notin {VIRTIO_BLK_T_IN, VIRTIO_BLK_T_OUT}
  /\ req' = ReqFromHeader
  /\ Advance
  /\ UNCHANGED <<status, intStatus, queueSel, irq, reqInProgress, nq,
                 availSnap, mem, running, heapOk>>

\* OUT with no device-writable byte: assert(write_size >= 1) aborts.
RecvOutAssert ==
  /\ RecvHeader
  /\ LoopType = VIRTIO_BLK_T_OUT
  /\ LoopRw.write < 1
  /\ running' = "abort"
  /\ UNCHANGED <<dev, mem, heapOk, ghost>>

\* IN, or OUT with a writable byte: the request record, then the backend.
RecvStart ==
  /\ RecvHeader
  /\ \/ LoopType = VIRTIO_BLK_T_IN
     \/ LoopType = VIRTIO_BLK_T_OUT /\ LoopRw.write >= 1

\* OUT leaves req.write_size as it was.
NewReq ==
  IF LoopType = VIRTIO_BLK_T_IN
    THEN [ReqFromHeader EXCEPT !.writeSize = LoopRw.write]
    ELSE ReqFromHeader

\* read_async / write_async returned > 0: req_in_progress = TRUE.
RecvAsync ==
  /\ RecvStart
  /\ "async" \in Outcomes
  /\ req' = NewReq
  /\ reqInProgress' = TRUE
  /\ Advance
  /\ UNCHANGED <<status, intStatus, queueSel, irq, nq, availSnap, mem,
                 running, heapOk>>

\* Mutant: a synchronous completion that skips virtio_block_req_end.
RecvSyncNoReqEnd ==
  /\ RecvStart
  /\ "sync" \in Outcomes
  /\ req' = NewReq
  /\ Advance
  /\ UNCHANGED <<status, intStatus, queueSel, irq, reqInProgress, nq, availSnap,
                 mem, running, heapOk>>

\* The backend completed synchronously: virtio_block_req_end runs at once.
RecvSync ==
  /\ RecvStart
  /\ "sync" \in Outcomes
  /\ req' = NewReq
  /\ ReqEndHeap(NewReq)
  /\ ConsumeDesc(nq)
  /\ queue' = NextAvail
  /\ kickPending' = Resumed
  /\ UNCHANGED <<status, queueSel, reqInProgress, nq, availSnap, availIdx,
                 availRing, running, inflight>>

(***************************************************************************)
(* virtio_block_req_cb: the backend's completion, delivered on the         *)
(* simulator thread between MMIO accesses.  req_end publishes the head,    *)
(* req_in_progress is cleared and queue_notify runs on req.queue_idx.      *)
(***************************************************************************)
\* Mutant: the callback does not re-run queue_notify.
BlockReqCbNoRenotify ==
  /\ Idle
  /\ reqInProgress
  /\ ReqEndHeap(req)
  /\ ConsumeDesc(req.queue)
  /\ inflight' = [inflight EXCEPT ![req.queue] = @ - 1]
  /\ reqInProgress' = FALSE
  /\ UNCHANGED <<status, queueSel, queue, req, nq, availSnap, availIdx, availRing,
                 running, kickPending>>

\* Mutant: the callback leaves req_in_progress set.
BlockReqCbStaysBusy ==
  /\ Idle
  /\ reqInProgress
  /\ ReqEndHeap(req)
  /\ ConsumeDesc(req.queue)
  /\ inflight' = [inflight EXCEPT ![req.queue] = @ - 1]
  /\ StartNotify(req.queue)
  /\ UNCHANGED <<status, queueSel, queue, reqInProgress, req, availIdx, availRing,
                 running, kickPending>>

BlockReqCb ==
  /\ Idle
  /\ reqInProgress
  /\ ReqEndHeap(req)
  /\ ConsumeDesc(req.queue)
  /\ inflight' = [inflight EXCEPT ![req.queue] = @ - 1]
  /\ reqInProgress' = FALSE
  /\ StartNotify(req.queue)
  /\ UNCHANGED <<status, queueSel, queue, req, availIdx, availRing, running,
                 kickPending>>

-----------------------------------------------------------------------------
AddrRegs == {"desc", "avail", "used"}

Guest ==
  \/ \E v \in QueueVals : WriteQueueSel(v) \/ WriteQueueNotify(v)
  \/ \E v \in NumVals : WriteQueueNum(v)
  \/ \E r \in AddrRegs : \/ \E v \in LoVals : WriteQueueAddr(r, "lo", v)
                         \/ \E v \in HiVals : WriteQueueAddr(r, "hi", v)
  \/ \E v \in ReadyVals : WriteQueueReady(v)
  \/ \E v \in StatusVals : WriteStatus(v)
  \/ \E v \in AckVals : WriteInterruptAck(v)
  \/ \E q \in Queues, h \in Heads : DriverSubmit(q, h)

NotifyStep ==
  \/ NotifyDone \/ NotifyHang \/ NotifySkipBadChain \/ RecvBusy
  \/ RecvNoHeader \/ RecvOtherType \/ RecvOutAssert \/ RecvAsync \/ RecvSync

Next == Guest \/ NotifyStep \/ BlockReqCb

(* queue_notify runs to completion once started.  A backend that returned  *)
(* > 0 calls its completion callback later (the BlockBackend contract);    *)
(* the callback is marshalled onto the simulator thread and runs the next  *)
(* time that thread is between device callbacks, which happens again and  *)
(* again however busy the guest keeps it: strong fairness.                 *)
Fairness == WF_vars(NotifyStep) /\ SF_vars(BlockReqCb)

Spec == Init /\ [][Next]_vars /\ Fairness

-----------------------------------------------------------------------------
TypeOK ==
  /\ status \in Nat
  /\ intStatus \subseteq {0, 1}
  /\ queueSel \in Queues
  /\ queue \in [Queues -> QueueState]
  /\ irq \in BOOLEAN
  /\ reqInProgress \in BOOLEAN
  /\ req \in BlockRequest
  /\ nq \in Queues \cup {NoQueue}
  /\ availSnap \in 0 .. IdxMod - 1
  /\ availIdx \in [Addr -> 0 .. IdxMod - 1]
  /\ availRing \in [Addr -> [Slots -> DescIdx]]
  /\ usedIdx \in [Addr -> 0 .. IdxMod - 1]
  /\ running \in {"run", "hang", "abort"}
  /\ heapOk \in BOOLEAN
  /\ inflight \in [Queues -> Int]
  /\ kickPending \in [Queues -> BOOLEAN]

\* The guest builds only well-formed requests: at every head it publishes (and
\* at 0, which the rings hold before any publication), under every table
\* address, get_desc_rw_size does not return -1, and a chain it accepts has a
\* read part that holds the header and a type the front end serves (IN, OUT).
WellFormedChains ==
  \A a \in Addr, h \in Heads \cup {0} :
    /\ RwTable[a][h].kind # "bad"
    /\ RwTable[a][h].kind = "ok" =>
         /\ CopyFromQueueOk(RwTable[a][h], HdrSize)
         /\ DescMem[a][h].type \in {VIRTIO_BLK_T_IN, VIRTIO_BLK_T_OUT}

-----------------------------------------------------------------------------
(***************************************************************************)
(* Properties.                                                             *)
(***************************************************************************)

\* Every head the device takes off the available ring of queue q (by
\* last_avail_idx++ in queue_notify) is put on q's used ring by
\* virtio_consume_desc exactly once: at every moment the heads taken and not
\* yet answered are just the block request in progress, if it is q's (spec
\* 4.D, 7: "every path that can fail publishes a used-ring entry").
HeadsAnswered ==
  \A q \in Queues :
    inflight[q] = IF reqInProgress /\ req.queue = q THEN 1 ELSE 0

\* The interrupt line is high exactly when int_status is non-zero, through
\* virtio_consume_desc, INTERRUPT_ACK, the reset of STATUS and the
\* asynchronous completion (spec 3, 5).
IrqReflectsIntStatus == irq = (intStatus # {})

\* The device publishes on a used ring only for a queue the driver has made
\* ready: neither queue_notify nor virtio_consume_desc checks ready, and a
\* completion arriving after a reset must be dropped (spec 3 and 5).
PublishOnlyOnReadyQueue ==
  [][\A a \in Addr :
       usedIdx'[a] # usedIdx[a] =>
         \E q \in Queues : queue[q].used = a /\ queue[q].ready = 1]_vars

\* No descriptor chain a guest can build makes queue_notify loop forever
\* (spec 7: a malformed chain is completed with IOERR).
NoHang == running # "hang"

\* No request a guest can submit makes the block front end write outside a
\* heap buffer or abort the simulator (spec 7, S6).
HostMemorySafe == heapOk /\ running # "abort"

\* Every run of the queue_notify loop ends, whatever the guest's chains:
\* each iteration, bad chain, missing header and unserved type included,
\* moves last_avail_idx one step (line 625) towards the avail_idx it read on
\* entry, across the 16-bit wrap, or breaks on a busy device (1010, 623).
\* Only a cyclic chain (NoHang) or the OUT assert stop the simulator first.
NotifyLoopEnds == (nq # NoQueue) ~> (nq = NoQueue \/ running # "run")

\* A notify that broke off because a request was in progress is taken up
\* again without a new kick from the driver: virtio_block_req_cb re-runs
\* queue_notify (spec 4.G), on req.queue_idx only (line 984), so this holds
\* for the block device's one queue and not for a second one.
PushbackResumed == \A q \in Queues : kickPending[q] ~> ~kickPending[q]
=============================================================================
