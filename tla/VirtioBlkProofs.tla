-------------------------- MODULE VirtioBlkProofs --------------------------
(***************************************************************************)
(* Proofs about VirtioBlk for every value of its constants.                *)
(***************************************************************************)
EXTENDS VirtioBlk, TLAPS

USE ConstantsAssumption

(***************************************************************************)
(* Facts about the constants.                                              *)
(***************************************************************************)

\* Every ring size a queue can hold is a positive natural number.
LEMMA NumSetPositive == \A v \in NumSet : v \in Nat /\ v > 0
  BY DEF NumSet, AcceptedNum

\* An index taken modulo a ring size is a slot of the ring memory.
LEMMA SlotOfIndex ==
  ASSUME NEW v \in NumSet, NEW i \in Int
  PROVE  i % v \in Slots
  <1>1. v \in Nat /\ v > 0
    BY NumSetPositive
  <1>2. i % v \in 0 .. v - 1
    BY <1>1
  <1>. QED
    BY <1>2 DEF Slots

\* The reset state of a queue is a queue state.
LEMMA ResetQueueType == ResetQueue \in QueueState
  <1>1. MaxQueueNum \in NumSet
    BY DEF NumSet
  <1>2. ZeroAddr \in Addr
    BY DEF ZeroAddr, Addr
  <1>. QED
    BY <1>1, <1>2 DEF ResetQueue, QueueState

\* The reset state of every queue, and the initial state, are well typed.
LEMMA InitTypeOK == Init => TypeOK
  <1>. SUFFICES ASSUME Init PROVE TypeOK
    OBVIOUS
  <1>1. queue \in [Queues -> QueueState]
    BY ResetQueueType DEF Init
  <1>2. req \in BlockRequest
    BY DEF Init, BlockRequest, WriteSizes, Queues
  <1>3. availRing \in [Addr -> [Slots -> DescIdx]]
    BY DEF Init
  <1>4. /\ availIdx \in [Addr -> 0 .. IdxMod - 1]
        /\ usedIdx \in [Addr -> 0 .. IdxMod - 1]
        /\ availSnap \in 0 .. IdxMod - 1
    BY DEF Init
  <1>5. /\ inflight \in [Queues -> Int]
        /\ kickPending \in [Queues -> BOOLEAN]
        /\ queueSel \in Queues
        /\ nq \in Queues \cup {NoQueue}
    BY DEF Init, Queues, NoQueue
  <1>. QED
    BY <1>1, <1>2, <1>3, <1>4, <1>5 DEF Init, TypeOK

(***************************************************************************)
(* The values an iteration of the queue_notify loop reads.                 *)
(***************************************************************************)

\* While a loop runs on nq, the head it reads is a descriptor index and the
\* request record it builds is a block request.
LEMMA LoopFacts ==
  ASSUME TypeOK, nq # NoQueue
  PROVE  /\ nq \in Queues
         /\ LoopHead \in DescIdx
         /\ LoopType \in Nat
         /\ LoopRw.write \in WriteSizes
         /\ ReqFromHeader \in BlockRequest
         /\ NewReq \in BlockRequest
  <1>1. nq \in Queues
    BY DEF TypeOK
  <1>2. queue[nq] \in QueueState
    BY <1>1 DEF TypeOK
  <1>3. queue[nq].lastAvail % queue[nq].num \in Slots
    BY <1>2, SlotOfIndex DEF QueueState
  <1>4. LoopHead \in DescIdx
    BY <1>2, <1>3 DEF TypeOK, LoopHead, QueueState
  <1>5. LoopTable \in DescTables(DescIdx, Nat, Nat)
    BY <1>2 DEF LoopTable, QueueState
  <1>6. LoopType \in Nat
    BY <1>4, <1>5 DEF LoopType, DescTables
  <1>7. LoopRw.write \in WriteSizes
    BY <1>2, <1>4 DEF LoopRw, RwTable, WriteSizes, QueueState
  <1>8. ReqFromHeader \in BlockRequest
    BY <1>1, <1>4, <1>6 DEF TypeOK, ReqFromHeader, BlockRequest
  <1>9. NewReq \in BlockRequest
    BY <1>7, <1>8 DEF NewReq, BlockRequest
  <1>. QED
    BY <1>1, <1>4, <1>6, <1>7, <1>8, <1>9

\* Replacing one queue by a queue state keeps the queue array well typed.
LEMMA QueueUpdate ==
  ASSUME NEW Q \in [Queues -> QueueState], NEW i \in Queues, NEW e \in QueueState
  PROVE  [Q EXCEPT ![i] = e] \in [Queues -> QueueState]
  OBVIOUS

\* A queue state with one field replaced by a value of that field's type.
LEMMA QueueFieldUpdate ==
  ASSUME NEW r \in QueueState
  PROVE  /\ \A v \in NumSet : [r EXCEPT !.num = v] \in QueueState
         /\ \A v \in {0, 1} : [r EXCEPT !.ready = v] \in QueueState
         /\ \A v \in 0 .. IdxMod - 1 : [r EXCEPT !.lastAvail = v] \in QueueState
         /\ \A g \in AddrRegs, v \in Addr : [r EXCEPT ![g] = v] \in QueueState
  BY DEF QueueState, AddrRegs

(***************************************************************************)
(* Every step keeps TypeOK: one step per action.                           *)
(***************************************************************************)

\* The guest's MMIO stores and its publication of a head keep TypeOK.
LEMMA GuestTypeOK == TypeOK /\ Guest => TypeOK'
  <1>. SUFFICES ASSUME TypeOK, Guest PROVE TypeOK'
    OBVIOUS
  <1>1. ASSUME NEW v \in QueueVals, WriteQueueSel(v) PROVE TypeOK'
    BY <1>1 DEF WriteQueueSel, Idle, TypeOK, Queues, mem, ghost
  <1>2. ASSUME NEW v \in QueueVals, WriteQueueNotify(v) PROVE TypeOK'
    <2>1. CASE v < MaxQueue
      <3>1. queue[v].avail \in Addr
        BY <2>1 DEF TypeOK, Queues, QueueState
      <3>. QED
        BY <1>2, <2>1, <3>1 DEF WriteQueueNotify, StartNotify, TypeOK, Queues, mem, ghost
    <2>2. CASE ~(v < MaxQueue)
      BY <1>2, <2>2 DEF WriteQueueNotify, TypeOK, mem, ghost
    <2>. QED
      BY <2>1, <2>2
  <1>3. ASSUME NEW v \in NumVals, WriteQueueNum(v) PROVE TypeOK'
    <2>1. CASE AcceptedNum(v)
      <3>1. v \in NumSet
        BY <2>1 DEF NumSet
      <3>2. queue' \in [Queues -> QueueState]
        BY <1>3, <2>1, <3>1, QueueFieldUpdate, QueueUpdate DEF WriteQueueNum, TypeOK
      <3>. QED
        BY <1>3, <3>2 DEF WriteQueueNum, TypeOK, mem, ghost
    <2>2. CASE ~AcceptedNum(v)
      BY <1>3, <2>2 DEF WriteQueueNum, TypeOK, mem, ghost
    <2>. QED
      BY <2>1, <2>2
  <1>4. ASSUME NEW r \in AddrRegs, NEW h \in {"lo", "hi"},
               NEW v \in (IF h = "lo" THEN LoVals ELSE HiVals),
               WriteQueueAddr(r, h, v)
        PROVE  TypeOK'
    <2>1. \A a \in Addr : [a EXCEPT ![h] = v] \in Addr
      BY DEF Addr
    <2>2. queue[queueSel][r] \in Addr
      BY DEF TypeOK, QueueState, AddrRegs
    <2>3. [queue[queueSel] EXCEPT ![r] = [queue[queueSel][r] EXCEPT ![h] = v]]
            \in QueueState
      <3>1. queue[queueSel] \in QueueState
        BY DEF TypeOK
      <3>2. [queue[queueSel][r] EXCEPT ![h] = v] \in Addr
        BY <2>1, <2>2
      <3>. QED
        BY <3>1, <3>2, QueueFieldUpdate
    <2>4. queue' \in [Queues -> QueueState]
      BY <1>4, <2>3, QueueUpdate DEF WriteQueueAddr, TypeOK
    <2>. QED
      BY <1>4, <2>4 DEF WriteQueueAddr, TypeOK, mem, ghost
  <1>5. ASSUME NEW v \in ReadyVals, WriteQueueReady(v) PROVE TypeOK'
    <2>1. v % 2 \in {0, 1}
      OBVIOUS
    <2>2. queue' \in [Queues -> QueueState]
      BY <1>5, <2>1, QueueFieldUpdate, QueueUpdate DEF WriteQueueReady, TypeOK
    <2>. QED
      BY <1>5, <2>2 DEF WriteQueueReady, TypeOK, mem, ghost
  <1>6. ASSUME NEW v \in StatusVals, WriteStatus(v) PROVE TypeOK'
    <2>1. CASE v = 0
      <3>1. queue' \in [Queues -> QueueState] /\ queueSel' \in Queues
        BY <1>6, <2>1, ResetQueueType DEF WriteStatus, Queues
      <3>. QED
        BY <1>6, <2>1, <3>1 DEF WriteStatus, TypeOK, mem, ghost
    <2>2. CASE v # 0
      BY <1>6, <2>2 DEF WriteStatus, TypeOK, mem, ghost
    <2>. QED
      BY <2>1, <2>2
  <1>7. ASSUME NEW v \in AckVals, WriteInterruptAck(v) PROVE TypeOK'
    BY <1>7 DEF WriteInterruptAck, Idle, TypeOK, mem, ghost
  <1>8. ASSUME NEW q \in Queues, NEW h \in Heads, DriverSubmit(q, h) PROVE TypeOK'
    <2>. DEFINE a == queue[q].avail
    <2>1. a \in Addr /\ queue[q].num \in NumSet
      BY DEF TypeOK, QueueState
    <2>2. availIdx[a] % queue[q].num \in Slots
      BY <2>1, SlotOfIndex DEF TypeOK
    <2>3. availRing' \in [Addr -> [Slots -> DescIdx]]
      BY <1>8, <2>1, <2>2 DEF DriverSubmit, TypeOK
    <2>4. availIdx' \in [Addr -> 0 .. IdxMod - 1]
      BY <1>8, <2>1 DEF DriverSubmit, TypeOK
    <2>. QED
      BY <1>8, <2>3, <2>4 DEF DriverSubmit, TypeOK, dev, ghost
  <1>. QED
    BY <1>1, <1>2, <1>3, <1>4, <1>5, <1>6, <1>7, <1>8 DEF Guest

\* last_avail_idx++ keeps the queue array well typed.
LEMMA NextAvailType ==
  ASSUME TypeOK, nq \in Queues
  PROVE  NextAvail \in [Queues -> QueueState]
  <1>1. (queue[nq].lastAvail + 1) % IdxMod \in 0 .. IdxMod - 1
    BY DEF TypeOK, QueueState
  <1>2. [queue[nq] EXCEPT !.lastAvail = (queue[nq].lastAvail + 1) % IdxMod]
          \in QueueState
    BY <1>1, QueueFieldUpdate DEF TypeOK
  <1>. QED
    BY <1>2, QueueUpdate DEF NextAvail, TypeOK

\* Taking a head off the available ring keeps the queues and ghosts typed.
LEMMA AdvanceType ==
  ASSUME TypeOK, nq \in Queues, Advance
  PROVE  /\ queue' \in [Queues -> QueueState]
         /\ inflight' \in [Queues -> Int]
         /\ kickPending' \in [Queues -> BOOLEAN]
  BY NextAvailType DEF Advance, Resumed, TypeOK

\* virtio_consume_desc keeps the used indices, int_status and the line typed.
LEMMA ConsumeDescType ==
  ASSUME TypeOK, NEW q \in Queues, ConsumeDesc(q)
  PROVE  /\ usedIdx' \in [Addr -> 0 .. IdxMod - 1]
         /\ intStatus' \subseteq {0, 1}
         /\ irq' \in BOOLEAN
  <1>1. queue[q].used \in Addr
    BY DEF TypeOK, QueueState
  <1>. QED
    BY <1>1 DEF ConsumeDesc, TypeOK

\* An iteration of the queue_notify loop keeps TypeOK.
LEMMA NotifyStepTypeOK == TypeOK /\ NotifyStep => TypeOK'
  <1>. SUFFICES ASSUME TypeOK, NotifyStep PROVE TypeOK'
    OBVIOUS
  <1>. USE DEF InLoop, RecvReady, RecvHeader, RecvStart
  <1>1. CASE NotifyDone
    BY <1>1 DEF NotifyDone, TypeOK, mem, NoQueue, Queues
  <1>2. CASE NotifyHang
    BY <1>2 DEF NotifyHang, TypeOK, dev, mem, ghost
  <1>3. CASE NotifySkipBadChain
    BY <1>3, LoopFacts, AdvanceType DEF NotifySkipBadChain, TypeOK, mem
  <1>4. CASE RecvBusy
    BY <1>4, LoopFacts DEF RecvBusy, TypeOK, mem, NoQueue, Queues
  <1>5. CASE RecvNoHeader
    BY <1>5, LoopFacts, AdvanceType DEF RecvNoHeader, TypeOK, mem
  <1>6. CASE RecvOtherType
    BY <1>6, LoopFacts, AdvanceType DEF RecvOtherType, TypeOK, mem
  <1>7. CASE RecvOutAssert
    BY <1>7 DEF RecvOutAssert, TypeOK, dev, mem, ghost
  <1>8. CASE RecvAsync
    BY <1>8, LoopFacts, AdvanceType DEF RecvAsync, TypeOK, mem
  <1>9. CASE RecvSync
    <2>1. nq \in Queues
      BY <1>9, LoopFacts DEF RecvSync
    <2>2. /\ usedIdx' \in [Addr -> 0 .. IdxMod - 1]
          /\ intStatus' \subseteq {0, 1}
          /\ irq' \in BOOLEAN
      BY <1>9, <2>1, ConsumeDescType DEF RecvSync
    <2>3. queue' \in [Queues -> QueueState]
      BY <1>9, <2>1, NextAvailType DEF RecvSync
    <2>4. req' \in BlockRequest /\ heapOk' \in BOOLEAN
      BY <1>9, LoopFacts DEF RecvSync, ReqEndHeap
    <2>. QED
      BY <1>9, <2>2, <2>3, <2>4 DEF RecvSync, Resumed, TypeOK
  <1>. QED
    BY <1>1, <1>2, <1>3, <1>4, <1>5, <1>6, <1>7, <1>8, <1>9 DEF NotifyStep

\* The asynchronous completion virtio_block_req_cb keeps TypeOK.
LEMMA BlockReqCbTypeOK == TypeOK /\ BlockReqCb => TypeOK'
  <1>. SUFFICES ASSUME TypeOK, BlockReqCb PROVE TypeOK'
    OBVIOUS
  <1>1. req.queue \in Queues
    BY DEF TypeOK, BlockRequest
  <1>2. /\ usedIdx' \in [Addr -> 0 .. IdxMod - 1]
        /\ intStatus' \subseteq {0, 1}
        /\ irq' \in BOOLEAN
    BY <1>1, ConsumeDescType DEF BlockReqCb
  <1>3. queue[req.queue].avail \in Addr
    BY <1>1 DEF TypeOK, QueueState
  <1>4. availSnap' \in 0 .. IdxMod - 1 /\ nq' \in Queues \cup {NoQueue}
    BY <1>1, <1>3 DEF BlockReqCb, StartNotify, TypeOK
  <1>5. inflight' \in [Queues -> Int] /\ heapOk' \in BOOLEAN
    BY <1>1 DEF BlockReqCb, ReqEndHeap, TypeOK
  <1>6. /\ UNCHANGED <<status, queueSel, queue, req, availIdx, availRing, running,
                      kickPending>>
        /\ reqInProgress' = FALSE
    BY DEF BlockReqCb
  <1>. QED
    BY <1>2, <1>4, <1>5, <1>6 DEF TypeOK

\* Type correctness: every reachable state satisfies TypeOK, whatever the
\* sizes of the queues, rings, descriptor tables and value sets.
THEOREM TypeCorrect == Spec => []TypeOK
  <1>1. Init => TypeOK
    BY InitTypeOK
  <1>2. TypeOK /\ [Next]_vars => TypeOK'
    <2>. SUFFICES ASSUME TypeOK, [Next]_vars PROVE TypeOK'
      OBVIOUS
    <2>1. CASE Guest
      BY <2>1, GuestTypeOK
    <2>2. CASE NotifyStep
      BY <2>2, NotifyStepTypeOK
    <2>3. CASE BlockReqCb
      BY <2>3, BlockReqCbTypeOK
    <2>4. CASE UNCHANGED vars
      BY <2>4 DEF vars, dev, mem, ghost, TypeOK
    <2>. QED
      BY <2>1, <2>2, <2>3, <2>4 DEF Next
  <1>. QED
    BY <1>1, <1>2, PTL DEF Spec

(***************************************************************************)
(* Every head taken is answered exactly once.                              *)
(***************************************************************************)

\* The inductive invariant behind HeadsAnswered: the types, the heads the
\* rings can hold, and the count of taken and unanswered heads.
RingHeads == \A a \in Addr, s \in Slots : availRing[a][s] \in Heads \cup {0}

IInv == TypeOK /\ RingHeads /\ HeadsAnswered

\* In the initial state the rings hold 0 and no head is taken.
LEMMA IInvInit == Init => IInv
  <1>. SUFFICES ASSUME Init PROVE IInv
    OBVIOUS
  <1>1. TypeOK
    BY InitTypeOK
  <1>2. RingHeads
    BY DEF Init, RingHeads
  <1>3. HeadsAnswered
    BY DEF Init, HeadsAnswered
  <1>. QED
    BY <1>1, <1>2, <1>3 DEF IInv

\* Under WellFormedChains, the head a loop iteration reads is never passed
\* over as a bad chain, its header is read, and its type is IN or OUT.
LEMMA LoopWellFormed ==
  ASSUME TypeOK, RingHeads, WellFormedChains, nq # NoQueue
  PROVE  /\ LoopRw.kind # "bad"
         /\ LoopRw.kind = "ok" =>
              /\ CopyFromQueueOk(LoopRw, HdrSize)
              /\ LoopType \in {VIRTIO_BLK_T_IN, VIRTIO_BLK_T_OUT}
  <1>1. nq \in Queues /\ queue[nq] \in QueueState
    BY DEF TypeOK
  <1>2. queue[nq].desc \in Addr /\ queue[nq].avail \in Addr
    BY <1>1 DEF QueueState
  <1>3. queue[nq].lastAvail % queue[nq].num \in Slots
    BY <1>1, SlotOfIndex DEF QueueState
  <1>4. LoopHead \in Heads \cup {0}
    BY <1>2, <1>3 DEF RingHeads, LoopHead
  <1>. QED
    BY <1>2, <1>4 DEF WellFormedChains, LoopRw, LoopType, LoopTable

\* Only DriverSubmit writes a ring slot, and it writes a head of Heads.
LEMMA RingHeadsStep == IInv /\ [Next]_vars => RingHeads'
  <1>. SUFFICES ASSUME IInv, [Next]_vars PROVE RingHeads'
    OBVIOUS
  <1>1. CASE \E q \in Queues, h \in Heads : DriverSubmit(q, h)
    <2>1. PICK q \in Queues, h \in Heads : DriverSubmit(q, h)
      BY <1>1
    <2>2. queue[q].avail \in Addr /\ queue[q].num \in NumSet
      BY DEF IInv, TypeOK, QueueState
    <2>3. availIdx[queue[q].avail] % queue[q].num \in Slots
      BY <2>2, SlotOfIndex DEF IInv, TypeOK
    <2>. QED
      BY <2>1, <2>2, <2>3 DEF DriverSubmit, IInv, TypeOK, RingHeads
  <1>2. CASE ~(\E q \in Queues, h \in Heads : DriverSubmit(q, h))
    <2>1. availRing' = availRing
      BY <1>2 DEF Next, Guest, NotifyStep, vars, mem, WriteQueueSel, WriteQueueNotify,
         WriteQueueNum, WriteQueueAddr, WriteQueueReady, WriteStatus,
         WriteInterruptAck, NotifyDone, NotifyHang, NotifySkipBadChain, RecvBusy,
         RecvNoHeader, RecvOtherType, RecvOutAssert, RecvAsync, RecvSync, BlockReqCb
    <2>. QED
      BY <2>1 DEF IInv, RingHeads
  <1>. QED
    BY <1>1, <1>2

\* Every step keeps the count of taken and unanswered heads.
LEMMA HeadsAnsweredStep ==
  ASSUME WellFormedChains
  PROVE  IInv /\ [Next]_vars => HeadsAnswered'
  <1>. SUFFICES ASSUME IInv, [Next]_vars PROVE HeadsAnswered'
    OBVIOUS
  <1>. DEFINE Owed(q) == IF reqInProgress /\ req.queue = q THEN 1 ELSE 0
  <1>0. /\ TypeOK /\ RingHeads
        /\ \A q \in Queues : inflight[q] = Owed(q)
    BY DEF IInv, HeadsAnswered
  \* The steps that leave the count and the request alone.
  <1>1. CASE UNCHANGED <<inflight, reqInProgress, req>>
    BY <1>0, <1>1 DEF HeadsAnswered
  <1>2. CASE Guest
    <2>1. UNCHANGED <<inflight, reqInProgress, req>>
      BY <1>2 DEF Guest, WriteQueueSel, WriteQueueNotify, WriteQueueNum,
         WriteQueueAddr, WriteQueueReady, WriteStatus, WriteInterruptAck,
         DriverSubmit, dev, ghost
    <2>. QED
      BY <2>1, <1>1
  <1>3. CASE NotifyDone \/ NotifyHang \/ RecvBusy \/ RecvOutAssert
    BY <1>3, <1>1 DEF NotifyDone, NotifyHang, RecvBusy, RecvOutAssert, dev, ghost
  \* The steps that pass a head over: WellFormedChains rules them out.
  <1>4. CASE NotifySkipBadChain \/ RecvNoHeader \/ RecvOtherType
    <2>1. nq # NoQueue
      BY <1>4 DEF NotifySkipBadChain, RecvNoHeader, RecvOtherType, RecvHeader,
         RecvReady, InLoop
    <2>. QED
      BY <1>0, <1>4, <2>1, LoopWellFormed
      DEF NotifySkipBadChain, RecvNoHeader, RecvOtherType, RecvHeader, RecvReady
  \* The request is handed to the backend, which will call back.
  <1>5. CASE RecvAsync
    <2>1. nq # NoQueue /\ ~reqInProgress
      BY <1>5 DEF RecvAsync, RecvStart, RecvHeader, RecvReady, InLoop
    <2>2. nq \in Queues /\ NewReq \in BlockRequest
      BY <1>0, <2>1, LoopFacts
    <2>3. NewReq.queue = nq
      BY <2>2 DEF NewReq, ReqFromHeader, BlockRequest
    <2>4. /\ inflight' = [inflight EXCEPT ![nq] = @ + 1]
          /\ reqInProgress' /\ req' = NewReq
      BY <1>5 DEF RecvAsync, Advance
    <2>. QED
      BY <1>0, <2>1, <2>2, <2>3, <2>4 DEF HeadsAnswered, TypeOK
  \* The backend completed at once: the head is answered in the same step.
  <1>6. CASE RecvSync
    BY <1>0, <1>6 DEF RecvSync, RecvStart, RecvHeader, RecvReady, HeadsAnswered
  \* The backend's callback answers the request in progress.
  <1>7. CASE BlockReqCb
    <2>1. reqInProgress /\ req.queue \in Queues
      BY <1>0, <1>7 DEF BlockReqCb, TypeOK, BlockRequest
    <2>2. /\ inflight' = [inflight EXCEPT ![req.queue] = @ - 1]
          /\ ~reqInProgress'
      BY <1>7 DEF BlockReqCb
    <2>. QED
      BY <1>0, <2>1, <2>2 DEF HeadsAnswered, TypeOK
  <1>8. CASE UNCHANGED vars
    BY <1>8, <1>1 DEF vars, dev, ghost
  <1>. QED
    BY <1>2, <1>3, <1>4, <1>5, <1>6, <1>7, <1>8 DEF Next, NotifyStep

\* IInv is inductive under WellFormedChains.
LEMMA IInvStep ==
  ASSUME WellFormedChains
  PROVE  IInv /\ [Next]_vars => IInv'
  <1>. SUFFICES ASSUME IInv, [Next]_vars PROVE IInv'
    OBVIOUS
  <1>1. TypeOK'
    <2>1. TypeOK
      BY DEF IInv
    <2>. QED
      BY <2>1, GuestTypeOK, NotifyStepTypeOK, BlockReqCbTypeOK
      DEF Next, vars, dev, mem, ghost, TypeOK
  <1>. QED
    BY <1>1, RingHeadsStep, HeadsAnsweredStep DEF IInv

\* If the guest publishes only well-formed IN and OUT requests, every head
\* queue_notify takes off an available ring is put on the used ring by
\* virtio_consume_desc exactly once: the heads taken and unanswered are just
\* the block request in progress.  This holds for every number of queues,
\* ring size, index width and descriptor table.
THEOREM HeadsAnsweredCorrect ==
  ASSUME WellFormedChains
  PROVE  Spec => []HeadsAnswered
  <1>1. Init => IInv
    BY IInvInit
  <1>2. IInv /\ [Next]_vars => IInv'
    BY IInvStep
  <1>3. IInv => HeadsAnswered
    BY DEF IInv
  <1>. QED
    BY <1>1, <1>2, <1>3, PTL DEF Spec

=============================================================================
