---------------------------- MODULE MCVirtioBlk ----------------------------
(***************************************************************************)
(* Instances of VirtioBlk for TLC.  The 16-bit ring indices become 2-bit   *)
(* ones (IdxMod = 4) and MAX_QUEUE_NUM becomes 2, so that the indices      *)
(* wrap and the slots are reused within a few requests; addresses have a   *)
(* low half 0 or 1, so that two queues' rings can share guest memory.      *)
(***************************************************************************)
EXTENDS VirtioBlk

N == VRING_DESC_F_NEXT
W == VRING_DESC_F_WRITE

\* Descriptor tables.  A chain is written as its descriptors.
D(len, flags, next, type) == [len |-> len, flags |-> flags, next |-> next, type |-> type]

\* A well-formed table: an IN request at 0 (16-byte header, 512 bytes of
\* data and the status byte) and an OUT request at 2 (header and data in
\* one 528-byte descriptor, then the status byte).
GoodTable ==
  [i \in 0 .. 3 |->
     CASE i = 0 -> D(16, {N}, 1, VIRTIO_BLK_T_IN)
       [] i = 1 -> D(513, {W}, 0, 0)
       [] i = 2 -> D(528, {N}, 3, VIRTIO_BLK_T_OUT)
       [] i = 3 -> D(1, {W}, 0, 0)]

MCDescIdx == 0 .. 3
MCHeads == {0, 2}
MCAddr == [hi : {0}, lo : {0}]
MCDescMemGood == [a \in MCAddr |-> GoodTable]

VIRTIO_BLK_T_FLUSH == 4

\* A table with one chain of each kind a guest can get wrong, each headed
\* by an even index or 7, 8, 9 (MixedHeads leaves out the well-formed IN
\* request, whose asynchronous completion the well-formed run covers):
\*   0 -> 1  a well-formed IN request;
\*   2 -> 3  a FLUSH request with its status byte;
\*   4 -> 5  a device-readable descriptor after a device-writable one;
\*   6       an 8-byte header and nothing else;
\*   7       an OUT request with no device-writable status byte;
\*   8       an IN request with no device-writable part (spec S6);
\*   9       a descriptor whose NEXT points at itself.
MixedTable ==
  [i \in 0 .. 9 |->
     CASE i = 0 -> D(16, {N}, 1, VIRTIO_BLK_T_IN)
       [] i = 1 -> D(513, {W}, 0, 0)
       [] i = 2 -> D(16, {N}, 3, VIRTIO_BLK_T_FLUSH)
       [] i = 3 -> D(1, {W}, 0, 0)
       [] i = 4 -> D(16, {W, N}, 5, 0)
       [] i = 5 -> D(1, {}, 0, 0)
       [] i = 6 -> D(8, {}, 0, VIRTIO_BLK_T_IN)
       [] i = 7 -> D(528, {}, 0, VIRTIO_BLK_T_OUT)
       [] i = 8 -> D(16, {}, 0, VIRTIO_BLK_T_IN)
       [] i = 9 -> D(16, {N}, 9, VIRTIO_BLK_T_IN)]

MixedDescIdx == 0 .. 9
MixedDescMem == [a \in MCAddr |-> MixedTable]
MixedHeads == {2, 4, 6, 7, 9}

\* Heads passed over without an answer (the malformed ones) make the ghost
\* inflight grow with every reset.  Runs on such tables that check no
\* property of the ghosts tell states apart by everything else.
ServedView == <<dev, mem, running, heapOk>>

\* One malformed request at a time, for the runs that expect a violation.
FlushHeads == {2}
CyclicHeads == {9}
InNoWriteHeads == {8}
OutNoWriteHeads == {7}
BadChainHeads == {4}
=============================================================================
