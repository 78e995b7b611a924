----------------------------- MODULE VirtqDesc -----------------------------
(***************************************************************************)
(* The descriptor-chain algorithms of the split-virtqueue engine of        *)
(* src/unnamed/part_000 (virtio.cc): the walk of get_desc_rw_size and the  *)
(* condition under which memcpy_to_from_queue can copy a prefix of the     *)
(* read part or of the write part of a chain.                              *)
(*                                                                         *)
(* A descriptor table is a function from descriptor indices to records     *)
(* [len, flags, next, type]: len, flags and next are the fields of         *)
(* VIRTIODesc; type abstracts the guest memory the descriptor points at,   *)
(* namely the first word of a block request header (BlockRequestHeader)    *)
(* when the descriptor is the head of a request.                           *)
(*                                                                         *)
(* The code walks a chain with while loops over desc.next.  A guest can    *)
(* build a cyclic chain; the walk then never ends.  The operators below    *)
(* follow the walk for 2*N+1 positions (N descriptors): if it has not      *)
(* ended by then it never ends (the path has entered a cycle of length at  *)
(* most N, and a read descriptor after a write one, which ends the walk,   *)
(* would have been met within the first 2*N positions).                    *)
(***************************************************************************)
EXTENDS Naturals, FiniteSets

VRING_DESC_F_NEXT     == 1
VRING_DESC_F_WRITE    == 2
VRING_DESC_F_INDIRECT == 4

\* The flags a descriptor may carry: a set of the VRING_DESC_F_x bits.
DescFlags == SUBSET {VRING_DESC_F_NEXT, VRING_DESC_F_WRITE, VRING_DESC_F_INDIRECT}

\* Descriptor tables over the indices D with lengths in L and header types in T.
DescTables(D, L, T) == [D -> [len : L, flags : DescFlags, next : D, type : T]]

\* Position of a walk after k hops along next, for k in 0..2*N.
Walk(t, h) ==
  LET w[k \in 0 .. 2 * Cardinality(DOMAIN t)] ==
        IF k = 0 THEN h ELSE t[w[k - 1]].next
  IN  w

\* The last position the walk bound covers.
WalkBound(t) == 2 * Cardinality(DOMAIN t)

IsWrite(t, h, k) == VRING_DESC_F_WRITE \in t[Walk(t, h)[k]].flags
HasNext(t, h, k) == VRING_DESC_F_NEXT \in t[Walk(t, h)[k]].flags

\* get_desc_rw_size returns -1 at position k: a device-readable descriptor
\* follows a device-writable one (the second loop, "if (!(desc.flags &
\* VRING_DESC_F_WRITE)) return -1").
ReadAfterWrite(t, h, k) ==
  /\ ~IsWrite(t, h, k)
  /\ \E j \in 0 .. k - 1 : IsWrite(t, h, j)

\* The walk stops at position k: an error, or a descriptor without NEXT.
Stops(t, h, k) == ReadAfterWrite(t, h, k) \/ ~HasNext(t, h, k)

StopsWithin(t, h) == {k \in 0 .. WalkBound(t) : Stops(t, h, k)}

\* The first position where the walk stops (defined when StopsWithin # {}).
Last(t, h) == CHOOSE k \in StopsWithin(t, h) :
                \A j \in StopsWithin(t, h) : k <= j

\* Sum of the lengths of the read (w = FALSE) or write (w = TRUE)
\* descriptors at positions 0..k of the walk.
PartSize(t, h, w, k) ==
  LET s[i \in 0 .. k] ==
        (IF i = 0 THEN 0 ELSE s[i - 1])
        + (IF IsWrite(t, h, i) = w THEN t[Walk(t, h)[i]].len ELSE 0)
  IN  s[k]

(***************************************************************************)
(* get_desc_rw_size(s, &read_size, &write_size, queue_idx, desc_idx):      *)
(* "hang" when the walk never ends, "bad" when it returns -1, and "ok"     *)
(* with the read and write sizes otherwise.                                *)
(***************************************************************************)
GetDescRwSize(t, h) ==
  IF StopsWithin(t, h) = {}
    THEN [kind |-> "hang", read |-> 0, write |-> 0]
  ELSE IF ReadAfterWrite(t, h, Last(t, h))
    THEN [kind |-> "bad", read |-> 0, write |-> 0]
  ELSE [kind |-> "ok",
        read |-> PartSize(t, h, FALSE, Last(t, h)),
        write |-> PartSize(t, h, TRUE, Last(t, h))]

RwResults == [kind : {"ok", "bad", "hang"}, read : Nat, write : Nat]

(***************************************************************************)
(* memcpy_from_queue(s, buf, q, head, 0, count) on a chain whose           *)
(* get_desc_rw_size is "ok": it returns 0 exactly when the read part       *)
(* holds at least count bytes (the head must be device-readable, every     *)
(* descriptor it crosses must be, and NEXT must not run out first).        *)
(***************************************************************************)
CopyFromQueueOk(rw, count) == count = 0 \/ rw.read >= count

(* memcpy_to_queue(s, q, head, 0, buf, count) on such a chain: the write    *)
(* part must hold at least count bytes.                                     *)
CopyToQueueOk(rw, count) == count = 0 \/ rw.write >= count
=============================================================================
