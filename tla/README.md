# Verification of the VirtIO block device of spike-virtio-devices

This directory holds TLA+ models of the device plug-ins in `src/`. It also holds the TLC configurations that check the models on small instances, and TLAPS proofs of their main invariants for every instance.

## The system

`src/unnamed/part_000` (virtio.cc and the block plug-in) has these parts:

- **MMIO transport.** `virtio_mmio_write` is the register file the guest driver stores to. It covers queue select, ring size, the three ring addresses in 32-bit halves, ready, status (a write of 0 runs `virtio_reset`), queue notify and interrupt acknowledge. `virtioblk_t::store` turns the simulator's 4- and 8-byte stores into calls of it.
- **Split virtqueue engine.**
  - `queue_notify` reads `avail->idx` once, then loops while `last_avail_idx != avail_idx`. For each head it calls `get_desc_rw_size` and then the device's `recv_request`.
  - `get_desc_rw_size` walks the descriptor chain. It returns -1 when a device-readable descriptor follows a device-writable one.
  - `memcpy_to_from_queue` copies between a host buffer and a chain.
  - `virtio_consume_desc` writes a used-ring entry, bumps `used->idx`, sets bit 0 of `int_status` and raises the line.
- **Block front end.**
  - `virtio_block_recv_request` returns -1 when a request is in progress. Otherwise it reads the 16-byte header, records the request, and hands IN and OUT requests to the backend.
  - `virtio_block_req_end` stores the status byte and publishes the head.
  - `virtio_block_req_cb` is the backend's completion. It ends the request, clears `req_in_progress` and re-runs `queue_notify`.
- **Block backend.** `bf_read_async`/`bf_write_async` are on a file, in RO, RW or snapshot mode. In this repository they always complete synchronously (return 0 or -1). The front end is also written for the asynchronous backends of the spec's BlockBackend contract: a return > 0 is followed later by a callback.

The other sources are:
- `src/sifive_uart.cc`: a UART register file. Its helpers are in a header that is not in the repository.
- `src/unnamed/part_001`: the virtio-net plug-in glue and SLIRP.
- The FDT/DTS code and the Makefile.

The simulator runs every device callback to completion on one thread (spec, concurrency model). An MMIO store that triggers `queue_notify` finishes before the next guest instruction. An asynchronous completion runs on the same thread, between device callbacks.

## Modules

| Module | Models |
|---|---|
| `VirtqDesc` | `get_desc_rw_size` as the operator `GetDescRwSize(table, head)`, with outcomes "ok" with the read and write sizes, "bad" (-1), or "hang" (a chain that never ends). Also the success condition of `memcpy_from_queue` / `memcpy_to_queue`. The walk is a recursive *function* bounded by 2·N positions: a walk that has not stopped by then is in a cycle. |
| `VirtioBlk` | The transport, the queue engine and the block front end as one state machine. |
| `MCVirtioBlk` | Descriptor tables for TLC: a well-formed table (IN at 0, OUT at 2), and a mixed table with one chain of each malformed kind the code tells apart (FLUSH, read-after-write, short header, OUT with no writable byte, IN with no writable byte, a self-loop). |
| `MCVirtioBlkGood` | The well-formed instance. Its `ASSUME` has TLC evaluate the hypothesis `WellFormedChains` of the HeadsAnswered theorem on these constants. |
| `VirtioBlkProofs` | The TLAPS proofs. |

### State of `VirtioBlk`

- **Device:** `status`, `intStatus` (the set bits of `int_status`), `queueSel`, and `queue` (per queue: `ready`, `num`, `lastAvail`, and the `desc`/`avail`/`used` addresses as `[hi, lo]` records of the two MMIO halves). Also `irq` (the line level), and `reqInProgress`/`req` (the front end's request record: type, queue, head, write_size).
- **The running notify loop:** `nq` (the queue whose loop runs, or `NoQueue`) and `availSnap` (the `avail_idx` it read on entry).
- **Guest memory:** `availIdx`, `availRing` and `usedIdx`, each per guest address. The descriptor tables are the constant `DescMem`: address ↦ index ↦ `[len, flags, next, type]`, where `type` is the first word of a request header.
- **Host:** `running` ("run", or "hang"/"abort" when the simulator stopped) and `heapOk` (FALSE once the device wrote outside a heap buffer).
- **Ghosts:** `inflight[q]` counts heads taken off q's available ring and not yet put on its used ring. `kickPending[q]` records that a notify of q broke off on a busy device.

### Actions and the code they model

- **Guest:** one action per register store, each with the code's guard (`WriteQueueSel`, `WriteQueueNum`, `WriteQueueAddr`, `WriteQueueReady`, `WriteStatus`, `WriteInterruptAck`, `WriteQueueNotify`).
  - `WriteStatus(0)` is the reset. It leaves `reqInProgress` and `req` alone, as `virtio_reset` does.
  - `DriverSubmit(q, h)` is the guest driver publishing a head. It is not code of this repository and is modelled from the spec (`spec_modelled`). Like a virtio driver, it keeps at most `num` heads outstanding.
- **One iteration of the `queue_notify` loop** is one step, with the `recv_request` call it makes: `NotifyDone`, `NotifyHang`, `NotifySkipBadChain`, `RecvBusy`, `RecvNoHeader`, `RecvOtherType`, `RecvOutAssert`, `RecvAsync` and `RecvSync`.
  - While a loop runs (`nq # NoQueue`), only its next iteration is enabled. This is the run-to-completion scheduling of the simulator.
  - `RecvSync` includes the whole of `virtio_block_req_end` (`ReqEndHeap` plus `ConsumeDesc`), as the code calls it before returning.
- **`BlockReqCb`** is `virtio_block_req_cb`: req_end, `req_in_progress = FALSE`, and a new notify loop on `req.queue_idx`.

### Abstractions and bounds

- Ring indices are 16-bit in the code. In the model they are taken modulo `IdxMod` (4 in the runs), so they wrap within a few requests. `MAX_QUEUE_NUM` is 2 and `NumVals = {1, 3}` (an accepted and a rejected ring size), so the slots `idx & (num - 1)` are reused within the runs.
- An address (`[hi, lo]`, one value per half in the runs) is a label of a ring, not a location. The available ring (`availIdx`, `availRing`) and the used ring (`usedIdx`) are separate memories, each indexed by the address, so they never overlap. With one address, every queue's rings are the ones at address 0, the reset value. This is where a request on an unconfigured queue lands.
- The block device has one queue (spec, block device), so the passing runs take `MaxQueue = 1`. The code's `MAX_QUEUE` is 8, and QUEUE_NOTIFY serves any queue below it. `blk_pushback_other_queue` takes two queues to show what a second queue does to `PushbackResumed`.
- The data bytes, sector numbers and the value of the status byte are abstracted away: no property tells them apart. The status byte's position (`buf[write_size - 1]`) is kept, because `HostMemorySafe` is about it.
- In the malformed run, skipped heads make the ghost `inflight` grow with every reset. That run checks no property of the ghosts, so it uses `VIEW ServedView` (device, guest memory and host state only) to keep the state space finite. Its guest values are cut to what the loop needs (one queue value, ring size 1 or 2, ready 1, reset), and its heads leave out the well-formed IN request. The register stores and the asynchronous completion are covered by the well-formed run.

### Fairness

- `WF_vars(NotifyStep)`: a running `queue_notify` loop finishes its iterations. It runs to completion on the simulator thread.
- `SF_vars(BlockReqCb)`: a backend that returned > 0 calls back later (the BlockBackend contract). The callback is marshalled onto the simulator thread and runs the next time that thread is between device callbacks. That happens again and again, however busy the guest keeps it, which is strong fairness. With weak fairness alone, a guest that kicks forever could starve the callback. That is not what the simulator does.

## Runs

Every run uses `tlc -workers 2 -config <cfg> <module>`.

| Run | cfg | Expect | Shows |
|---|---|---|---|
| blk_wellformed | BlkWellFormed.cfg (MCVirtioBlkGood) | pass, 44,880 states | Sync and async completions interleave with every register store and reset. Every taken head is answered exactly once (`HeadsAnswered`). The line follows `int_status` (`IrqReflectsIntStatus`). A notify pushed back by the busy device is always resumed (`PushbackResumed`, under the fairness above). This holds because there is one queue: see `blk_pushback_other_queue`. |
| blk_malformed | BlkMalformed.cfg | pass, 736 states | With every malformed chain kind in play (bad order, short header, FLUSH, OUT without a status byte, a self-loop), every `queue_notify` loop ends or the simulator stops (`NotifyLoopEnds`, under `WF` of the loop). Each iteration, the skips included, advances `last_avail_idx` across the wrap or breaks. Deadlock is not checked: a hung or aborted simulator really stops. |
| blk_flush_unanswered | BlkFlush.cfg | violation | FLUSH is taken and never answered (`HeadsAnswered`). |
| blk_bad_chain_unanswered | BlkBadChain.cfg | violation | A read-after-write chain is skipped with no used entry (`HeadsAnswered`). |
| blk_cyclic_hang | BlkCyclic.cfg | violation | A self-looping chain hangs `queue_notify` (`NoHang`). |
| blk_in_no_write_heap | BlkInNoWrite.cfg | violation | IN with no writable byte writes `buf[-1]` (`HostMemorySafe`). |
| blk_out_no_write_abort | BlkOutNoWrite.cfg | violation | OUT with no writable byte trips the assert (`HostMemorySafe`). |
| blk_publish_not_ready | BlkNotReady.cfg | violation | A notify on a queue that was never made ready is served and published (`PublishOnlyOnReadyQueue`). |
| blk_pushback_other_queue | BlkPushbackOtherQueue.cfg (MCVirtioBlkGood) | violation | With two queues, a kick of queue 0 turned away while a queue-1 request is in progress is never resumed: the completion re-runs `queue_notify` on queue 1 only (`PushbackResumed`). |

Each violation is a disagreement between the code and the spec, listed under "findings" in `PROJECT.json`. Each property of a passing run has a mutant (a plausible bug in the code it is about) that TLC finds violating it. Examples:
- a reset that leaves `num` at 0;
- an acknowledge that never lowers the line;
- a synchronous completion that skips `req_end`;
- a callback that does not re-notify;
- a bad chain passed over without `last_avail_idx++`.

## Proofs (`VirtioBlkProofs`, checked by `tlapm`)

- **`TypeCorrect`: `Spec => []TypeOK`**, for every value of the constants under `ConstantsAssumption`.
  - TypeOK is inductive by itself. The proof has one lemma per group of actions (`GuestTypeOK`, `NotifyStepTypeOK`, `BlockReqCbTypeOK`).
  - These rest on lemmas about the constants (`SlotOfIndex`: an index modulo a ring size is a slot) and about queue updates (`QueueUpdate`, `QueueFieldUpdate`).
  - They also rest on `LoopFacts`: the head a loop iteration reads is a descriptor index, and the request record it builds is a `BlockRequest`.
  - `req.writeSize` is typed by the finite set of sizes `get_desc_rw_size` can return on the tables (`WriteSizes`), so the proof never needs to compute the recursive walk.
- **`HeadsAnsweredCorrect`: `WellFormedChains => (Spec => []HeadsAnswered)`.**
  - HeadsAnswered is not inductive alone. A step that reads a ring slot holding a malformed head would break it, so the invariant is strengthened to `IInv == TypeOK /\ RingHeads /\ HeadsAnswered`.
  - `RingHeads` says that every ring slot holds a published head or the initial 0. Under `WellFormedChains`, every such head under every table address is accepted by `get_desc_rw_size`, has a readable header and is IN or OUT (`LoopWellFormed`). That rules out the three skip actions.
  - `RecvAsync` takes the head and sets `req_in_progress`. `RecvSync` answers it in the same step. `BlockReqCb` answers the request in progress.
  - TLC checked `IInv` as an invariant of the well-formed instance before the proof was written. `MCVirtioBlkGood` has TLC check that the hypothesis holds for the runs' table.

These stay with TLC only:
- **Liveness** (`PushbackResumed`, `NotifyLoopEnds`): TLAPS does not handle fairness or ENABLED.
- **What the recursive walk of `GetDescRwSize` computes:** induction over data needs the library's induction theorems with an operator parameter, which the installed provers cannot instantiate.
- **The properties of the violation runs:** they are false.

## Not modelled (yet)

- **Block backend file.** The snapshot sector table, the unchecked `sector_table[sector_num]` read, and the uint64 overflow of `sector_num + n` are planned as their own module.
- **The SiFive UART.** Planned. Its helpers must come from the spec, since `sifive_uart.h` is not in the repository.
- **virtio-net and SLIRP.** The device code itself is not in the repository.
- **`virtio_mmio_read`, the config space, DEVICE_FEATURES_SEL, FDT/DTS and argument parsing.** They change no state the properties are about, or run once before the guest starts.
- **The `int` overflow of `read_size`/`write_size` sums.** The model keeps descriptor lengths as naturals.
