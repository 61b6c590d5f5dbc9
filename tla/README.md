# Verification of net_helper

`net_helper` is a Rust library over netmap, with a traffic generator as its
program. This directory holds TLA+ models of its rings, plain and asynchronous,
of the port they belong to, of the fallback channel and of the generator, the
TLC runs that check them, and TLAPS proofs for every size of ring. `PROJECT.json` maps each definition to its source lines.

## 1. The system

| part | source | state | operations | talks to |
|---|---|---|---|---|
| TX ring | `src/ring.rs` 54-260 | `head`, `cur`, `tail` and the slots of a `netmap_ring` in memory shared with the kernel; open `BatchReservation`s | `send`, `reserve_batch`, `reserve_all`, `packet`, `commit`, `sync` (poll), `sync_ioctl` | kernel, device |
| RX ring | `src/ring.rs` 262-385, `src/frame.rs` | the same; the frames that show its buffers | `recv`, `recv_batch`, `sync` | kernel, device |
| port and builder | `src/netmap.rs` | requested rings and flags; then descriptor, ring counts, `is_host_if` | `new`, `num_tx_rings`, `num_rx_rings`, `flags`, `build`; `tx_ring`, `rx_ring`, drop | `nm_open` through `wrapper.c` |
| traffic generator | `src/main.rs` | batch counter, packet index, packets written, the header in a 512-bit register | one loop: reserve all, fill, commit, hand over; sync twice when the ring is full | TX ring 0 of a port |
| asynchronous rings | `src/tokio_async.rs` | an `AsyncFd<Netmap>` shared by ring wrappers; its readiness and one waker for each direction | `new`, `tx_ring`, `rx_ring`; `poll_read`, `poll_write`, `poll_flush`, `poll_shutdown` | tokio's reactor, kernel |
| fallback channel | `src/fallback.rs` | a `VecDeque` in an `Arc<Mutex>` with a maximum size | `send`, `recv`, `create_fallback_channel` | other threads |
| errors, frame, root, build | `src/error.rs`, `src/frame.rs`, `src/lib.rs`, `build.rs` | none | conversions, re-exports, bindgen | |

What is hard here:

* **Shared memory with a kernel and a device.** The program may touch only the
  slots between `head` and `tail`; the device reads or fills the others at any
  time. Ownership moves at syncs, and a sync may fail with no more than a log line.
* **Reservations and frames that outlive the call.** `reserve_batch` and
  `reserve_all` return a `BatchReservation<'a>` tied to the ring and not to the
  `&mut self` of the call, so two of them, or one and a `send`, may be open at
  once. `recv_batch` writes frames whose lifetime is tied to nothing.
* **Full and empty.** Ring arithmetic is written in three notations;
  `reserve_batch` has a convention of its own for a full ring.
* **Two threads, one descriptor.** A ring can be moved to a worker thread while
  the `Netmap` stays behind; each sync there is a sync of the worker's ring too,
  between any two of its loads and stores.
* **Wakeups.** An asynchronous write tests the ring, then registers a waker; the
  reactor, the device and the flushes of other rings act in between.
* **Liveness.** The generator retries for as long as the ring is full; a pending
  write waits for someone to wake it.

What makes each part correct:

* TX ring: FIFO, nothing lost, repeated or changed before it is transmitted;
  the indices keep their order; no call writes what the device has; `commit`
  hands over what was written and nothing else; a packet fits its buffer.
* RX ring: FIFO over `recv` and `recv_batch` together; a frame goes on showing
  its packet while it is kept.
* Generator: it keeps to what the TX ring asks of a caller; successive headers
  without gap or repetition; it recovers from failed syncs; it ends.
* Port: the rings counted are the rings registered; a handle reaches a ring, and
  no other handle's by accident; of a host's port it is the host's ring; the port is open for as long as a ring of it is in use, and not longer.
* Asynchronous rings: a task that got `Pending` is woken when there is
  something to do; ring ownership as for the plain rings.
* Fallback channel: bounded FIFO across threads.

The hazards, each at its line and with the properties that cover it, are in
`PROJECT.json` under `hazards`.

## 2. Modules

```
RingIndex -- TxRing --+-- TrafficGenerator --+-- MCTrafficGenerator
   |            |     |     PacketTemplate --+
   |            |     +-- TxThreads --------- MCTxThreads
   |            |     +-- AsyncTxRing ------- MCAsyncTxRing         NetmapPort -- MCNetmapPort
   |         Queue!   |        |
   |            |   MCTxRing  AsyncFd
   |         TxQueue           |
   |            |           AsyncRxRing
   |         Queue!            |
   |            |              |
   |     FallbackChannel       |
   +--------- RxRing ----------+
                 | Queue!
              RxQueue

RingIndexTheorems --+-- TxRingProofs --+-- TrafficGeneratorProofs   NetmapPortProofs
                    |                  |     (and PacketTemplate)   FallbackChannelProofs
                    |                  +-- AsyncTxRingProofs
                    +-- RxRingProofs   +-- TxThreadsProofs
```

* **RingIndex**: the circular arithmetic of `ring.rs`: successor, remainder,
  distance, and `reserve_batch`'s count of free slots.
* **TxRing**: one action per call. `head`, `cur`, `tail`, `slot` are the fields
  of `netmap_ring` (a slot's length together with what its buffer holds);
  `batches` are the open reservations; `hwcur` and `done` are the kernel's and
  the device's positions. `Packet` stands for `packet` with the caller's writes
  to the slice: the slice borrows the reservation, so nothing can come between
  them through that reservation. Dropping a reservation is `Commit(r, 0)`.
  `Sync` stands for `sync` and `sync_ioctl`, either of which may have no effect.
  The constant `Discipline` says what the caller does not do although the types
  allow it; each violation run drops one member of it.
* **TxQueue**: the abstract bounded queue with a staging area. A disciplined
  TxRing implements it (slots `done .. head` are the queue, the slots of the
  open reservation the staging area), and so does the fallback channel.
* **TxThreads**: the same calls taken apart into their accesses to shared
  memory, with a worker thread that has the ring and a pump that has the
  `Netmap`. `pc` is the next access, `call` the locals of the call; `posted` are
  the streaming stores of `main.rs:169-186` that have not arrived.
  The refinement `Atomic` shows that TxRing's single steps are what the pump
  and the device see.
* **RxRing**, **RxQueue**: likewise for receiving. A kept frame is the index of
  the slot it shows: `recv`'s frame (`single`) borrows the ring, so the next
  receive call ends it; `recv_batch`'s frames (`batch`) stay until the caller
  drops them. `Sync` is also the sync of another RX ring of the descriptor.
* **TrafficGenerator**: the loop of `main` over TxRing; `pc` is its place in the
  loop, `i`, `z`, `written` and `current` are `i`, `z`, `packets_written` and
  `current_packet_zmm`. A header is its place in the cycle of headers.
* **PacketTemplate**: the lanes of the header and the arithmetic that makes the
  next header, with the code's constants, as operators; and `NthPacket`, the
  same packet by hand. MCTrafficGenerator has TLC compare the two for all 2^16
  headers, TrafficGeneratorProofs proves them equal, and so justifies that
  TrafficGenerator counts headers.
* **AsyncFd**: one direction of tokio's `AsyncFd`, from how the code uses it:
  readiness, the guard that clears it, the waker, and the edge that makes the
  reactor look. It is not code of this repository.
* **AsyncTxRing**: `poll_write` and `poll_flush` of one task over TxRing's
  variables. The steps are the points between which others act: the test for a
  full ring, `poll_write_ready_mut`, `clear_ready`, and the return of `Pending`.
  Beside the task run the reactor, whose epoll polls the descriptor and so syncs
  it (`ring.rs:114` and `117` say that poll starts a sync), the device, and the
  flush of another ring of the same descriptor.
* **AsyncRxRing**: `poll_read` in the same way over RxRing's variables, with its
  two locals; `seen` is the `tail` it read before it waited.
* **FallbackChannel**: `send` and `recv` by several threads: lock, test, push or
  pop, unlock. A packet is moved into and out of the queue whole.
* **NetmapPort**: builder and port, and the `TokioNetmap` that takes a port over.
  A name is what the code tests it for, and the flags are sets of bits, those of
  the registration modes included. Handles have identities, so two for one ring
  are two: `borrowed` are those got from a `Netmap`, each with the ring its lookup
  found, `shared` those got from a `TokioNetmap`, each with an `Arc`. `owner` is
  who has the `Netmap`; the rings of a `TokioNetmap` may be left as its owners.
  `ring_ofs` has one entry for every ring that the interface counts. In which
  order they come is fixed by a header that is not in the repository; the module
  takes any order, and the runs two. `TokioNetmap` looks its rings up with
  functions of `ffi` (`tokio_async.rs:116`, `139`), not with those of `netmap.rs`:
  which ring they find is not modelled.

Definitions commented "Mutant" are plausible errors in the operation after
them. They are not part of the model; `PROJECT.json` pairs each with a property
that notices it.

## 3. Runs

| run | outcome | bounds | what it shows |
|---|---|---|---|
| `tx_disciplined` | holds | 4 slots, 3 packets (short, as long as the buffer, one byte more), 1 reservation | type, ownership, payload and in-flight invariants, effect of `commit`, refinement of TxQueue |
| `tx_full_batch` | violated | same, caller does not check for space | `reserve_batch` grants a batch on a full ring (`ring.rs:158`) |
| `tx_two_batches` | violated | 3 slots, 2 reservations | `commit` after another commit moves `head` by the wrong amount (`ring.rs:254`) |
| `tx_threads` | holds | 4 slots, 3 packets (two that fit, one byte more), 1 reservation | a call in a worker is atomic to syncs in another thread; `cur` never behind `head` at a sync; no packet given away before its streaming stores have arrived |
| `rx_frames_dropped` | holds | 4 slots, 2 packets, up to 8 frames kept | ownership, frames on released slots, frames stable, refinement of RxQueue |
| `rx_frames_kept` | violated | 3 slots, frames kept over a sync | a frame changes under its holder (`ring.rs:374`) |
| `generator` | holds | 5 slots, 7 headers, 6 batches | successive headers, at most one batch waits, discipline kept, termination |
| `port_open` | holds | 5 interfaces (3 sets of counts, in 2 orders of the table), 14 names, 2 handles, indices 0-2, requests modulo 2, flags with and without a mode | counts match registration, no handle leads out of the table or to another handle's ring, the port is open exactly while it is in use |
| `host_rings` | violated | same | a host's `tx_ring(0)` is not the host's (`netmap.rs:387`) |
| `async_tx` | holds | 4 slots, 3 packets (empty, as long as the buffer, one byte more) | no wakeup lost, the ring used as TxRing allows, every write returns |
| `async_rx` | violated | 3 slots, 1 packet | `poll_read` returns `Pending` without a waker (`tokio_async.rs:222`) |
| `fallback` | holds | 3 threads, 2 packets, `max_size` 2 | one bounded FIFO queue to all threads |

**Bounds.** Four slots give a batch that wraps, a batch in the middle of the
ring, a full ring, an empty one, and up to three packets in flight with the
fourth slot empty; more slots add no new relation between the five indices, and
the proofs cover every size. `LenModulus` is `BufSize + 1`, the least that
separates a packet that fits from one whose length wraps; the code has 2^16. The
generator has more headers than slots, so a repeated header cannot be taken for
a new one, and six batches, so it goes round the ring more than once and wraps
the headers. `MaxFrames` is more than two rings of frames. In `port_open` the
interfaces have more rings in one direction than the other and host rings none,
fewer or more than the NIC's; the request equal to `RingModulus` is the one
that the cast to u16 turns into 0; two handles are what the drops in either order
and the comparison of two lookups need. In `tx_threads` the two packets that fit
tell a slot's old content from its new one; they, and the handles of `port_open`,
are interchangeable, and the runs use that symmetry. `AsyncTxRing` assumes more than two slots: with two,
`poll_write` never has space. In `fallback` three threads let one sender wait
for the mutex while another is between its test and its push on a queue with
one place left, and a third empties it.

**Deadlock** is checked except in `generator`: that program ends.

**Fairness.** Two runs assume some, those that check liveness.

* `FairGenSpec` (`Terminates`): weak fairness of the thread (the OS schedules
  it) and of the device (it transmits what it was given), and strong fairness of
  a poll that reaches the kernel: poll may fail or time out any number of times,
  but not for ever. Nothing is assumed of `sync_ioctl`. Without the poll the
  loop could spin.
* `FairAsyncSpec` (`WriteReturns`): weak fairness of the task's steps up to its
  return and after it was woken (the executor polls a task that is woken), of
  the reactor and of the device. Polls without a wake, flushes of other rings,
  cancellation and failing ioctls may happen or not. That the caller flushes
  each write until the flush succeeds is part of the model, as the comment at
  `tokio_async.rs:277-278` asks of it: without a flush the device has nothing to
  report and the write waits for ever.

## 4. Proofs

The proofs hold for every number of slots, every set of packets or threads and
every value of the other constants that satisfies the `ASSUME`s of the modules.

* **RingIndexTheorems**: the index arithmetic. `NextIsWrap`: comparison and
  remainder compute the same successor. `BatchSpaceOffByOne`: what
  `reserve_batch` counts, against what `reserve_all` counts. `Run(s, i, n)` is
  what `n` slots from slot `i` on hold, as a sequence; the lemmas about it
  (`RunAppend`, `RunTail`, `RunPrefix`, `RunSuffix`, `RunConcat`,
  `RunBeforeStore`) say what becomes of it when an index moves or a slot is
  stored to, across the wrap of the ring.
* **TxRingProofs**: `TypeCorrect`; then `Ownership` is inductive with the types
  under the full discipline: the three distances done-hwcur, hwcur-head and
  head-tail stay below `NumSlots` together, so a sync's test always passes and a
  reservation made at `head` still begins there. `InFlightNeverWritten` and
  `CommitMovesHead` are read off it, `PayloadsFit` needs in addition that every
  slot of a reservation and of the queue holds a packet that fits, and assumes
  `BufSize < LenModulus` (section 5).
  `RingImplementsQueue` is the refinement of TxQueue: the queue is the run from
  `done` to `head`, the batch in preparation the run of the reservation, and
  each call moves the one or the other as its action of TxQueue does. `send` and
  `packet` store to a slot of neither, or of the batch alone; `commit` joins a
  prefix of the batch to the queue because the batch begins at `head`.
* **TxThreadsProofs**: the worker's calls taken apart into accesses. The
  properties are not inductive; `ThreadsInv` adds what the locals of the call in
  progress know at each access. `Locals`: `cur` is at `head` except between the
  last two stores. `Sending` and `Streaming`: the slot a call writes is at
  `head`, or in the open reservation, and what the call has stored so far is in
  it. `Committing`: after the fence nothing is on its way. `PostedOwned`: a store
  on its way goes to a slot of the program's window, those of a reservation that
  was dropped included. With it `GivenPacketsHaveArrived`, `CurStaysAhead` and
  `WorkerIsAtomic`: under the mapping that hides the slot of a call in progress
  (`AsIfWritten`) each access is a call of TxRing or nothing.
* **RxRingProofs**: the same for the RX ring. `FramesStayReleased`,
  `HeldFramesDoNotChange` and `RingImplementsQueue`, the refinement of RxQueue,
  assume `DropsFrames`; `OwnershipInvariant` does not. In the refinement the
  queue is the run from `head` to `hwtail`, and `recv`, an empty `recv` and
  `recv_batch` are one lemma (`DeliverStep`): a prefix of the queue goes behind
  the views that are kept. That a packet that arrives changes no view needs
  `FramesReleased`.
* **TrafficGeneratorProofs**: `GeneratorTypeCorrect`; `LoopInv` says what the
  loop holds while it fills a batch (the one reservation is everything between
  `head` and `tail`, and the kernel has taken what came before) and between
  batches. With it each step of the loop is a step of TxRing under the whole
  discipline (`GeneratorKeepsDiscipline`), so the theorems of TxRingProofs hold
  of the program (`GeneratorImplementsQueue` is one of them spelt out), and
  `OneBatchWaitsInvariant` follows. `HeadersFollowOneAnother` is inductive with
  `LoopInv` and the order of the indices: a step back in the ring is a step back
  in the header table, also where either of them wraps (`HeadersBack`). `HeadersArePackets` goes from
  numbers to packets: with 2^16 headers the lane arithmetic takes the packet of
  each number to that of the next, no two numbers are one packet, and outside of
  the upper half of lane 6 every packet is the template.
* **AsyncTxRingProofs**: `NoWakeupIsLost` needs two facts beside the ring's
  order. `NewsHasEdge`: what the device did since the last sync has left an edge
  for the reactor, so whoever moves `tail`, if the edge is spent then `tail` is
  up to date. `PollSeesNews`: between the test of the ring and the registration
  of the waker the news is in the readiness or still in the edge.
  `WriterKeepsRingRules` needs `LeavesOneFree`: this writer alone fills the ring
  and never to the last slot, so `head = tail` never occurs and its own test for
  a full ring, which would take it for an empty one, does no harm. With it the
  theorems of TxRingProofs hold of the asynchronous ring.
* **FallbackChannelProofs**: only the holder of the mutex is inside a call, so a
  sender that has found room still has it when it pushes (`RoomToPush`);
  `ChannelIsQueue` is the refinement of TxQueue, for any number of threads.
* **NetmapPortProofs**: `TypeCorrect`; each handle was looked up with an index
  below a count that `build` took from the same `netmap_if`; from that
  `HandlesStayInTable`, and, because no ring has two entries,
  `HandlesReachOwnRings`. Nothing is assumed of the order of the table.
  `CountsMatchRegistration` is about all flags without a registration mode.
  `PortOpenWhileUsed` needs that only a `TokioNetmap` leaves rings behind.

Every safety property that a passing run checks is stated by a theorem. Only
model-checked are `Terminates` and `WriteReturns`: liveness under fairness is
beyond the prover. That a ring in two threads, or the asynchronous ring,
implements TxQueue is not stated as a theorem of its own: it is `WorkerIsAtomic`,
or `WriterKeepsRingRules`, together with `RingImplementsQueue` read with the
refinement mapping, a composition through INSTANCE that tlapm does not carry out.
What the runs that expect a violation check is false of the code or of a caller
without the discipline.

## 5. Assumptions and limits

* A call is one step in TxRing, RxRing and TrafficGenerator. For a TX ring whose
  owner and whose syncs are in two threads, TxThreads justifies it.
  `Netmap::tx_ring` takes `&self`, so two handles to one ring can be in two
  threads as well; their accesses are a data race, undefined in Rust, and are
  not modelled.
* `recv` and `poll_write` store `head` before `cur` with plain stores, `send`
  and `commit` the other way round. The kernel of the models looks at `head`
  only; what netmap makes of a `cur` behind `head` is not in the repository.
* The kernel's sync follows the comments of `ring.rs`: it takes what `head`
  gives if `head` is in the window it lent, and lends all transmitted slots but
  one. A `head` outside of the window is ignored.
* Packet contents are values; only their length matters. `packet` takes a length
  beyond the buffer (`ring.rs:225`); `PayloadFits` holds for callers that do not
  pass one. `packet(z, 64)` in `main` is followed by 256 bytes of stores (lines
  169-186): with buffers under 256 bytes these leave the buffer, which the
  models do not show.
* The generator's last batch stays in the ring if its one sync fails
  (`main.rs:215`): every other batch is made good by the full-ring branch.
* `send` compares a length with `nr_buf_size`, a u32, and stores it as a u16
  (`ring.rs:88`, `95`). With buffers of 2^16 bytes or more a packet could pass the
  test and be announced too short; `PayloadsFit` assumes shorter buffers, and the
  runs have them. No other theorem does.
* The generator does not ask whether its packets fit. `GeneratorKeepsDiscipline`
  assumes it where the discipline it is compared with has `fits_buffer`.
* The lookups do not ask for `is_host_if`: `tx_ring(0)` of a host's port reads the
  table where `tx_ring(0)` of an interface's port does, and `netmap.rs:375-376`
  promises two different rings (`host_rings`). `HandlesDoNotMeet` is about the
  ports of interfaces. That their handles are the NIC's rings in the order of
  their index depends on the order of the table; if the host's TX rings stand
  before the RX rings, `rx_ring` skips too few (`netmap.rs:321`). No property says
  which it is.
* `flags` takes any u32. With a registration mode among the flags the request can
  hold two modes while `build` counts by the name; what the kernel makes of it is
  external, and `CountsWhatItRegistered` is about the other callers.
* `blend_mask` (`main.rs:154`) leaves out lanes 8 and 9, which the increments of
  `main.rs:84` are for ("Dst Port +1, Dst IP +1"), and the decrement of the
  checksum meets the upper half of lane 6, where the source address is. So one
  half of the source address is all that changes: `HeadersArePackets`.
* `src/tokio_async.rs` is not compiled at this commit (`lib.rs:46-52`) and would
  not compile as it stands: it uses a private field of `Netmap`, a field `buf`
  that a netmap slot does not have, and the `&mut` form of the readiness calls
  on a shared `AsyncFd`. It is modelled as it is meant: a pointer to the slot's
  buffer, and the shared form of those calls.
* All rings of a `TokioNetmap` share one `AsyncFd`, which keeps one waker for
  each direction. AsyncTxRing has one task that waits; of two tasks pending in
  two rings only the one that polled last is woken. `WriteReturns` and
  `NoLostWakeup` are claims about the former case only.
* AsyncRxRing has `poll_read` as it is written, which reads the slot at `tail`
  and moves `tail`; its run checks the wakeup only.
* Frames that outlive the `Netmap` are not composed with the port: `recv_batch`'s
  frames have a free lifetime, so they may show unmapped memory; the run
  `rx_frames_kept` shows the same gap at work within an open port.
* The fallback channel is the connected pair. The `new` of either end makes a
  queue that nobody else has, which is the channel with one thread.
* Not modelled: the build script, the crate root, argument parsing, printing,
  and error texts.

## 6. Plan

Done: every component with state, its runs, and a theorem for every safety
property of a passing run. Next:

1. The order of `AsyncRxRing`'s indices: what `poll_read`, as it is written, does
   to the slots that the kernel owns.
2. The lookups of `TokioNetmap` and the order of the ring table, once `wrapper.h`
   says which netmap headers it is built with.
