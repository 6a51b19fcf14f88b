# A verification project for Qnixx

Qnixx is a small x86-64 kernel started by the Limine boot loader. This
directory models its concurrent core, its allocators, its page tables, its file
system tree and its network driver in TLA+, checks the models with TLC on small
instances and proves the safety properties they pass, and the refinements, with
TLAPS for every value of the constants. Source paths below are relative to `src/sys/`.

## Inventory

| Component | State it keeps | Operations | What makes it correct |
|---|---|---|---|
| Scheduler (`sched/sched.c`) | per-core process queues and `running_process`, round-robin core index, print lock | `sched_start`, `sched_yield`, enqueue and next operations | contexts are never mixed up, no tick is lost, no thread starves |
| Processes (`sched/process.c`) | process and thread control blocks, pid bitmap | `create_process`, `process_create_thread`, `alloc_pid`, `free_pid` | ids name one process, counts match queues |
| Interrupt path (`amd64/intr.s`, `trapasm.s`, `trap.c`, `cpu.c`) | trapframe on the interrupted stack, `P_IRQ`, trap lock | timer interrupt to `iretq` | the frame goes back to the thread it came from |
| LAPIC timer (`amd64/lapic.c`), HPET (`dev/timer/hpet.c`) | count, frequency, sleep lock | calibrate, one-shot, EOI, sleep | calibration is right, every one-shot is re-armed |
| SMP bring-up (`amd64/smp.c`, `tssasm.s`) | core list, AP lock, TSS descriptors | `smp_init`, `ap_entry`, `this_core` | locks exclude, no core blocks the others |
| Spin locks (`sync/mutex.c`) | one byte each | acquire, release | mutual exclusion |
| Bitmap (`libkern/bitmap.c`) | bits | set, unset, test | a bit reads as it was written |
| Physical memory (`mm/pmm.c`) | memory map, bitmap | init, alloc, free | a frame has one owner and is memory |
| Virtual memory (`mm/vmm.c`) | page tables, `old_pml4`, the TLB | map, unmap, lookup, new PML4, load | a change reaches its page, in its space, and no cached translation is stale |
| Heap (`mm/heap.c`, vendored `mm/tlsf.c`) | block headers, free lists by size class, two bitmaps | malloc, calloc, memalign, free, realloc, add and remove a pool | regions are disjoint and large enough, free memory coalesces |
| File system (`fs/vfs.c`, vendored `include/lib/hashmap.h`) | vnode tree, one hash map per vnode | path lookup, append, make; put, get, remove, rehash | a path finds the node that was added |
| Network (`dev/net/rtl8139.c`) | receive ring offset, transmit cursor | init, isr, receive, send | driver and card agree on the ring, no event is left pending |
| PCI, ACPI, IDT, IOAPIC | functions, tables, gates, pins | find, query, remap, mask, allocate vectors | an interrupt reaches its handler and no other |
| Console, framebuffer, strings | cursor, pixels | `printk` and formatting | (sequential) |

How they interact: `init()` (`kern_init.c`) initialises the parts in order;
`smp_init()` releases the application processors (APs), which run
`ap_entry()` while the bootstrap processor (BSP) goes on into
`sched_start()`. From then on the timer interrupt drives everything on the
BSP, and it meets the APs only at `this_core_lock` and `sleep_lock`. The
scheduler allocates through the heap, the heap through the physical memory
manager, and both the memory manager and the pid allocator through the bitmap.
The VFS and its hash maps take their memory from the heap, and the page-table
walk takes its frames from the physical memory manager. The network driver is
found through PCI, its line is routed through the MADT's overrides, the I/O APIC
and the IDT, and from then on it shares the card's registers with the card.

What is hard: the timer interrupt between any two instructions of a thread;
the boot context that must be dropped rather than saved; a one-shot timer that
each handler must re-arm; three global spin locks between cores, one of which
a faulting AP keeps for ever; a bitmap whose test sees a quarter of its bits,
and the sequences of allocations and frees over it; an allocator that keeps its
links inside the memory it manages; a hash map whose put calls itself while it
rehashes; a card that latches events between any two register accesses of an
edge-triggered interrupt routine. `PROJECT.json` lists every
hazard at its line with the properties that would catch it.

## Modules

| Module | Models |
|---|---|
| `Sched` | scheduler, interrupt path, one-shot timer, print lock, on the BSP |
| `Smp` | bring-up of the APs, the three shared spin locks, calibration |
| `Bitmap` | the three bitmap operations |
| `Pmm` (extends `Bitmap`) | the physical memory manager |
| `Pid` (extends `Bitmap`) | the process id allocator |
| `Heap` | `heap.c` and the TLSF allocator |
| `Arena` | abstract: regions handed out, resized and given back; implemented by `Heap` |
| `Hashmap` | the hash map, with put and rehash step by step |
| `Dict` | abstract: maps whose puts take effect at one moment; implemented by `Hashmap` |
| `Vfs` (extends `Hashmap`) | vnodes, their links and path lookup |
| `Vmm` | page tables and the TLB |
| `AddressSpace` | abstract: user halves and one kernel half; implemented by `Vmm` |
| `Platform` | ACPI, I/O APIC, gates and vectors, PCI: what `init()` does up to the drivers |
| `Rtl8139` (extends `Platform`) | the network driver and the card |
| `MCSched`, `MCSmp`, `MCPmm`, `MCBitmap` (`Pmm` and `Pid`), `MCHeap`, `MCVfs`, `MCVmm`, `MCRtl8139` | instances for TLC |
| `SchedProofs`, `SmpProofs`, `PmmProofs`, `PidProofs`, `HeapProofs`, `VfsProofs` (`Hashmap` included), `VmmProofs`, `Rtl8139Proofs` (`Platform` included) | theorems and proofs |

### Sched

A context is a record of the stack it is on, its program point and what is
left of the line it prints. `cpu` is the context executing outside interrupts,
`frame` the trapframe of the interrupt in progress, `tf[t]` what thread `t`'s
control block holds. `sched_start()` is `CreateKernelProcess`, `CreateThread`
(as `Script` says, up to any of its entries), `StartTimer`, `Sti`; the thread loop of `idle()` and
`test_func()` is `CallAcquire`, `MutexAcquire`, `Printk`, `MutexRelease`,
`Halted`; a tick is `Deliver`, `IrqEnter`, `IrqExit`, `TrapAcquire`, one of
`YieldStartup`, `YieldSwitch`, `YieldFault`, then `SendEoi`, `TrapRelease`,
`Iret`. Every step of the processor consumes one unit of the armed count
(`Elapse`); `BeginTimer` arms it with any length the calibration may give.
`DeviceInterrupt` is the network card's interrupt, routed to the same processor
(`rtl8139.c:397`), on a machine where `rtl8139_init()` finds a card (`card`). It
saves the registers it uses and touches nothing of the scheduler, but it ends a
`hlt`: the thread goes round its loop in mid-quantum.

`trapframe_t` has no `%rbp`, and `__lapic_timer_isr` calls C functions before
it saves anything, so a context interrupted inside a callee may resume with
registers that are not its own. What the machine does then is undefined;
`derailed` records that it happened and the model stops there. A thread in its
own loop body, at `hlt`, needs none of those registers. `NeverDerailed` is the
condition under which the kernel as written is safe: quanta that outlast a loop,
and no card. With a card, as the repository's own QEMU flags attach one
(`config.mk:16`), no quantum is long enough, since a packet may end the `hlt`
just before the tick; TLC finds that behaviour when `~card` is taken out of the
property.

Left out: addresses of stacks, user ids, names, what is printed. The APs take
no ticks (they are parked with interrupts off), so one processor executes.

### Smp

Every core has a place in its code. The BSP runs `SmpInit` and then a cycle of
calibration, one-shot and tick; an AP runs `ApEntry`, `ApAcquire`, `LoadTss`
(or `LoadTssFault`), a calibration and `ApRelease`. `this_core()` is shared
code: `cont` is where the caller goes on. Time passes (`Tick`) only when every
core waits, so code takes no time and sleeping does.

### Bitmap, Pmm, Pid

A bitmap is the set of bits that are 1. `bitmap_test_bit()` computes
`(byte & (1 << (bit % 8))) >> bit`; the kernel is built without optimisation
and the shift compiles to `sar`, which takes its count modulo 32, so the
result is non-zero only if `bit % 32 < 8`. `TestBitValue` is the arithmetic,
`BitmapTestBit` the condition; `MCPmm` has TLC compare them.

`Pmm` counts in bytes of pages of `PageSize` bytes. `PmmInit` is
`init_bitmap()`; a call of `pmm_alloc()` is `PmmAlloc`, one action per round of
the search loop (`ScanUsed`, `ScanFree`, `ScanEnough`, `ScanEnd`), and
`PmmAllocReturn`. `Callers` stand for whoever holds frames;
they free what they hold. Nothing in the kernel calls `pmm_free()` or
`free_pid()` yet; they are modelled because they are the interface.
`booted`, `reserved` and `stale` are history variables.

`Pid` models `alloc_pid()` with the content of the byte that `kmalloc()`
returned left open, since the code does not clear it.

### Heap and Arena

A heap is one record (sizes, flags, `prev_phys_block` words, free lists, the
two bitmaps) and each function of `tlsf.c` is an operator from heaps to heaps
with the function's name: `MappingInsert`, `MappingSearch`, `LocateClass` and
the block operations below `TlsfMalloc`, `TlsfMemalign`, `TlsfFree`,
`TlsfReallocHere`, `TlsfAddPool` and `TlsfRemovePool`. A `tlsf_assert()` is
`Insist`, which records a failure in `ok`. A call is one action, because nothing
interrupts it: interrupt routines do not allocate, and after bring-up the APs do
not either. The `prev_phys_block` word of a block is stored inside the block
before it, so it is in the model only while that block is free;
`PrevPhysExact` says that no one reads it at another time.
`live` holds what callers asked for, `faulted` that `kcalloc()` cleared memory
at address 0 after a refused request (it does not test the pointer). `1 << k` is
the recursive function `Pow2`, which the proofs can reason about. Requests are
taken to be far below 2^64, where `align_up()` would wrap, and no pool has exactly
`block_size_max` (4 GiB) bytes, which `tlsf_add_pool()` takes and whose block
would index past the free lists (`PoolAssumption`).

`Arena` knows regions and pools only. The mapping takes a caller's region to be
the whole payload of its block, so overlap of any usable byte would be seen.

### Hashmap, Dict, Vfs

`hashmap_put()` that finds no cell creates a table of twice the size and puts
every element into it with `hashmap_put()`, which may do the same again:
`stack` has a frame for each table being filled. `Place`, `Move`, `Rehash`,
`Iterate`, `Swap` are the steps; `HashmapGet` and `HashmapRemove` are single
steps. The mapping to `Dict` looks a key up in the map and in every table of the
stack, so an element counts as present exactly if it is in one of them. The
number that CRC and mixing make of a key is the constant `Hash`. NULL
(`NoValue`) is no key, no value and no call.

`Vfs` numbers vnodes as they are made and gives each directory a map.
`MakeVnode` is `vfs_make_vnode()`, `AppendChild` `vfs_append_child()`,
`Path2Vnode` `path2vnode()` over the names between the slashes (`Walk` is its
loop, one `Component` a round), `RemoveChild` the hash map's remove on a
directory.

### Vmm and AddressSpace

A virtual page is its four indices, a frame of `mem` a table, an entry a frame,
a mapped page or `Absent`. `GetNextLevel` and `GetPageTable` are the walk, which
allocates missing tables on a map and on a lookup and not on an unmap.
`Access` is the processor caching a translation, `VmmLoadPml4` empties the TLB.
What the frames hold that `pmm_alloc()` hands out is the constant `Leftover`: the
allocator promises nothing, `get_next_level()` clears nothing and
`vmm_make_pml4()` clears 512 bytes, 64 of the 512 entries (`ClearedTo`).
`vmm_used` shows what that comes to. The other properties are checked, and
proved, under `ZeroFrames`, which is true of an emulated machine just started
and of nothing else: with any other contents a new table maps whatever its words
spell. Also assumed, of the physical memory manager: a frame is handed out
once, which `Pmm` shows of frames whose bit can be tested and of no others.

`BootAssumption` says of the boot loader's tables that they have four levels of
4 KiB pages and that no table is in two places. Nothing says which kernel slots
of the PML4 they fill. A page behind a filled one (`KernelPages`) is shared by
all spaces; a slot that was empty is filled in one PML4 at a time, by
`vmm_map_page()` or a lookup, and a page behind it (`LatePages`) is seen in that
space and in those copied from it afterwards. `KernelAgrees` and `AddressSpace`
speak of the former, while maps of late pages are among the steps.
Where the boot loader maps its direct map with large pages the code itself does
not work as modelled: `get_next_level()` follows a large page's entry as if it
were a table, so that a walk reads and writes data as entries.
What the boot space maps in its user half is left open,
so `AddressSpace` starts from any. Left out: permission bits, the TLBs of other
cores (the code has no shootdown, and the APs are parked).

### Platform and Rtl8139

A machine is a record of what firmware and hardware present: the RSDT, the
MADT, the functions on the PCI bus, the pins of the I/O APIC, what the firmware
left in them, and which pin each line is wired to. `init()` is `InitExceptions`,
`AcpiInit`, `IoapicInit`, `LapicInit`, `FindCard` and then the driver's
`StartupRxbuf`, `StartupRxcfg`, `StartupImr`, `AllocPacketBuf`, `InitIrq`: one
action per write after which the card behaves differently. The card stores
packets, overflows, raises errors and sends (`CardStore`, `CardFault`,
`CardSend`) between any two of them and between the register accesses of
`isr()` (`IsrRead`, `IsrAck`, `Recieve`, `IsrFinal`, `IsrEoi`) and of
`rtl8139_send_packet()` (`Send`, one `SendScan` per descriptor looked at,
`SendStore`, `SendStart`). An event that finds the line already up makes no
edge, and an edge on a masked pin is forgotten; that is what makes the
acknowledgements delicate.

`rxbuf` is where `kmalloc()` puts the buffer (`Rxbufs`), and `StartupRxbuf` writes
`vmm_get_phys(rxbuf)` to the card, which is the address of its page. `recieve()`
reads at `rxbuf + rxbuf_offset`, that is at `ReadAt` of the card's ring: a header
the card stored, or any of `Strays`, what other bytes may spell. As the kernel
boots, `rxbuf` lies about 0xF50 bytes into its page, so this is what happens from
the first packet on, and the card writes over the heap blocks before the buffer
(`rtl_rxbuf`). `RingInStep` therefore says where packets are only for a buffer that
starts a page; `LagExact`, `LineNotStuck` and `RxProgress` count calls of
`recieve()`, whether it copies or refuses, and hold wherever the buffer is.

Four history variables name the ways the code can fall behind, so that the
properties say there is no other: `missed` (two packets share one RXOK, or the
last acknowledgement wipes one), `early` (an event before `register_irq()`), `truncated` (an event in the
upper byte of the status, which `uint8_t stat` drops), `crowded` (a search
passes a descriptor the card has not sent). They name real defects, which
the properties bound rather than catch; `PROJECT.json` notes that at each hazard.

## Runs

| Run | Checks | Result |
|---|---|---|
| `sched` | `TypeOK`, `QueuesAgree`, `NeverDerailed`, `OwnContexts`, `PrintExclusive`, `TickOutstanding`, `AbortsOnlyIdle`, `EveryThreadPrints` | pass: up to three processes, 2 cores, with a card (a tick at any point) and without one |
| `smp` | `TypeOK`, `LocksExclusive`, `CalibrationBounded`, `ApParks`, `BspKeepsTicking` | pass: 3 cores, one aborts |
| `smp_tss` | `EveryTssLoads` | violated: all APs load core 0's TSS |
| `bitmap` | `TypeOK`, `AccountsExact`, `OwnedBacked`, `FirstFit`, `NeverFails` of `Pmm`; `VisibleExact`, `NeverGrows` of `Pid` | pass |
| `pmm_own` | `PagesOwn` | violated: a frame handed out twice |
| `heap` | `ChecksPass`, `GoodFit`, `AllFreedWhole`, `ArenaPromise` | pass: every order of calls on two pools |
| `heap_realloc` | `RefusedUntouched` | violated: a `krealloc()` beyond the largest block shrinks the block and returns it |
| `vfs` | `TypeOK`, `Findable`, `PathsExact`, `DictPromise`, `PutReturns` | pass: rehash inside rehash |
| `vmm` | `TypeOK`, `TlbFresh`, `KernelAgrees`, `SpacePromise` | pass: spaces made before and after kernel pages are mapped, frames zero |
| `vmm_used` | `FreshPml4Empty` | violated: a new PML4 in a used frame has user entries |
| `rtl` | `RouteExact`, `RingInStep`, `LagExact`, `LineNotStuck`, `TxInOrder`, `RxProgress`, `TxDrains` | pass: five machines, three loads, two places of the buffer |
| `rtl_rxbuf` | `HeaderRead` | violated: the card's ring does not start at `rxbuf` |

The violated properties state what a comment of the source says;
`PROJECT.json` quotes the lines under `findings`.

`RefusedUntouched` is the reason why `heap` reallocates to sizes a block can
have only: a refused realloc breaks the promise of an arena.

Bounds and why they are enough:

- `Sched`: one process with two threads is what the kernel creates. The run takes
  every beginning of a longer script: one thread, the kernel's two, a second
  process on the other core, a third that shares the first's core, so that there
  are unequal thread counts and both cursors wrap. Quanta of 9 to 11 steps cover a
  loop with lines of up to 3, so without a card ticks find threads in `hlt`. With a
  card they fall on every point of the loop, also immediately after `iretq`, since
  any number of its interrupts, each taking a step, may come at any point. A
  quantum that ends inside the handler is left to the theorems, which hold for
  every quantum. With one or two entries of the script core 1 has no process,
  and as the BSP it stops; nor does a derailed machine go on: hence no
  deadlock check. Liveness is stated without a card, because one that never stops
  interrupting would starve the threads.
- `Smp`: three cores are the least with two APs in competition. `SleepLen` of 3
  distinguishes waiting, sleeping and done.
- `Pmm`: a page of 4 bytes makes a bitmap page of 32 bits, the width at which
  the shift wraps; maps have 32 or 64 bits, a chunk too small for the bitmap,
  one exactly its size, and frames past the last bit. Sizes 1, 3 and 30 (the
  heap's) give runs inside a byte, across visible bits and past the end.
- `Pmm` and `Pid` share the operations of the bitmap and no state, so one run
  lets one or the other move.
- `Pid`: `MaxPid` (40) bounds the search only; three processes with an
  arbitrary initial byte reach every pattern of the seven visible ids.
- `Heap`: four lists per class and a largest block of 256 bytes put several
  class boundaries inside a pool of 216 bytes. Requests are 0, small, above
  the first class boundary, one whose search is rounded up past the last class
  and one that adjusts to the largest block and is refused; pools
  come and go, one too small and one misaligned. The heap may fault (above),
  hence no deadlock check.
- `Vfs`: chains of two cells and tables of 2 to 16. The hashes make chains wrap
  and collide so that rehashes nest three deep and, at the end, want a table
  there is no memory for: the machine then faults, hence no deadlock check.
  Four links over two directories reach unlinking from a chain's middle and
  appending under an existing name.
- `Vmm`: tables of four entries, two per half at the top, of which `memzero()`
  reaches the first; two user pages that share tables, a kernel page whose tables
  are made after the first space, and a page behind a kernel slot that is empty at
  boot. Of eleven frames four are the boot loader's; the others are enough for all
  the tables of one space, or for some of several. Walks need no more than three
  frames (`EnoughFrames`). In `vmm_used` the first free frame holds one word that
  looks like an entry.
- `Rtl8139`: a ring of 32 bytes, which three packets of 5 to 12 bytes wrap and
  overflow; a packet with an error and one of the maximal length, which are
  refused; a buffer that starts a page of 32 bytes and one 8 bytes into it, where
  other bytes spell a header that is accepted or one that is refused; five calls
  of send, so that the four descriptors are all busy and the fifth call finds
  none. The machines have no MADT, a first MADT with a wrong
  checksum, no card, several functions before and after the card with pins the
  firmware left unmasked, and an override for the card's line. Two of them stop
  in `acpi_init()`, and the loads are bounded, hence no deadlock check.

Fairness: `Sched` assumes `WF(Next)`: it is one machine whose processor
executes and whose armed timer counts. `Smp` assumes weak fairness of each
core and of time. `Vfs` assumes that a function that was called goes on.
`Rtl8139` assumes it of `init()`, of the interrupt routine together with the
delivery of a pending interrupt, of a send in progress and of the card's
transmitter; nothing has to arrive and nobody has to call send. No fairness of
lock acquisition is assumed beyond that.

What the models show that no run is kept for: `irq_exit()` clears `P_IRQ` before
the handler runs; a calibration that waits for `sleep_lock` counts up to twice
the ticks it should (`CalibrationBounded` is the bound); a run found at the
end of the bitmap may include frames that have no bit; the ninth process gets
pid 8 again (`NeverGrows`).

## Proofs

All for every value of the constants, from the `ASSUME` of each module.

- `SchedProofs`: `TypeCorrect`, `QueuesCorrect`, `ContextsCorrect`,
  `PrintCorrect`, `TickCorrect`, `AbortCorrect`, `DerailCorrect`. The
  invariant adds to the properties: who draws (`Drawing`: a context has
  something left exactly at the print point), which script entries are in
  which queue (`Queued`), that the startup flag marks only the thread that
  will run first and only until it does (`Startups`), that `frame` belongs to
  the boot context or the scheduled thread in each phase (`Owned`), that the
  lock byte is set while a context is in `printk` wherever it is kept
  (`Locked`), the timer's state in each phase (`Ticking`), and, when quanta
  are long enough and there is no card, a lower bound on the count at each point of the loop
  (`Punctual`), which is why a tick finds its thread in `hlt`.
- `SmpProofs`: `TypeCorrect`, `LocksCorrect`, `CalibrationCorrect`. Exclusion
  is not inductive alone: `Placed` says which code is run by which role, as the
  BSP inside `ap_entry()` would hold `ap_lock` outside the section. For the
  bound on a calibration `ap_lock` alone is not enough: what makes it true is
  that every AP loads the TSS of the same core, so that all but the first stop at
  `ltr` and only one AP ever calibrates. With one TSS per AP (the finding of
  `smp_tss` repaired) the waits would have to be looked at again.
- `PmmProofs`: `TypeCorrect`, `SearchCorrect`, `GrantCorrect`,
  `AccountsCorrect`, `OwnedCorrect`. `Searching`
  is the loop invariant of `find_contigious_chunk()`: the current run is free
  and as long as counted, and every start given up is blocked by a set bit
  within reach. `Result` carries to the return that the part of the chunk
  inside the bitmap is free; with it a grant keeps the accounts. `LeftFree`
  says that what `init_bitmap()` leaves clear is usable memory outside the
  bitmap. Assumed: the boot loader's map has a usable chunk that holds the
  bitmap, addresses are bounded (`PmmAssumption`), and usable chunks are whole
  pages, not empty and disjoint (`BootLoaderAssumption`). The last excludes one
  map: a chunk exactly as large as the bitmap that touches the chunk above it.
  Emptied by `init_bitmap()` it ends where that one begins, and
  `find_highest_mem_chunk()` may then take it for the highest, so that later
  calls compute a smaller bitmap.
- `PidProofs`: `VisibleCorrect`, `BoundCorrect`: whatever the number of
  processes, ids are 1 to 8, so a ninth process repeats one.
- `Rtl8139Proofs`: `LagCorrect`, `LineCorrect`, `TxCorrect`, `RingCorrect`,
  `RouteCorrect`. `LagExact` and `LineNotStuck` need the routine's place and the
  mask beside them; `TxInOrder` needs how far a search has come. For the ring,
  `Layout` gives every packet an offset and the number of bytes stored before it;
  then, if the buffer starts a page, the driver's offset is that of the packet
  after the last one delivered, whatever the lengths, and what is stored later
  never covers an unread packet. That both offsets stay in the ring and that
  `recieve()` runs only for a stored packet needs no such condition.
  `RouteInv` says, for each stage of `init()`, what the pins and gates hold.
  Assumed of the firmware: `PlatformAssumption` (one I/O APIC, lines 0 to 15,
  at least 16 pins, overrides that tell the truth about the wiring) and of the
  card `Rtl8139Assumption`.
- `VmmProofs`: `VmmTypeCorrect`, `TlbCorrect`, `KernelCorrect`, and
  `SpaceCorrect`, the refinement of `AddressSpace`, all under `ZeroFrames` (see
  above; without it they are false) and for any set of kernel slots filled at
  boot. The invariant is that the
  frames in use form a forest: there is an assignment of levels to tables
  (`Levels`), no table is entered from two places except that the kernel half
  of the top tables is shared (`Unshared`, `Shared`), and a frame not yet handed
  out holds zeros. From it a new table changes no translation, and a write to a
  last-level table changes one page of one space or of the kernel half.
- `VfsProofs`: `TreeTypeCorrect`, `FindableCorrect`, `DictCorrect` (the
  refinement of `Dict`) and `PathsCorrect`. A table is good (`GoodTable`) when
  every element is within the chain of its key (`Within`), no key is stored
  twice (`Once`) and `size` counts the cells in use. A stack is good
  (`GoodStack`) when its tables are and grow from frame to frame, every frame
  but the last has an element to place, which is the one the iteration below it
  has come to (`Handed`), what the iteration has passed is empty (`Emptied`), and
  no key is in two tables (`Apart`). The last two are what a rehash could get
  wrong at depth: without them an element moved into a table could hide one that
  is there already. `RehashedStack`, `MovedStack`, `HandedStack`, `PassedStack`
  and `SwappedStack` show for each step that the stack stays good and holds the
  same elements, which is both the invariant and the refinement. `PathsCorrect`
  compares the loop of `path2vnode()` with the tree by the least component at
  which they differ; that the two recursive functions are defined at all is
  proved the same way (`WalkIs`, `ReachIs`). Assumed (`HashmapAssumption`):
  tables have sizes that are powers of two, up to 2^30.

- `HeapProofs`: `InvCorrect`, `ChecksCorrect`, `GoodFitCorrect`, `WholeCorrect`
  and `ArenaCorrect`, the refinement of `Arena`. Four layers, each resting on
  the one before.
  *Sizes*: by induction over the exponent (least counterexample,
  `LeastNumber`) powers of two grow and add up, `Fls` finds the highest bit,
  `MappingInsert` gives a class, and `MappingSearch` rounds so that every block of
  its class or a higher one fits (`SearchFits`) and every block as large as the
  request rounded up is in one of those (`SearchFinds`).
  *Lists*: `Listed(h, L)` says the lists hold the blocks of `L`, each once and in
  the list of its class, and the bitmaps show which lists have a block;
  `RemoveIs` and `InsertIs` take a block out of `L` and put one in, and
  `LocateIs` is the search.
  *Blocks*: `Tiled` says the blocks tile the pools, `Tagged` that the flags and
  the `prev_phys_block` words tell which are free. Cutting a block (`Halved`) and
  joining two (`Joined`) keep both, and each of `BlockTrimFree`,
  `BlockTrimFreeLeading`, `BlockTrimUsed`, `BlockAbsorb` is one of these plus a
  list operation. The free lists lag behind the flags within a call, which is
  why `Good(h, ps, L)` has `L` as a parameter, and two free blocks may touch
  there, which is why `OnlyNext`, `OnlyNear` and `OnlyPrev` say where.
  *Calls*: between calls the heap is `Whole` (all free blocks are listed and none
  touch), and `Held`: callers hold exactly the blocks in use, each as large and as
  aligned as they asked. `HeapInv` is both. `ChecksPass` is not inductive
  alone: it does not say that blocks are disjoint and all in a pool (`Tiled`), nor
  that what is freed is a block in use (`Held`). Every step is one of `Takes`, `Gives`, `Resizes`, `Adds`, `Drops`
  and `Stays` (`StepIs`), from which the invariant and the refinement both follow.
  Assumed: pools are memory of their own, as `heap_init()` and a caller of
  `tlsf_add_pool()` provide it, and alignments are powers of two
  (`HeapAssumption`); the first pool is one `tlsf_add_pool()` takes
  (`FirstPoolAssumption`), and none has exactly the largest size
  (`PoolAssumption`); and, in the theorems only, `ReallocFits`: a realloc
  is not for more than the largest block. Without the last the theorems are
  false: a refused `tlsf_realloc()` trims the block to nothing, which is what
  `heap_realloc` shows.

Only model-checked: the liveness properties (`EveryThreadPrints`, `ApParks`,
`BspKeepsTicking`, `PutReturns`, `RxProgress`, `TxDrains`): fairness and ENABLED
are outside the prover's reach.

## Not modelled

Left out, and why:

- Number formatting, `memcpy` and its kin, port I/O wrappers, font data, the
  framebuffer: sequential, without state another part depends on. Of the console
  only the time a line takes and who may draw is in `Sched`.
- GDT and SSE set-up, the Limine requests, exception handlers beyond "prints and
  stops".
- PCI BARs, `pci_find_any()`, `__amd64_for_each_core()`, `critical_enter()`:
  nothing that runs uses them. `lapic_send_ipi()` is empty.
- The memory beside an allocation. So these two have no property: a
  thread's stack pointer starts above its allocation (`process.c:110`), and with
  `RXCFG_WRAP_INHIBIT` the card writes a packet that does not fit before the
  ring's end past the 32768 bytes of `rxbuf` (`rtl8139.c:205`). Nor is it modelled
  what the card's writes below `rxbuf` do to the heap blocks there.
- A packet of more than 0x600 bytes given to `rtl8139_send_packet()`: the length
  `TX_BUFFER_SIZE - size` that it passes to `memzero()` (`rtl8139.c:347`) wraps.
- The local APIC address of the MADT (`acpi.c:32`), which no modelled step reads.
- Firmware that breaks its specification: a MADT entry of length 0 makes
  `parse_madt()` endless, an interrupt line of 255 (none) indexes past the
  gates, of several I/O APICs the last is used for every pin.
- Concurrent callers of `rtl8139_send_packet()`, which has no lock: nothing
  calls it yet, and `Send` is one call at a time.

Known from the modelling of the network driver: `txbufs` is an array of
`uint8_t`, so packets are all copied to the page of physical address 0, and the
card reads them there because its address registers (`REG_TXADDR0` and up), 0 after
reset, are never written; a packet waiting to be sent may be overwritten by a
later one (`TxInOrder` says only that what is sent is never older); `REG_MAR4` is 0x12 and should be 0x0C,
so half of the multicast filter keeps its reset value until a send with all
descriptors busy writes a packet's size there.
