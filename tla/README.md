# A verification of the NVIDIA 367.44 Linux kernel modules

The repository packages the NVIDIA driver 367.44. The part of it that is source is
`NVIDIA-Linux-x86-367.44/kernel/`: `nvidia.ko` (a shell around the binary resource manager, RM),
`nvidia-uvm.ko` (unified virtual memory, complete in source), `nvidia-modeset.ko` and `nvidia-drm.ko`.
This directory holds TLA+ models of it, the TLC runs that check them on small instances, and proofs
checked by TLAPS. Paths below are relative to `kernel/nvidia-uvm/` unless they say otherwise.

UVM comes first: it holds nearly all the concurrent algorithms that exist as source. It contains two
drivers, UVM8 (GPUs with page faults, and the code every GPU shares) and the older UVM-Lite.

## 1. The system

### Components

| component | source | state | operations | who calls it |
|---|---|---|---|---|
| deferred work queue | `nv-kthread-q.c` | list of items, counting semaphore, exit flag | init, schedule, flush, stop, main loop | fault bottom half, accessed-by work, tools |
| tracking semaphore | `uvm8_gpu_semaphore.c`, `uvm8_tracker.c` | 32-bit payload in memory the GPU writes, 64-bit `completed_value` | is_value_completed, update, wait | every channel and tracker |
| pushbuffer | `uvm8_pushbuffer.c` | chunks, each a ring with a list of pending entries; idle and available maps; a semaphore | begin_push, end_push, mark_completed | channels |
| channels and pushes | `uvm8_channel.c`, `uvm8_push.c` | GPFIFO ring (`cpu_put`, `gpu_get`), count of on-going pushes, push_infos | reserve, begin, end, update_progress, get_status | everything that gives the GPU work |
| VA block | `uvm8_va_block.c`, `uvm8_migrate.c`, `uvm8_policy.c` | for each page of 2 MB and each processor: residency, mapping permission, read duplication, chunks | GPU and CPU fault, migrate, evict, direct write, policies, split, destroy | faults, ioctls, PMM, RM |
| PMM | `uvm8_pmm_gpu.c` | tree of chunks under each root chunk, free lists, eviction lists, pin counts | alloc (user, kernel), free, split, merge, evict, the two callbacks of PMA | VA blocks, page tables, RM's PMA |
| fault servicing | `uvm8_gpu_page_fault.c`, `uvm8_pascal_fault_buffer.c` | get/put of the fault buffer, batch context, uTLB counts, interrupt disable count | top half, bottom half, fetch, service, replay, flush, cancel | RM's interrupt, GPU creation and removal |
| GPUs | `uvm8_gpu.c`, `uvm8_channel.c`, `uvm8_gpu_semaphore.c`, `uvm8_rm_mem.c` | one resource after another per GPU, semaphore pools mapped on every GPU, peer table | add, retain, release, remove, enable and disable peer access | VA spaces, module unload |
| VA spaces | `uvm8_va_space.c`, `uvm8_user_channel.c`, `uvm8_map_external.c` | registered GPUs, their address spaces, channels, peers, external mappings, processor masks, deferred frees | register, unregister, map external, stop, destroy | ioctls, close |
| VA ranges and range groups | `uvm8_va_range.c`, `uvm8_policy.c`, `uvm8_range_group.c`, `uvm8_migrate.c`, `uvm8.c` | interval tree of ranges with policies, blocks, spans of groups and their migrated lists | mmap, split, destroy, set a policy, migrate, prevent and allow migration | ioctls, mmap, fork, exit |
| GPU page tables | `uvm8_mmu.c`, `uvm8_pte_batch.c`, `uvm8_tlb_batch.c` | tree of directories with reference counts | get_ptes, put_ptes, invalidate | VA blocks, external mappings |
| heuristics | `uvm8_perf_*.c` | thrashing records of each page of a block, prefetch tree | events, hints, epoch reset | fault servicing |
| tools | `uvm8_tools.c`, `uvm8_perf_events.c` | queues of events shared with user space, subscriptions, records of migrations in flight | record, poll, subscribe, flush | faults, migrations, ioctls |
| trackers, lock order | `uvm8_tracker.c`, `uvm8_lock.c`, `uvm8_thread_context.c` | lists of pushes waited for; the locks each thread holds | add, merge, wait; record a lock | everybody |
| UVM's own memory | `uvm8_mem.c`, `uvm8_range_allocator.c` | chunks, ranges of the kernel's VA, mappings per GPU | alloc, map, unmap, free | pushbuffers, staging buffers |
| module shell | `uvm_common.c`, `uvm8_global.c`, `uvm8_hal.c` | what is initialised, HAL tables, mode of each file | load, unload, open, initialize | kernel, user space |
| UVM-Lite | `uvm_lite*.c`, `uvm_debug_session.c`, `uvm_kernel_events.c` | commit records, streams, dirty pages; processes, MPS servers, sessions | faults, prefetch, commit, start and stop streams, sessions | ioctls, CPU faults |
| UVM-Lite channels | `uvm_channel_mgmt.c` | ring buffers, GPFIFOs, channel pools, range trackers | get, submit, reclaim, create and destroy pools | UVM-Lite |
| `nvidia.ko` devices | `../nvidia/nv.c`, `nv-frontend.c` | usage counts of devices, minor-number table, interrupts | open, close, get, put, probe, remove, ISR | user space, other modules |
| `nvidia.ko` memory and files | `../nvidia/nv-vm.c`, `nv-mmap.c`, `nv-dma.c`, `os-mlock.c` | allocations, usage counts, free lists, event queues | alloc, free, mmap, DMA map, pin, post and get events | RM, user space |
| `nvidia.ko` peer-to-peer | `../nvidia/nv-p2p.c` | page tables lent to third-party drivers | get, put, revoke, DMA map | third-party drivers, RM |
| modeset | `../nvidia-modeset/` | timers, work items, opens, references | ioctls, timers, events, load and unload | NVKMS, user space |
| drm | `../nvidia-drm/` | atomic state, flips, EDIDs; GEM references | commits, events, hotplug; buffers and framebuffers | user space, NVKMS |

`PROJECT.json` lists all of them, with the reason for each one that is not modelled.

### Interaction

A fault or an ioctl ends in a *VA block*, which decides under its lock where each page goes. It asks
*PMM* for memory, which may have to evict other blocks: PMM calls back into `uvm_va_block_evict_chunks`,
and the first block must drop its lock meanwhile and start again. The copy and the PTE writes are
*pushes* on a *channel*; a push reserves an entry of the GPFIFO ring, takes space in a chunk of the
*pushbuffer*, and releases a *tracking semaphore* when the GPU has done it. Nobody is interrupted on
completion: whoever needs room or waits polls `completed_value` and completes entries on behalf of
everybody. Work that cannot be done where it is discovered goes through a *work queue*.

Which blocks there are, and where their pages should be, is decided above: a *VA space* registers GPUs (which holds
a reference on each) and contains *VA ranges*, which carry the policies and are cut into blocks. The mappings a
block decides on become PTEs of one of three sizes in the *page tables*, whose directories are memory of PMM too.
*Heuristics* answer the fault handler's question what else to move, and are told what was moved through the same
perf events that the *tools* deliver to user space. UVM-Lite is a second driver behind the same file: the file's
mode, chosen when the module is loaded, decides which. Both stand on `nvidia.ko`, whose core (RM) is a
binary, as is NVKMS under `nvidia-modeset.ko`; the source here is the layer that ties those to the kernel.

### What is hard here

- Threads meet in the middle of `update_progress`, `end_push` and the chunk claim, each of which drops and
  retakes spin locks; the GPU runs all the while.
- Rings and payloads wrap; "full" and "empty" look alike.
- A block lock is dropped to evict, and everything computed before may be stale afterwards.
- Every operation of a block is a sequence of calls each of which can fail in the middle, and the masks
  must describe the truth at every point, since user threads keep loading and storing.
- PMM decides under a spin lock and acts under a mutex; RM's PMA calls in at any time.
- A flush of a queue must outlast items that requeue themselves.
- The GPU walks page tables, caches translations and executes PTE writes long after the driver has decided on them.
- Registration, load and probe acquire a dozen things in order, and each may fail; the way back must release exactly
  what is there, with other threads and interrupts already active.
- User space, third-party drivers, timers and RM hold objects of the shells and give them back at any time: after
  the file was closed, after RM took the memory away, while the module unloads.

The list of hazards in `PROJECT.json` names each one at its line, with the properties that would catch it.

### What makes each component correct

Work queue: no item stranded, flush and stop wait for what they promise. Semaphore: nobody is told that
unfinished work is finished, and every wait ends. Push pipeline: methods are not overwritten before the GPU
has read them, the rings hold what was reserved, and nobody waits for ever. VA block: no store is lost,
every mapping points at a valid copy, a writable page has one copy, atomics are atomic. PMM: a chunk has
one owner, lists and pin counts agree with the tree, and evicted memory is really free. Fault servicing:
every fault is serviced, replayed or cancelled, and interrupts end up enabled. Page tables and PTEs: a GPU never
walks freed memory, never translates through two sizes at once, and reaches what was mapped. VA spaces and ranges:
references are exact, ranges tile the vmas, policies stay within the span they were set on. Life cycles (GPUs,
modules, devices, files, displays): what exists is what the state says, after every failure, and nothing is used
after it is destroyed. Tools: no event slot is overwritten unread and a subscriber gets what it subscribed to.
UVM-Lite: a page's data is never lost between streams and the CPU.

## 2. The modules

| module | models | lines of the model correspond to |
|---|---|---|
| `KthreadQ` | `nv-kthread-q.c` | one action for each section between two points where another thread can see a difference: insertion under `q_lock`, `up()`, `down()`, the test of the exit flag, the pop, the callback |
| `CompletionSpec` | what a tracking semaphore promises | an unbounded counter that never runs ahead of the GPU |
| `TrackingSemaphore` | `uvm8_gpu_semaphore.c` | the unlocked fast path, the lock, the read of the payload and the store are separate steps |
| `ChunkRing` | the arithmetic of a chunk in `uvm8_pushbuffer.c` | operators on a record of put, get and the ends of the list |
| `PushPipeline` | `uvm8_push.c`, `uvm8_channel.c`, `uvm8_pushbuffer.c` and the semaphore of each channel, composed | begin (`claim`, `down`, `chunk`, `index`), end (`end_push`, `pushbuffer_end_push`, `up`) and update (`progress`, `lock`, `mark`) of each thread, the GPU, and channel errors |
| `VaBlock` | one VA block: `uvm8_va_block.c`, `uvm8_migrate.c`, `uvm8_policy.c`, the block part of `uvm8_gpu_page_fault.c` | each operation is a stack of calls; each call (unmap, revoke, copy, map, populate) is one step and may fail |
| `Pmm` | `uvm8_pmm_gpu.c` with the calls VA blocks and page tables make | one step for each critical section of the spin lock, the mutex and the PMA lock |
| `FaultIsr` | the interrupt of `uvm8_gpu_page_fault.c`, and adding and removing a GPU in `uvm8_gpu.c` | one step for each section under `page_fault_interrupts_lock` or `gpu_table_lock`, each wait, and each stage of `remove_gpu` |
| `PageFaults` | what the bottom half of `uvm8_gpu_page_fault.c` does: `service_fault_buffer` and all it calls, with the GPU, and the threads that destroy channels (`uvm8_user_channel.c`) and ranges (`uvm8.c`) | one step for each read of PUT, fetch, flush, group of faults of a block, replay, cancel and wait |
| `VaSpace` | `uvm8_va_space.c`, `uvm8_user_channel.c`, the objects of `uvm8_map_external.c` | one action for each section under the VA space lock; a call that drops it is several |
| `Ranges` | `uvm8_va_range.c`, `uvm8_policy.c`, `uvm8_range_group.c`, `uvm8_migrate.c`, the vma operations of `uvm8.c` | a section in write mode is one action; under the read lock, one for each block |
| `ExternalMap` | the mapping itself in `uvm8_map_external.c` | one for each buffer of PTEs, push, wait and cleanup |
| `PageTree` | `uvm8_mmu.c` | one for each section under the tree's lock, each allocation without it, each push the GPU executes |
| `BlockPtes` | the PTEs of a block in `uvm8_va_block.c`, `uvm8_pte_batch.c`, `uvm8_tlb_batch.c` | one for each operation of the block, one for each step of its pushes on the GPU |
| `Swizzle` | big pages that change their format, in `uvm8_va_block.c` and `uvm8_gpu.c` | the same |
| `GpuSetup` | `uvm8_gpu.c`, the pools and channels of `uvm8_channel.c`, `uvm8_gpu_semaphore.c`, `uvm8_rm_mem.c` | one for each step of `add_gpu`, `remove_gpu` and `enable_peer_access` |
| `DriverMem` | `uvm8_mem.c`, `uvm8_range_allocator.c`, range vectors of `uvm8_mmu.c` | one for each call and each batch of PTEs |
| `ModuleLoad` | `uvm_common.c`, `uvm8_global.c`, `uvm8_hal.c`, the entry of `uvm8.c` and `uvm_lite.c` | one for each step of loading and unloading |
| `Tools` | `uvm8_tools.c`, `uvm8_perf_events.c` | one for each section under a lock of the tools |
| `Thrashing`, `Prefetch` | `uvm8_perf_thrashing.c`, `uvm8_perf_prefetch.c` | one for each event or hint; one for each batch |
| `Tracker` | `uvm8_tracker.c` | one for each operation |
| `LockOrder` | `uvm8_lock.c`, `uvm8_thread_context.c` | one for each call, recorded or refused, and each acquisition |
| `LiteStreams` | `uvm_lite.c`, `uvm_lite_api.c`, `uvm_lite_region_tracking.c`, `uvm_page_cache.c`, `uvm_lite_prefetch.c` | one for each ioctl and fault, which hold the process's lock throughout |
| `LiteProcess` | the processes of `uvm_lite.c`, `uvm_debug_session.c`, `uvm_kernel_events.c`, `uvm_kernel_counters.c` | one for each section under a lock |
| `LiteChannel` | `uvm_channel_mgmt.c` | one for each call, the GPU beside them |
| `Device` | `../nvidia/nv.c`, `nv-frontend.c`, `nv-instance.c` | steps end where a lock is taken or an interrupt could tell the difference |
| `DeviceMemory` | `../nvidia/nv.c`, `nv-vm.c`, `nv-mmap.c`, `nv-dma.c`, `os-mlock.c` | one for each call of RM, mapping and file operation |
| `P2P` | `../nvidia/nv-p2p.c` | one for each call and each way out of it |
| `Modeset` | `../nvidia-modeset/nvidia-modeset-linux.c` | one for each holder of `nvkms_lock`, timer callback and work item |
| `Drm` | `../nvidia-drm/`: drv, modeset, crtc, encoder, connector, utils | one for each commit, flip, event and work item |
| `DrmGem` | `../nvidia-drm/`: gem, fb, mmap, linux | one for each reference taken or dropped |
| `KthreadQ_proofs`, `TrackingSemaphore_proofs`, `PushPipeline_proofs`, `FaultIsr_proofs`, `PageFaults_proofs`, `Drivers_proofs`, `LockOrder_proofs` | theorems | |
| `MC_*` | instances for TLC | |

Definitions keep the names of the functions they translate. `PROJECT.json` maps each that has lines of its own to them;
helpers whose lines lie within another definition's are not listed again.

Nearly every module has a `setup`, chosen in the initial state and never changed, that says who takes part, which steps
may fail, and which of the windows described in section 5 are open. A model contains the code's behaviour in all setups;
a run names the ones it explores.

### KthreadQ

`q_list`, `q_sem` and `main_loop_should_exit` are the fields of `nv_kthread_q_t`. The flush item, which
lives on the stack of the flushing thread, is named by that thread. The client is the one the self test
describes: callbacks that may requeue, and a `stop_rescheduling` flag raised before the stop. The variable
`owed` is history: when a flush starts, the runs it must wait for, of the item in its callback (`current`) and of
those queued (`first`), and later of the ones their callbacks queue (`second`), which is what the comment above
`nv_kthread_q_flush` promises and why it flushes twice.

### TrackingSemaphore and CompletionSpec

`PayloadRange` stands for 2^32. `released` is the value the GPU has reached, at full width; only
`payload`, its remainder, is visible to the driver. `Window` bounds how many pushes may be pending,
as the GPFIFO ring does (`uvm_channel_end_push` can queue a value only with a free entry).

### PushPipeline

The state is that of `uvm_channel_t` (ring indices, `current_pushes_count`, next push_info), of
`uvm_pushbuffer_t` (maps, chunks, the semaphore) and of the GPU. A push is one of `PushSizes`. `HeldChunks`
lets some chunks be in use by pushes of another pool throughout. `FailingChannels` may hit an RC error at
any time, after which the fatal error ends every loop. `ToolsEnabled` adds the on_complete callbacks.
Inline data, the choice of a copy engine and the text of errors are left out.

### VaBlock

A page has, for each processor, residency, a permission and the processor its PTE points to, and a value
for each copy. User threads (`UserWrite`) store through any writable mapping between any two steps, so a
store that lands in a copy about to be thrown away is a lost value. A `setup`, chosen in the initial state,
says which GPUs are peers (and by which link), which operations and policies the users may call on, and which calls
may fail; the operators that compute the derived processor masks are translated from `uvm8_va_space.c`.
Simplified: all GPUs can fault; the VMA is writable; a chunk spans the block; thrashing hints are off; the
test flag `UVM_MIGRATE_FLAG_SKIP_CPU_MAP` is left out; a push takes effect where it is issued, since the
tracker of the block orders it before whatever depends on it; policies change while the block lock is free.

### Pmm

A chunk is its path under a root. The variables are the chunk states, the four kinds of list, the pin count
and `in_eviction` flag of each root, PMA's view of each root, the locks, and what each thread is doing.
Clients populate, kill, split and touch VA blocks and allocate, evict for and free page tables; PMA's
thread calls `uvm_pmm_gpu_pma_evict_pages` and `_evict_range`. A `setup` is chosen in the initial state: which
calls each thread makes, which steps may fail, which roots PMA has free.
Simplified: trackers and bit locks are left out; a section under `list_lock` is one step; walks over a
tree that only commuting steps can interrupt are one step; the split of an allocated chunk is one level under
the mutex; a PMA page is a root chunk. PMA is external: it serialises its callbacks and refuses to pin in a
range it is evicting.

### FaultIsr

One physical GPU, added and removed any number of times, each time with a new `uvm_gpu_t` at one of the addresses
`Objects`. RM may call the top half at any moment while the GPU is in the table (more often than the hardware
interrupts: the line is shared), and there is one top half at a time, as the comment in `uvm8_isr_top_half` says. The
top half takes `gpu_kref` and, if it finds faults, `isr_lock`, and leaves both to the bottom half, an item on the GPU's
work queue. Threads that retain the GPU flush its fault buffer; a thread that removes another GPU waits for this one's
replay tracker with the global lock held. `retained_count` reaching zero starts `remove_gpu`, stage by stage, with
interrupts still arriving; `add_gpu` may fail before the interrupt is taken over (`"init"`), at the creation of
the work queue (`"queue"`) or later (`"register"`), and then ends in `remove_gpu` too. Whether faults are pending
and what `service_fault_buffer` does with them is left open: any answer, any finite time. `nv_kthread_q_stop` is used by
what `KthreadQ` shows of it (`StopDrains`).

### PageFaults

`Requests` are the accesses the GPU will make: a uTLB, a VA space, a page, an access type, and whether the hardware calls
the fault fatal. A `setup` chosen in the initial state says which of them are made, under which replay policy, how
often a batch may run out of memory or a page be throttled, and what the threads destroy.

The GPU is external, modelled from how the driver uses it. A request that finds no mapping takes the slot at PUT, whose
valid bit appears later and in any order, and stalls; when the ring is full it stalls without an entry (`"dropped"`).
A replay wakes every stalled request, which then succeeds or faults again. `START_ACK_ALL` ends when all have, and leaves
the uTLBs with faults in lockdown (`uvm8_gpu.h:67`); a targeted cancel ends what its uTLB has stalled, after which RM resets
the channel. A prefetch does not stall.

The driver's side has the names of the code: `cached_get` and `cached_put`, `fault_cache`, the records of the uTLBs, `va_space`
(whose lock is held in read mode while a batch is serviced, so that threads that need it in write mode wait). `mode` tells
service_fault_buffer's loop from cancel_faults_precise's. `fatal_utlbs` are the uTLBs with `num_fatal_faults > 0`. A
block's part in servicing is reduced to `mapped`, the level of access of each page; `VaBlock` has the rest.

A channel goes through stop, detach, the flush of its deferred free and the release of its instance pointer, which
`uvm_register_channel` may get again; `channel_gen` and `range_gen` are history: they tell an entry of the old channel or
range from the new one's. Simplified: each VA space has one channel; pushes do not fail; two pages make a block.

### VaSpace and Ranges

`VaSpace` has the masks of `uvm_va_space_t` (registered, faultable, the `can_access` and `can_copy_from` families),
the list of `uvm_gpu_va_space_t` objects, user channels with their instance pointers, external maps, and three kinds of
reference: `retained_count` of GPUs, `registered_ref_count` of pairs of peers, and the krefs of objects whose lock was
dropped. Every two-section call (`uvm_va_space_register_gpu`, `uvm_va_space_register_gpu_va_space`,
`register_channel`, the unregisters and `uvm_va_space_destroy`) runs with any other between its sections. RM's view of the
objects is external.

`Ranges` keeps ranges as records `[start, end, pref, acc, lite, vma]`, blocks and range-group spans as sets beside them, and
which processor has each page. `uvm_va_range_split` and the destruction of a range are operators on that world, used by mmap, vma splits,
policies and zombies alike. The first split of a policy can fail, or the second, and so can a `uvm_mmap` whose address is taken.
Migrations under the read lock go block by block (`rgCall`), and faults, other migrations and group calls run in between.
`SplitNeeded` and `SplitSpan` are the predicate and the two splits that every policy call shares
(`uvm8_policy.c:32`, `uvm8_va_range.c:1450`). The
red-black tree is a set of intervals; its own operations are sequential and tested by the driver.

### ExternalMap, PageTree, BlockPtes, Swizzle

`ExternalMap`: RM hands out PTEs a buffer at a time; the buffer is used again while addresses advance by page-table range and by
push; failures leave through the cleanup, which first waits for the pushes in flight. The GPU executes them in the order
of the channel, or between channels in any.

`PageTree`: three levels. A thread that needs a directory releases the tree's lock for the allocation, which may evict, and
then finds the tree as others have made it. The GPU side has the memory as last written, the entries its walker has cached and a
queue of pushes; `bad` is set when it walks something that is not a directory. Memory that is freed is written over by
whoever gets it next, once the tree's tracker has completed (`page_tree_tracker`); with `sys` set it is system memory,
which does not wait (section 5).

`BlockPtes`: the driver's record of a block's PTEs for one GPU (`pte_is_2m`, `big_ptes`, the 4k bits, which tables are
active) against the GPU's memory and its TLBs, for one page, `bpWatch`, which is any page. An operation decides new sizes and
permissions at once, and pushes clears, invalidates and writes, which the GPU executes step by step, filling its TLB in between.
Tables may need the lock dropped (`retry`).

`Swizzle`: Kepler GPUs keep a big page in memory swizzled while a big PTE maps it. The data's format is state
(`"pitch"` or `"swizzled"` for each page of each memory), changed by copies through the staging buffer. `Missed` exempts the GPU of
section 5 that the code does not unmap. Pushes of one GPU execute in order, those of two GPUs wait for each other only as the
trackers say; with `mixed`, a mapping over several memories is several pushes with no order among them (section 5).

### GpuSetup, DriverMem, ModuleLoad

`GpuSetup`: `add_gpu` as a sequence of named steps, each of which may fail, into `remove_gpu`, which looks at what is there.
Semaphore pages are mapped on all GPUs of the table; a new GPU maps all existing pages and its own pools' on all others. A
channel of a removed GPU leaves no entry in anybody's tracker. `pick_ce_for_channel_type` is modelled with its scores and usage
counts. Peer access is the sequence of RM's object, capabilities and two identity mappings, with `late` and `unpeered` opening the two
failures of section 5.

`DriverMem`: memory of one chunk size, a range of the VA with alignment, and mappings on GPUs by `uvm_page_table_range_vec_*`,
split into pushes by entries written or ranges cleared.

`ModuleLoad`: `uvm8_init` and `uvm_not8_init` as the sequences of steps they are, `held` the set of what was acquired; every
failure except `MlUnhandled` (those of section 5) takes the way out of the function it happens in. HAL tables are
filled from their parents. `UVM_INITIALIZE` races with itself on one file.

### Tools, Thrashing, Prefetch, Tracker, LockOrder

`Tools` explores one of three parts that share no state: the event queue with its four indices and a polling reader; trackers,
subscriptions and callbacks; records of migrations, counted per channel and freed on completion. `missed` records the
lost wake-up of section 5.

`Thrashing`: stamps are ages up to `ThOld`, which keeps time finite. Fault servicing asks for a hint per page and applies it
(pin, throttle, or none), then its migrations and revocations are events, then pages are mapped; between batches time passes.

`Prefetch`: the tree is the set of its leaves that will be at the destination, and a node's counter the number of those below it. One
action is one batch of any faulting pages, with its hint.

`Tracker`: `tkTold` is history, everything a tracker was ever told; GPUs complete values in order. `TkFirst` stands for the
8 entries of the first dynamic allocation.

`LockOrder`: the bitmaps of `uvm_thread_context_t` and `__uvm_record_lock_*`, over the locks of UVM's API, of RM and of blocks. A
call the tracking refuses is not made. RM's thread holds RM's GPU lock while it waits for the fault to be serviced, as the comment in
`uvm8_lock.h` describes. A call is one lock or two in order, as every wrapper of `uvm8_va_space.h` and `uvm_rm_locked_call` is.

### LiteStreams, LiteProcess, LiteChannel

`LiteStreams`: one mapping and one GPU. Commit records and their splits, the stream tree with its cache of one, dirty and
cached pages, the mode of the stream, and two copies of each page's data. Failures of migrations make `liteFailed` true, after
which only the bookkeeping is promised.

`LiteProcess`: a process's migration tracker, its own or an MPS server's, and what a GPU's stop does to all of them; debug
sessions that hold another process's containers. `window`, `order`, `late` and `removes` open the four races of section 5.

`LiteChannel`: a manager per GPU with its ring buffers, channels and lists of submitted pushbuffers; range trackers that order the
pushes of several managers; semaphore pools, shared between managers by duplication. Semaphores count modulo `LcWrap` and
pushes are named by channel and sequence number.

### Device, DeviceMemory, P2P, Modeset, Drm, DrmGem

`Device`: each GPU has the flags and counts of `nv_linux_state_t`, and whether its interrupt line, MSI, stacks, bottom half and RC
timer exist. Threads open and close through files, by gpu_id and by UUID (`nvidia_dev_get`, `nvidia_dev_get_uuid`), each step under
`ldata_lock`, the devices' lock or the frontend's; the loader runs the module's and PCI's entry points. Interrupts come whenever the line is
requested. RM is external: it starts, stops and may keep a GPU in its persistent state.

`DeviceMemory`: three setups. Pages: allocations in rounds, memory types, low pages that are dropped, submaps. User: pinned pages
and mappings of two processes with fork. Events: the queue and poll.

`P2P`: the third-party driver calls get, put and the DMA calls in any legal order; RM revokes at any time.

`Modeset`: the core runs under `nvkms_lock`, in a system call or in the work of a timer. Timers pass from the kernel's timer to
the workqueue to the core; module exit runs beside them.

`Drm`: commits check, swap and queue; a work item applies them to NVKMS and waits for flips. Hotplug and flip
events come through a work item. Two commits may overlap in time when they are asynchronous. EDIDs are counted objects shared by an
encoder and a connector; the user may override the connector's through DRM's debugfs (`override_edid`, external), which changes what a detection and the
next display event do. `stale` is history: whether an encoder has kept a pointer to an EDID it gave back (finding 4).

`DrmGem`: who refers to a buffer is state; a lookup holds a reference for its duration. `meet` lets a handle be closed
under another thread's lookup (section 5).

## 3. The runs

| run | instance | shows |
|---|---|---|
| `waiting` | `KthreadQ`: 1 item, 2 callers. `TrackingSemaphore`: payload of 3 values, window 2, 6 pushes, 2 waiters. `FaultIsr`: 3 threads, 2 objects, every failure of `add_gpu`. All fair | `SemaphoreCountsItems`: semaphore and list agree in every interleaving. `FlushWaitsForItems`, `StopDrains`: what a flush waited for has run, a stopped queue is empty. `WorkCompletes` (liveness): a scheduled item runs, a flush returns. `ToldIsReleased`, `ImplementsCounter` (refinement of `CompletionSpec`), `WaitReturns` (liveness). `LockHandedOver`, `InterruptsFollowHolders`, `RemovedIsQuiet`, `KrefExact`: the lock, the disable count and the references are exact while a GPU is removed under interrupts. `CallsReturn` (liveness): no deadlock between removal, bottom half and waiters |
| `push_ring` | 1 channel of 4 entries, 2 chunks of 2 pushes, 2 threads, channel errors | `RingExact`: the ring holds what was reserved, no two unfinished pushes share bytes. `ChunkMapsExact`. `TracksCompletion`: the driver's view follows the GPU |
| `push_live` | 2 channels of 2 entries, 1 chunk, callbacks, fair | `PipelineMoves` (liveness): every begin, end and update returns; a thread past the semaphore finds a chunk |
| `push_unlisted` | 1 channel | **violation** of `CompletedEntryIsListed` |
| `block` | `VaBlock`: 2 pages with batches, prefetch and migrations between GPUs that are no peers; 1 page under policies with NVLink peers, with read duplication, with failing copies. `Swizzle`: 2 GPUs, 2 big pages, 3 operations, 1 pending push | `DataCoherent`: no store is lost and every PTE points at a valid copy its processor reaches. `PoliciesKept`: duplication is exact, atomics exclude other writers. `SwizzleExact`: no access meets the wrong format, and what was recorded is mapped in the end |
| `memory` | `Pmm`: 2 roots of 2 subchunks, 2 blocks, 2 clients and PMA, 6 scenarios. `PageTree`: 2 threads, 5 directories. `BlockPtes`: 5 pages, 3 operations. `Tools`: 4 entries, 2 trackers, 2 migrations. `Tracker`: 2 trackers, 2 channels. `LockOrder`: 3 threads, 2 blocks, RM | `ChunksOwned`, `ChunksBooked`, `PmaToldTheTruth`; `PageTablesExact`; `ToolsInformed`; `TrackersAnswer`; `LocksExact`, which includes the absence of deadlock among accepted acquisitions |
| `address_space` | `VaSpace`: 2 GPUs, 1 channel, 2 threads. `Ranges`: 2 pages, 1 group, 2 threads or accessed-by; and policies on the middle pages of a range of 4 pages in 2 blocks | `AddressSpacesExact`: references, bindings and reach are exact, ranges tile, a page off its group's list is settled. `PolicyWithinSpan` (action property): a policy changes nothing outside its span, also when its second split fails after the first |
| `drivers` | the 15 smaller modules, in the setups of `MC_Drivers` | `LiteDriverExact`; `UvmSetupExact`, `HeuristicsExact`; `DevicesExact`, `FilesExact`, `P2PExact`; `ModesetExact`, `DisplaysExact`, `GemExact` |
| `page_faults` | 6 requests of 2 uTLBs and 2 VA spaces in 12 setups, a ring of 3 entries, batches of 2, fair | `BufferExact`: GET, cached PUT and valid bits agree, and no stale entry is serviced for a new channel or range. `CancelledInLockdown`: the precise cancel of a uTLB that still is in lockdown spares requests that are not fatal, and with one channel of replays every cancel does. `EveryFaultResolved` (liveness): nobody stays stalled |
| `fault_lost` | 3 requests, batches of 1, a batch out of memory after a precise cancel | **violation** of `EveryFaultResolved` |
| `cancel_two_channels` | 3 requests, one of them fatal, replays on 2 channels | **violation** of `OnlyFatalCancelled` |
| `edid_counts` | `Drm`: 1 commit, 2 displays, 3 EDIDs, every setup in which connected displays stay connected | **violation** of `EdidsCounted` |

`waiting`, `block`, `memory`, `address_space` and `drivers` compose modules that share no state: the variable `part` says which one
runs, and the others rest in their initial state. That is a way of checking many modules with one run, not a claim about
their interaction. The composed property of a part is a conjunction of the module's own properties, which are
defined and commented in the module:

| property | conjuncts |
|---|---|
| `DataCoherent`, `PoliciesKept` | `DataPreserved` (with the type invariant), `MappingsCoherent`; `DuplicationRecorded`, `AtomicsExclusive` |
| `SwizzleExact` | `block_check_mappings_swizzling` (the code's own assertion), `ReadsRight`, `MappedAsRecorded` |
| `ChunksOwned` | `ClientsOwnTheirChunks` |
| `ChunksBooked`, `PmaToldTheTruth` | `BooksExact`: `ListsExact`, `CountsExact`; `PmaExact`: `PmaAgrees`, `RangeEvicted` |
| `PageTablesExact` | `PageTreeExact`: `DirectoriesCounted`, `RangesReachable`, `WalksDirectoriesOnly`; `BlockPtesExact`: `TranslationsAsAsked`, `OneSizeCached`, `LargePtesUniform` |
| `ToolsInformed` | `ToolsExact`: `QueueIntact`, `SubscribersServed`, `MigrationsFreed` |
| `TrackersAnswer`, `LocksExact` | `TrackersExact`: `NothingLost`, `NothingElse`, `WaitedFor`; `NoDeadlock`, `ContextsExact`, `NestingAccepted` |
| `AddressSpacesExact` | `VaSpaceExact`: `GpuReferencesExact`, `BoundChannelsLive`, `ReachIsExact`; `RangesExact`: `RangesTile`, `OffTheListIsSettled` |
| `UvmSetupExact` | `ModuleExact`: `LoadedOrNothing`, `CalledPrepared`, `TablesResolved`, `FlagsAgreed`; `GpusExact`: `ResourcesStand`, `NothingLeft`, `SemaphoresMapped`, `SemaphoresOwned`, `TrackersNameChannels`, `PeersMapped`, `EnginesShared`; `DriverMemExact`: `SpacePartitioned`, `MappedWhole`, `UnmappedFirst`; `ExternalExact`: `MappedThroughout`, `WritesLand`, `BufferFits` |
| `HeuristicsExact` | `ThrashingExact`: `MaskExact`, `ThrottledThrash`, `PinsFollowed`, `ThrottlingPaired`, `DataListened`; `PrefetchExact`: `TreeFits`, `HintApart` |
| `LiteDriverExact` | `LiteExact`: `LiteCoherent`, `LiteStreamsExact`; `LiteProcessesExact`: `TrackersLive`, `ContainersHeld`, `ListenersLive`; `LiteChannelsExact`: `RingsIntact`, `EntriesKept`, `ListsKept`, `RangeOrdered`, `PoolsApart` |
| `DevicesExact`, `FilesExact` | `DevResourcesExact`, `UnloadedHoldsNothing`; `MemoryExact`, `EventsReported` |
| `ModesetExact`, `DisplaysExact` | `TimersExact`, `UnloadedRunsNothing`; `CommitsSerialized`, `ShownIsRequested`, `EdidsCountedUntilStale`, `DrmQuietWhenGone` |

Deadlock is checked where the system never stops: `Pmm`, `VaBlock`, `LockOrder` and the models of queues, semaphores, pushes and
interrupts must always have a step. It is not where the actors may all be done: `page_faults`, `fault_lost` and `cancel_two_channels`, whose requests are
finite, and `drivers`, `edid_counts`, `address_space` and the other parts of `memory` and `block`, whose operations are bounded.

Each property has a mutant: a plausible mistake in the code under which TLC finds the property violated.

### Bounds, and why they are enough

- One item that requeues itself and two callers: the list reaches three entries (the item and two flush
  items), every pair of the actors' sections interleaves, and the theorem covers the rest.
- Payload 3 and 6 pushes: the payload wraps twice, the second time with `completed_value` past the first
  wrap; window 2 is the largest a payload of 3 can tell apart.
- The ring of 4 entries wraps; a chunk of two pushes is empty, half full, full, wrapped, and left with a hole
  when the pushes end out of order. Two chunks are the least for which idle and available differ.
- One page is enough for properties that relate the processors' views of one page; two pages where the code
  counts pages or treats a batch (`block`). Two GPUs and the CPU give every pair of source
  and destination.
- One root shows every race on a tree; two roots are needed for the choice of a victim, for a range, and for
  giving one back while another is taken. One level of splitting is checked. `MaxQueued`,
  `MaxToComplete` and `PushSizes` bound the push models.
- Three threads: one removes or retains, one holds `isr_lock`, one waits. Two objects: the top or bottom half may
  still hold a reference to the old one while the GPU is added again. The theorems cover any number of both.
- A ring of 3 holds two entries, so that it fills, wraps, and drops; a batch of 2 is cut short by an entry that is not
  valid yet. Two uTLBs are the least for which a cancel of one must spare the other, two VA spaces the least for which the
  lock changes within a batch. `MaxBatches` 2 and `MaxThrottle` 1 are both reached. Replays are pushed on one channel, or on both channels
  of the pool; `MaxReplays` bounds the replays pending on one.
- `VaSpace`: two GPUs are a pair of peers and two big page sizes; two threads put any call between the sections of another.
  `Ranges`: with ranges of one or two pages a span is the whole range, half of it, or more than it, among mmaps, vma splits, groups, migrations and
  faults; with four pages in two blocks it lies strictly inside, so that a policy splits the range and both blocks at either end, and the
  second split may fail after the first. A span that crosses the border of two ranges without covering either is left out.
- `PageTree`: two threads want the same directory, or one above a 2M entry of the other's; a third level (`PtMaxGets` 2) makes them
  give it back and get it again. Five pieces of memory are fewer than the gets want, so that freed ones are used again.
- `BlockPtes`: an edge page, two big pages of two pages: every case of aligned, partial and uncovered regions; `BpMaxOps` 3
  splits, merges and splits again. An operation begins when the one before has been executed (`BpMaxQueue` 0): pushes of one block
  are ordered by its tracker. `Swizzle` lets one push be pending (`SwMaxPushes`).
- `Tools`: 4 entries and 6 events wrap the ring, fill it and drop; thresholds of one to three entries.
- `Tracker`: the first allocation has 2 entries (`TkFirst`), so that a merge grows it, fails and falls back.
- `LockOrder`: a deadlock needs at least two threads and two locks; RM's thread and the bottom half are the other parties the
  comments of `uvm8_lock.h` speak of.
- `Device`: 1 GPU with every failure and persistence, 2 GPUs with opens by the loader's other modules (`DevMaxOpens` 2: the last close
  meets an open). `DeviceMemory`: 4 pages of which some are low, submaps of one page, two processes, `MemMaxEvents` 2.
- `GpuSetup`: pages of 2 semaphores and up to three GPUs (`GsMaxRefs` 3), so that pools grow beyond a page and a third GPU finds
  the mappings of two. `Thrashing`: thresholds of 1 of 3 events, lapse 1 and epoch 2 are the smallest that differ; 4 batches reach
  the second reset (`ThMaxResets` 1). `Prefetch`: every alignment of a block against big pages of 2 and 4, 2 batches.
- `LiteChannel`: a ring of 5 with reservations of 3 wraps with a remainder; a GPFIFO of 3 fills; three pushes (`LcMaxSeq`) against semaphores that
  wrap at 4; `LcMaxPools` and `LcMaxMem` are both reached.
- `LiteStreams`: 2 pages, so that a span splits a record; `Drm`: two commits, synchronous or not, and three EDIDs of two displays that are plugged, unplugged and overridden; `P2P`: tables of two pages, whose
  allocation can fail at each of its steps; the other modules' objects are never used twice, so two of them are every pair.

### Fairness

- `KthreadQ`: weak fairness of the kthread and of each caller inside a call. The kernel schedules runnable
  threads; a semaphore or completion, once up, stays so until its waiter takes it. Calls themselves are not
  fair: nobody has to call.
- `TrackingSemaphore`: weak fairness of the GPU and of each waiter; strong fairness of taking the spin
  lock, since the kernel's ticket locks are FIFO.
- `PushPipeline`: weak fairness of the GPU on each channel; strong fairness of each thread within a call, for
  the same reason (spin locks and semaphores are FIFO). Run without channel errors: after one, loops
  end through the fatal error.
- `FaultIsr`: weak fairness of the top half once called, of the queue's thread, and of a thread inside a call; strong
  fairness of getting `isr_lock`, since a kernel mutex wakes its waiters in order. No fairness of interrupts or of calls.
- `PageFaults`: weak fairness of the bottom half, of the interrupt while faults are pending (the driver enables it again
  in `uvm_gpu_isr_unlock`), and of the GPU: replayed requests, valid bits, replays. None of the threads or of new requests. The bottom
  half's spin loops wait for valid bits, its trackers for replays.
- The other runs check safety only, and no fairness is assumed in them.
- The GPU is assumed to finish what it is given; a hung GPU raises an RC error, which is a step of
  `push_ring`.

## 4. What is proved

For every number of items, callers and threads, every payload width and every window smaller than it:

- `KthreadQ_proofs!TypeCorrect`: `QueueSpec => []QueueTypeOK`.
- `KthreadQ_proofs!SemaphoreExact`: `QueueSpec => []SemaphoreCountsItems`. Units of `q_sem`, callers between insertion
  and `up()`, and the wake-up the kthread has consumed match the queued items one for one. Inductive invariant:
  `QueueTypeOK /\ FlushShape /\ SemaphoreCountsItems`. `FlushShape` says which threads can be flushing and with how many
  rounds left; without it the type of `rounds` is not preserved. The heart is `UpsMove`: how
  the cardinality of the set of actors about to `up()` changes when one actor moves.
- `KthreadQ_proofs!FlushIsThorough`: `QueueSpec => []FlushWaitsForItems`, and `StopLeavesNothing`: `QueueSpec => []StopDrains`. The
  invariant is `QueueInv`: the one above and `CallShape` (who can be in which call), `FlushItems` (a
  flush item is queued, running or completed, one of the three, exactly while its thread waits), `Debts` and `StopShape`. `Debts` ties what a flush
  is still owed to positions in the list: what it is owed of the first generation is ahead of its first flush item or
  running, what it is owed of the second ahead of its second one. `StopShape` says that once the flag is up and the first round is
  over no callback requeues, so that only the item that runs and those ahead of the second flush item are left.
- `TrackingSemaphore_proofs!WaitsAreTruthful`: `SemSpec => []ToldIsReleased`.
- `TrackingSemaphore_proofs!CounterImplemented`: `SemSpec => Counter!CSpec`, the refinement of `CompletionSpec`.
- `TrackingSemaphore_proofs!CompletedMonotonic`: `SemSpec => CompletedNeverDecreases`.
  Inductive invariant: `SemTypeOK /\ Progress /\ Locked /\ InUpdate /\ ToldIsReleased`. `Progress`: `completed_value`
  is at most `released`, which is less than a payload period ahead. `Locked`: only the lock holder is in an update.
  `InUpdate`: the payload it read belongs to some value between `completed_value` and `released`. The arithmetic is
  the lemma `ExtendExact`: extending the remainder of `g` from any `c` less than a period behind gives `g`.

- `PushPipeline_proofs!RingAndMethodsSafe`, `ChunkMapsTrue`, `CompletionTracked`: `Spec` implies `[]RingExact`, `[]ChunkMapsExact` and
  `TracksCompletion`, the refinement of `CompletionSpec` by every channel with `Window = numGpFifoEntries - 1`. All three come from one inductive
  invariant, `PipeInv`; none of the three is inductive, nor are the three together. Its parts:
  - `RingShape`: an entry's value follows from its age (`Age`, how many pushes ago it was written), and the driver knows that every entry it has given
    back is complete, so that an entry the GPU has not executed is in the ring (`UnfinishedInRing`).
  - `HoldersShape`, `AdmittedShape`: reservations are counted by `current_pushes_count`, threads past the semaphore by its units. Both are
    inequalities, because a reservation may be lost after a channel error (section 5).
  - `ListShape`, by `Laid`: the extents on a chunk's list lie within the chunk, apart, and in cyclic order around it. Order is what makes
    `update_chunk` right in looking only at the first and the last entry: `SpaceFits` shows that where it finds space a push of the largest size fits
    and comes last around the ring. Removing an entry from the middle (`LaidRemove`) and adding the one that was written (`LaidAppend`) keep it.
  - `MapShape`: an available chunk has such a place at `next_push_start`. That a chunk marked available stays so when an entry in the middle of its list
    is completed is `Fits` of a shorter list.
  - `PushShape`: a thread that has a chunk has it alone, and the place it was given stays free however its neighbours complete.
  - `Traced`: a pending entry is listed, or its thread is between `uvm_channel_end_push` and `uvm_pushbuffer_end_push`. The second case is
    the window of finding 1: in it an update follows links that are not there (`oops`), after which the model stops; nothing is claimed of what
    the code does then.

- `FaultIsr_proofs!LockIsHandedOver`, `InterruptsExact`, `ReferencesExact`, `RemovalIsQuiet`: `IsrSpec` implies
  `[]LockHandedOver`, `[]InterruptsFollowHolders`, `[]KrefExact` and `[]RemovedIsQuiet`. The inductive invariant `IInv`
  adds to the first three the types and four facts: `RetainInv` (`retained_count` is the number of threads that retain),
  `UseInv` (who can be in which call: a thread works with the object in the table, or holds the global lock, and one that
  removes is alone), `HandleInv` (an object handles faults only while it is in the table or about to be muted, so at most
  one does) and `TopInv` (the top half names an object exactly while it runs). The counting is in `Join`, `Leave` and `Stay`: how the set of
  holders, the count and the interrupt move together when an actor comes, goes, or something else happens.

- `PageFaults_proofs!FaultsAreAttributed`: `PfSpec => []BufferExact`, in every setup and for a ring and batches of any size. `BufferExact` speaks of the moment a
  fault is serviced; the inductive invariant `PfInv` says where stale entries may be at any other:
  - `PfPointers`: the distances around the ring. `PfMoved`, `PfWritten` and `PfFetched` are what a flush, the GPU and a fetch do to them.
  - `PfEntries`: an entry between GET and PUT is of the channel bound now, and while an instance pointer is released a flush that discards it is under
    way (`Discarded`). It may be of a range that is gone only if the VA space has lost the GPU, owes a flush (`needs_fault_buffer_flush`), or such a flush runs.
  - `PfFaults`: the same of the faults fetched and not yet serviced. A released channel has none, since its flush excludes a batch; and once the batch
    holds the VA space's lock (`va_space`) no flush is owed.
  - `PfGenerations`: what a setup destroys it destroys once. `PfControl`: where the bottom half is decides its mode and whether it has faults and the
    lock. `PfPending`: `num_pending_faults` is at least what is left of the batch (it may be more: section 5), so that it never goes below zero.

  `PfServed` shows this for whatever set of faults a step deals with, `PfSteady` for the steps that deal with none, `PfThread` for the
  threads. That the order in which faults are serviced has a first one (`First` is a `CHOOSE`) is `PfFirst`.

- `Drivers_proofs!TablesFreedOnce`: `P2PSpec => [](P2PRegular => P2PExact)`. `P2PRegular` leaves out the three setups in which the
  code does free too much or too little (findings in section 5: `pages`, `maps`, `early`); every other exit of `nvidia_p2p_get_pages`,
  `put_pages` and the callback is covered, for any number of tables and entries. Inductive invariant `P2PInv`: where a call stands decides what the
  table holds.
- `Drivers_proofs!BuffersLiveAsReferred`: `GemSpec => []GemExact`. Inductive invariant `GemInv`: types; `GemShape`, the counts, with the
  reference of whoever holds `struct_mutex`; and `GemKept`: who relies on a handle's reference without one of its own still finds the handle,
  unless handles may be closed under another thread's feet (`gemSetup.meet`).
- `Drivers_proofs!NothingRunsUnloaded`: `KmsSpec => []ModesetExact`. Inductive invariant `KmsInv`: types; `KmsTimerShape` (what the step a
  timer's owner or callback is at says of its memory, its list and its reference); `KmsRefShape` (the count of a reference pointer is its owner
  and the timers that carry it: `Cardinality(Pending(kmsTimer))`); `KmsOpenShape` (the power reference and the handle of each open);
  `KmsPhaseShape` (what each phase of unloading has already given up).
- `Drivers_proofs!DisplaysAreExact`: `DrmSpec => []DisplaysExact`. Inductive invariant `DrmInv`, which TLC has checked in every setup: `DrmDevShape` (what the
  phase of the device says of events, ownership and NVKMS's device); `DrmShownShape` (with synchronous commits there is one in
  its caller, and unless one fails the screen is behind what was asked for from the swap of the states to the call of NVKMS only); `DrmSound`: until a stale
  pointer is kept, `DrmCounted` (an EDID that was read belongs to one encoder and perhaps to the connector: `DrmRefs`). That an EDID has at most one encoder is what makes the cardinality in `EdidsCounted` and the loop of the destructors computable (`DrmHolders`).

- `LockOrder_proofs!LocksAlwaysExact`: `LoSpec => [](~loSetup.fails => LocksExact)`, from the inductive invariant of `LoInvariant`, `LoInv`, for any
  number of threads and of block locks. A thread whose context cannot be allocated is not tracked at all, hence the hypothesis. A thread is seen
  through three sets: the locks it has (`Mine`), those it queues for (`Queued`), those it has or wants alone (`Alone`). `LoInv` is
  - `LockInvs`: a lock held in exclusive mode has one holder, and nobody is in a queue twice;
  - `ThreadInv`: `Nested` (the locks are of different orders, the one waited for the deepest), `Ruled` (who writes the VA space has the
    serializing lock, who takes RM's GPU lock has the API lock, who calls RM does not write the VA space, and reads it under the serializing
    lock), `Todo` (what is left of the call), `Known` (the context is the one of these locks, or skips the tracking), and `BhShape`: the bottom half
    only reads the VA space and takes block locks;
  - `RmInv`: RM's thread has or wants the GPU lock only, and alone.

  `Ruled` without `Todo` is not inductive: between its two locks a call has the first without what the first is for.
  A set of threads that wait for each other (`Stuck`) is shown to be empty from the deepest lock up. `FirstWaiter`: if one of them queues for a lock,
  the first of them in that queue waits for a holder among them, who in turn queues for a deeper lock (`StuckQueues`). So nobody queues for a block lock;
  nobody for the VA space lock (its holder would be in RM and so a reader under the serializing lock, the waiter a writer, who has that lock
  too: `NobodyAtVaSpace`, the one place where the rules about RM are needed); then the bottom half waits for nothing; hence
  RM's thread has no GPU lock it keeps; hence nobody queues for the GPU lock, the API lock, the serializing lock, in this order.

Assumptions: `LoAssumption` (the bottom half is one of the threads and RM's thread is not; block locks are not the four others), `FaultIsrAssumption` (finitely many threads, distinct from the names of the other actors), `P2PAssumption`,
`GemAssumption`, `KmsAssumption` (finite sets, names that are none of their members), `DrmAssumption` (NULL is no commit and no display, a number of EDIDs, what a setup is),
`PageFaultsAssumption` (what requests and setups are made of, pages and VA spaces are numbers, a ring of at least two entries and no batch larger than the ring),
`KthreadQAssumption` (finite, disjoint sets), `TrackingSemaphoreAssumption` (`Window < PayloadRange`:
the driver has at most a thousand entries against 2^32), `ChunkRingAssumption` (the largest push fits a chunk) and
`PushPipelineAssumption` (some channel, some entries and chunks, pushes not larger than the largest, a ring no larger than the payload's range).
The bounds `MaxQueued` of the models only stop new calls; the proofs do not use them.

Only model-checked: every liveness property, the pipeline's included (the prover has no `ENABLED` and no induction on time), and every
property of the modules not named here, and of `PageFaults` the action property `CancelledInLockdown`. The runs
`block`, `address_space`, `memory` but for LockOrder, and `drivers` but for P2P, Modeset, DrmGem and Drm, therefore show what they show for their instances. `VaBlock`'s `DataCoherent` would need an invariant for every stage of every
stack of calls, where the model keeps the code's stack as a sequence; it stays with TLC. Facts that need induction over
data (sums of a list, walks of a tree of any depth, the numbers of the prefetch tree) stay with TLC.

## 5. Findings

With a run that shows it:

1. `push_unlisted`: `uvm_channel_end_push` publishes an entry before `uvm_pushbuffer_end_push` puts it on its
   chunk's list; another thread can complete it in between.
2. `fault_lost`: `utlb->cancelled` is reset only by the precise cancel's own refetch. A uTLB it cancelled earlier is
   skipped by a later `cancel_fault_batch`, and if an earlier batch was replayed no last replay is pushed: the request of
   the failed batch stays stalled, without an entry in the buffer.
3. `cancel_two_channels`: `push_replay_on_gpu` does not acquire the replay tracker, and `uvm_channel_reserve_type` takes whichever of the
   pool's two channels (`uvm8_channel.c:39`) has a free entry. A `START` that was pushed on one channel may run after the `START_ACK_ALL` that the precise cancel
   pushed on the other, and end the lockdown that `try_to_cancel_utlbs` relies on (`uvm8_gpu_page_fault.c:1305`): a request that arrives then is
   cancelled for another's fault. `CancelledInLockdown`, which `page_faults` checks with one and with two channels, says that this is the only way.
4. `edid_counts`: `nvidia_enocder_update_dynamic_information` gives the encoder's EDID back, and replaces the pointer only if the display is connected and
   its EDID not overridden (`../nvidia-drm/nvidia-drm-encoder.c:185-210`). The run overrides the EDID of a connected display; a display that is disconnected shows the
   same. The pointer is then to an EDID that is freed as soon as the connector gives its reference back, and is released again later. `Drm` keeps the pointer as the
   code does; `stale` remembers it, and `EdidsCountedUntilStale` says that the counts are exact until then.

Met while modelling. Those marked (m) are steps of the models, and the named invariant is violated when it is
checked with the instance or in the setup described; no run is kept for them.

Pushes, blocks, PMM, faults:

- (m) The cleanup of a failed eviction frees every pinned chunk under the root, those of other threads too
  (`ClientsOwnTheirChunks` when evictions may fail in two threads; `uvm8_pmm_gpu.c:1385`).
- (m) `uvm_channel_reserve_type`: a claim that succeeds after a channel error was seen is forgotten
  (`CountsOngoingPushes` of `PushPipeline`).
- (m) push_infos are assigned in the order pushes begin and freed in the order they complete, so one in
  use can be given out again (`PushInfoIsFree`).
- (m) `block_copy_resident_pages`: staging memory that runs out half way leaves pages in the CPU copy only, marked as
  elsewhere (`DataPreserved` without its `CopiesSucceed`).
- (m) `uvm_va_block_make_resident_read_duplicate`: the status of a failed revoke is overwritten by
  `uvm_tracker_add_tracker_safe` (`WritableMeansOneCopy` in a setup with read duplication and `"revoke"` among the failures).
- (m) `uvm_va_block_migrate_locked` maps the whole region with the highest permission, so a page that stays mapped
  with atomics elsewhere gets two atomic mappings (`AtomicsExclusive` without its condition on `"migrate"`).
- (m) `uvm_pmm_gpu_pma_evict_range` sets `in_eviction` without the mutex, in the middle of a merge of deeper
  chunks (`PinsExact` with `Depth = 2`; the assertion at `uvm8_pmm_gpu.c:2139`).
- The same function, when it times out in the round in which it started an eviction, returns with
  `in_eviction` set and nobody to clear it.
- A copy that fails leaves read-duplicated pages unrecorded until the next operation.
- The comment at `uvm8_va_block.c:2093` speaks of a case that cannot happen: `can_copy_from[gpu]` never holds the CPU.
- (m) `block_copy_resident_pages_mask` counts pages that were staged though the destination had them, and stops before it
  has reached another page, which is marked resident with no data (`DataPreserved`; two pages, read duplication,
  migrations, GPUs 1 and 3, 2 and 3 peers and a fourth outside).
- (m) A GPU whose work queue cannot be created is removed without giving the fault interrupt back: `remove_gpu` goes by
  `handling_replayable_faults`, which is set after the queue and not after the fault buffer (`intr_owned` of `FaultIsr` stays
  set with no GPU in the table).
- (m) `num_pending_faults` is left above zero by the path for a fault whose GPU VA space is gone and by a batch that fails,
  against the assertion of `fetch_fault_buffer_entries`; `num_fatal_faults` left by a failed batch makes step 2 of the precise cancel look
  for a fatal fault that is not there (`UVM_ASSERT(idx < prev_cached_faults)`). A uTLB above the current `max_utlb_id` keeps
  its old `prev_fatal_fault`.
- `service_fault_batch_block_locked` clears `is_fatal` of the faults of the block that the hardware called fatal, and of the fault
  of the next VA space at which its loop stops.
- A request that found the ring full and shares a run with a batch that fails after an earlier replay is replayed only when
  some later fault is.

VA spaces, ranges, page tables:

- (m) A second registration of a channel that is registered removes the first one's instance pointer
  (`uvm8_user_channel.c:469-474`; `VaSpace`).
- (m) Two concurrent calls that prevent migration of groups can undo each other, so pages that should stay are elsewhere
  (`PreventedPagesStay`, against `uvm.h:766-767`). A prevent that fails for want of a preferred location leaves the group non-migratable.
- `uvm_migrate`: a failure in a range only ends the inner loop, and a later range overwrites its status (`uvm8_migrate.c:215-235`).
- A failed split or mmap destroys a range that never was in the tree, and with it the spans of range groups at its addresses
  (`uvm8_va_range.c:852`).
- `uvm_page_tree_put_ptes` frees directories in system memory before the push that unlinks them has run (`uvm8_mmu.c:152-156`, 645-653;
  `WalksDirectoriesOnly` excludes the setup `sys`). A push that fails there leaks the range, after fatal errors only.
- (m) A block whose GPU VA space is removed and registered again keeps `activated_big`, `activated_4k` and `initialized_big`
  (`uvm8_va_block.c:6348`; `TablesActive` with the setup `again`, against `uvm8_va_block.h:147-149` and the assertion at 4827).
- (m) A table allocated with the block lock dropped can be linked, not yet initialised, by another thread's write of the PDE
  (`uvm8_va_block.c:4780-4800` with 3532; the setup `two_m` with `retry`).
- `block_gpu_big_page_change_swizzling`: the processors to unmap are those that map the big page's first page (`uvm8_va_block.c:5083`), so one
  that maps only a later page keeps its mapping meanwhile, against the comment at 5042-5052. `Missed` in `Swizzle` exempts it.
- (m) `uvm_va_block_map` pushes once per resident memory, and no push waits for the other; when pages mapped together lie in several
  memories, a push's initialisation of the big PTEs may come last (`MappedAsRecorded` with the setup `mixed`). `VaBlock` and `BlockPtes` take
  pushes to act in order.
- (m) A GPU skipped by the swizzling of one big page stays unmapped when the tables for a later one cannot be had
  (`uvm8_va_block.c:5148`; setups with tables `no` and `retry`).

GPUs, module, tools, heuristics:

- (m) `enable_peer_access` that fails after RM's object was made destroys the identity mapping of whichever peer has id 0
  (`uvm8_gpu.c:1158-1175`; setup `unpeered`).
- (m) A GPU whose work queue cannot be created leaks its fault buffer too (`uvm8_gpu.c:600-606`; the setup `late` of `GpuSetup`).
- `pick_ce_for_channel_type`: `++usage_count[best_ce]` also when no engine was found (`uvm8_channel.c:724`).
- Loading: the status of a global queue that could not be created stays `NV_OK` (`uvm8_global.c:88-92`), a session failure returns without
  cleanup (105), `if (&g_uvm_global.q_is_initialized)` is always true (185), `uvm_tools_init` leaves its caches and thread
  (`uvm8_tools.c:1592-1625`), `uvmlite_init` returns 0 when the events and counters API fails (`uvm_lite.c:2189-2205`) and leaks a cache
  on two of its failures (2245-2262), `uvm_procfs_init` tests the wrong pointer (`uvm8_procfs.c:71`), and `uvm_not8_exit` takes the channel API
  down before the character device. `MlUnhandled` are the steps whose failure is not handled, which the runs leave out.
- (m) `uvm_tools_poll` drops the queue's lock before it starts to wait: a wake-up in between is lost, and `is_wakeup_get_valid` then
  suppresses the next ones (`uvm8_tools.c:524-526`, 390). `QueueIntact` states that there is no other way to lose one.
- (m) A registration of callbacks that fails half way leaves duplicates, or events nobody gets (`uvm8_tools.c:1217-1234`, 1266-1268;
  `SubscribersServed` with the setup `fails`). Line 793 compares (`1 < id`) where a shift was meant; a failed vmap of the queue's pages returns
  `NV_OK` (241-242).
- (m) With a thrashing threshold of its maximum a page is counted twice (`uvm8_perf_thrashing.c:352-356`; `MaskExact` with threshold 3 of 3).
- (m) A batch that takes longer than an epoch frees the records under a page it has pinned, and `uvm8_va_block.c:8311` uses them
  (`PinsFollowed` with the setup `slow`). A reset drops throttling that started, without its end event; end events carry the region's
  address (368); the comment says consecutive events, but those outside a lapse do not reset the count.
- `compute_prefetch_region`'s value for "no region" is a bit after the leaves, beyond the bitmap with 512 of them
  (`uvm8_perf_prefetch.c:99-120`, 304-312).
- A tracker overwritten by itself would lose everything; a thread context that cannot be allocated loses step with the locks
  it holds. Nothing calls for either.

UVM-Lite:

- (m) `runningStreams` drifts from the number of running streams (`LiteRunningCounted`, `uvm_lite.c:1547-1553` against `uvm_lite.h`), and a
  running stream's pages may lack their data once a record was split (`LiteRunningHasData`). Splits are computed from `length` where an
  offset is meant; `uvm_destroy_included_regions` destroys nothing; the status of the events overwrites that of a failed copy
  (2972-2985, 3221-3235).
- (m) `register_mps_client` uses the server after it has dropped the list's lock (`uvm_lite.c:3622-3635`, against 112-116; setup `window`);
  a GPU's stop frees a server's tracker before it disconnects older clients (2549-2586; `order`); a process that has a tracker leaks it
  when it becomes client or server (3467, 3633; `late`); a session removed while it is being added gives its containers back twice
  (`uvm_lite_api.c:525-557`; `removes`).
- Session removal leaves event queues linked or leaked; `create_event_queue` checks the wrong pointer (`uvm_kernel_events.c:182`) and leaks on
  failure (312-340); `uvmlite_mmap` returns with `uvmPrivLock` held when memory runs out (`uvm_lite.c:1979-1983`).
- (m) `_reclaim_pushbuffers` compares progress in 32 bits (`uvm_channel_mgmt.c:1334`; setup `wraps`); the cleanup of
  `get_pushbuffer` loses a GPFIFO entry (1445-1455; `fails`); a pool that could not be created stays in the list (531-547); a
  pool's semaphores are given back before it is unlisted (554-567; `window`).

`nvidia.ko`, `nvidia-modeset.ko`, `nvidia-drm.ko`:

- (m) A GPU can be removed under its users (`RemovedIsUnused` with the setup `hot`, `../nvidia/nv.c:3262`). A persistent restart that fails frees
  the interrupt and keeps `NV_FLAG_PERSISTENT_SW_STATE` (1419-1470). A failing `nv_uvm_init` leaves PAT enabled (944-946). A probe whose
  minor cannot be had frees the device while it is listed (3208-3227). `nvidia_dev_get_uuid` never ends if a UUID cannot be read.
- (m) Two processes that unmap after the free race on the file's `free_list` (`../nvidia/nv-mmap.c:109-110`; setup `meet`). `nv_dma_map_peer`
  refuses a range that ends where the BAR does (`nv-dma.c:546`).
- (m) `nvidia_p2p_get_pages` returns success and a freed table when a page record cannot be allocated (`../nvidia/nv-p2p.c:236-240`;
  setup `pages`); a failing `dma_map_pages` frees the caller's pointer variable (447; `maps`); a free_callback that comes before
  `get_pages` returns (`early`).
- A failed registration leaves RM's callbacks (`nvidia-modeset-linux.c:1164-1168`; setup `unregistered` is what is exempted), and
  `nvkms_close_gpu` leaks the reference without a stack (703-705).
- (m) `has_pending_commit` is never set, so asynchronous commits overlap, against the comment at `nvidia-drm-modeset.c:661`: what was asked for first may
  be shown last. `CommitsSerialized` and `ShownIsRequested` speak of synchronous commits (setup `async`). `nvidia_drm_edid_alloc` uses what `calloc` returned
  without a test, though its caller has one (`nvidia-drm-utils.h:82-89`). References are dropped with `_unlocked` under
  `struct_mutex` (`nvidia-drm-gem.c:444`, `-mmap.c:170`), and `nvidia_drm_gem_new` writes to the buffer after its reference (77-79; setup `meet`).

## 6. Not modelled, and the plan

Not modelled: binary components (RM, NVKMS, GL, the X driver), packaging, bit layouts of methods and PTE formats, string tables,
procfs, wrappers of kernel services, the built-in tests, the bridges' PCI functions, and the thin forwarding to RM in
`../nvidia/nv_uvm_interface.c`. They hold no protocol of their own. Within modelled components the notes in `PROJECT.json` name
what is left out; the larger pieces are:

- `VaBlock`: removal of a GPU under resident data, and GPUs that UVM-Lite policies exclude from faults. The composition of
  `VaBlock` with `BlockPtes` as a refinement: each is checked against its own notion of what was asked.
- Errors after the global fatal error: UVM leaks on purpose then (`uvm8_map_external.c:446-452` and others).
- `LockOrder`: interrupt contexts, try-locks, semaphores and spin locks; a pair of releases is one step.
- `LiteStreams`: the loop over the children of a split record (`uvm_lite.c:624-673`).
- `uvm8_hal` tables of each architecture, copy engines and fault-buffer register layouts.

Done: the work queue, the semaphore, the push pipeline, the VA block, PMM, the fault interrupt, the servicing of faults; VA spaces,
ranges, page tables, PTEs and swizzling; GPU and module life cycles, UVM's own memory, external mappings; tools, heuristics, trackers,
lock order; UVM-Lite; the shells of `nvidia.ko`, `nvidia-modeset.ko` and `nvidia-drm.ko`.

Next, in this order:

1. Theorems: `GpuReferencesExact` of `VaSpace`; the files and devices of `nvidia.ko`.
2. An abstract map from pages to permissions that `BlockPtes` implements, and an abstract specification of fault servicing
   (a stalled request is replayed or cancelled) for `PageFaults`.
3. The removal of a GPU in `VaBlock`, with the eviction of what it holds.
