# VClinic in TLA+

VClinic runs an application under DynamoRIO and records, for the instructions
a profiler asks about, what values they touch and in which calling context.
Its core has three layers:

* `src/src/drcctlib`: a tree of calling contexts per application thread;
* `src/src/vprofile`: the buffers (vtracer) and the value traces (vprofile)
  in which operands leave records;
* `src/src/clients`: profilers that consume contexts and records.

Of the first two the parts with state of their own are modelled, of the third
the clients that keep a shadow of the application's memory. `PROJECT.json`
maps every definition to the lines it stands for. File names without a
directory are in `src/src/drcctlib` or `src/src/vprofile`.

## Inventory

| component | state | operations | hard because |
|---|---|---|---|
| calling-context tree (`drcctlib.cpp`) | per thread: root, current node, state the last block ended with; shared: the counter of context handles and the table from handles to nodes | thread start and end, the clean call before every block (`instrument_before_bb_first_instr`), the walk to the root (`drcctlib_get_cct`) | threads reserve handles and create nodes at once; long sequences of calls and returns |
| signals (`drcctlib_event_kernel_xfer`) | one saved node per thread | delivery, return | signals nest, and interrupt the building of the tree |
| cache mode of the tree | per thread: noted blocks, recorded memory references, the pointers inlined code moves | noting, recording, catching up, thread end | the tree is behind the application; everything is shifted in bounded arrays |
| splay trees (`splay_tree.cpp`) | one tree of callees per node; a dummy and a spare object per thread | `splay_tree_update` | rotations on shared scratch objects, in a loop without a bound |
| object caches (`memory_cache.h`) | pages, the current page, debris; per thread: frames | refill under a lock, hand-out without one, return at thread end | pieces change hands between threads |
| cache of block shadows (`memory_cache.h`) | the next index, the bound, the page table | `get_next_object`, `get_object_by_index` | an atomic addition, a double-checked lock and reads without one |
| block shadows (`drcctlib.cpp`) | the key of every block, the addresses of its instructions | the two analyses of a block, `drcctlib_query_slot` | the lock is released before the arrays exist |
| vtracer buffers (`vtracer.cpp`) | per thread and buffer: a pointer and the records below it; a sampling counter | estimate, check, delivery, sampling | the check is made once for a block, the records are appended without one |
| vprofile value traces (`vprofile.cpp`) | the traces and their buffers | registration, instrumentation, the call-backs that unpack records | what is counted and what is appended are written in different places |
| shadow memory (`shadow_memory.h`) | a directory of tables of pages, shared by all threads | look up, look up or create, by compare-and-exchange; the destructor | tables and pages are created by several threads, without a lock |
| clients with a shadow of memory (`clients/deadspy`, `loadspy`, `redspy`) | per thread: counts, the slots of redspy; shared: the shadow memory, the totals | the call-backs that are given records, thread start and end, exit | a record is applied long after its access, while other threads apply theirs |
| naive variants of them (`deadspy_naive`, `loadspy_naive`) | the same, without a buffer | clean calls before every instruction | they read the application's memory while it runs |
| thread table (`drcctlib.cpp`) | the number of threads, their records | thread start, search by root | the number is raised before the entry is there |
| data-centric attribution (`drcctlib.cpp`) | objects, names, the pending allocation of a thread | malloc wrappers, module load, look-up | allocations nest; freed memory keeps its object |
| start and exit | reference counts, registrations with DynamoRIO | init and exit of each library | the order of thread events decides what is still alive |
| other clients | per-thread tables | call-backs, report | what they compute is data, not control |

How they interact: DynamoRIO calls drcctlib when a block is built. The
analysis gives the block a key and a shadow, and the code it inserts makes the
thread's tree follow when the block runs, with nodes and splay nodes from the
object caches and handles from the shared counter. vprofile inserts the code
that appends records to the buffers of vtracer and puts handles of the tree in
them. vtracer hands full buffers to vprofile, which unpacks the records for
the client. Clients apply them to the shadow memory, and turn handles back into
contexts when they report.

What makes each part correct:

* tree: handles are unique and resolvable, a node stands for the context the
  application is in, equal contexts share a node, and nothing about a node
  changes once clients hold its handles;
* signals: trees stay whole, and the interrupted code goes on where it was;
* cache mode: the same contexts as without it, every block reported once with
  its own references, and no pointer outside its array;
* splay trees: a map from block to node, and updates that end;
* object caches: no object twice;
* shared cache and shadows: one key per block, kept for ever, pages that exist
  behind keys, complete arrays, a lock that whoever waits for it gets;
* buffers: no overflow, no lost record, the promised share of samples;
* shadow memory: one cell per address, no page lost or freed too early, and a
  look-up that ends;
* clients: they report what the program wastes, whole and once, although they
  learn of it in batches;
* thread table, start and exit: a thread is in the table while others search
  it, and no event runs after what it uses has been freed.

## Modules

| module | models | relation to others |
|---|---|---|
| `AppPath` | what calls and returns do to the calling context of an application | extended by the models of the tree |
| `CallContext` | the tree's promise: a dictionary of contexts with identities | abstract; implemented by `CCT` |
| `CCT` | the tree in its default mode, any number of threads | |
| `CCTSignal` | `CCT` with signals | extends `CCT` |
| `CCTProofs` | theorems about `CCT`, without and with signals | extends `CCTSignal` |
| `BBCache` | the cache mode, one thread | takes from `CCT` that a node is its context |
| `CalleeMap` | the promise of the splay trees: a map from caller and block to node | abstract; `CCT` uses the map as `callee` |
| `SplayTree` | `splay_tree_update` and its caller | implements `CalleeMap` |
| `ObjectPool` | the promise of the object caches: an object is handed out once | abstract; `CCT` takes nodes so |
| `MemoryCache` | `memory_cache_t`, `tls_memory_cache_t` | implements `ObjectPool` |
| `SharedCache` | the steps of `thread_shared_memory_cache_t` | |
| `BBShadow` | the analyses of blocks, the callers of the shared cache | extends `SharedCache` |
| `TraceBuffer` | vtracer's buffers filled by vprofile's instrumentation | |
| `AddressMap` | the promise of the shadow memory: a cell for every address | abstract |
| `ShadowMemory` | `ConcurrentShadowMemory` | implements `AddressMap` |
| `MemoryClients` | deadspy, loadspy, redspy and two naive variants, from record to report | extends `ShadowMemory` |
| `BBCacheProofs`, `SplayTreeProofs`, `MemoryCacheProofs` | theorems about the module they are named after | each extends it |
| `BlockProofs` | theorems about what is kept for a block: its shadow and the buffers its instrumentation fills | extends `BBShadow` and `TraceBuffer` |
| `MemoryClientsProofs` | theorems about the shadow memory, and about the types, totals and slots of its clients | extends `MemoryClients` |
| `ReportProofs` | the theorem that the clients' reports are exact | extends `MemoryClientsProofs` |
| `DataInduction` | induction over numbers, functions defined by recursion, and the folds of the community modules, as lemmas about sets | extended by the proofs that need it |
| `MC...` | values for the constants | each extends its module |

How state and actions correspond to the code:

* **CCT.** `TakeNode`, `ReserveHandles` and `FinishRoot`/`FinishBB` are the
  three parts of `bb_node_create` that other threads can come between:
  `get_next_object`, `ATOMIC_ADD_CTXT_HNDL`, and the loop over the handles
  with the rest of the caller. What a thread does to its own tree in between
  is seen by no other thread and belongs to the last of them. `EnterKnownBB`
  is the clean call when the node exists. `callee` is the map the splay tree
  of a node holds (`SplayTree`); `CHOOSE` of an unused node stands for the
  object caches (`MemoryCache`). `owner`, `path` and `callPath` are history
  variables: which context a node was created for and which the application
  is really in.
* **CCTSignal** adds the saved node and what each pending signal interrupted.
  `NullCaller` is the state in which the code would follow the parent of the
  root; the process ends there (`Dereference`).
* **BBCache.** Inlined code is atomic, since no other thread reads the cache.
  `EnterBB` is the code before a block, clean call included; `RecordRef` the
  code around a memory operand, which records 0 where DynamoRIO cannot
  compute the address (`NoAddr`); `Refresh` the catching up others ask for,
  anywhere in a block; `ThreadEnd` the last one. Where the loop over the
  references runs behind the array (see `RefsExact` below), the model has it
  find 0 and write nothing.
* **SplayTree.** One `Turn` is a turn of the loop, for both directions; the
  mirrored halves of the code are one definition over a side.
* **MemoryCache.** Refill and return are loops under the lock, taken turn by
  turn while other threads hand objects out: `Carve`, `EnterDebrisMode`,
  `TakeDebris` (one piece), `NewPage`, `FullError` and `Unlock` for a refill,
  `FreeUnuseObject` (one frame) and `ThreadEnd` for a return. `GetNextObject`
  is the hand-out, which takes no lock.
* **SharedCache** and **BBShadow** follow `pc` through every access to shared
  memory that another thread can see in between. A thread that wants a key is
  at `meet` until it has `bb_shadow_lock`; `LookUp` is a critical section
  without an observable middle, `LookUpNew` to `AddKey` one with one.
* **TraceBuffer.** A block's estimate and its records are functions of its
  instructions, as they are when code is built; `EnterBlock` is the sampling
  decision with the check, `Record` the code around an operand, `LeaveBlock`
  the end of a block or an exception that leaves it half run.
* **ShadowMemory.** Every load, exchange, allocation and free of the two
  look-ups is a step. An address is the triple of its bit fields, and a table
  or page is named by its slot and the thread that allocated it. `Destroy` is
  the destructor. `ReadCell` and `WriteCell` are the accesses of the caller,
  who holds the page the look-up has given it.
* **MemoryClients.** `Execute` is an instruction with the records it leaves
  before and after it, which only its own thread sees. An operand that is
  passed over, because its size is none of those `instrument_opnd` knows or
  the client's call-back returns at an element size of 0, leaves no record;
  what an instruction writes through such operands is its field `unseen`,
  which changes the memory and not what the client knows. (A record of
  element size 0 does take room in redspy's buffer until it is skipped at
  `redspy.cpp:1148`; the model has none.) `Deliver` is the check
  at the head of a block that finds too little room: the buffer's records
  become the `queue` that the call-back is given one by one. `Take...` begins
  with a record, and what is then done byte by byte, a look-up with all its
  steps, a read, a write, is an action for each access (`pass` says which).
  For a naive client `Call` is the clean calls before the instruction, and
  what they read is the memory at that moment. `ThreadExit` is vtracer's event,
  which delivers what is left, `AddBytes` and `AddFound` are the client's,
  which comes after it, and `ProcessExit` frees the memory.

## What the runs check

| run | instance | result |
|---|---|---|
| `cct` | 2 threads, 3 blocks (one calls, one returns, one does neither), 6 nodes, 9 handles | 8 properties hold |
| `signal` | 2 threads, 4 nodes, calls 2 deep, signals 2 deep | trees survive; an uninterrupted handler returns to its node |
| `signal_context` | 1 thread, signals that do not nest | violation: finding 1 |
| `bb_cache` | 1 thread, 6 blocks of 2, 1 or no references, 4 notes, 5 references | 4 properties hold |
| `splay_tree` | 2 callers, 4 blocks | 3 properties hold |
| `memory_cache` | 3 threads, 2 pages of 8, 3 objects at a time | 3 properties hold |
| `bb_shadow` | 2 threads, 3 blocks, 2 pages of 2, 7 analyses | 6 properties hold |
| `trace_buffer` | 3 clients, 2 buffers, up to 20 blocks | 3 properties hold |
| `mem_clients` | 2 threads, pages of 4 bytes in 2 tables of 2, buffers of 4 records, 6 pairs of client and program | 7 properties hold |
| `trace_buffer_memref` | a client with `VPROFILE_TRACE_REG_IN_MEMREF` | violation: finding 2 |
| `trace_buffer_gather` | a block with a gather | violation: finding 3 |
| `redspy_period` | 1 thread, nine stores, every second record delivered | violation: finding 4 |

What they show:

* `cct`: while threads build their trees at once, handles never overlap
  (`HandlesDisjoint`), every handle of a finished node leads to it
  (`HandleResolves`), the walk from any of them to the root, through the
  table of handles and the last handles of callers, gives the context the node
  was created for (`BacktraceExact`), a thread stands at the node of the context
  it is in (`ContextExact`), contexts have one node (`OneNodePerContext`),
  nodes do not change (`HandlesStable`) and all of it is the abstract
  dictionary (`Implements`).
* `bb_cache`: catching up late gives the same contexts (`CaughtUpExact`), in
  the same order and once each (`EveryBlockReported`), within the arrays
  (`InBounds`). The references given with a block are its own, all of them
  and in order (`RefsExact`), with three limits that are those of the
  compaction at `drcctlib.cpp:954`. A refresh in the middle of a block clears
  what the block has recorded if no block before it, of those being drained,
  had a reference: moved onto themselves the references are lost, and
  `RefsExact` says exactly which (`lost`). The loop stops at the first 0, and
  takes what it finds in memory nobody cleared, so if the array was not zero
  when allocated, or a refresh came upon a 0 the running block had recorded
  as an address, nothing is promised from there on (`disturbed`). As the
  references that were lost are counted nevertheless, the loops can then look
  for references behind the array. The references of a thread's last block are
  never given.
* `splay_tree`: a search finds exactly the callees (`Findable`), the loop ends
  (`Returns`), a callee keeps the node it got first (`Implements`).
* `memory_cache`: pieces never overlap, in the middle of a refill or a return
  either (`PiecesDisjoint`), a refill fits its frames and gives as many objects
  as asked for (`RefillFits`), no object is handed out twice (`Implements`).
* `bb_shadow`: keys are unique and permanent (`OneKeyPerBlock`, `KeysKept`),
  have a page behind them (`KeysBacked`), up to the last index, at which the
  process ends; whoever meets a block gets through `bb_shadow_lock` and learns
  its key, while the others come and go (`Served`); arrays are complete when nobody is filling them (`CompleteWhenQuiet`) and a
  client's query finds its instruction (`QuerySlotFound`). `KeysBacked` needs
  the outer lock: the shared cache alone can give out an index whose page is
  not there, as the bound is raised first. `QuerySlotFound` needs blocks to be
  built one at a time: a second builder may find the key before the array.
  `auto_add_lock` has no contender here, its users hold the outer lock.
* `trace_buffer`: no overflow (`RecordsFit`), no record lost at a full buffer,
  an abandoned block or the thread's end (`RecordsKept`), and the share of
  samples kept although the counter jumps by blocks (`SampleRate`).
* `mem_clients`: of two threads that create the same page the one that loses
  the exchange keeps nothing (`PagesAccounted`) and uses the page of the other,
  so that the memory is one map (`ActsAsMap`). When all records of a thread
  have been applied it has counted exactly the bytes its program wastes, pair
  by pair of instructions (`ReportsExact`; what is wasted is read off the
  program, independently of records and shadows). This is stated for bytes
  that only one thread touches and the others do not write unseen either: for
  shared ones the reports do depend on the order of batches. Stores that leave
  no record are in the programs: the values loadspy and redspy compare change
  by them. The totals have every thread in them (`TotalsExact`);
  redspy compares a value after a store with the value before that store
  (`SlotsPaired`); every thread comes to its end (`Finishes`).

### Bounds, and why they are enough

* Two threads are enough for an order of two steps to differ; `memory_cache`
  has three, so that one can end while two others refill. The trees of threads
  are independent but for the supply of nodes and handles, and both supplies
  run out within the bounds, either one first. Three blocks are one for each
  way of finding a caller.
* In `bb_cache` catching up is due at the first block and after three more at
  the latest, earlier when the references run out first, so that six blocks
  fill and drain both arrays more than once.
* In `memory_cache` a page of 8 leaves 2 objects, as many as are worth keeping,
  after two takes of 3, which makes debris of pages as well as of threads.
* In `bb_shadow` the thread root has taken the first of the two shadows of a
  page; the first new block needs the second page while the other thread waits,
  and the third takes the last index, which ends the process.
* In `splay_tree` four keys make the loop turn more than once and in both
  directions, and the second caller's updates leave links in the shared
  objects.
* In `mem_clients` there are accesses inside a page, on its last byte, and
  across two pages of two tables; the threads touch different bytes of one
  page and one byte that is shared; and a buffer of four records is delivered
  in mid-run as well as at exit. The six pairs of client and program are
  chosen in `Init`.
* `redspy_period` has as many stores as it takes: one more than the slots.
* In `trace_buffer` records do not divide the buffers evenly between blocks.
* `DepthMax`, `NestingMax`, `RunMax`, `AnalysisMax` and `run_max` only cut
  behaviours short. `CHECK_DEADLOCK FALSE` stands where they, the end of all
  threads or the end of the process stop the system.

### Fairness

`SplayTree` assumes that a thread inside `splay_tree_update` goes on: it is a
sequential loop. `BBShadow` assumes that each thread that analyses a block is
scheduled again (weak fairness of its steps): the operating system runs every
thread, and DynamoRIO stops none for good while it holds a lock. Of
`bb_shadow_lock` it assumes that a thread which waits, while the lock is
released time and again, is at last given it (strong fairness of `LookUp` and
`LookUpNew`): a waiter sleeps on DynamoRIO's mutex and is woken by an unlock.
That the lock is released is not assumed. `MemoryClients` assumes the same of every
thread from its start to its end, and that the process exits after the last;
its programs are finite and of straight lines, so that what could keep a thread
from its end is the look-up. Nothing is assumed of the application, which
need not enter another block, and all other specifications are without
fairness.

### Findings

1. `signal_context`: after a signal handler the current node is restored but
   not the state the last block ended with (`drcctlib.cpp:1996`), so the next
   block is placed by the way the handler's last block ended, and the contexts
   from there on are wrong, against `drcctlib.h:137`.
2. `trace_buffer_memref`: with `VPROFILE_TRACE_REG_IN_MEMREF` the registers of
   a memory operand leave records that `vprofile_fill_num_cb`
   (`vprofile.cpp:2568`) does not count; a buffer can overflow.
3. `trace_buffer_gather`: `vtracer_update_clean_call` (`vtracer/vtracer.h:303`)
   advances a copy of the buffer's pointer, so the records of gathers and
   scatters are lost.
4. `redspy_period`: with period sampling (`clients/redspy/redspy.cpp:1516`)
   vprofile passes on every n-th record of a buffer (`vprofile.cpp:2344`), and
   the values before and after a store are no longer delivered together. Slots
   are taken and never freed; the ninth store is past the last, which the
   assertions at `redspy.cpp:1165` and `:1182` say cannot happen.

## What is proved

Checked by TLAPS for every value of the constants that the named assumptions
of the modules allow:

| theorem | in | states |
|---|---|---|
| `TypeCorrect` | `CCTProofs` | `TypeOK` |
| `HandlesNeverShared` | `CCTProofs` | `HandlesDisjoint` |
| `HandlesResolve` | `CCTProofs` | `HandleResolves` |
| `ContextsExact` | `CCTProofs` | `ContextExact` |
| `ContextsUnique` | `CCTProofs` | `OneNodePerContext` |
| `HandlesKept` | `CCTProofs` | `HandlesStable` |
| `BacktracesExact` | `CCTProofs` | `BacktraceExact` |
| `TreeImplementsContexts` | `CCTProofs` | `Implements` |
| `HandlersReturn` | `CCTProofs` | `ReturnRestoresNode` |
| `TreesSurviveSignals` | `CCTProofs` | `TreeSurvivesSignals` |
| `HandlesSurviveSignals` | `CCTProofs` | `HandlesDisjoint` and `HandleResolves`, with signals |
| `PointersInBounds` | `BBCacheProofs` | `InBounds` |
| `NotesLeadToContext` | `BBCacheProofs` | `CaughtUpExact` |
| `EndsAreReported` | `BBCacheProofs` | `EveryBlockReported` |
| `RefsAreExact` | `BBCacheProofs` | `RefsExact` |
| `TreesImplementMap` | `SplayTreeProofs` | `Implements` |
| `CalleesAreFound` | `SplayTreeProofs` | `Findable` |
| `PiecesStayApart` | `MemoryCacheProofs` | `PiecesDisjoint` |
| `CacheImplementsPool` | `MemoryCacheProofs` | `Implements` |
| `RefillsFit` | `MemoryCacheProofs` | `RefillFits` |
| `KeysAreUnique` | `BlockProofs` | `OneKeyPerBlock` |
| `KeysHavePages` | `BlockProofs` | `KeysBacked` |
| `KeysArePermanent` | `BlockProofs` | `KeysKept` |
| `ArraysComplete` | `BlockProofs` | `CompleteWhenQuiet` |
| `QueriesAreAnswered` | `BlockProofs` | `QuerySlotFound` |
| `RecordsReachClient` | `BlockProofs` | `RecordsKept`, if no gather or scatter runs |
| `RecordsAlwaysFit` | `BlockProofs` | `RecordsFit`, if a block fits an empty buffer |
| `SampleRateKept` | `BlockProofs` | `SampleRate`, if the window is not empty |
| `ShadowTypeCorrect` | `MemoryClientsProofs` | `ShadowTypeOK` |
| `PagesAreAccounted` | `MemoryClientsProofs` | `PagesAccounted` |
| `MemoryImplementsMap` | `MemoryClientsProofs` | `ActsAsMap` |
| `ClientsUseMemory` | `MemoryClientsProofs` | every client runs the shadow memory: `ShadowSpec` |
| `ClientsPagesAccounted` | `MemoryClientsProofs` | `PagesAccounted` |
| `ClientsSeeMap` | `MemoryClientsProofs` | `ActsAsMap` |
| `ClientsTypeCorrect` | `MemoryClientsProofs` | `MemTypeOK` |
| `TotalsAreExact` | `MemoryClientsProofs` | `TotalsExact`, if every record is used |
| `SlotsArePaired` | `MemoryClientsProofs` | `SlotsPaired`, if every record is used |
| `ReportsAreExact` | `ReportProofs` | `ReportsExact`, if every record is used, for programs as described below |

### From which assumptions

* `CCT`: a block has at least one handle, its end is a call, a return or
  neither, the root's key belongs to no block, NULL is no node, nodes are
  finitely many, there is a thread, and there is a handle beyond the two
  reserved ones.
* `BBCache`: the array of notes has more than one entry, and the references of
  a block fill less than half of the other one (it has 4096 entries, and DynamoRIO
  ends a block after some hundred instructions). `RefsAreExact` has no
  premise beyond these; what a refresh costs is part of `RefsExact` itself.
* `SplayTree`: callers and keys are finitely many, keys are numbers, and NULL is
  none.
* `MemoryCache`: sizes are positive, and a page holds what a thread takes at a
  time, which the constructor of the thread's cache tests.
* `SharedCache`, `BBShadow`: a page has at least as many objects as there are
  threads, and a block has an instruction.
* `TraceBuffer`: a buffer is a whole number of records, and what a client
  gives is of the right kind. `RecordsReachClient` has the premise that no
  record of a gather or scatter is written; finding 3 is what happens
  otherwise. `RecordsAlwaysFit` is about clients without registers of memory
  operands, which is finding 2, and blocks whose records fit an empty buffer
  and the ushort that sums them up: for longer ones the check at the start of
  a block cannot help. `SampleRateKept` is about windows that end, with an
  enabled part no longer than they are.
* `ShadowMemory`: the sizes of the tables and of a page are positive, and
  fresh memory is a value a cell can have.
* `MemoryClients`: an operand that leaves a record lies at an address, is of one
  of the sizes `instrument_opnd` knows and no longer than a page,
  0 is a value, a cell has room for every context and mark and for nothing else,
  fresh memory is no context and the mark 0 (`dr_raw_mem_alloc` maps zeroed pages), threads
  are finitely many, and a client is one of the three, of which redspy has no naive
  variant here. `TotalsAreExact` and `SlotsArePaired` have the premise that
  `Period` is 1, the value `global_analysis_period` has unless a client sets
  it (`vprofile.cpp:165`); finding 4 is what another period does to redspy.
  `SlotsArePaired` also assumes that no instruction has more than 255 memory
  operands it writes, as many as the counters of slots can count (`FewWrites`).
* `ReportsAreExact` has these premises and two more about the instructions of
  the programs. `WritesFit`: redspy meets no instruction that writes more operands
  than there are slots (`MAX_WRITE_OPS_IN_INS`, which the code asserts).
  `OperandsApart`: no two operands that an instruction reads share a byte, no two that
  it writes do, and under the buffered deadspy an instruction reads no byte
  that it writes. The last is a limit of the code and not of the proof: deadspy's
  records of destinations precede those of sources (`vprofile.cpp:731`), so that an
  instruction like `add [x], 1` is taken to write before it reads. The naive
  deadspy has a call for the read first and is free of that premise. Whether
  an access is private, `Private`, is part of `ReportsExact` itself. All
  programs of `mem_clients` satisfy the premises.

### Along which argument

None of the properties is inductive alone; each proof has an invariant that
is, kept action by action with a step for each conjunct the action can disturb.

* **CCTProofs.** `IInv` is `TypeOK`, `ThreadInv`, `TreeInv`,
  `OneNodePerContext`, `MakingInv`, `HandleInv` and `ContextInv`. That a context has one node
  depends on the splay trees holding exactly the nodes of the tree
  (`TreeInv`): a node is only created when its caller's tree does not hold the
  block. That the right caller was asked depends on where threads stand
  (`ContextInv`): the current node's path is the application's context, so the
  parent's and grandparent's are those a plain end and a return lead to. All of
  this must survive other threads that are half-way through a creation
  (`MakingInv`): the node they make belongs to nobody else, its parent is live
  and still lacks that callee. `HandleInv` says that the ranges of handles lie
  in order below the counter and that the table agrees with finished nodes.
  For the walk to the root, a node's path is longer than its parent's and
  shorter than the number of nodes (`DepthInv`), so that the walk ends.
  The identity of a context is the first handle of its node. A step that
  finishes a node enters a new context with an unused identity, entering a
  known node enters a known context, and all others stutter.
  With signals a thread may stand at the wrong node (finding 1), and
  `ContextInv` is lost. `ShapeInv`, the rest of `IInv`, is stated so that it
  is kept wherever a thread stands; with `SignalInv` and `HandlerInv`, which
  say that the saved nodes are finished nodes of the same thread, it is
  `TornInv`, and the trees stay whole. Of the handlers a thread is in, all but
  the last have been interrupted (`Saved`); so a return from one that was not
  is the return from the last, and the saved node is the one it took the
  thread from.
* **BBCacheProofs.** All is stated over the blocks that ran, `visited`: the
  client has been told of a prefix of them, the current node is that of the
  next, and the notes are the blocks after it (`NotesInv`). The references in
  the array are those of these blocks, one after the other from offsets
  (`Placed`) that are the sums of what the blocks before have; in the place of
  a reference without an address, or of one that is lost, is a 0 (`Adr`), and
  above the pointer there is nothing but zeros. So the loop of the compaction,
  which looks for the end of the running block's references by itself, stops
  where the block has stopped recording, unless it meets an address of 0
  before, which is when the history is `disturbed`. `LostInv` says that only
  recorded references of blocks already caught up with are lost, so that those
  still to be recorded are placed as they are.
* **SplayTreeProofs.** Every node of a tree has bounds, one on each side, and
  its key lies between them (`Ordered`). What is said of a link is local
  (`Leads`): its node has the bounds of the part the link stands for, or there
  is no node and no key of the tree lies in that part. That makes the tree a
  search tree whose nodes a search can reach, without a word on paths. In the
  loop (`Loop`) the same holds below the dummy node on both sides of the key
  and below the root, except for the free link of each of the two innermost
  nodes: it still has whatever it had before, and is set when the next node is
  cut off or at the end. A rotation (`RotateKeeps`), a cut (`CutKeeps`) and the
  last assignments (`LoopEnds`) change the bounds of two nodes at most. A new
  node fits because the key's place is free at one link only (`PlaceUnique`).
  The object for the next insertion must have no children (`Free`), the nodes
  of different callers are different (`CalleeInv`), so that an update leaves
  the other trees as they are (`TreesInv`), and there are as many nodes as
  pairs of caller and key that have a callee, so the objects last
  (`NumberInv`). A search goes down through ever fewer keys, by induction on
  its steps (`SearchEnds`).
* **MemoryCacheProofs.** `Standing` says who holds the lock and where a thread
  stands in its frames. Every step but one only cuts or moves pieces: each
  piece after it lies within one before it, and different ones within
  different ones or apart. A new page is the exception, and its objects
  are beyond those of the pages begun so far (`PiecesBegun`). An object that is
  handed out was in a piece, so it had not been handed out before.
  For `RefillsFit`, the pieces of the debris are all worth keeping (`Large`),
  and what a refill has collected makes with the debris that is left at least
  what it needs (`RefillOK`).
* **BlockProofs**, the shadows. `LocksHeld` is mutual exclusion for both locks.
  `KeysBelow`: the index reserved under `bb_shadow_lock` is above every key, so
  that it is no other block's. `PagesInOrder`: the bound rises first and the
  page enters the table last, but nobody gets an index of that page before the
  lock is released. `ArraysOK`: an array is complete, or the thread that
  allocated it last is still at work and has filled what it has passed.
* **BlockProofs**, the buffers. What has been delivered followed by what is in the
  buffer is everything recorded, in order, which is `RecordsKept` with types.
  For `RecordsAlwaysFit` the rest
  of a block (`todo`) fits above the pointer, buffer by buffer (`FitInv`): at
  the start by the check, since the estimate counts what `Emits` emits, and
  then record by record. `SampleInv` says how far the counter has gone through
  the window and how much of it was sampled; it may pass the window's end by
  what the last block counted.
* **DataInduction.** The induction theorems of the library cannot be
  instantiated, but a set can: a nonempty set of numbers has a least element,
  because the strict subset order on finite sets is well-founded, and from
  that follow induction, functions by recursion, and that the folds and sums
  of the community modules are what their recursion says: a sum may be taken in
  any order, follows a change of one value, and that over two sequences is
  the sum of both. Walks to the root, sums over frames, blocks, buffers, bags
  and threads, and the loops of the compaction are reasoned about with these.
* **MemoryClientsProofs**, the memory. What a thread has found stays in its slot
  (`FoundOK`), since a slot once filled stays filled; what is in no slot is as
  it was allocated (`SparesFresh`), so that to install it changes no cell;
  `AllCounted` is `PagesAccounted`, one table and one page at a time. Steps of
  a look-up then stutter or answer in `AddressMap`.
* **MemoryClientsProofs**, the clients. A thread that is at a byte has a record, and the
  byte is one of its bytes (`RecordsOK`). Addresses and cells are then of the
  right kind, every step of a client is a step of `ShadowMemory` or leaves it
  alone, and the theorems about `ShadowMemory` hold for the clients. `TallyOK`
  is the rest of the types; the tables of pairs are bags with finitely many
  members, so that what they hold can be added up.
  For the totals a record has a weight, what the client counts for it, and a
  sequence of records a `Load`. What a thread has counted, the load of what is
  queued and the load of its buffer are together what the instructions that
  have left a trace weigh (`Balanced`): a delivery moves load from the buffer
  to the queue, taking a record moves it from the queue to the count, and an
  instruction adds as much as it weighs, whatever its records are. `Added` says
  that the totals are what the threads have given so far.
  For the slots, `SlotWalk` says that a sequence of records, applied from where
  the counters stand, fills and empties slots in turn and ends with none in
  use. It holds of the buffer and the queue of a redspy thread (`Paired`), since
  each instruction leaves as many records before its writes as after them, and
  buffers are delivered between instructions.
* **ReportProofs.** `ReportsExact` is about a thread that has nothing left to
  apply; in between, the shadow memory lags behind the program by the records
  in the buffer and the queue. The invariant `AllRight` therefore relates three
  things: the program, those records, and the shadow.
  A program of straight lines is a sequence of `Moments`, two for an
  instruction, at which it changes the shadow of a byte; `Prev` is the moment
  before another, `Wastes` what an access at a moment ought to find. For each
  thread, `QueueOK` says that its records are those of the last moments it has
  executed, in order and without a gap, and that the values in them are the
  program's; `Past` are the moments no record is left of. `MarkOK` and `CtxtOK`
  say that mark and context of a byte are those of the last moment that is
  past. Within a record they move at different times (deadspy sets
  the mark of a byte, may report, and then sets its context; loadspy compares
  the whole record, copies it, and then sets the contexts), so each
  has its own count of the bytes that are done with (`Marked`, `Stamped`,
  `Reviewed`). `PassOK` says that what the steps of a record have found so far
  is what `Wastes` says, `MissOK` that a look-up which found no page has seen
  a fresh cell, `SlotsOK` that redspy's slots hold the values found before the
  writes they are for. `CountOK` then is that a pair has been counted once for
  each wasted byte whose moment is past.
  All this holds of bytes that only one thread touches. That other threads leave
  them alone (`LeftAlone`) rests on the proof about the memory: a step of a thread
  changes at most the cell it is at, also while pages are being
  installed. When no record is left, all moments are past, and what `Wastes` sums up to is
  what `ReportsExact` reads off the program (`SettledIsExact`).

### Only model-checked

* Liveness under fairness: `Served`, `Returns`, `Finishes`. TLAPS has no rules
  for ENABLED here, on which an argument from fairness rests.

## What is left

What drcctlib, vtracer and the clients keep while threads run is modelled, up
to the parts below. What remains, in the order of its use:

1. The order of thread events and the registration of traces, in one model
   with the thread table. Most of it is sequential code at the start and the
   end of the process; its hazards are listed in `PROJECT.json`.
2. Data-centric attribution: the pending allocation of a thread.
3. In existing models: the guards of the Arm build in `BBCache` and
   `TraceBuffer`, code that changes between two builds of a block, and handles
   that clients read in cache mode.

Runs are few on purpose: each asks one question of one component, with all its
clients, modes or faults chosen in `Init` and not in a cfg of their own.

## Not modelled

* ELF files, symbols, disassembly, report formats: input and output. With the
  vendored libraries, the tables of opcodes and the code that emits machine
  instructions they are by far the larger part of the lines of the repository,
  and the reason why definitions map to a small share of them.
* The registers and flags saved around inlined code, and the machine code
  itself.
* Values in registers and approximate comparison of floats in loadspy and
  redspy: arithmetic on the data of one thread. `deadspy_naive` on packed
  floats, for which it counts the length of an element.
* zerospy, which keeps no shadow and counts zero bytes; `redspy_naive`, both
  of whose calls around a store count its bytes; trivialspy, a data-flow
  analysis of single blocks whose substance is a table of opcodes; the sample
  clients.
* Instructions that read what they write, for the buffered deadspy in the run:
  destinations are recorded first (`vprofile.cpp:731`), so deadspy is told of
  the write before the read and counts a store that was read as dead. The
  model emits records in that order; the run's programs for this client have
  no such instruction, those for `deadspy_naive`, which takes sources first,
  have.
* A store that faults. `Execute` is the whole of an instruction; a fault between
  the record of the value before and that of the value after would leave the
  one without the other, which is what `redspy_period` shows sampling to do.
* Shortcuts of the clients for equal contexts of neighbouring bytes, which
  count several bytes of one pair at once.
* The thread table, data-centric attribution, start and exit, code that
  changes between two builds, the guards of the Arm build: see above.
* `TlsShadowMemory`, which has no user.
* protobuf-c, rapidjson and the generated messages.
* Code behind `IN_PROCESS_SPEEDUP`, `IPNODE_STORE_BNODE_IDX` and
  `DRCCTLIB_SUPPORT_ATTACH_DETACH`, which the build does not enable.
* Hazards without a property are listed in `PROJECT.json`, each with its
  reason; among them the thread number one past the table
  (`drcctlib.cpp:2217`). The model of the ushort that sums estimates
  (`vtracer.cpp:362`) keeps its width, but the blocks of the run stay below it,
  and `RecordsAlwaysFit` assumes as much. Two threads that build one block at
  once (`drcctlib.cpp:3691`) are in the model, in which a query does miss then.
