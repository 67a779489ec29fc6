# A verification of LiteOS

TLA+ models of Huawei LiteOS (this repository, branch `LiteOS_IEC`): the task scheduler, the synchronisation objects built
on it, timeouts, software timers and tickless mode, and three components above the kernel, the virtual file system, the AT
command framework and the over-the-air update. They are model-checked with TLC; what the scheduler, the semaphores, mail
blocks, mutexes, events and queues, the software timers, the timeout list and tickless mode, the virtual file system and the
AT framework guarantee is also proved with TLAPS.

LiteOS is a preemptive, priority-scheduled real-time kernel for one Cortex-M core. What makes it hard to test is
that almost every kernel call has two halves. The first changes the kernel data with interrupts masked; then the call
unmasks them and calls `LOS_Schedule`, which chooses a task and pends the PendSV exception, which switches to
whatever task is chosen *by then*. Interrupt handlers that make kernel calls, and the tick that ends delays and
waits, fit in between. The components above the kernel add their own: mutexes taken hand over hand, answers that come
after their command gave up, power that fails between two writes to flash. The models are about what holds in spite of
these interleavings.

## 1. Inventory

### Components and their state

| part | source | state it keeps | operations |
|---|---|---|---|
| task manager | `kernel/base/core/los_task.c` | task control blocks (`usTaskStatus`, `usPriority`, list nodes), `g_stLosTask` (running and next task), `g_usLosTaskLock`, the recycle list | create, resume, suspend, delete, delay, yield, set priority, lock, unlock, and the internal `osTaskWait`, `osTaskWake` |
| ready queue | `los_priqueue.c` | 32 lists and a bitmap | enqueue, dequeue, top, size |
| timeout list | `los_task.c` (sort link) | a wheel of delta lists | `osTaskAdd2TimerList`, `osTimerListDelete`, `osTaskScan` |
| tick and time slice | `los_tick.c`, `los_timeslice.c` | tick count, the task whose slice runs and its end | `osTickHandler`, `osTimesliceCheck` |
| context switch | `arch/arm/arm-m/src/los_hw.c`, `los_dispatch_gcc.S` | the pending bit of PendSV, the saved registers | `osTaskSchedule`, PendSV |
| semaphores | `ipc/los_sem.c` | count, maximum, wait list | create, delete, pend, post |
| mutexes | `ipc/los_mux.c` | owner, lock count, the owner's saved priority, wait list | create, delete, pend, post |
| events | `ipc/los_event.c` | 32 bits, wait list; mask and mode in the waiting task | init, read, poll, write, clear, destroy |
| queues | `ipc/los_queue.c` | ring buffer, two counters, lists of waiting readers, writers and mail allocators | create, delete, read, write, write to the head, mail alloc and free |
| static pools | `kernel/base/mem/membox` | a list of free blocks | init, alloc, free |
| software timers | `los_swtmr.c` | delta list of running timers, free list, IDs with a generation, a task and a queue for the callbacks | create, start, stop, delete, scan |
| heap | `kernel/base/mem` | three allocators, one of which is built in | alloc, free |
| tickless | `kernel/extended/tickless` | sleep ticks, flags shared with the tick handler, SysTick | idle hook, wake-up |
| CMSIS layer | `osdepends/liteos` | none | wrappers |
| update (OTA) | `components/ota` | flags and a download record in flash, the state of the download, the package device with a block buffer and a checksum | init, message handler, timeout |
| AT framework | `components/net/at_frame` | list of listeners, response semaphore, two mutexes, a queue to the receive task | commands, receive task |
| virtual file system | `components/fs/vfs` | mount points, file table, one mutex for all and one for each mount point | open, close, read, write, ... |
| the rest | `components`, `targets`, `demos`, `tests` | vendored stacks and libraries, boards, examples, tests | |

### How they interact

* Every kernel object blocks with `osTaskWait`, which moves the running task from the ready queue to the object's wait
  list and, with a time limit, to the timeout list, and wakes with `osTaskWake`. A task has a *single* list node
  (`stPendList`) for the ready queue, the wait lists and the free list: being on the wrong list, or on none, is
  memory corruption.
* The caller that blocked learns from the `TIMEOUT` flag in its own status word why it runs again. The flag is set when it
  blocks, cleared by `osTaskWake`, left alone by `osTaskScan` and cleared by the call itself.
* The tick handler scans the timeout list, readies expired tasks and schedules; it is itself interrupted by handlers.
* `LOS_TaskLock` defers switches; calls that would block fail while it is held.
* Mutexes change the priority of their owner; a ready task moves to another list.
* Software timers, the AT framework, the file system and the CMSIS layer are clients of these objects.

### What is hard, and what makes each part correct

* Scheduler: the lists, the bitmap, the status words and the timeout list describe the same state after any
  interleaving; the most urgent ready task runs; a switch never leads to a task that is not ready; nobody is switched out
  while the scheduler is locked; delays end; tasks of one priority take turns.
* Semaphores: a token goes to exactly one call, in order of arrival; a call that timed out has none.
* Mutexes: mutual exclusion against timeouts; priorities are inherited and given back.
* Events: no lost wakeup; a woken read finds its bits unless another call took them.
* Queues: messages are delivered once, whole and in order although a woken task uses the buffer later; no slot is lost or
  invented; a buffer is not freed under a task that was promised it.
* Mail blocks: a block is in the pool, promised to one task or held by one.
* Sort link: each timeout ends at its tick. Tickless: ticks slept through are counted once and nobody is overdue.
* Software timers: each ends on its tick, no callback is lost, stale IDs are refused.
* Virtual file system: whatever is open keeps its mount point; no file is closed under an operation; no call is left
  with a mutex.
* AT framework: one command uses the modem at a time; every call returns, whether its answer comes or not.
* Update: an image that was found good is installed as it was sent, whatever is lost, repeated or interrupted.

The hazards with their lines are in `PROJECT.json`.

## 2. Plan

Done, in this order:

1. **Scheduler** (`LosKernel`, `LosTask`) and its proofs (`LosTaskProofs`).
2. **Semaphores** (`LosSem`), refining `Semaphore`; **mutexes** (`LosMux`); **events** (`LosEvent`); **queues**
   (`LosQueue`), refining `BoundedQueue`; **mail blocks** (`LosMail`), composed with the semaphores.
3. **Sort link** (`LosSortLink`) and **tickless mode** (`LosTickless`), refining `Countdown`; **software timers**
   (`LosSwtmr`), refining `Countdown`.
4. **Update** (`OtaPackage`, `Sota`), **AT framework** (`AtFrame`), **virtual file system** (`LosVfs`).

5. **Proofs** of the semaphores, mail blocks and events (`LosSemEventProofs`), mutexes and queues (`LosMuxQueueProofs`),
   lists of differences (`DeltaListProofs`), software timers (`LosSwtmrProofs`), the timeout list and tickless mode
   (`LosTicklessProofs`), the virtual file system (`LosVfsProofs`) and the AT framework (`AtFrameProofs`), among them the
   refinements of `Semaphore`, `BoundedQueue` and, by the software timers and by the wheel, `Countdown`.

Left: proofs about the update (`Sota`).

## 3. The modules

`LosKernel` has no variables. A kernel state is a record and a C routine (`osPriqueueEnqueue`, `osTaskWait`,
`osTaskWake`, one round of `osTaskScan`, `LOS_Schedule`, PendSV...) is an operator from kernel states to kernel
states, so that the action of a kernel call composes the routines in the order the C function calls them. `fault` becomes
TRUE when a list routine follows a NULL link (`LOS_ListDelete` leaves NULL links behind).

`LosTask` has two variables: `k`, the kernel state, and `pc`, which says where each task is in its kernel call. An
action is one stretch of code with interrupts masked:

* a call made by a *handler* is one action, because PendSV has the lowest priority: nothing but another handler can see
  a handler's intermediate states, and between a handler's unmasking and its `LOS_Schedule` another handler sees
  the same data as after it;
* a call made by a *task* is one action up to the point where it unmasks the interrupts, and `Schedule` is another:
  in between, `pc` is `"schedule"` and any handler and the tick may run;
* `Tick` is the tick handler up to the scan of the timeout list, `osTaskScan(t)` a round of the scan, `osTaskScanEnd` its
  `LOS_Schedule`;
* `osTaskEntry` is the end of a task's entry function, which gives up the scheduler lock without masking the interrupts, and
  `osTaskEntryDelete` the `LOS_TaskDelete` after it;
* `PendSV` is the switch.

**The rules of handlers.** The code does not stand a handler's call in two places, and does not say so:

1. `osTaskScan` runs unmasked (`los_task.c:254-293`) and goes on with the status it read (`:256`) and the task it fetched
   (`:292`), although every handler of `LOS_HwiCreate` has a priority at least that of SysTick and most preempt it. A
   handler that resumes the task in between leaves it neither ready nor waiting, one that deletes it makes `LOS_ListDelete`
   follow NULL links.
2. `LOS_TaskSuspend` does not choose another task when it suspends the one a pending switch leads to (`:978`).

With `IsrRaces = FALSE` handlers keep to two rules, which are about the board's handlers and not about the code: none that
calls the kernel interrupts the scan, and none suspends the task a switch leads to. With `TRUE` they need not, and a round
of the scan is two actions, one that chooses a task and reads its status and one that uses them (`k.round`). What holds of
the kernel below holds under the rules; section 7 says what fails without them. `TaskCalls` and `IsrCalls` name the calls
that tasks and handlers make, so that a run can choose an environment.

The modules of the kernel objects extend `LosTask`, add their control blocks, split a blocking call into `...Wait`,
`...Schedule` and `...Return`, and take `Next` of `LosTask` as the rest of the system:

| module | state added | correspondence |
|---|---|---|
| `LosSem` | `sem` (control blocks) | `LOS_SemPend` is `LOS_SemPendTake` (at once), or `LOS_SemPendWait`, `SemPendSchedule`, `SemPendReturn` |
| `LosMux` | `mux`, `on`, `holds` (history: locks a task was told it has) | `LOS_MuxPendTake` (free or recursive), `LOS_MuxPendWait` with inheritance, `LOS_MuxPost` with hand-over |
| `LosEvent` | `event`, `want` (mask and mode in the task), `stolen` (history: readers whose event lost bits since they blocked) | `LOS_EventRead` and, in a task, `LOS_EventWrite` look at the event before they mask the interrupts and are two actions each: `LOS_EventRead` then `EventReadNow` or `EventReadWait`, `LOS_EventWrite` then `EventWriteLocked`; `Poll` and `Left` are `LOS_EventPoll`; `Satisfied`, `Round` and `Rounds` are the condition, one round and the loop of `LOS_EventWrite` |
| `LosQueue` | `queue`, `call` (operation and message of the blocked call), `got` (last message read) | `osQueueOperate` is `OperateNow`, or `OperateWait`, `OperateSchedule`, `OperateReturn`; both end in `Transfer` |
| `LosMail` (extends `LosSem`) | `free` (the pool), `puwMsg` (the block left for a woken task), `held` (history) | `osQueueMailAlloc` is `MailAllocNow`, or `MailAllocWait`, `MailAllocSchedule`, `MailAllocReturn` |

`Semaphore` and `BoundedQueue` are the abstract specifications, each of a set of objects. `LosSem!Abstract` and
`LosQueue!Abstract` are the refinement mappings. A semaphore call is *waiting* while its task is on the list, *expired* if
it left it with `TIMEOUT` set, *granted* if without: `Semaphore` allows a grant only by a post, to the call at the head of
the queue. The content of a queue is the part of the ring buffer from `usQueueHead` on that is counted as readable *or was
promised to a woken reader*: `BoundedQueue` then allows a message to be delivered only once and in order.

**Time.** `Countdown` is the abstract specification of timeouts: a client is started with a number of ticks, may be stopped,
and every tick takes one from all of them. `LosKernel` uses it as it is (`k.left`). `DeltaList` is the list of differences
that the kernel has in two places, `Insert` the loop of `osSwTmrStart` and of `osTaskAdd2TimerList`, `Delete` that of
`osSwtmrStop` and of `osTimerListDelete`. `LosSortLink`, without variables like `LosKernel`, is the wheel that implements
the countdown: a slot is a list of differences of rounds, and the cursor moves from slot to slot. `LosTickless` runs that
wheel under interrupts and drives it by the cycles of SysTick: `Cycle` counts, `osInterrupt` is the entry of a handler,
which first makes up for the ticks slept through (`osTickHandlerLoop`, `osTaskScan`, `osTaskScanEnd`, `UpdateDone`) and then
runs (`osTickHandler`, `Handler`); `osTicklessHandler` is the idle task going to sleep. `behind` is a clock kept beside the
code's, which nothing the code does to SysTick moves: the cycles that have passed less those of the ticks counted. `phase`
and `lag` follow SysTick, and the proof needs them. `LosSwtmr` has the control blocks, the sorted list (one list of
differences), the free list, the queue of callbacks and the IDs its clients hold; one action per stretch with interrupts
masked, `osSwtmrScan` for the tick.

**Above the kernel.** These modules do not extend `LosTask`: what they need of the kernel's mutexes, semaphores and queues
is what `LosMux`, `LosSem` and `LosQueue` show of them (exclusive, handed over in order of arrival; counting; first in,
first out).

| module | state | correspondence |
|---|---|---|
| `LosVfs` | `fsMutex`, `mp` (mount points with their mutex and `m_refs`), `files`, `dir`, `fileSystem`, and where each task is in which call | `Enter` takes `fs_mutex` and looks up file and mount point, `EnterFails` takes it and finds none or no room, `Fail` gives it, and the file of `los_open`, back on the error path, `LockMountPoint` takes `m_mutex` and posts `fs_mutex`, `OperationDone` and `OperationFails` are the file system's operation and what the call records of it, `PostMountPoint`, `los_file_put` |
| `AtFrame` | clients, `trx` (`trx_mux`), `list` (listeners), `tokens` (`resp_sem`), `rid` (messages), the receive task, the modem | `Begin`, `Send`, `SemPend`/`SemTimeout`, `WriteData`, `Delist`, `Return` are `at_cmd_multi_suffix` and `at_write`; `Recv...` are the stretches of `at_recv_task`, `Fetch` its wait for a message, `at_cmd_in_callback` the command of a callback, which at_malloc may give no listener (`failed` counts them) |
| `OtaPackage` | none: the package device and the flash are values | `WriteSoftware` and `WriteSoftwareEnd` compose head, writer and checksum as `package.c` does |
| `Sota` | `rec` (`g_at_update_record`), `todo` (what the handler has still to send or write), `page` (the two flags), `dev`, `flash`, `verified` (history: the last verification found the package good) | one action per case of `sota_process_main`, then `DoSend`, `DoWrite`, one at a time, so that power may fail between any two |

Mutants (operators whose comment begins with "Mutant") stand next to the definitions they alter; no specification uses them.

## 4. The runs

The kernel runs use two or three tasks `a`, `b`, `c`, the idle task, a time slice of one or two ticks, delays and timeouts of
one or two ticks or none (`0` is `LOS_WAIT_FOREVER` in a timeout set; calls with `LOS_NO_WAIT` that fail change nothing).

| run | question | bounds that matter |
|---|---|---|
| `task_core` | all scheduler invariants under every task call; do tasks of one priority take turns? | two tasks, boot priorities 0 and 1, any priority later; slice 2, a delay of one tick, handlers resume, suspend and delete, lock nesting 2 |
| `sem_core` | refinement of `Semaphore`, mail blocks, the shared TIMEOUT flag; does every wait with a time limit end, for suspended tasks too? | one semaphore, maximum 1 or 2, two blocks, handlers post, pend, take and free blocks, resume and delete |
| `sem_expired_delete` | *violation*: a task whose wait timed out is deleted | |
| `mux_core` | exclusion, inheritance given back, hand-over against timeout | three priorities, one mutex, two recursive locks, with and without time limits, suspended owners and waiters |
| `event_core` | no lost wakeup; does a woken read find its bits? | two bits, masks of one and of both, OR and AND with clear, writes and clears between a call's look at the event and its lock |
| `queue_core` | refinement of `BoundedQueue` for both ends, credits, nobody waits in vain | two tasks, suspended and resumed while they wait, length 2, two messages |
| `tickless` | refinement of `Countdown` by the wheel under interrupts; does the count of ticks follow the time; nobody overdue; waits end | two tasks, a wheel of two slots, timeouts 1, 2, 4 (up to two rounds of the wheel), three cycles in a tick, sleeps of up to 3 ticks, handlers two deep |
| `swtmr` | refinement of `Countdown` by the sorted list; blocks, IDs and callbacks accounted for | two clients, two timers, intervals 1 and 2, IDs that come back after two expiries |
| `vfs_core` | open things keep their mount point, files stay attached, every call returns | two tasks, one file, a mount point inside another, one failed close |
| `vfs_open_unmount` | *violation*: a mount point is unmounted under an open | |
| `at_core` | one command at a time; does every call return? | two clients and the receive task, a message queue of one, a semaphore counting to one, one announcement of data, one failing at_malloc |
| `sota` | is an image that was found good installed as it was sent, does the checksum cover what is in flash, is a block that was asked for accepted? | a version of three blocks and one of two, the second with a short last block, which may land in the middle of the first; one failing write, any number of restarts |

Why these bounds are enough for the questions asked:

* Kernel: the hazards are about the order of a task's two halves, one handler, the tick and one or two other tasks. Two
  priorities distinguish preemption from order of arrival, three are needed for inheritance. A timeout of one tick and none
  covers "expires before, during and after"; how a longer one is counted is the question of `tickless`. A queue of length
  two wraps around and can be empty, full or neither; handlers write twice before a woken reader runs, so that two
  messages are promised at a time. `Lowest` is the idle priority: the other 30 priorities are like the first two.
* `tickless`: timeouts below, equal to and above the length of the wheel and its multiples, two tasks in one slot and in
  two, the head of the slot and not. Three cycles are the least with which the parts of a tick that are over and left
  differ, and the least for which the bounds of `TicksTrackTime` hold; that they do for any more is proved. `Word` is beyond
  every number of cycles that occurs unless `Races` (section 7).
* `swtmr`: two timers with two intervals can be in either order in the list or end together; an ID is recycled.
* `vfs_core`: with one file a slot is reused at once, which is the case that matters; `MaxKept` bounds how often a
  close fails, since each leaves `m_refs` higher for good.
* `at_core`: a queue of one message loses messages at once, which is what a longer one does later; one failing allocation
  leaves the mutex locked for good, more only leave it locked more often.
* `sota`: blocks are as long as the erase block, and the head makes the image start in the middle of one, so that each
  piece both fills a block and starts the next.

State constraints are not used. What is unbounded in the code is bounded in guards: `MaxLock` the nesting of `LOS_TaskLock`
(LosTask), `MaxNest` that of a mutex (LosMux) and of interrupts (LosTickless), `MaxKept` (LosVfs), `MaxIndications`,
`MaxAllocFailures`, `QueueLen` and `SemCountMax` (AtFrame), `MaxFaults` and `LenCap` (Sota). Deadlock is checked in every
run that expects to pass but `sem_core`: a state without successors would be one in which not even the tick can occur. In
`sem_core` handlers delete waiting tasks, the model stops at the fault of the first finding, and what it checks is about the
states before that.

### Fairness

* `LosTask!FairSpec`: the tick recurs (it is a hardware timer), each round of its scan and its end happen (weak fairness:
  handlers do not disable them), and a pending PendSV and the `LOS_Schedule` a task is at happen if they are enabled
  again and again (strong fairness: each tick and each other switch disables them for a while). Nothing is assumed of
  the application: no task is obliged to make a call and no handler is obliged to run. `LosMail!MailFairSpec` needs the
  tick and its scan only.
* `LosTickless!TicklessFairSpec`: SysTick counts, a handler that was entered goes on, and other interrupts do not keep the
  processor from the outermost handler, and from the tick, for ever.
* `LosVfs!FairSpec`: a waiting task gets a mutex in its turn, because `LOS_MuxPost` hands it to the first in the list;
  operations of the file system end.
* `AtFrame!FairSpec`: ready tasks run and time passes. Nothing is assumed of the modem, and the code does not get by without
  it: an expired listener of a callback is removed only after a message has been handled (`at_main.c:508`, `:520`). So
  `CommandReturns` has the condition that the receive task handles messages again and again, and allows a call to hang after
  `at_malloc` failed in a callback. Without either, TLC finds it violated.
* `LosSwtmr` and `Sota` have no liveness property: a timer's end is a matter of ticks (`ImplementsCountdown`), and a
  download ends only if the server wants it to.

## 5. What is proved

TLAPS proves the following for every value of the constants: any number of tasks, priorities, objects, blocks and messages,
any length of a queue, any boot queue, any time slice, any delays and timeouts, and any choice of calls by tasks and
handlers that the assumptions below admit; for the clock, any length of a tick of more than two cycles, any wheel and any
longest sleep of at least two ticks.

| module | theorem | statement (`Spec => []...`, or a step property, or a refinement) |
|---|---|---|
| `LosTaskProofs` | `TypeCorrect` | `TypeOK` |
| | `Consistent` | `KernelConsistent` |
| | `NoNullLink` | `NoFault` |
| | `Preemptive` | `HighestRuns` |
| | `OnlyReadyRun` | `RunningReady` |
| | `DispatchesReady` | `DispatchReady` (steps) |
| | `LockHolds` | `NoSwitchUnderLock` (steps) |
| `LosSemEventProofs` | `NobodyWaitsForAToken` | `NoIdleToken` |
| | `TimeoutFlagOfOwnCall` | `TimeoutFlagOwned` |
| | `SemaphoresKeepTheirPromise` | `ImplementsSemaphore`: `LosSem` refines `Semaphore` |
| | `MailTypeCorrect` | `MailTypeOK` |
| | `NoBlockTwice` | `MailBlocksSound` |
| | `MailNobodyWaitsForAToken`, `MailTimeoutFlagOfOwnCall`, `MailKeepsSemaphores` | the three of `LosSem`, for the composed system |
| | `NobodyMissesEvent` | `NoMissedEvent` |
| | `WokenReadersFindEvent` | `WokenFindsEvent` |
| `LosMuxQueueProofs` | `MuxConsistent` | `KernelConsistent`, with priority inheritance |
| | `MutexesExclude` | `MutualExclusion` |
| | `WaitersAreServed` | `WaitersHaveOwner` |
| | `InheritanceEnds` | `MuxSpec /\ []OneAtATime => []PriorityRestored` |
| | `SingleMutexRestores` | `PriorityRestored`, when there is one mutex |
| | `NobodyWaitsForACredit` | `NobodyWaitsInVain` |
| | `QueuesConserveCredits` | `CreditsConserved` |
| | `QueuesKeepTheirPromise` | `ImplementsBoundedQueue`: `LosQueue` refines `BoundedQueue` |
| `LosSwtmrProofs` | `EveryBlockAccounted` | `BlocksAccounted` |
| | `StaleIdsRefused` | `ExpiredIdRefused` |
| | `EveryCallbackQueued` | `CallbackQueued` (steps) |
| | `TimersCountDown` | `ImplementsCountdown`: `LosSwtmr` refines `Countdown` |
| `LosTicklessProofs` | `TicksCountTime` | `TicksTrackTime` |
| | `SleepDelaysNobody` | `NobodyOverdue` |
| | `WaitsCountDown` | `ImplementsCountdown`: `LosTickless`, with the wheel of `LosSortLink`, refines `Countdown` |
| `LosVfsProofs` | `FilesAttached` | `FileStaysAttached` |
| | `MountsKept` | `OpenKeepsMount` |
| `AtFrameProofs` | `CommandsExclusive` | `OneCommandAtATime` |

**Assumptions.**

* The kernel theorems have the hypothesis `~IsrRaces`: handlers keep to the two rules of section 3. It is needed: with
  `IsrRaces = TRUE` all the state invariants of `task_core` but the types, and `DispatchReady`, fail (section 7). So these
  theorems are about a board on which no handler that calls the kernel preempts SysTick, which the code does not enforce.
* Those about events have `~DestroyRaces` besides: no event is destroyed between a call's look at it and its lock. TLC finds
  `NoMissedEvent` violated without.
* The two about priority inheritance have `FixedPriorities` besides: `PriorityRestored` compares with the priorities of the
  boot queue, and `LOS_TaskPriSet`, or the creation of a task, may give another. The other theorems about mutexes admit
  both. `InheritanceEnds` is about the runs in which no task holds two mutexes at a time (`OneAtATime`), for any number of
  mutexes. That is needed: with two mutexes TLC finds the deviation of section 7.
* Those of tickless mode have `Races = FALSE` and `MaxSleep > 1`, both needed (section 7): no interrupt comes on top of a
  tick that is pending at the end of a sleep or of another interrupt that makes up for it, and SysTick can count two ticks.
  A tick has more than two cycles (`TicklessAssumption`), and the two rules of handlers in `LosTickless` are part of the
  model: what counts ticks is done before the next one falls due, and no handler that takes a task out of the wheel
  interrupts the scan.
* Those of the file system have `UnmountRaces = FALSE`, which is needed too: finding 2 is a behaviour with `TRUE`.
* The rest are the named ASSUMEs of the modules. `LosKernel`, `LosTask`: the idle task, the dummy control block and NULL are
  distinct from the application's tasks, wait lists are not ready lists, and the tasks created before `LOS_Start` are on one
  ready list each, the idle task alone on the last. The objects: each has wait lists of its own; the environment rules of
  section 6 (no task is deleted that may own a mutex, or be inside a queue call); finitely many tasks in `LosQueue`, because
  promises are counted; finitely many tasks, files and mount points in `LosVfs`, because references are counted; any limit
  of timers, any number of generations of an ID and any positive intervals in `LosSwtmr`; any positive timeouts and
  intervals in `LosTickless` (a wait without a limit is not in the wheel, an interval of 0 is refused), and a longest sleep
  whose cycles fit in 32 bits, as SysTick's 24 bits do; any clients and any bound of messages in `AtFrame`.

**The scheduler's invariant** is `IInv(P) == Typed(P) /\ Sound(k) /\ Dispatch(k, pc, P) /\ Blocked(k, pc) /\ Sane(k, P)`.

* `P` is what a component adds to the scheduler: the points of its tasks' code (`P.all`), those between unmasking and
  `LOS_Schedule` (`P.window`), and whether every change of the ready queue is followed by a `LOS_Schedule` (`P.strict`).
  All lemmas about the scheduler's actions are proved for every `P`, so that the objects' proofs cite them for their own.
* `Sound` is about the data and does not mention who runs: the lists are disjoint and without repetitions and agree with the
  status words and the bitmap, one control block is RUNNING, the idle task is ready, and for each task
  (`TaskOK`) exactly one of "unused", "ready" and "blocked for a reason" holds, with the timeout list holding exactly the
  tasks that delay or wait with a limit. It is stronger than `KernelConsistent`.
* `Dispatch` is about the processor: nothing is pending under the lock, the target of a switch and the task that computes
  are ready, and unless the tick handler still owes a `LOS_Schedule`, they are the first of the most urgent ready list (if
  `P.strict`; `LOS_MuxPost` gives up an inherited priority without scheduling, so `LosMux` is not). `HighestRuns` alone is
  not inductive: that the target stays the first needs that no call changes the ready queue without recomputing the target,
  which is what the lemmas `EndSchedule`, `EndReturn` and `QuietTask` state.
* `Blocked` says that only a task inside a blocking call has a PEND or TIMEOUT flag: without it `LOS_TaskDelete` would
  not keep `NoFault` of the scheduler alone, and a call could find the flag of an earlier one.

**The scheduler's argument.** The first part of `LosTaskProofs`, about `LosKernel`, shows what each routine does to a kernel
state: its type (`...Type`), the fields it touches (`...Effect`) and that it keeps `ListsOK` (`...Lists`). In the second
there is one lemma per action, `ResumeInv`, `DelayInv`, `ScanInv`..., each of the form "the composition of these routines
keeps `Sound`; then the call ends in `LOS_Schedule` (`EndSchedule`) or without it (`EndReturn`)". `StepInv` collects them,
`Invariance` is the temporal step and the theorems follow from it. The step properties `DispatchReady` and
`NoSwitchUnderLock` follow from `IInv` before the step.

**The interface for the objects.** Two groups of lemmas of `LosTaskProofs` are all that the objects' proofs know of the
scheduler. The first says what an object's own steps do to `IInv`: `Blocks` (a task enters a wait), `Wakes` (one is given
what it waits for), `Goes` (it gets to `LOS_Schedule`), `Returns` (it comes back). The second says what the scheduler's
steps do to *their* waits. `StepWaits` proves that every step is one of three: `Quiet` (no list of an object, PEND or
TIMEOUT flag or point inside a call changes), `Expires(t)` (the wait of `t` ends by its time limit) or `Vanishes(t)` (`t` is
deleted). In the last two, as in `Served(t)`, the step of a post, `t` leaves its list and nobody else is touched
(`Leaves(t)`).

**The objects' invariants** add to `IInv` what relates control blocks, lists and calls:

* `SemInv`: the tasks on a list are blocked inside `LOS_SemPend`, and nobody is on the list of a semaphore with a token. The
  refinement (`SemStepImplements`) goes through the actions: to be on the list is to wait, to be off it with `TIMEOUT` is to
  have expired, to be off it without is to have been granted a token; a scheduler step changes the last two only by expiry
  or deletion.
* `MailInv` adds to `SemInv` the same for the mail queue and `BlocksApart`: each block is in one place only, in the pool
  (once), promised to one task, or held. The mail calls leave `SemLocal` alone because a task is at one
  point of its code; this is where the shared TIMEOUT flag and list node could have gone wrong.
* `MuxInv`: `Owners(m)` says who owns `m` three times, by the control block, by what each task was told, and by what
  it will be told when it runs (`Granted`: it was unlinked by `LOS_MuxPost` and not by the tick), and that they agree.
  Mutual exclusion alone is not inductive: the hand-over makes a task the owner long before its call returns.
* `Inherits` adds to `PriorityRestored` what makes it inductive (`Saved`): the priority a mutex keeps is the own priority
  of its owner. A task that gets a mutex, by taking a free one or by the hand-over, has its own priority because it owns no
  other (`OneAtATime` in the state after the step), and `PrioKept` shows that the scheduler changes no priority.
* `EventInv`: the tasks on the list of an event are blocked inside `LOS_EventRead` (`Readers`), with a mask and a mode the
  event does not satisfy. `LOS_EventWrite` compares an OR read with the new bits and an AND read with all of them; that this
  is the condition `LOS_EventPoll` uses (`SatisfiedFinds`) depends on the read not having been satisfied before, so that
  `NoMissedEvent` is what makes the next write right. `Kept` says that the event of a reader that goes on has lost no bit
  unless the reader is in `stolen`. The write wakes any number of tasks in a loop: `LoopWakes` is by induction over its
  rounds, with the set of numbers of rounds after which exactly the right tasks were woken (`AllNumbers`: a set of numbers
  that has 0 and with each number the next has them all), and each round keeps `Sound` (`WakesOneMore`).
* `QueueInv`: `Balanced` says that the counters and the promises to woken tasks make up the length, *and* that the tail is as
  far from the head as there are messages counted or promised. This is what puts the message of a woken writer, which runs
  when others may have come and gone, into a free slot. The refinement rests on the ring lemmas (`RingGet`, `RingPut`,
  `RingPutFirst`: what the buffer reads as a sequence after an index has moved, modulo the length), on `CreditStep` (what
  a transfer does to counters and promises of both sides) and `ContentStep` (what it does to the content).
* `IInv` of `LosVfs`: which call may be where (`CallsOK`), who has the two mutexes there (`LocksOK`), which state the file
  of the call is in (`FilesOK`), and `CountsOK`: `m_refs` is at least the number of open files, closing files and open
  directories of the mount point. The properties alone are not inductive: that an unmount sees a count needs that the file
  is counted from `OperationDone` to `PostMountPoint`, and that needs the mutexes.
* `DeltaListProofs` is about one list of differences. What an entry has left is the sum of the differences up to it,
  `CountTo`, a recursive function. That an insertion puts the new entry in its place and leaves every other end as it was,
  that a removal gives its difference to the next one, and that taking one from the head takes it from all, is shown by
  induction over the list, with the set of numbers for which the claim holds. Software timers and wheel cite it.
* `IInv` of `LosSwtmr` is `Sound`, and that every timer that runs has ticks left. `Sound` has four parts: types (`Typed`);
  each control block is in one place, in the sorted list, in the free list, taken by one `LOS_SwtmrCreate` or created
  (`Located`); a timer whose ID has not expired is its client's alone (`Owned`); and a block is as many generations past an
  ID as that ID has expired (`Dated`), so that an ID that has expired is not the one of its block until all generations are
  used up. With the lemmas about `DeltaList`, `TimersCountDown` goes through the actions: start and stop change one client
  of `Countdown`, a tick takes one from each.
* `IInv` of `LosTickless` has five parts. `Waits`: each slot is a list of differences, a task is in the wheel, once and in
  the slot its block says, just when it waits with a limit. `Nesting`: at which stage each nested interrupt is, so that only
  the outermost can have a sleep to make up for. `Clock`: in a sleep SysTick stands at the cycles that are left of it;
  otherwise it stands at what is left of a tick, and SysTick's ticks that are not counted (`lag`) are those that the
  interrupt being served still has to count (`Owed`) and the one that is pending. While the processor sleeps, no task is
  ready. `NoneLate`: in a sleep nobody has less left than its length, which is what `osTaskNextSwitchTimeGet` is for
  (`NextSwitchFacts`: the least over the slots of distance and rounds is no more than what any task has left), and otherwise
  nobody has less left than `lag`. What `behind` has to do with them is said for each stage of an interrupt: by how much the
  reloads so far can have moved SysTick. Neither `TicksTrackTime` nor `NobodyOverdue` is inductive alone, and each needs the
  other's part: that making up for a sleep comes late for nobody needs the clock, and the clock does not tell who started to
  wait after the sleep was chosen: nobody, because no task is ready then. The wheel's lemmas (`AddFacts`,
  `WheelDeleteFacts`, `AdvanceFacts`, `LastRoundFacts`, `ExpireFacts`) say what each routine does to what every task has
  left, and `WaitsCountDown` follows from them step by step.
* `IInv` of `AtFrame` is `TypeOK`, `TrxOwned` and `Listening`: whoever is between taking `trx_mux` and giving it back owns
  it, its listener is in the list exactly from `Begin` to `Delist`, and the receive task has locked it once for each
  callback that listens and each that could not. `OneCommandAtATime` alone is not inductive: that a second listener of a
  command cannot be added rests on who owns the mutex. What taking a listener off the list leaves is the recursive function
  `Kept`, about which the same kind of induction shows that it loses that listener and no other.

**Only model-checked.**

* Liveness (`RoundRobin`, `PendEnds`, `WaitEnds`, `CommandReturns`, `CallReturns`): reasoning about fairness and ENABLED is out
  of the prover's reach.
* `Sota` and `OtaPackage`: what `UpgradeIntact` needs is about the cells a checksum has seen, which no piece in the wrong
  place can repair, and about the writes to flash that are still to come; it is not proved yet.

## 6. Abstractions

* Data: names, stack sizes and contents, entry functions and error codes are left out; a call that only returns an error
  changes nothing and is not an action. IDs stand for control blocks; the free lists of control blocks are the choice of an
  unused one, except for the software timers, where the order matters to IDs.
* Kernel modules keep the timeout list as the set of its tasks and the ticks each has left; that the wheel implements this is
  what `LosTickless!ImplementsCountdown` checks.
* `LOS_TaskCreate` is one action: the ID is not known to anybody else before it returns.
* The time slice is kept as the difference of two 16-bit counters, which wraps with them.
* Environment rules that are nobody's word but the code's need: those of handlers (section 3), and that no event is
  destroyed under a call (`DestroyRaces`).
* Environment rules taken from the headers and the guide: mutexes are not used in handlers; the owner of a mutex is not
  deleted (and, where `PriorityRestored` is checked, its priority not set); a task is not deleted inside a queue call; an
  event is not initialised while tasks wait; the idle task is not suspended or deleted; no call with a time limit is made in
  a handler (the code refuses it); timer calls are made by tasks; a mail block is freed once by who has it, and not asked
  for under the scheduler lock.
* `LosMail`: the pool and its queue exist from the start; the queue proper is that of `LosQueue`.
* `LosTickless`: of the software timers only the head of their list; tasks are ready or not, who runs is the business of
  `LosTask`. SysTick counts down and interrupts have the kernel's own vector table (`LOSCFG_PLATFORM_HWI`). Unless `Races`,
  no interrupt comes on top of a pending tick, or of another interrupt, while a sleep has still to be made up for. What an
  interrupt counts is done before the next tick falls due: no cycle passes while a tick is pending or a sleep is made up
  for.
* `LosSwtmr`: without `LOSCFG_BASE_CORE_SWTMR_ALIGN`; clients give up an ID before it comes back.
* `LosVfs`: one file system, external, whose operations take time and succeed or fail; a directory belongs to the task that
  opened it; an error found with `fs_mutex` held is `EnterFails` and `Fail`; unless `UnmountRaces`, nobody unmounts a mount
  point that a call is at.
* `AtFrame`: messages are what they are about (a result, data, an announcement of data, something else); allocation fails
  only where a callback sends a command, elsewhere the call returns or the message is dropped; `cmd_mux` sections are one
  action, because nothing waits inside.
* `Sota`, `OtaPackage`: flash, packages and checksums are sequences of cells that remember which version and place they
  belong to; a checksum agrees if it has seen the cells of one package in order. The server may order an update
  at any time. The flash page with the flags may be left unwritten, erased, or half complete by a
  loss of power.

### Not modelled

The parts listed as `not_modelled` in `PROJECT.json`, with the reasons there: vendored code and generated device headers
(most of the repository by lines: CMSIS headers, FatFs, lwIP, mbedtls, libraries), code without state of its own (CMSIS-RTOS
and socket wrappers, configuration), straight-line initialisation, the file systems behind `los_vfs.c`, the heap allocators
(sequential code over byte arrays), boards, demos and tests. Of the modelled parts: alignment of software timers, tickless
mode without `LOSCFG_PLATFORM_HWI`, the recovery image of the update, the head's other entries and the message frame, the
parsing of the AT framework.

## 7. Findings

Runs with an expected violation show where the code does something else than the documentation says.

1. `sem_expired_delete`: `LOS_TaskDelete` unlinks the timer node of a task whose `TIMEOUT` flag is set, although
   `osTaskScan` has unlinked it already when the wait has just expired.
2. `vfs_open_unmount`: `los_fs_unmount` looks at `m_refs` only, which `los_open` and `los_opendir` count after they have let
   go of `fs_mutex` and run the file system's open: the mount point is freed under them. (`LOS_MuxDelete` refuses its mutex,
   which is held.)

Known deviations that the runs keep out, by a constant or a rule, and how to see them:

* Handlers (section 3): a handler that calls the kernel during `osTaskScan` changes the task the scan has just read or
  fetched, and `LOS_TaskSuspend` in a handler does not recompute the target of a pending switch, so that PendSV dispatches
  the suspended task. Set `IsrRaces = TRUE` in `MCLosTask.cfg`: each of `NoFault`, `KernelConsistent`, `HighestRuns`,
  `RunningReady` and `DispatchReady` fails.
* Events: `LOS_EventDestory` between the look at the event (`los_event.c:100`, `:183`) and the lock (`:127`, `:193`) lets a task
  wait on the NULL list of an event that is gone. Set `DestroyRaces = TRUE` in `MCLosEvent.cfg`: `NoMissedEvent` fails.
* Mutexes: after `LOS_MuxPost` hands over to the first waiter, more urgent waiters do not lend it their priority; without a
  waiter it lowers the running task and does not call `LOS_Schedule` (add `HighestRuns` to the invariants of `MCLosMux.cfg`);
  mutexes released in the order they were locked leave their owner with an inherited priority (`PriorityRestored` with two
  mutexes).
* `osQueueMailAlloc` waits even under the scheduler lock and then returns without a block (drop `k.lock = 0` from
  `MailAllocWait`).
* Tickless: an interrupt that ends a sleep in the middle of a tick reloads SysTick with the cycles that are over instead of
  those left (`los_tickless.c:117`), so that each such sleep moves the tick by part of one; `TicksTrackTime` says by how
  much at most in one sleep, and over many the count drifts. With `Races = TRUE` `TicksTrackTime` and `NobodyOverdue` fail:
  an interrupt taken while SysTick is pending sees a count that has started over, and the elapsed cycles wrap; a nested one
  counts the sleep twice. With `MaxSleep = 1`, a tick so long that SysTick cannot count two (`uwMaxTicks`,
  `los_tickless.c:137-160`), ticks are counted that have not fallen due (`TicksTrackTime` fails): a sleep of one tick is
  none to make up for, and the reload value that the interrupt left stays.
* AT framework: an answer that comes between the end of `LOS_SemPend` and the removal of the listener, or a message a
  callback at the head of the list does not want (`at_main.c:437`), leaves a token in `resp_sem`, and the next command
  succeeds before its own answer. `tokens` is part of the model, but no property denies it. If `at_malloc` fails in
  `at_cmd_in_callback` (`at_main.c:252-257`), `trx_mux` is not given back and every later command waits for ever; if the
  modem falls silent with a callback unanswered, the receive task goes back to wait (`:508-511`) before it removes the
  expired listener, and clients wait until the modem speaks again. `CommandReturns` excepts both.
* Update: the state is `DOWNLOADED` before the image is verified (`sota.c:359`) and stays so when it is found bad
  (`:362-368`), so that `MSG_EXC_UPDATE`, late or repeated, orders the install of an image that failed its check
  (`:376-386`); `UpgradeIntact` is about images that passed. In the bootloader's mode a download goes on after a restart
  from a record that was saved when it started, with an empty package device (`RunMode = "BOOTLOADER"`:
  `RequestedBlockAccepted` fails); the download timer never ends a download, because its 8-bit counters cannot differ by
  more than the limit. `block_tolen` is not reset when another version is announced (`sota.c:293-301`): after a download was
  given up, the next one adds to the length of the first and cannot be verified until the device restarts.
* Virtual file system: a mount point at `/` is never found; a close that fails keeps `m_refs` counted for good;
  `los_stat`, `los_unlink` and `los_rename` run under `fs_mutex` only while other operations of the same mount point run
  under `m_mutex` only, so a file system without locks of its own is entered by two tasks.
