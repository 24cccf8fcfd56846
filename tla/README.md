# A TLA+ model of aros-stuff

This directory holds TLA+ specifications of the parts of aros-stuff where
several tasks meet, the TLC configurations that check them on small instances,
and TLAPS proofs of the results that hold for any number of tasks. Every
definition is translated from the source; `PROJECT.json` names the lines.

All references of the form `pthread.c:883` are to `src/pthreads/pthread.c`, and
`semaphore.c` is `src/pthreads/semaphore.c`.

## The system

aros-stuff is a collection of libraries and ports for AROS, AmigaOS and
MorphOS. Its own core is a POSIX threads library on top of exec.library; next
to it stand an emulation of shared libraries and some socket helpers. The
archivers under `unrar/` and `xad/` are ports of third-party code.

| Part | State | Operations | What makes it correct |
| --- | --- | --- | --- |
| Mutexes (`pthread.c:445-669`) | an exec signal semaphore, `kind`, `incond` | init, destroy, lock, timedlock, trylock, unlock | one owner at a time; a timed lock that fails leaves nothing behind |
| Condition variables (`pthread.c:703-905`) | a list of waiter nodes, each with a task and a signal bit; per wait a timer request | wait, timedwait, signal, broadcast, destroy | a signal wakes a waiter; a timeout is not early; a wait releases and takes the mutex |
| Semaphores (`semaphore.c`) | `value`, `waiters_count`, a mutex, a condition; the list of named semaphores and `sema_sem` | init, wait, timedwait, trywait, post, getvalue, destroy; open, close, unlink by name | a counting semaphore: no count is lost, doubled, or passes a limit; a name has one semaphore, which is not freed while its lock is held |
| Barriers (`pthread.c:911-996`) | `curr_height`, `total_height` with a flag, a mutex, a condition | init, wait, destroy | nobody leaves a round that is not complete or enters one that is not left |
| Thread table (`pthread.c:108-178, 1455-1825, 2062-2102`) | `threads[]`: task, parent, value, finished, detached, canceled; `thread_sem` | create, the starter function, exit, detach, join, self, cancel, testcancel, the init and exit functions | a slot belongs to one thread until it is joined; a join gets the value of its thread; no thread runs on when the program is unloaded |
| Read-write locks (`pthread.c:1030-1210`) | a signal semaphore in shared or exclusive mode | rdlock, wrlock, the try and timed forms, unlock | readers or one writer |
| Thread-specific data (`pthread.c:278-385, 1535-1552`) | `tlskeys[]`, `tlsvalues[]`, `tls_sem` | create and delete a key, get, set, the destructors at thread end | a value is destroyed once at most, its key stays meanwhile, nothing due is left behind |
| Once and spin locks (`pthread.c:180-209, 1216-1284, 1827-1858`) | one word; `started`, `lock`, `done` | once, spin lock, trylock, unlock | the routine has run when `pthread_once` returns; one holder |
| Attributes, scheduling (`sched.c`, parts of `pthread.c`) | plain structures | getters and setters | sequential |
| Shared library emulation (`src/dll`) | the list of opened DLLs with use counts; per DLL a message port and an open count | load, import, free, symbol query, the cleanup at exit; the message loop of a DLL | a DLL stays as long as somebody has it open and ends afterwards; every message is answered |
| Socket helpers (`src/psockets`) | none | poll, inet_aton, getaddrinfo, getnameinfo | sequential |
| Stack enlargement (`src/incstack`) | none | swap the stack around main | sequential |
| Archivers (`src/unrar`, `src/xad`) | - | - | vendored |

How the parts interact: barriers and semaphores each own a mutex and a
condition variable and do everything under that mutex. A condition wait
releases the mutex, sleeps in exec's `Wait` for any of several signal bits (the
waiter's own bit, the timer's, Ctrl-C) and takes the mutex again before it looks
at what happened. Signal bits are a scarce per-task resource: without a free one
the wait falls back on Ctrl-D and Ctrl-E. `pthread_cancel` reaches a sleeping
thread by Ctrl-C. The thread table is shared by all tasks; creation, clearing
and detached ends take `thread_sem`, most reads and several writes do not.

Hard behaviour: tasks interleave between any two statements that are not under
one lock; waits end for several reasons at once; a signal is a bit and not a
count; a waiter stays in the list between being signalled and having the mutex
again; threads are started before their creator has recorded them; addresses and
slots are used again; threads end while others look at them. A DLL is a process:
programs find it by the name of its port, send it messages that lie on their own
stack, and count what they have open on both sides; between finding a port and
sending to it nothing holds the port. `PROJECT.json` lists these as hazards with
the line where each bites.

## The modules

| Module | Models | Role |
| --- | --- | --- |
| `SignalSemaphore` | exec's signal semaphore, both modes, Procure and Vacate (external) | operators `ObtainMode`, `Obtain`, `Release`, `Attempts` and others on a record of owner, nesting and requests |
| `CondVar` | mutex lock and unlock, `_pthread_cond_timedwait`, `_pthread_cond_broadcast`, the timer, break signals, cancellation | the layer that `PosixSem` and `Barrier` extend and compose |
| `CountingSem` | what a counting semaphore promises | abstract specification |
| `PosixSem` | `semaphore.c` | detailed specification, implements `CountingSem` |
| `AbstractBarrier` | what a reusable barrier promises | abstract specification |
| `Barrier` | `pthread_barrier_*` | detailed specification, implements `AbstractBarrier` |
| `Threads` | the thread table | detailed specification |
| `Locks` | mutexes of all kinds and read-write locks | detailed specification |
| `Once` | `pthread_once`, the spin lock, both definitions of the atomics | the layer that `NamedSem` extends and composes |
| `NamedSem` | `sem_open`, `sem_close`, `sem_unlink`, `sem_destroy` over `pthread_once` | detailed specification |
| `Tls` | keys, values and the destructors at the end of a thread, over `SignalSemaphore` | detailed specification |
| `Dll` | `src/dll`: programs, exec's public ports, the processes of a DLL | detailed specification |
| `MCPosixSem`, `MCBarrier`, `MCThreads`, `MCLocks` | small instances for TLC | programs of calls, supplies of signal bits, symmetry |
| `SignalSemaphoreProofs` | proofs | lemmas about the semaphore of exec, for the modules below |
| `PosixSemProofs`, `BarrierProofs`, `ThreadsProofs`, `LocksProofs`, `NamedSemProofs`, `TlsProofs`, `DllProofs` | proofs | theorems about the component of the name |

`NamedSem`, `Tls` and `Dll` have constants that a configuration can give by
itself, so they are checked without an MC module.

### Steps and the lock

The unit of interleaving is the code between two points where the task can be
switched to advantage. In `PosixSem` and `Barrier` a step ends where a task may
block (in `ObtainSemaphore` or `Wait`), and also between a test and the update
that relies on it, so that a broken lock would show as a broken counter. A task
that asks for the mutex is put on the queue of the semaphore and moves to the
next control point in the same step; it takes its next step when it is `Ready`,
that is, no longer queued. `ReleaseSemaphore` hands the semaphore to the first
in the queue, as exec does, so nobody overtakes. The condition's own semaphore
is not modelled as a variable: every use of it (`pthread.c:808-810, 820-822,
882-888`) is one step.

### The condition wait

`CondSleep` is `pthread.c:766-815`: start the timer if there is an abstime, get
a signal bit, add the node, `incond++`, release the mutex. `CondWake` is the
return of `Wait` and the request for the mutex. `CondReturn` is the rest:
`incond--`, remove the node, close the timer, then decide: timeout first, then
cancellation; the condition's own bit is never looked at. `CondGiveUp` is the
early return when the timer does not open or the time left is exactly zero.
The following details matter to the properties and are in the model:

- which bit a wait uses depends on how many are free (`FreeSignals`); `AllocSignal`
  clears the bit it gives, the fallback bits keep what they had, because
  `SetSignal(SIGF_..., 0)` changes no bit (`pthread.c:227, 802`);
- closing a pending timer request aborts it, and the reply leaves the port's bit
  set (`pthread.c:256-260`);
- the clock is a deadline that is `ahead` or `passed`; `timer.device` may answer
  at any time after it has passed, at once for an abstime in the past;
- a cancelled waiter goes to `exited` from inside `pthread_testcancel` with the
  mutex in its hands and without the `waiters_count--` of its caller;
- any task in `Breakable` may get Ctrl-C from outside without being cancelled.

### Semaphores

`PosixSem` has the variables of `struct sema` and of `CondVar`. `Enter` is a call
up to its `pthread_mutex_lock`; `WaitLoop` is one evaluation of the `while` of
`sem_timedwait`; `Return` is a call from its unlock on. `Program` gives each task
the calls it makes, over and over. `sem_getvalue` reads `waiters_count` without
the lock when the trylock fails (`GetBusy`).

### Barriers

`Gate`, `Arrive`, `Hold`, `Exit` are the four parts of `pthread_barrier_wait`.
`DestroyCall`, `DestroyCond` and `DestroyFree` are `pthread_barrier_destroy`,
called by the task with the serial answer once every task has made its last
call: a program may do that while others are still on their way out. Its trylock,
test and unlock are one step, because nothing can be queued at a free semaphore.
The zeroing of mutex and condition is not modelled; `DestroySafe` says that
nobody is left to see it.

### Threads

A task is its address, and `pc[p] = "none"` means that the address is free.
`Spawn` may take any free address; `udata` is what `NP_UserData` gives a task.
`handles` is what the program knows: the threads it still has to join or detach.
`arg` numbers the threads, so that a join can be checked to get the value of its
own thread. `Start` covers `StarterFunc` up to the start routine, `Return`,
`Exit` and `TestCancel` the three ways out of it (the last two go through
`pthread_self`, and a thread that is not found in the table jumps through
somebody else's `jmp_buf`: control point `lost`). `Finish` is `Forbid`, the flag,
the signal to the parent and the death of the task in one step, since `Forbid`
lasts until exec has removed it. `InUse` is the test of `parent` in `pthread_join`
(`pthread.c:1670`), made by the joins of the program and of the exit function.
`ExitFunc`, `Scan`, `ScanDelay`, `ScanParent` and `ScanDetached` are
`__pthread_Exit_Func` with the `pthread_join` it calls. It looks at a slot three times
without a lock: at `detached` (`pthread.c:2090`, `ScanSlot`), then in `pthread_join` at
`parent` (1670) and at `detached` once more (1673). Each is a step of its own, since
other threads may call `pthread_detach` in between. The joins of the program make their
two tests in one step: a thread is joined or detached by one caller only. `raced`
records the slots whose threads were detached between the tests of the exit function;
no step depends on it. With `JoinsAll` a thread joins its children before it ends, and
main all of its own but the one in slot 1.

Left out: TLS destructors, cleanup handlers and cancel states, the attributes
apart from the detach state, the platform branches of stack handling, joining or
cancelling threads the caller has no handle of.

### Mutexes and read-write locks

Both are one signal semaphore, and `Locks` has one object of a `kind` chosen in
`Init`. A call is a `form` (plain, try, timed, unlock) and, for a read-write lock, a
mode. `Call` is a call up to its test of `SemaphoreIsInvalid`; `InitStatic` is the
initialisation of a static object, a step of its own because nothing guards it.
`MutexLock` and `RWLock` ask exec; `LockReturn` is the return once exec has served
the request. A timed call goes from `MutexTimedTry` or `RWTimedTry` to `Procure`, and
waits at its `port` for the semaphore's message or the timer's. `Collect` is `WaitPort`
and both `GetMsg`; when the timer's message is there, `TimedOut` vacates. Exec may
serve the request between the two. `reads` and `writes` are what the program knows
it holds; they are compared with `ss_NestCount`.

The program keeps to the rules of POSIX where breaking them is undefined: it unlocks
a normal mutex or a read-write lock only when it holds it, does not ask for one mode
while it holds the other, destroys only what nobody is calling, and stops then. It
does lock recursively, unlock mutexes of others (`EPERM`) and destroy locks held by
others (`EBUSY`). So `EPERM` of a read-write lock is not reached. Left out: the
checks of pointers and of `tv_nsec`, the cancellation point at the start of the
blocking read-write calls, `incond` (see `CondVar`), and the AmigaOS branch of
`_obtain_sema_timed`, which puts its own request into the wait queue and does not take
it out again after a timeout.

### Once and named semaphores

`Once` follows `pthread_once` statement by statement: the compare-and-swap, the loop
of the spin lock, the test of `done`, the routine, the mark, the unlock. A routine
may be cancelled (`CancelInit`): its thread ends, and `OnceCleanup` gives the lock
back. The `malloc` of `pthread_cleanup_push` succeeds in the model; when it fails,
`pthread_once` goes on without its handler (`pthread.c:2016-2019`), a cancellation then
leaves the spin lock taken, and `pthread_cleanup_pop` takes away the last handler of the
caller. `PTHREAD_ONCE_INIT` has `started` = -1, so the compare-and-swap with 0 never
succeeds, every call goes through the spin lock, and `done` decides. This is what
makes the code work: the built-in compare-and-swap answers the old value, and with a
zeroed control the first caller would return with nothing initialised.

In `NamedSem` every `sem_open` and `sem_unlink` first goes through `pthread_once` of
`semOnce`, whose routine sets up `sema_sem` and the list, then asks for `sema_sem`.
`Unlink` is `FindName`, `sem_destroy` (trylock, test, teardown), `Remove` and the
`free`. A use of a semaphore is the time that `sem_post` or `sem_trywait` has its
lock. Programs stop using a semaphore before somebody unlinks it, that is, they begin
no new use while an unlink is going on: the code frees the semaphore whoever has it
open, so nothing would hold for others. Tasks asleep in `sem_wait` of an unlinked
semaphore are outside the model.

### Thread-specific data

A value is a number that is set once, so that the model can tell what became of it;
0 is `NULL`. `SetSpecific` and `Checked` are `pthread_setspecific` up to the release
of `tls_sem`, `Stored` is the store behind it: the key may be deleted and created
again in between, and the value then belongs to the new key. The end of a thread is
the loop of `StarterFunc` (`pthread.c:1535-1552`), key by key and pass by pass, with
`tls_sem` shared from the first to the last step. A destructor is a stay at the
control point `destructor`, from which the thread may call `pthread_setspecific`.
Destructors that create or delete keys ask for `tls_sem` exclusively while their own
thread shares it, and wait for ever; they are left out.

### Shared libraries

One port name. `Client` are the programs, `Dll` the processes that are launched for
the name, one after the other or two at once. `FindPort` answers the first port of
the name; `CreatePort` appends, `DeletePort` removes. A message is put into the queue
of the process the program is bound to (`dllPort`); what goes to a deleted port is
lost. The control points of a program are the places of `dllInternalLoadLibrary`,
`dllGetProcAddress` and `dllInternalFreeLibrary` where other processes get on: before
and after `FindPort`, before `PutMsg`, in the waiting loops. `StartClose`,
`SendClose` and `Closed` are the close, which gives up when the reply port or the
DLL's port is missing: its node is then forgotten, and counted in `leaks`. `GetMsg` and
`ReplyMsg` are the loop of `main` in `dllstartup.c`, with one message in the `hand`.
`foreign` programs have a stack type that the DLL refuses. `Exit` is `dllCleanup`.
Left out: DLLs that import from DLLs, the kill message (its only sender is compiled
out, `dll.c:439`), the texts of errors.

## What is checked

Every run checks the whole state space of its instance.

| Run | Instance | Shows | States |
| --- | --- | --- | --- |
| `sem_safety` | three tasks: `sem_wait`/`sem_trywait` with two free bits and stray Ctrl-C, `sem_timedwait` with one free bit and cancellable, `sem_post` | types, mutual exclusion, exact accounting of waiters, no early timeout, refinement of `CountingSem` | 121,000 |
| `sem_liveness` | one `sem_wait`, two tasks that post, try and read | no lost wake-up, calls return | 19,000 |
| `sem_lost_wakeup` | two `sem_wait`, one `sem_post` | violation of `SleeperWakes` | |
| `barrier` | count 2, three tasks, two calls each, then a destruction; stray Ctrl-C, a cancelled waiter, a task without free bits | the height counts the round, completed rounds are full, destruction is safe, refinement of `AbstractBarrier`, rounds leave, the gate opens | 59,000 |
| `threads_joined` | table of 3, three addresses, three creations by anybody, children may run at once, addresses used again; a thread joins its children before it ends | joins get their value and return, parents are there, the program unloads only when no thread is left, the exit function ends | 80,000 |
| `threads_free` | one creator, failing `CreateNewProc`, children that may run at once, addresses used again, detached from the start or later, cancelled, `pthread_exit`, joins by anybody | types, the slot of a running thread is kept, the exit function leaves nobody behind but threads detached between its own test and that of `pthread_join` | 515,000 |
| `threads_unload` | threads create threads, nobody joins | violation of `NoUnloadedCode` | |
| `locks` | a mutex of each kind or a read-write lock, static or not, three tasks that make every call | exclusion, exact counts after timeouts, types (no unlock takes the count below zero), timed calls return | 72,000 |
| `named` | two tasks, three calls each, one name, two addresses, a once control with a routine that may be cancelled | types, routines run once, names are unique, no freed semaphore is in use, calls return | 179,000 |
| `dll` | two programs, one of them perhaps foreign, two launches, one failing close per process | types, open counts agree, a DLL in use stays, messages are alive, queries and frees return, a closed DLL ends | 194,000 |
| `dll_open` | one program, two launches, no failures of closes | violation of `OpenReturns` | |
| `tls` | two threads, two keys, two values, three creations, two passes, keys with and without destructor | types, values are destroyed once, a destructor's key stays, nothing due is left, threads end | 162,000 |

### Bounds

- Three tasks in `PosixSem` and `Barrier`: two waiters and one task that acts on
  them is the least with a choice of whom to wake; the proofs cover any number
  for the semaphore. `SEM_VALUE_MAX` is 2, so both limits are reached.
- `PTHREAD_BARRIER_FLAG` is 8 instead of 2^31: it only has to be above the count.
- Three tasks and a count of 2: two generations sleep on one condition, and the
  third task arrives at the gate while the round before is leaving. `Rounds` is 2:
  the barrier is used, left and used again, and then destroyed while others are
  still on their way out. The proofs cover any count and number.
- The thread table has 3 slots (main and two threads) and three creations, so that
  it is full, a slot is used twice, and an address is used twice.
- `MaxHeld` is 2, for recursion, and `MaxNest` 4: a recursive mutex whose timed lock
  gives up keeps what the trylock took, so its count is not bounded by what the
  program holds.
- `Calls` is 3 in `NamedSem`: open, use, and unlink or open again. Two addresses let
  a name be created again while the old semaphore is being freed.
- `MaxUse` of `Dll` is 2 instead of 127: the count reaches its limit. `Tries` is 1
  instead of 20: a loader polls, and gives up. `MaxLeaks` is 1: the count of a
  process that lost a close never comes back to zero. Two processes are the least
  with a second launch and with two ports of one name.
- `PTHREAD_KEYS_MAX` and `PTHREAD_DESTRUCTOR_ITERATIONS` are 2: keys run out, a key
  before and one behind the loop's position, and a pass that is the last one.
  `Values` is 2 and `Creates` 3, so that a number is given away again.

### Constraints on the thread runs

The thread runs each leave out what a known race would otherwise show at once:

- `SlotKept` and `NoThreadLeft` are checked for one creator, and proved for it. With two
  creators and a `CreateNewProc` that fails, the second look at the slot
  (`pthread.c:1632`) clears the parent of another thread; the same happens when a
  detached child has already cleared the slot. With two creators the exit function
  passes slots that are given away later (`threads_unload`). Neither happens to
  programs that join all their threads, for which `SlotKept` is proved too.
- `NoThreadLeft` excepts the threads in `raced`: without the exception it fails in
  `threads_free` (see "Known behaviour").
- `JoinGetsItsThread` is checked for threads that return. With `pthread_exit` and
  addresses used again, `pthread_self` may find the slot of a finished thread that
  is not joined yet, and the value goes there.
- `CallsReturn` is checked for joins by the creator, and with a main thread that
  leaves the thread in slot 1 at most to the exit function. The exit function also
  waits for threads whose creators are about to join them: such a thread signals its
  creator only, which clears the slot, and the exit function sleeps on, for ever if
  nobody else signals main. It takes four slots and four creations to get there.
  Slot 1 is the first that the exit function looks at; the thread in it joins its
  children before it ends, and when it has ended no slot is in use.

### Fairness

`FairSpec` has weak fairness of each task's steps inside calls: exec runs ready
tasks of one priority in turns, and a ready task stays ready. Nothing else is
fair: no task has to make a call, no deadline has to pass, no cancellation has to
come. In `Threads` the programs' own obligations are part of it: start routines
end, and a thread that must join its children does.

In `Locks` the timer of a timed call fires in the end, as time goes on; no task has to
unlock. In `NamedSem` the uses of a semaphore end, as `sem_post` and `sem_trywait` do.
In `Dll` the processes of the DLL run on, and programs inside calls; `ClosedDllEnds`
assumes that foreign programs do not go on asking for ever. In `Tls` a destructor
returns after a number of calls: between two of its calls of `pthread_setspecific` the
return is enabled only at times, so this is strong fairness of `DestructorReturns`.

`CHECK_DEADLOCK FALSE` is used where the system may stop: a task cancelled in a
wait keeps the mutex for ever, a barrier waits for tasks that make no more calls,
a program has ended, the bounded calls are used up.

### Findings

1. Lost wake-up (`sem_lost_wakeup`). `_pthread_cond_broadcast` signals the first
   node of the list, and a signalled waiter leaves the list only when it has the
   mutex again. Two posts before it runs both go to it; the other waiter sleeps
   although the value is positive.
2. Unloaded code (`threads_unload`). The exit function waits for slot 1, then 2; the
   thread in slot 2 creates another one in slot 1, which is free again; the program
   ends while that thread runs.
3. Unanswered open (`dll_open`). `dllFreeLibrary` returns with the reply to the close
   message. The process then goes round its loop once more, finds no message, and
   deletes its port. A program that loads the DLL again in between finds the port,
   and its message is put after the last `GetMsg`, or to a deleted port:
   `dllInternalLoadLibrary` waits for ever. A comment in the source doubts this place
   (`dllstartup.c:180-182`).

### Known behaviour without a run of its own

These come out of the same modules with other constants, and are why the runs above
are set up as they are.

- A child that runs before its creator has stored `inf->task` does not find itself in
  the table, and takes itself for the main thread (`EarlyStart = TRUE`).
- The exit function may pass over a thread that runs. It finds the thread not detached
  (`pthread.c:2090`); another thread detaches it (1657); `pthread_join` then finds it
  detached and answers `EINVAL` (1673), which the exit function does not look at
  (2099). The program is unloaded while the thread runs. The same programs show it as
  those of `threads_free`, when the exception for `raced` is taken out of
  `NoThreadLeft`. With the exception the run and the proof say that this window is the
  only one. A detach still later, when main waits in `pthread_join`, makes the thread
  clear its slot without `finished` being set, and main may wait for ever.
- Two first calls on a static mutex that meet both initialise it, and the second
  wipes out the first owner: `Exclusive` fails in `locks` with two `Starters`.
- A normal mutex nests instead of blocking its owner, and `pthread_mutex_timedlock`
  obtains a free mutex twice: it goes on after its trylock has succeeded. One unlock
  leaves the mutex locked, for a mutex of any kind, which is why `NestAccounted` asks
  for equality only of read-write locks.
- The m68k replacement of `__sync_lock_test_and_set` (`pthread.c:203`) answers the new
  value, so the spin lock is never seen free: with `M68k = TRUE` the first call of
  `pthread_once` spins, and `CallsReturn` of `named` fails.

## What is proved

The proofs hold for any finite set of tasks (programs, threads), any supply of signal
bits, any programs of calls and any limits. They assume what the modules ASSUME of
their constants, which TLC evaluates in every run: `NoTaskAssumption`,
`FreeSignalsAssumption`, `TaskAssumption` (the tasks are finitely many),
`ValueAssumption`, `CountAssumption`, `ThreadsAssumption`, `LocksAssumption`,
`OnceAssumption`, `NamedAssumption`, `TlsAssumption` and `DllAssumption`. Two modules
make one more assumption of the program, which stands in their theorems: `SafeStart`
of `LocksProofs`, `OneCreator` or `AllJoined` of `ThreadsProofs`, explained below. The
runs `locks`, `threads_free` and `threads_joined` are of such programs.

### The semaphore of exec

`SignalSemaphoreProofs` shows what the operations do, for two kinds of users. Most
objects obtain a semaphore exclusively and never twice (`WellFormed`): `Obtain` and
`Release` then add and remove exactly one task from those `Involved`, and never take the
semaphore from its owner. The queue cannot contain a task twice, so the hand-over makes
one task ready. For mutexes, read-write locks and `tls_sem`, which nest and share, the
lemmas say how a function from tasks to numbers of locks fits the record: `Covers`
(the semaphore counts at least these locks, a semaphore with an owner no lock of
others) and `Exact` (it counts no more). The locks are counted as the cardinality of a
set of pairs of a task and a number, since the provers have no sums. The hardest lemma is
the hand-over to readers: all that wait are served at once, and `Pick`, which leaves the
writers in their order, is shown to keep each of them once.

### Semaphores

The inductive invariants of `PosixSemProofs` are

- `LInv`: the types (`Typing`), where a condition wait returns to (`AfterInv`), and
  `LockInv`: exactly the tasks at a control point between lock and unlock are
  involved in the mutex, and those at points that are only reached with the mutex
  in hand own it. Mutual exclusion alone is not inductive: it says nothing of who
  is queued. Every action is shown to be one of four kinds of steps (`Asks`,
  `Keeps`, `Releases`, `Avoids`), and each kind keeps `LockInv`.
- `ValueInv`: a task between the test of `value` and its update still has what it
  tested for. It is inductive relative to `LInv`, as such a task owns the mutex.
- `CountInv`: the counters and the list agree with the control points, and the list
  has every waiter once.
- `TimerInv`: inside a condition wait the task's own timer bit means that the
  deadline has passed.

The theorems are `TypeCorrect`, `LockIsExclusive`, `WaitersAreAccounted` and
`TimeoutsAreLate`. With `ResultInv` (a wait that fails has a deadline) each step maps
to a step of `CountingSem` or a stutter: `SemaphoreRefines`, the whole refinement.

### Barriers

The invariant of `BarrierProofs` is `Typing`, `LockInv` and `AfterInv` as above,
`HeightInv` and `DestroyInv`. `HeightInv` says that `total_height` is the number of
tasks in the round, with the flag while the round gathers and without it while it
leaves. What makes it inductive is its last part: a task about to count itself in
knows that nobody is leaving, and one about to count itself out that nobody is
gathering, since it has had the lock from its test on. Theorems: `HeightIsExact`,
`DestroyIsSafe`, `BarrierTypeCorrect`, and `BarrierRefines`, where the round maps to
`inside` or `leaving` of `AbstractBarrier`.

`RoundsAlwaysFull` needs one more part, `RoundsInv`: the calls that have returned,
together with the tasks that have still to leave a round, are a multiple of the count.
It moves by one whole round when the last task arrives, because `HeightInv` says that
the round then has exactly `Count` tasks.

### Threads

The types of the thread table (`ThreadsTypeCorrect`) hold for every program. They need
`LInv`: the types, `thread_sem` as in the other objects, and that `cur` is a slot where a
call uses it as one. `GetThreadId` answers a slot when the table is not full because a
set of positions has a least element, which is proved from the ranks of
`SignalSemaphoreProofs`.

The other theorems are for two kinds of programs. In those of the first kind main
creates all threads (`OneCreator`), whoever joins, detaches, cancels and ends, with children that start
early and addresses that are used again. The invariant `IInv` adds

- `RoleInv` and `MainInv`: only main is inside `pthread_create`, never after the exit
  function has begun, and slot 0 stays main's, so that nothing cancels or ends main;
- `UserInv`: a thread is alone in its slot, which is not finished, has main as its
  parent, and holds its task from `Assign` on;
- `PrepareInv`: the slot that main prepares is free. A detached thread that clears its
  slot has `thread_sem`, so main does not have it then;
- `ClaimInv`: until the exit function begins, a handle, a join under way and a slot that
  was just created never mean the same slot, and there is a thread in it that is not
  detached. Detaching and joining both use up the handle;
- `ClearInv`: a join that is about to clear a slot finds no thread in it. It was
  `finished` when the join looked, and the task was gone then, by `Forbid`;
- `ExitInv`: no thread uses a slot that the exit function has passed, unless the slot
  is in `raced`; and a slot that the exit function is about to join is in `raced` if it
  is detached, as it was not when the exit function looked first.

`ThreadsKeepSlots` follows, as each step that clears a slot or sets its parent is at a
slot that no running thread of another task uses, and `NobodyIsLeft`, as at the end of
the table there is no slot left to be used but those in `raced`.

In the programs of the second kind (`AllJoined`) threads create threads as they like,
each joins its own before it ends, main all but the one in slot 1, and nobody detaches,
cancels or calls `pthread_exit`. `CreateNewProc` succeeds, because the second look at
the slot would clear another thread's parent otherwise. The invariant `TreeInv` says
that the threads are a tree:

- `UserTree`: a thread is alone in its slot, which is not finished and has a parent;
- `SlotTree`: the parent of a slot is in a call that deals with it or has a handle of
  it, is there, and has a smaller number in its own slot than the thread in this one;
  a finished slot has the value of its thread;
- `CallTree` and `HandleTree`: the slot of a call or a handle is the caller's, holds the
  thread that is meant, and no two of them mean the same slot;
- `TestTree`: the thread that the exit function has found in use in `pthread_join` is
  still one of main's, since nobody else joins it;
- once main has nobody left to join (`Closing`) no thread runs and no slot has a parent
  (`NobodyThere`).

The last is the heart of it. The exit function leaves a slot behind as soon as it is
free, and would miss a thread that is created in it later. But the oldest thread, by
its number, whose parent is not main would have a parent that is older, and its parent
can only be main (`MainsThreadRuns`); so when main's last thread has ended nobody is
left, and nobody can be created (`MainsLastThread`). `NothingUnloadedRuns`,
`ParentsOutlive`, `JoinsTheRightThread` and `JoinedKeepSlots` follow.

### Mutexes and read-write locks

`LocksProofs` takes one thing of the program for granted, `SafeStart`: a static object is
initialised by its first call in one task only. Two first calls that meet both run
`InitSemaphore`, and the second wipes out the owner that the first has made. The
invariant `IInv` is the types, `Accounts` (the semaphore counts what the tasks hold and
what exec has served, and for a read-write lock nothing else), `Owned` (a mutex that is
counted has an owner), and for each task `InMode`, `Asks` and `Rules`: who has the
semaphore has it in the mode that the owner field tells, who waits is in a call for that
mode, and the calls keep to the rules of the program until they return. `Started` says
that nothing happens to an object that is not initialised. `Exclusive` alone would say
nothing of requests that exec serves while their call still believes it waits; these
are what a timed call must give back. Theorems: `TypeCorrect`, `LocksExclude`,
`CountsAreRight`.

### Once and named semaphores

`OnceInv` of `NamedSemProofs`: with the spin lock a task is alone among those inside,
and what is done is what its control point says. `OnceIsOnce` follows for both
definitions of the atomics, as nobody is let in wrongly by the replacements; they only
let nobody in. For the list, `PointInv` says that nobody reaches it before the routine
has been run, and that it is empty until then; `GuardInv` is `LockInv` for `sema_sem`;
`NodesInv` that names and addresses are in the list once; `UseInv` that the locks have
those in them that use the semaphores. Theorems: `NamesAreUnique`, `FreedIsUnused`,
`NamedTypeCorrect`.

### Thread-specific data

`TlsProofs` shows `DestroyedAtMostOnce` from `OnePlace`: a value that has been set is
in one place at most, in the argument of a call, in a key of a thread, or with a
destructor. The argument does not use `tls_sem`.

The other theorems do. `SemInv` says that `tls_sem` counts exactly the calls that have
it, that a destructor runs with it shared, and that the calls inside of a destructor
share it once more without waiting. So no key is created or deleted while a thread is
in its loop: `Loop` says that the key of a running destructor keeps it, and that a pass
that has called no destructor has left nothing due behind, and the steps of other
threads keep it for this reason only. Theorems: `TlsTypeCorrect`, `DestructorsStay`,
`NothingIsLeft`.

### Shared libraries

The invariant of `DllProofs` is `Types`, `PortInv` (a process has its port in the list
exactly from `CreatePort` to `DeletePort`), `BoundInv` (a program is bound to the
first port of the list, as long as that port exists), `ClientInv` (what the control
point says of node, handles and reply), `MsgInv` (a message has its sender waiting,
and a sender has one message anywhere) and `CountInv` (the open count is the number
of holders plus lost nodes, and is 0 when the process means to end or has left its
loop). The step that matters is the close: the closing program is a holder, so the
count is positive before, and no other holder is left when it comes to 0. Theorems:
`OpensAreCounted`, `LoadedStaysHolds`, `MessagesAreAlive`, `DllTypeCorrect`.

### Only model-checked

All liveness (`SleeperWakes`, `RoundLeaves`, `GateOpens`, `TimedReturns`,
`QueryAndFreeReturn`, `ClosedDllEnds`, `ThreadEnds` and the `CallsReturn` of three
modules): the provers do not do fairness. Every invariant and action property that a
passing run checks is also proved, under the assumptions above. The properties of
exec's semaphore are those of the model of `SignalSemaphore`; exec itself is not part of
the repository.

## What is not modelled, and why

- Attribute and scheduling getters and setters: assignments to structures of one task.
- Cancel states, cleanup handlers and the asynchronous cancel handler of the thread
  table; TLS destructors that create or delete keys (they block for ever, by their
  own thread's shared lock).
- `pthread_cond_*` as a program calls them directly with a relative time or a static
  condition; `CondVar` is checked through the semaphores and the barrier.
- The AmigaOS branch of `_obtain_sema_timed`, which puts a request of its own into the
  queue of the semaphore.
- `sem_unlink` of a semaphore that tasks sleep on.
- In `Dll`: DLLs that import from other DLLs, more than one port name, the kill message.
- Socket helpers and stack enlargement: sequential functions without state.
- The archivers: ports of third-party code. They are nearly all of the repository's
  lines, and the models deliberately cover the rest, the libraries of its own.
