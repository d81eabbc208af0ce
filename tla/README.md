# A verification project for EKOTURBO

EKOTURBO writes Samsung firmware to phones in download mode ("Odin"
protocol), from an Android app and from a command line program that share one
C++ engine under `app/src/main/cpp/EKO/src`. This directory holds TLA+ models
of the parts of it that are hard to test, TLC runs that check them on small
instances, and TLAPS proofs for every size of the instance.

Paths below are relative to `src/app/src/main/cpp/EKO/src` (C++) and
`src/app/src/main/java/com/eko/f` (Java).

    tlc -config MCPrefetcher.cfg MCPrefetcher     # a run
    tlapm PrefetcherProofs.tla                    # proofs; section 4 lists the modules

## 1. Inventory

| component | state | operations | interacts through | hard behaviour | what makes it correct |
|---|---|---|---|---|---|
| prefetcher, `core/prefetcher.hpp` | slots, `filled_`, read and write index, `done_`, `stopping_`, `error_` | `next`, `~Lease`, `status`, `request_stop`, the reader's loop | fill callback, leases on slots | two threads, two condition variables, slot contents read and written outside the mutex | the windows come once, in order and intact; an end of the stream is the end or has a reason; nobody sleeps for ever |
| flashing step, `protocol/odin/group_flasher.cpp:467-746` | `cur`, barrier, `dead`, `failed_count`, loop counters | coordinator's `emit`, worker's `exec` | barrier, shared step, lease, transports | N+1 threads, devices that fail at any step | lockstep; data is leased while it is sent; legal command order per device; everybody leaves |
| `flash()`, `group_flasher.cpp:245-767` | active devices, failures, packet size, PIT tables, plan | nine steps, fan-out over the devices, verdict | Odin commands, callbacks of the UI | partial failure at every step, three places that count it | every lost device counted and reported once; verdict sound; same mapping on all devices; survivors shut down |
| cache, `app/md5_xxh3_cache.cpp` | entry list with a clock; main, `.tmp` and `.bak` file | load, lookup, remember, forget, save | file system | a crash or an I/O error between any two operations and in the middle of a write or a copy, damage, limits | what was committed survives; eviction by use |
| Android session, `FlashService`, `ErosFragment`, `EkoStore`, `UsbDetachReceiver` | button flag, store, start commands, service object, wake lock, watchdog, flash threads | start, cancel, detach, reopen, service callbacks, thread, watchdog | intents, start numbers, shared store, shared service fields | main thread against flash threads, service lifetime against thread lifetime | one flash at a time; every start answered; service and lock end with the work, not before |
| USB sending, `platform/linux/usbfs_conn.cpp`, `native-lib.cpp` | slots, counters, `connected_` | `send`, drain | usbfs ioctls | eight URBs in flight, failures in the middle, unplugging | order, slot reuse, buffer given back, one zero length packet at the end |
| thread pool, `core/thread_pool.cpp` | queue, active count, cancel flag, first error | submit, wait, cancel, stop | tasks | lost wake-ups, wait against take, stop against queue | no task lost; wait covers; errors kept |
| Odin commands, `protocol/odin/odin_cmd.cpp`, `pit_transfer.cpp` | none but the transport | handshake, version, options, PIT get and set, download, shutdown | transport | time-outs, retries, answers that come late | requests and answers stay in step; a session ends |
| PIT, `protocol/odin/pit.cpp` | table | parse, find | bytes | two formats told apart by a guess, lengths by the next partition | no overlap, no gap |
| input expansion, `protocol/odin/flash.cpp` | list of images | expand tar or raw, map to PIT | tar, lz4 | download lists, duplicates, several archives | the last image of each name, as the lists allow |
| LZ4 frames, `io/lz4_frame.cpp`; tar, `io/tar.cpp`; sources, `io/source.cpp` | offsets, block counts | header, read blocks, scan | byte sources | arithmetic at limits, truncated input | what was packed comes out; damage is refused |
| USB devices, `platform/linux/usbfs_device.cpp`, `sysfs_usb.cpp` | fd, claimed interface | open, close, enumerate | ioctls | rollback | what is claimed is released |
| TCP, `platform/posix-common/tcp_transport.cpp` | listener, connection | listen, accept, send, receive | sockets | parts of a stream | as the Odin commands |
| wireless listener, `WirelessFlashManager`, `EkoTcpTransport` | mode, channel, selector, current connection, thread | switch on, switch off, the listener's loop | sockets, store | a thread that outlives its stop shares all fields with the next one | no connection forgotten, the port given back |
| signal shield, single instance | handlers, lock socket | enter, leave, acquire | the operating system | signals at any point | restored and released |
| command line, `app/cli_mode.cpp` | arguments, targets | run | all of the above | every step may fail | what is held is held under the lock; exit codes are true |
| JNI bridge, `native-lib.cpp` | native session | create, run, destroy | callbacks | failures at every step | one verdict, and a true one |
| screens, root tools, other platforms, third-party code | | | | | |

The commands and events that tie them together: a screen starts `FlashService`;
its thread calls `nativeRunSession`, which expands the inputs and calls
`flash()`; `flash()` fans commands out over transports; its flashing step reads
images through the prefetcher and drives one worker per device; results come
back through callbacks into `EkoStore`, which the screen observes.

`PROJECT.json` lists the components with their status, and the hazards, each at
its line, with the properties that cover it.

## 2. Plan

1. **Prefetcher**, with **WindowStream**, what it promises, and proofs. Done.
2. **FlashBarrier**: the flashing step over the promise of WindowStream. Done;
   every safety property of it is proved.
3. **GroupFlash**: all of `flash()`, with the flashing step by its result. Done,
   with proofs for any number of devices.
4. **Md5Cache**. Done, with proofs for any keys, values and limits.
5. **FlashSession**. Done for the session, with proofs for any number of commands
   and screens; file copying stays out.
6. **UsbPipeline**. Done for sending, with proofs for any depth of the pipeline.
7. **ThreadPool**. Done, with proofs for any number of workers, clients and tasks.
8. **OdinCommands**: requests, retries and late answers over the three transports,
   with the synchronous send and receive, and the PIT transfer. Done;
   `SessionSound` and `PitIntact` are proved for any plan and PIT.
9. **TarScan**, **ImageInput**, **WindowPlan**, **PitTable**: from the bytes of the
   files a user selects to windows of images, as operators, checked against what the
   files were made of. Done; the windows are proved for all sizes, the layout of
   a table for all tables, the reading of archives for all members and the choice of
   images for all files.
10. **FlashRun** over these: `flash()` as its callers see it, and the callers:
   **CliProgram** (lock, devices, listener, shield, exit code) and **NativeBridge**
   (a session of the app). Done, with proofs for any number of processes and devices
   and any files and tables.
11. **WirelessListener**. Done, with proofs for any number of switches and phones.
12. **FrontEnds** composes 9, 10 and 11 into the two programs. Done.

Each module has its parameters as constants with named assumptions, one action
per operation, and no recursive operator, so that it can be proved about.
Definitions marked "Defect" are not part of the specification: each is a
plausible bug of one definition, and shows that a property would notice it.

## 3. Modules

Parts that never meet can share a run: `MCFlashAndCache` (`flash()`, the cache) and
`MCSessions` (the app's session, the session with a device) choose at the start which of the
two a behaviour is about (`part`) and leave the other one alone, so the states of the two
are added and not multiplied, and each part has every behaviour it has by itself.

### Prefetcher and WindowStream

`WindowStream` says what a sender may rely on: it takes window 1, 2, 3... of
the image and is told "no more" only after the last one, after a failure that
`status()` reports, or after it stopped the stream itself.

`Prefetcher` is the code: the reader thread (`reader_loop_`) and the sender
(`next`, the lease, `request_stop` in the destructor) as one action per section
under the mutex. The constant `NumSlots` stands for `kNumSlots`, `NumWindows`
for the length of the image. A fill is two actions, so that the slot is being
written while other things happen. The two condition variables are modelled by
threads that sleep until notified, so that a lost notification would show. The
fill may fail or throw at any window. `IInv` relates flags, indices and the
windows in the slots to three counts: stored, taken, released.

Runs: `prefetcher` (4 slots, 9 windows: the ring goes round twice, all slots
are full and all are empty at some time). It checks the invariants, that the
ring implements `WindowStream` with the mapping at the end of the module, that
`next()` returns and that `request_stop` completes. Fairness: both threads run,
and a fill ends, which is what a read from a file does.

### FlashBarrier

The coordinator (`send_prefetched`, `emit`) and one worker per device. `cur` is
the shared step; `std::barrier` is the set of threads that wait, let go when it
is complete. A worker copies the step and performs it as two actions, so that a
coordinator that runs ahead would change the step under it. `lease` is held from
`next()` to the end of a window. A device may fail at every step and its worker
then only keeps the beat. The image may turn out unreadable at any window.
Every image read by the coordinator comes from `WindowStream`, so the module
does not repeat the ring.

Run `flash_barrier`: two devices and the coordinator, two items of two windows
and one. `Lockstep` (no worker is more than one phase away from the
coordinator, and all copies of a step agree), `LeaseCoversReads`,
`ReportsAreTrue` (when the step returns, every device alive has received every
item, unless a source failed, and the failures counted are the devices that died;
an item reported as done was acknowledged by every device that is alive),
`DevicesFollowProtocol` (what a device performs is begin, data..., end per window,
in order) and
`FlashStepReturns`. Fairness: every thread runs, and an Odin command returns. That
is an assumption: receives have a time-out, but the asynchronous sends over USB
wait for the device as long as that takes (see UsbPipeline and OdinCommands).

### GroupFlash

One action per step of `flash()`. `fanout_keep` starts one thread per device and
joins them all, and they share nothing, so a fan-out is one action that picks the
devices that fail. Accounting follows the code: `failed_total`, `first_err`, and
the number of DEVFAIL messages of each device. A PIT is a function from sources
to entries; `map_to_pit` folds the sources into items. The flashing step picks
the survivors and whether the coordinator failed, with what FlashBarrier
guarantees of them.

Run `flash_and_cache`, the part `flash`: three devices, two sources, a PIT to upload. It checks
accounting (`FailuresAccounted`), that the mapping suits all devices
(`DevicesAgree`) and how it ends (`EndsWell`: the verdict says who was lost, shut
down and written completely, and survivors are shut down whatever it is). Three devices let one fail before and
one after another; two sources are enough for a conflict. `flash()` is one
thread without a loop of its own, so its liveness is that of its steps, which
FlashBarrier and UsbPipeline check.

Run `group_flash_done` is a finding, see section 5.

### Md5Cache

The list of entries (`remember`, `lookup`, `forget`, `normalize_entries` with its
limit) and the three files through a save: open, partial writes, flush,
verify, copy to the backup (begin, parts, end), rename, with an error or a crash after
each. A file is missing, damaged, incomplete or holds a list; load tries main, backup
and temporary as the code does. `copy_file` may be cut off anywhere, in the middle of
a row or of the first line, and leaves what it copied (`SaveCopyPart`, `cut`).

Run `flash_and_cache`, the part `cache`, has three keys for a list of two entries, the smallest case in
which a key is evicted that is not the newest, and a parser that takes such a
list. It crashes after any operation and damages one header. `ListSound`
compares the list with a history of uses. `CommittedSurvives`: without a damage a load
gives what the last successful save wrote. `DamageRecovers` says what is left when the
header of the main file was damaged: what that save or the one before it wrote, or
the one in progress. There is one exception, and it is the code's. Load takes the first file with the
header line, so after a copy that was cut off it prefers the partial backup to the
`.tmp` file, which lies beside it whole and verified. Then the entries used last are loaded
and the others are gone; nothing stale and nothing wrong is.

### FlashSession

The screen, the store, the service and its threads. A handler on the main thread
is one action, but for two that flash threads can meet half-way: `acquireWakeLock`,
which makes a lock and then acquires it (`OnStart`, `AcquireLock`), and the run of a
watchdog (`TickBegin`, then `TickAgain` or `TickFires`). Meanwhile the main thread
takes no other message (`LooperFree`). The end of a flash thread is split at every access to
a field that the main thread changes: `Finally`, `FindLock`, `ReleaseLock`,
`ClearLock`. Wake locks are objects, numbered by the start that made them; the field of
a service object and the set of locks that are held are two things. Android is modelled by what the code relies on: start commands are
delivered in order and numbered, `stopSelf(id)` ends the service only for the
last number given out, and a destroyed service is a new object at the next
command. `inst` numbers the objects, because a flash thread goes on with the
fields of the object that started it. `sessionActive` starts as false and no
code sets it, so `CancelSession`, which tests it, never does anything; the model
keeps the test because the code does.

A watchdog that was taken out of the queue to be run is not reached by
`removeCallbacks`, and an ordinary run ends with posting itself again, whoever stopped
it meanwhile (`TickAgain`). So a session may leave a watchdog behind, which
`overtaken` records. And since `releaseWakeLock` reads the field
three times, the thread of one session may release, or clear from the field, the lock
of the next one, if that was accepted in the same service object (`Shared`).

Run `sessions`, the part `app` (three commands, one reopened screen, promotions that may fail)
checks that the service goes with its work and that a wake lock does not outlive the session it was
made for, nor the service object that made it, but where two sessions shared one
(`ServiceSound`), that no watchdog outlives its session but those two kinds
(`WatchdogEnds`), that one screen has one flash at a time (`OneSessionPerScreen`) and
that an accepted session comes to its end (`FlashSettles`): with a screen that takes the next
start (`AcceptedAnswered`) and with no watchdog going on. Three commands suffice for two sessions in one object or in two, with a
cancel or a plain start before, between or after; the safety properties were also
checked once with four (11.7 million states). A watchdog that was left behind comes to its
end once no flash runs any more (`StrayWatchdogEnds`): nobody pings it then, so its time is
up at one of its ticks. When it fires it calls `cancelSession`, which does nothing.
Deadlock is not checked: when the
commands are used up and all work is done, nothing happens any more. Fairness:
threads run, and what the main thread has begun it ends (weak); the main looper takes
its messages in the order in which they are due, so a command, a value that was posted
(for LiveData: the screen becomes visible again) or a callback is not passed over for
ever by others (`FairLooper`: strong fairness, as the looper is busy now and then); a watchdog
that nobody pings is due at some tick (`Unpinged`); the native call returns, which is
an assumption where it waits in a send without a time-out, until the device is
unplugged. `flash_session_two`
is a finding.

### UsbPipeline

`send` and the drain of `UsbFsConnection` and of `AndroidUsbTransport`, which
share the loop and differ in the flag of their URBs (`impl`, `ZeroPacket`). The
kernel is external: it completes URBs of an endpoint in order, with or without
an error, keeps completed ones until they are reaped, and gives all of them back
when the device is unplugged. Older kernels refuse to reap once the device is
gone; both behaviours are allowed. A chunk is a number; of its length only
matters whether it fills whole packets. `zlps` are the chunks that an empty packet
followed.

Run `usb_pipeline`: three slots (eight in the code), up to five chunks, two
sends. Five chunks let the slots go round, so that the oldest URB is not always in
the lowest slot, which is where the drain begins. It checks that what the kernel
holds is never written over (`UrbsSound`: no slot used twice, nothing of the
caller's buffer left behind by a send), that the drain never waits for the
device (`DrainNeverWaits`, the reason why a stalled device cannot hang the drain
though `USBDEVFS_REAPURB` blocks), that success means every chunk arrived, once and in
order (`SuccessIsComplete`), and that `send` returns (`SendEnds`). The last one assumes that the device takes or refuses every
URB in the end: the asynchronous path has no time-out. Deadlock is not checked,
as the calls of `send` are bounded. `usb_zero_packet` is a finding.

### ThreadPool

Workers, clients, queue and both condition variables, with sleepers that are woken
one at a time or all together, and spurious wake-ups. `submit` pushes and notifies
in one action: a worker that looks in between finds the task itself. Run
`thread_pool`: two workers, two clients, three tasks, two waits. `TasksSound`: no
task is lost or in two places, and a wait that passes has waited for every task
accepted before it began. `ErrorsKept`: the error of a finished task is on record,
so such a wait reports it. `WorkEnds` and `StopJoins` are the liveness of the three
condition-variable loops. Fairness: threads run and tasks end; no client is
obliged to call anything. Deadlock is not checked: a pool at rest is no error.

### OdinCommands

A command is a script of sends and receives, performed call by call over one of the
three transports, which differ in what a receive waits for, what a time-out does
and what is tried again. The phone is external: it takes what was sent in order and
at its own pace, answers, refuses or says nothing. Answers carry the type of a
command, not its number, so that a late answer can stand for another command's. The
retries of `get_pit_size` are those of the code. A send that times out may have
delivered a part (`SendTorn`): the phone has that as a transfer of its own, and the app
begins the buffer again behind it, while the TCP connection gives up. There is one such
send in a session at most (`MaxTorn`). The plans are the sessions that
`flash()` and `nativeReadPit` issue; what the proof uses of them is stated as
`PlansAssumption`.

Run `sessions`, the part `device`: every plan over every transport, a PIT of three parts, one
retry, two attempts. `PitIntact`: the table that is accepted is the phone's,
whatever came late. `SessionSound`: a session that is closed with success had no
command refused or ignored, but for those whose answer the code does not look at
(`MayBeLost`), and no answer is left in the pipe. Both leave out sessions with a send
that was cut off, as the phone may answer the part too. `SessionEnds`: every session
ends, or waits for ever in a send that the phone never takes. The fairness is that the
calling thread runs and that a call with a time-out returns; the sends of the command line
program over USB and those of the app of more than 2 KB wait in `USBDEVFS_REAPURB`,
which has none (`Blocked`), and nothing is assumed of them. Deadlock is not
checked: a session that has ended stays so. `odin_handshake` is a finding.

### TarScan, ImageInput, WindowPlan, PitTable, FlashRun

Operators, translated function by function, and a reference to hold them against.

`TarScan` reads an archive of blocks: headers, pax records, GNU long names, hard
links, padding, the end. The reference is an archiver, `Pack`, that records name
and size in any of the ways. `ArchiveRead` says that what was packed is read back,
each member with its own data, and that an archive that was shortened, whose
checksum is wrong or that has a size no file can have is refused.

`ImageInput` is `expand_inputs_tar_or_raw` in its passes (`Opened`, `Archives`,
`Candidates`, `Kept`, `Specs`) with the download list, and the list the app makes
instead (`AppSpecs`). `ImagesChosen` says which images remain in the command line
program (`CliChoosesWell`), and that both programs end with the same ones
(`SameInTheApp`) where the rules they follow are the same (`Alike`): neither refuses,
every file is an archive to its first block, and no list and no empty image is among
them. Frames (`lz4_frame.cpp`) are headers and blocks.

`WindowPlan` cuts an image into windows: by blocks of a MiB for a compressed
download, by the buffer otherwise, padded to packets. `WindowsExact`: the windows
carry the image exactly, the last one is marked and the frame reader is asked for
exactly its blocks.

`PitTable` guesses which field of an entry says where a partition begins and takes
its length from the next one. `PitLaid`: the table leaves no overlap.

`FlashRun` is `flash()` for its callers: a phone's table, the mapping, the images
one after the other, a source that breaks, the last device that fails. It keeps
the defect of `group_flash_done`, which its properties make an exception for
(`broken`). `WellFormed` are the frames whose blocks are those their header gives room
for, `InSmallBlocks` those of up to a MiB in blocks that are smaller, which the header
check lets pass and the compressed download cuts off after their first block.

### CliProgram, NativeBridge, WirelessListener, FrontEnds

`CliProgram` is `run_cli` in several processes: the lock, the arguments, the listener
or the USB devices with the rollback of `open_and_init`, verification, expansion,
the flash under the signal shield with its watcher thread, and the way out, on which
C++ destructors release what is held in the reverse order. Listening may fail for any
reason. The kernel takes back
what a killed process held, but for the driver it had detached. `NativeBridge` is a
session of the app from `nativeCreateSession` to `nativeDestroySession`, with what
it tells its callbacks. Files whose descriptor is not valid are passed over (`Picked`).

`WirelessListener` is the app's wireless mode: the main thread that switches it, a
thread per start, the fields they share under `stateLock`, and the sockets. One
action is a section under the lock or what follows it up to the next one. A
selector that is closed throws in its thread; an interrupt closes a channel in
`accept`. `open` are the connections this end has not closed. An exception after
`accept` is swallowed and leaves the connection open with nobody to close it
(`AcceptThrows`); `leaked` remembers those. No session of the engine
runs over it: `nativeRunWirelessSession` was removed and
`takeConnectedTransportForFlash` has no caller.

Run `front_ends`: two processes, two devices of which one has a driver bound, two
signals and all kinds of invocations; or a session of the app over every archive of
up to four members, cut and damaged files, frames of one to nine units with every
irregularity; or four switches of the wireless mode and two phones. A block is two
units, a window two blocks, a packet three units, so that every remainder occurs.
Processes are symmetric (no liveness is checked here). Besides the properties named above it
checks:

- `HeldUnderLock`: what a process takes it has under the lock of the only instance,
  and one that has ended has none of it, nor the lock;
- `DriversReturn`: a driver that was bound comes back on every way out but a kill, and
  no process is killed where the user sent no signal (`WakeUpTaken`). The shield ends by
  sending its own process a SIGTERM to wake its watcher; if that were not taken, the
  restored mask would deliver it;
- `SuccessTrue`: exit code 0, and a good verdict of the app, mean that every image was
  written whole. Three things are left out: a source that broke (`group_flash_done`), frames
  that are not `WellFormed`, and frames `InSmallBlocks` (`front_ends_small_blocks`);
- `BridgeAnswers`: a session of the app gives one verdict, as the last thing it says
  and before it is freed, and a bad one after an error;
- `ListenerSound`: every connection has an owner, but those that are `leaked`, the port is
  given back, and a listener no other thread overlaps goes on listening.

`front_ends_small_blocks` is a finding.

## 4. What is proved

`PrefetcherProofs` extends `Prefetcher` and proves, for every `NumSlots >= 1` and
every `NumWindows` (the assumptions named in the module):

- `PrefetcherCorrect`: `Spec => [](TypeOK /\ PrefetcherInv)`;
- `LeaseStable`: the window under a lease is the right one, and its slot is not
  the one being written;
- `TruncationReported`: an early end is reported by `status()`;
- `PrefetcherImplementsWindowStream`: the refinement.

The inductive invariant is `IInv /\ EndInv`. The indices and flags of the ring do
not say enough: a slot that is full says nothing of which window is in it. `IInv`
adds that the slots hold exactly the windows from `released` to `published - 1`,
each in the slot of its number modulo `NumSlots`, that there are at most
`NumSlots` of them, and where each thread may be. From it follow the lease (two
numbers less than `NumSlots` apart have different slots) and, with `EndInv`, the
refinement. The arithmetic of remainders that this takes is proved in front of it,
from the definition of division.

`FlashBarrierProofs` extends `FlashBarrier` and proves, for every finite set of
devices that is not empty and every shape of the images:

- `BarrierTypeCorrect`: `Spec => []TypeOK`;
- `BarrierLockstep`: `Spec => []Lockstep`;
- `BarrierLease`: `Spec => []LeaseCoversReads`;
- `BarrierReports`: `Spec => []ReportsAreTrue`;
- `BarrierProtocol`: `Spec => DevicesFollowProtocol`, an action property.

The inductive invariant names the beats between two passages of the barrier. In
`Open` all threads gather before a step, in `Close` all gather behind it, and in
`Over` the workers are gone. A thread that arrives last takes the system from
`Open` to `Close`, or from `Close` to `Open` or, when the step was `Quit`, to
`Over`. `Lockstep` is not inductive: it does not say who waits at which barrier,
so a thread that arrives might release the others too early. `Leased` ties the
lease to the step that is published. What the devices have received needs more:
`Place` says which step the coordinator's loop counters stand for, and `Performed`
that every live device has performed the steps up to it, the step itself included
when the device is through with it; `Before` is the step before another in the
order of the protocol. `Counted` keeps the failures equal to the number of the
dead.

`GroupFlashProofs` extends `GroupFlash` and proves, for every number of devices
and sources and every set of PITs:

- `GroupFlashAccounts`: `Spec => [](TypeOK /\ FailuresAccounted)`;
- `GroupFlashVerdict`: `Spec => []EndsWell`;
- `GroupFlashAgreement`: `Spec => []DevicesAgree`.

The inductive invariant adds that a device is left in every step before the
flashing step (`SomeLeft`; the mapping step looks at the first one), that the CPU
ids and the entries of the plan agree from the step that compares them on
(`SameCpu`, `SamePlan`), and that survivors have the plan once flashing is over
(`SurvivorsWritten`). What a fan-out does to the accounts is one lemma
(`TallyAccounted`) for all steps. That `map_to_pit` finds a last source for a
partition is shown by the pigeonhole principle.

`Md5CacheProofs` extends `Md5Cache` and proves, for any keys, values and limits of
the list and of the parser:

- `CacheKeepsOrder`: `Spec => []ListSound`;
- `SavesSurvive`: `Spec => []CommittedSurvives`;
- `OneSaveLost`: `Spec => []DamageRecovers`.

The order of the last uses is not kept by the list alone: a load takes it from a
file. So every list, in memory or in one of the three files, is one whose entries were
touched at different times (`Lists`), and that in memory agrees with the history of
uses (`Ordered`). For the saves the invariant says where the `.tmp` file is known to
be good (`Saving`), that without a damage the primary file, once there is one, is
what was committed (`Undamaged`), and that after a damage it still is, or the backup
has what was committed, or a beginning of it where the copy was cut off, or the `.tmp`
file what is about to be (`OneHolds`).

`SessionProofs` extends `FlashSession` and `OdinCommands`, the session of the app and
the session with a device. It proves of the first, for any number of start commands
and reopened screens:

- `SessionReleases`: `SessionSpec => []ServiceSound`;
- `WatchdogStops`: `SessionSpec => []WatchdogEnds`;
- `ScreenGuards`: `SessionSpec => []OneSessionPerScreen`.

`stopSelf(id)` ends the service only for the last number given out, so the invariant
counts numbers: the commands that wait have the last ones (`Numbered`), the threads
have numbers of commands that were delivered, and each belongs to the service object
that took it (`Owned`). A service object stays only while the last command is
waiting or held by a thread of it (`Kept`). A wake lock that is held is the one in the field of its service
object, which is there, and its thread has not come past the point at which it releases it, unless
another thread has the same object (`LockKept`). A watchdog callback that is posted, or
that the looper runs, is the one its service object knows, so that the end of the
session takes it back, unless another thread has the same object or the callback was
running when it was stopped (`Guarded`). `OneFlight` counts a flash from the
command that asks for it to the end of its native session: until a screen is created
anew there is at most one, and none while the flag of the screen is down.

Of the session with a device it proves, over each transport and for any plan, number
of retries and attempts, and size of the PIT:

- `InvHolds`: `Spec => [](Whole => OInv)`, the inductive invariant, for sessions in which
  no send was cut off;
- `SessionIsSound`: `Spec => []SessionSound`;
- `PitIsIntact`: `Spec => []PitIntact`.

A session that ends well has used up every answer, so the invariant says at each call
of the script what may be in the pipe, in the buffer of a receive and with the phone.
In an ordinary command it is the dialogue so far (`Ordinary`, `Talking`): nothing, or
the last request, or the answer to it. The exception is `get_pit_size`, which tries
again and leaves what came late: at most one answer for each attempt that is over
(`Sizing`, `Asking`). `get_pit` meets those: they all come before the first part of
the table (`FirstPart`), which is longer than they are together, so when
the receive of that part is through it has taken every answer that could pass for
one to the last request; bytes of the table and refusals cannot, and may stay in the
pipe until then (`LaterParts`, `Completing`).
After `end` only the answer to a reboot may come (`Closed`, `Leaving`), and an
operation begins with nothing outstanding (`Fresh`).

`PitIntact` needs the bytes as well. The invariant of `get_pit` (`Filling`) has numbers
for all that is under way: requests and answers of `get_pit_size` that came late, with
the phone and in the pipe, packets of the table in the pipe, late bytes that were
taken as bytes of the table, and parts the phone has given, the script has asked for
and has received. The packets are the table from where the bytes received end to where
the parts given end, piece by piece (`Flow`), and what was received is the table but
for the late bytes, which can only have come in the place of the first bytes
(`Shifted`). The first part is longer than all late answers together, so its receive is through
only when none can come any more. A late answer that began a receive over USB can
not be followed in it by the part, since a packet is not split there (`Packed`). Over
TCP it can: then as many bytes of the table are left in the pipe at the end, and the
transfer is refused, because they are in the place of the answer to its last request.
So what is accepted is the whole table, each unit in its place.

Two assumptions carry this. `OdinAssumption`: the first part of a table, 500 bytes or
all of a shorter one, is at least as long as the answers to all attempts, three of 8
bytes. `PlansAssumption`: `get_pit` comes once, directly after `get_pit_size`, and
after `end` only a reboot, which is last, as `flash()` and `nativeReadPit` call them.
TLC evaluates both in the runs, and `OInv` was checked with it before it was proved.

`FrontEndsProofs` extends `FrontEnds`, the composition of the two programs, and proves
about its `Spec`, for any number of processes, switches and phones, any finite set of
devices (`CliAssumption`: a list is made of it) and all sizes:

- `LockCovers`: `Spec => []HeldUnderLock`;
- `WakeUpIsTaken`: `Spec => []WakeUpTaken`;
- `DriversComeBack`: `Spec => []DriversReturn`;
- `SessionsAnswer`: `Spec => []BridgeAnswers`;
- `WirelessSound`: `Spec => []ListenerSound`;
- `TablesLaid`: `Spec => []PitLaid`;
- `SuccessIsTrue`: `Spec => SuccessTrue`, an action property;
- `ImagesCutExactly`: `Spec => []WindowsExact`;
- `ImagesWellChosen`: `Spec => []ImagesChosen`;
- `ArchivesReadBack`: `Spec => []ArchiveRead`;

and about the cut of an image, `CutSpec` of `WindowPlan`:

- `CutExact`: `CutSpec => []WindowsExact`, the windows of an item add up to it;
- `CutPadded`: every window is sent in whole packets.

A step of the composition is a step of one of the programs and a stutter of the
others (`ProgramSteps`). For the command line program the invariant says that the
lock belongs to the process that is past it and has not ended (`Locking`), at which
places a process may hold what (`Holding`: the devices it claimed are those it
opened), that a driver is detached only of a device being used (`Detaching`), and that one
that is missing has somebody to put it back, or a killed process (`Missing`). A step
of one process leaves what the others rely on alone (`OthersKept`), so each action
is looked at for one process. For `WakeUpTaken` it adds that, as long as the user sent no
signal, one is pending only in a process that has sent the wake-up and whose watcher has not
ended (`Woken`). Of the app's session it says how many things it has
told at which place. Of the listener the property says nothing about
who holds the port; the invariant adds that a channel with the port is not
published yet, or published, or about to be closed by the main thread (`Ports`),
that a stop leaves nothing published (`Mode`), and what a thread without company can
rely on (`Alone`, `First`); from `Ports` follows that there is one. Of the cut it
says that one that has packed a window had a block size to pack with; the
arithmetic of rounding is proved from the definition of division.

The last five are about whatever files a user selects and whatever table a phone
gives. What lies between a file and a flash is computed by folds: a scan over the blocks
of an archive, passes over the images, the mapping. The library's induction takes an
operator, which the provers cannot instantiate, but not the argument behind it: a
set of numbers with 0 in it that goes on with every number has all of them
(`Upwards`, from the least number outside). So a fold has an intermediate result at
each place (`FoldExists`), and what each step keeps holds at the end. It is used for each
fold once: `PickedFacts` and `FlatFacts` say which element stands at which place
when some are picked or sequences are put behind one another; the scan, the
choice of images in both programs and the mapping keep the types of what they compute
(`ImageChoices`); the mapping has no partition twice (`OnePerPartition`); and what
a row of blocks carries is what each of them carries (`BlocksCarry`).

`TablesLaid` is then a fact about every table (`LaysOut`): the beginnings of an order
rise, so a partition that ends where the next one begins ends before all that follow.
For `SuccessIsTrue` the invariant says that the flash is cut as `CutSpec` cuts it, with
the size of its current image, that every image before it was written whole (if it is
`Regular`), and that what was written of the current one is
what was sent of it (`FlashInv`): for a
compressed download this is where the windows meet the frame, whose blocks in a row
carry as much as their windows count (`BlocksMatch`). An image is
closed only with its last window, and the flash ends after the last image, so
`AllWritten` holds where the verdict is given (`GoodVerdict`). That no signal ends the
program under its shield is a matter of the places at which a process may have its
signals blocked (`LeavesShield`).

`ImagesWellChosen` is a fact about every sequence of files as well. The candidates of the
command line program stand in the order of the files and, within a file, of its entries
(`CandidatesPlaced`), and its second pass knows the last candidate of each name
(`LastKnown`). So what it keeps are the last candidates of the names that the lists
allow, no name twice (`KeptFacts`), and moving tables of partitions to the end takes
none away and adds none (`PitsArranged`, `CliChooses`).
The app keeps every entry and leaves the choice to the mapping, in which the later image
of a name replaces the earlier one. Both end with the entries after which none of the same name
comes (`LastSpots`, `CliFinally`, `AppFinally`). That the app reads archives
without looking at their checksums makes no difference where the command line program,
which does, refuses none (`ScanSame`).

`ArchivesReadBack` holds for every list of members. The scan is followed through what
the archiver writes: where each member stands in the archive (`PackPlaces`), what the
scan has read when it stands before a header (`At`, `Stands`), that each of the three ways
to record a name and a size gives the member that was packed (`HeadsGive`,
`HeadScanned`), and that its data is passed over to the next header (`DataScanned`). The
invariant over the members is `Walked`: the files and the links on record are those of the
members so far, each file with the place of its own data (`MemberWalked`,
`ArchiveWalked`). The links to a file are then the same ones in the archive and in
the list it was made of (`SameTargets`, `PickedLinked`), and each gets the data of a file of the
name it gives (`ResolvedParts`). For what is refused the same walk says that the scan is
still going on wherever an archive is cut, and takes every header for one (`Goes`): an
altered one stops it (`AlteredRefused`), and a scan that stopped has stopped
(`StoppedStays`).

The assumptions give files and tables their types (`TablesAssumption`,
`InvocationsAssumption`, `JobsAssumption`), any blocks, names and numbers in them, and
members have names. A pax or long-name payload of one block is not too long
(`TarAssumption`; in the code 8 MiB are allowed and a block has 512 bytes). A block of a
frame that is stored has the size it is unpacked to (`FrameBlocks`), and the images' MiB
is the windows' (`MiBAssumption`).

`ThreadPoolProofs` extends `ThreadPool` and proves, for any number of workers,
clients, tasks and waits:

- `PoolKeepsTasks`: `Spec => []TasksSound`;
- `PoolKeepsErrors`: `Spec => []ErrorsKept`.

`TasksConserved` counts, and counting alone is not inductive: a task in two places
and one lost would balance. The invariant says which tasks are where. The queue
holds the last ones submitted, in order (`Queue`), so that all before them have
been taken; each of those is in the hand of one worker, at a place that belongs to
it, or finished, never both (`Hands`). An error that is not on record yet is in
the hand of the worker that will record it (`Recorded`). Most steps leave the tasks
where they are (`MostStepsAreStill`), and are dealt with once for all parts.

`UsbPipelineProofs` extends `UsbPipeline` and proves, for any depth and any number
of chunks and sends:

- `UrbsAreSafe`: `Spec => []UrbsSound`;
- `DrainIsServed`: `Spec => []DrainNeverWaits`;
- `SuccessDelivers`: `Spec => []SuccessIsComplete`.

While the loop runs, the kernel has the chunks from `totalSent` on in their order,
each in the slot of its number modulo the depth (`Positions`), and since they are
fewer than the depth when a chunk is submitted, its slot is free (`NextSlotFree`, by
the arithmetic of remainders). In the drain the order is lost, as a discarded URB
overtakes others and `REAPURB` hands back any; what remains is that the slots are
different (`Apart`), that URBs still to be served are flagged (`Flagged`), and
that there are as many flags as URBs to reap (`Count`). That the drain never waits
is the pigeonhole principle: the slots of the URBs still to be served are fewer
than the flags.

What the device has received is the chunks completed so far, in their order, as long as
none failed (`Received`), so when the loop ends with nothing in flight it is all of
them. Empty packets play no part in it.

The modules whose name ends in `Proofs` hold all theorems and lemmas
(`tlapm <module>.tla` checks one).

Only model-checked: every liveness property, as fairness and ENABLED are outside the
prover. Every invariant a passing run checks is a theorem as well.

## 5. Findings

Each is a run that is expected to find a violation; `PROJECT.json` quotes the
lines.

- `group_flash_done`: a source that cannot be read ends the flashing step with an
  error that is dropped when no device failed; `flash()` reports success.
- `flash_session_two`: `cancelSession` tests `EkoStore.sessionActive`, which is
  never set, so replacing a session leaves it running: two sessions on one device.
- `usb_zero_packet`: `usbfs_conn.cpp` says that a transfer of whole packets ends with
  an empty one, which the kernel adds after the last URB. It defines the flag itself, with the
  value 0x0002, which for a bulk URB means nothing (0x40 would be the right one), so the
  empty packet never comes. The app flags every URB with 0x40, so that a large buffer has
  empty packets in the middle, which the same comment says break a transfer.
- `front_ends_small_blocks`: a compressed image of up to a MiB in blocks of 64 or 256 KiB
  passes the header check; the compressed download counts blocks of a MiB, sends the first
  block and reports success.
- `odin_handshake`: the app's receive fills the buffer it is given; the handshake
  offers 64 bytes for an answer of four and loops itself, so a phone's answer is
  followed by a wait for more that ends in a time-out.

Seen in the code on the way, without a run of their own:

- App session: a cancel or a plain start ends the foreground state and the wake lock
  under a running flash thread; the watchdog cancels through the same
  `cancelSession`, so it reports nothing; a start whose promotion is refused is
  answered by nobody (`FlashService.java:193`). `nativeRequestCancel` sets a flag that
  nothing reads, and `nativeReadPit` has no caller.
- Wireless listener: a thread that outlives its stop closes the channel of the next
  one (`WirelessFlashManager.java:173`), so that the mode is on and nobody listens, or
  installs a phone after the stop, which then stays connected and shown while the
  mode is off. `ListensOn` holds where no thread overlaps another. A channel
  whose `bind` fails is not closed, and the mode stays on without a listener.
- App session, wake lock: two sessions of one service object share the field. The thread of the
  first one may clear it between the check and the release, or after the second one put its lock
  there; that lock then stays held until its finalizer releases it. A field that is cleared between the two reads
  of `FlashService.java:627`, which stand before the `try`, would end the app with a null
  pointer exception on the main thread; that is not modelled.
- Wireless listener, `WirelessFlashManager.java:198`: an exception between `accept` and the current
  connection is swallowed and the accepted channel stays open, with no owner.
- Archives: a pax record whose length wraps to the start of the record would be read for
  ever (`tar.cpp:188`); the model has such lengths among those that stop the scan.
- Cache, load: a backup that was cut off behind its header is preferred to a whole
  `.tmp` file (section 3).
- Cache: a list of more than 4095 entries is never saved, as the parser that verifies
  the file stops after 4096 lines (`md5_xxh3_cache.cpp:185`).
- Commands: `set_pit` does not look at the code of the answer to its data, and
  `get_version` takes a word below zero.
- `flash()`: a PIT alone passes the entry check and fails in the mapping of no
  items, after it was uploaded, though the later steps allow for that case.
- Input: the app lets go of a later image that is empty and so keeps an earlier one
  of the same name, which the CLI refuses; it reads neither download lists nor header checksums. It leaves out every entry with
  `download-list` in its path (`native-lib.cpp:603`), the CLI the one list
  `meta-data/download-list.txt`. A file named `.tar` whose first block is no header, or one
  with a wrong checksum, is an image to the CLI and an archive to the app. Its
  total counts the packed size of an LZ4 image, though `native-lib.cpp:623` says the
  engine reads the real one. A hard link stands behind all files of its
  archive, not where it was.
- Shield: the watcher may be woken by a signal of the user that came at the same time as
  the one that stops it; the latter is then delivered when the mask is restored and ends the process
  after a flash that was complete. `WakeUpTaken` says that it needs a signal of the user.
- `md5_verify.cpp` holds an older copy of the prefetcher; `md5_jobs` and `md5_verify`
  are declared and defined nowhere.

## 6. Bounds and what is left out

Every bound is a constant whose comment names it as one (`MaxSends`,
`MaxReopens`, `MaxChunks`, `MaxTasks`, `MaxWaits`, `MaxSignals`, `MaxSwitches`,
`MaxPhones`, `MaxTorn`, and those of Md5Cache) or the size of a set of devices, slots, windows,
files or tables. Memory ordering is not modelled: the
code's shared data is under a mutex or a barrier, or is a relaxed atomic that is
only ever a hint (`failed_count`, `cancel_`). Buffers, names, messages, progress
figures, logging and layout are left out.

Not modelled: the verification of MD5 sums, which the tree declares and does not
define; root tools and permissions, which depend on the phone; the screens; the
Java Odin classes (`com/eko/f`), which nothing starts; Windows and macOS, which
repeat the interfaces of Linux; vendored code. Of the wireless listener, the
functions without a caller. Of byte sources, seeking and buffering; of USB
devices, the reading of descriptors. A failure to open a selector after the port was bound,
which leaves the port to the garbage collector, is left out as well.
