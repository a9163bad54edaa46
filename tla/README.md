# A verification of tateyama-bootstrap

tateyama-bootstrap contains `tsurugidb`, the server process of the Tsurugi
database, and `tgctl`, the command with which an administrator starts, stops and
inspects it.  This directory holds TLA+ models of the parts of it where several
processes or threads meet, the TLC configurations that check them on small
instances, and theorems that TLAPS proves for every instance.

The models are translations of the code under `src/src/tateyama`.  Paths below
are relative to that directory.  `PROJECT.json` maps every definition to the
lines it stands for.

## The system and its parts

| part | code | what it does |
|---|---|---|
| connection queue | `transport/wire.h` (`connection_queue`), `transport/client_wire.h` (`connection_container`) | a client obtains a session from the listener thread of the server, through rings in shared memory |
| request and response wires | `transport/wire.h` (`simple_wire`, `unidirectional_message_wire`, `unidirectional_response_wire`) | the byte rings a session's messages go through |
| session demultiplexer | `transport/client_wire.h` (`session_wire_container`, `slot`) | the threads of a client share the two wires of a session |
| result set wires | `transport/wire.h` (`unidirectional_simple_wires`), `transport/client_wire.h` (`resultset_wires_container`) | rings for the rows of a query; `tgctl` opens none |
| transport | `transport/transport.h`, `transport/timer.h` | handshake, one typed `send` per service, a timer thread that renews the session |
| server process | `server/backend.cpp`, `process/proc_mutex.h`, `server/status_info.h` | boots the framework, holds the pid file and the database lock, publishes its status |
| process control | `process/control.cpp` | `tgctl start, shutdown, kill, status, diagnostic, pid` |
| dispatch | `tgctl/tgctl.cpp` | chooses the command; wraps a maintenance server around backup and restore |
| backup, restore | `datastore/backup.cpp` | offline and online backup, restore, tags |
| session commands | `session/session.cpp` | list, show, shutdown and set of sessions |
| monitor | `monitor/*` | the records a command writes for a monitoring tool, with a reason for each failure |
| authentication | `authentication/*` | which credential a command uses, and its encryption |
| configuration | `configuration/*` | finds and reads the configuration file |
| request, altimeter, metrics, version | `request/*`, `altimeter/*`, `metrics/*`, `version/*` | one request each and the formatting of its answer |

How they interact: `tgctl start` spawns a server and watches its pid file and its
status segment until the server is active.  Every other command that talks to the
server connects through the connection queue, which yields the name of a session;
the session has a request wire and a response wire; the main thread and the timer
of the command share them.  `tgctl shutdown`, `kill` and `status` need no session:
they use the pid file and the status segment alone.

The modules follow these seams.  `ConnectionQueue`, `SimpleWire` and `ResultSetWires`
are the three structures in shared memory; `MessageChannel` is what a wire promises to
those above it.  `SessionReceive` puts threads on top of two such channels, `Transport`
puts a whole session with its timer on top of requests that are answered or not, and
`Commands` puts every command of `tgctl` on top of sessions and of a server that is
what a command can tell of it.  How that server boots and dies, with its files and
locks, is `ServerLifecycle`.

## The models

### ConnectionQueue

A pool of `NormalSlots + AdminSlots` slots.  `freeQ`, `freePushed`, `freePoped` and
`adminInUse` are `q_free_`; `reqQ`, `reqPushed`, `reqPoped` are `q_requested_`;
`element` holds `session_id_` of each slot.  A client runs `Request` or
`RequestAdmin`, `PushRequest`, `EnterWait`, `Wake`, `ReadAnswer` or `TimeOut`,
`Reuse`, `Leave`; the listener `ListenRequest`, `Doze` and `FallAsleep`, or
`ListenNothing`, then `CheckTerminated`, `Accept`, `Reject` and `RejectPush`; a session
that ends `Disconnect`; who terminates the server `RequestTerminate` and
`NotifyTerminate`.  The rings are protected by an interprocess mutex, so `try_pop` and
`push` are a step each; elements are written and cleared outside of it, and so is
`terminate_`, whose notification may fall between the listener's test and its sleep.

Nothing restricts who asks when: a client may be refused, time out or request a slot
while its element is still in use by another.  Three history variables record this, and
no guard looks at them: `overdrawn` (the free ring was popped while it was empty),
`disturbed` (the clients that share an element) and `spoiled` (slots whose client left
before its answer came).

### SimpleWire and MessageChannel

`SimpleWire` is one wire, byte by byte: `buf`, `pushed`, `poped`, the two wait
flags, the mutex, the signals (`terminate`, `notify`, `close`, `notify_shutdown`,
`force_close`).  Every load and store that another side can observe is a step.  A
message may be longer than the ring and then goes through in pieces.  A byte is
`<<message, position>>`, so any mix-up shows.  Counters are natural numbers;
`Stored` and `Room` are taken modulo `Word`, as `std::size_t` differences are.

`MessageChannel` is what a wire promises: a FIFO channel in which the receiver may
be told to stop and does so only after it has received what was sent before.
`IsChannel` states that a wire implements it, under the mapping at the end of
`SimpleWire`.

### SessionReceive

`slot`, `using`, and per thread its place in `search_slot`, `send` and `receive`.
The wires are channels here, which is what `SimpleWire` establishes.  The mutex
`mtx_receive_` is only held by waiters, so it orders nothing against the threads
that change what they wait for: `TestPredicate` and `FallAsleep` are two steps,
and `Notify` wakes only those asleep.  The server (external) answers in any order
and may die; `Probe` is another process that takes the lock of a dead server for a
moment to test it, which makes `is_alive` say yes.  `compare_exchange_weak` may
fail spuriously (`CasFails`).

Once the server has shut the session down (`Shutdown`; in this repository only the mock
of the tests calls `notify_shutdown`) and the wire is empty, `await` returns the header
(0, 0, 0), and `receive` takes it for a message of slot 0: it puts it in that slot and
pops a header that was never pushed.  From then on `stored()` has wrapped around, and any
bytes of the ring may pass for a header (`AwaitStray`, at most `MaxStrays` of them;
`ReadOutOfRange` if it names a slot that does not exist).  What is copied for such a
header may be anything and is not told apart from nothing, and a read that waits for
ever for a length that it made up is not a behaviour of the model.  `OneReader` holds
throughout; of the rest the properties speak until the first such header.

`Replies` is the set of shapes a reply may have.  A reply with a body head and a
body is what the code of `slot` is prepared for, but no request of `tgctl` has one,
and the runs use replies of one body.  With two-part replies `OwnAnswer` does not
hold: a thread may pass the test of its slot, become the reader and take the body
from the wire while the body head, put in its slot meanwhile, is wiped out.

### ServerLifecycle

File names, inodes, `flock` locks, the status segment and its name, the stages of
`backend_main` and the loops of the `tgctl` commands, one system call per step.
`path` maps the names of the pid file and of the database lock file to inodes,
`holder` and `content` belong to inodes and so survive the removal of a name.
`stage[p]` is how far the server `p` is; `tg[t]` is a `tgctl` process with its
command, its place, its descriptor, what it has found out and its outcome.  Attaching
to the status segment and reading `whole()` are one step.  What
`framework::server` does (creating, filling and removing the status segment) is
external and modelled from its use.

### ResultSetWires

`pool` is the number of wires, `reserved_`, `count_using_`, `next_index_` and the
buffers that a failed `acquire` has lost; `wire[i]` has the fields of one wire, a
`buffer` its cells, each of which holds a header or names the record it belongs to.
The server's threads run `acquire`, `Write`, `TryPush`, `WaitForWrite`, `TestRoom`,
`flush`, `notify_record_arrival`, `release`, and one of them `set_eor`; the client runs
`Scan`, `Lock`, `TestEor`, `TimeOut`, `get_chunk`, `dispose`, or closes the result set
one wire after the other.  The client's view of a record is compared when it disposes
of it, so a buffer that is written to too early shows.  The threads of the server are
not in this repository: they use the wires as the test mock of the server does and write
no record that is longer than a buffer.  The mock never calls `release`; that a wire is
released only when it is drained is asked of them here, and not tested by the code.
`Channels` states that every wire implements `MessageChannel`.

### Transport

`main` is the place of the main thread, from the options of the credential to the end
of the destructor; `timer`, `fired` and `stop` are the timer and its thread; `session`,
`lease` and `alive` are what the server has of the session; `file` is the credential
file of `tgctl credentials`.  `auth_options` and `check_not_more_than_one` are operators
over the set of options that hold.  Time is counted in intervals of the timer (`Tick`):
a server drops a session that is not renewed for `Lease` of them.  An answer is a
success, a failure, something that does not parse, or a diagnostic record, which
throws.  Exceptions other than `tgctl::runtime_error` leave the constructor with the
session open (`main = "left"`); what is thrown in the timer's thread ends the process
(`"aborted"`).

### Commands

One run of `tgctl` with one of its commands: `phase` is the place in `tgctl_main`, `pc`
the place in the function it has called, `verdict` what that function ends with, `log`
the records in the monitor file.  The end of each command is an operator from the
outcome of its request to return code and reason (`session_show`, `request_list`,
`tgctl_backup_create`, ...), translated command by command; opening the monitor file,
connecting, the request and the reply are actions that they share.  Meanwhile the
server boots, fails, stops or crashes, and other users start and stop servers
(`Environment`).  A server is its stage in `backend_main`, whether it was asked to stop
and a number, by which a younger one is told from an older one.  `pid` and `diagnostic` are in `ServerLifecycle`.  A command is given
only options that its help text lists.

## The runs

| run | instance | what it shows |
|---|---|---|
| `queue` | a normal client and an admin client, one slot of each kind, 3 requests; rejections, timeouts and a termination, fair | `SlotExclusive`: every slot has exactly one holder; `AdminReservation`: an admin request succeeds whenever the admin slot is unused; `OwnAnswer`: a client gets the session made for it; `AnswerArrives`; `TerminationConfirmed` |
| `queue_overdraft` | 2 clients of each kind, 2 normal slots and an admin slot | **violated**: `NoOverdraft` |
| `wire_request` | ring of 5 bytes, headers of 2, payloads of 0 and 2, 3 messages, all signals, expiring waits | `Bounded`, which includes the types; `ViewIntact`, `NoLostWakeup`, `IsChannel` |
| `wire_response` | ring of 3 bytes, payloads of 0 and 5, 2 messages, `close` and `notify_shutdown`, waits that never expire, fair | `IsChannel`, `Delivery`, `SignalHeard`, `CloseReleasesWriter` |
| `session_shared` | 2 threads, 2 slots, 3 requests, a server that may shut the session down or die, 2 headers without a message, fair | `TypeOK`, with the state of slots that nobody uses; `OneReader`, `OwnAnswer`, `NothingLost`, `WireHandedOn` |
| `session_hang` | 2 threads, one request each, no crash, fair | **violated**: `ReceiveReturns` |
| `result_sets` | 1 or 2 wires, 2 buffers of 4 cells, 2 threads of the server, records of one or two pieces, a crash, fair | `BuffersApart`: the variables have their types, buffers have one owner and `acquire` finds what it counts on; `Channels`: every wire is a FIFO channel and the end comes last; `WriterGoesOn`: no wake-up of a writer is lost; `ReaderEnds` |
| `transport` | every set of options, 3 uses of a transport, `Lease` of 2, a crash, fair | `ExplicitWins`: the credential used is the only one given; `SessionNotLeft`: sessions are closed; `KeptAlive`: a session in use does not expire; `FailureSparesFile`: a login that fails leaves the credential file alone; `TransportEnds` |
| `commands` | every command, 2 files, up to 3 servers one after the other, fair | `RecordTellsExit`, with `OneRecordSet`: the monitor file is well formed and agrees with the exit code; `BackupCovered`: a backup reported as done is one; `HandsOff`: servers of others that are older than the own one are left alone (one that they start after the own one has died may be stopped); `CleanEnd`, that is `NothingLeft` and `SessionsClosed`: what a command has made is gone; `CommandEnds` |
| `life_serial` | 3 servers, one `tgctl` that runs up to 5 of the 7 commands, one crash, fair | `ReportTruth`, that is `StartTruth`, `ShutdownTruth`, `KillTruth` and `StatusTruth`: what a command reports is true; `Findable`; `CommandReturns` |
| `life_turmoil` | 2 servers, 2 `tgctl` processes at once, boot errors, a crash, timeouts | `LocksKept`, `AnswerGrounded` |
| `life_kill` | concurrent start and kill | **violated**: `KillWorks` |

Each property of a passing run has a mutant in `PROJECT.json`: a definition
changed as a plausible slip would change it, under which TLC refutes the property.
The type invariants of `ConnectionQueue` (up to an overdraft) and `ServerLifecycle` are
proved, and no run checks them again.

Deadlock is not checked: with the bounds on requests, messages and commands every
behaviour ends, and a program with nothing left to do may stop.  Stuck states are
what the liveness properties are for.

### Bounds

- Requests, messages and commands are the only counters that grow; they are bounded
  by `MaxRequests`, `MaxMessages`, `MaxCommands`, `MaxCrashes`.  Three requests on two
  slots go round each ring and meet a slot that was used before.  With one client of each
  kind the pool cannot be overdrawn, so every exception of the properties for that is
  idle in `queue`; `queue_overdraft` has the smallest pool in which it happens.  Three messages of 2 and 4 bytes go round a ring of
  5 in every alignment, with headers and payloads that straddle its end; a payload of
  5 in a ring of 3 goes through in two pieces and makes both sides wait.
- A buffer has 4 cells and a record takes 2 or 4 of them with its header: after a short
  record the long one is wrapped around in the middle of its payload, and its writer
  waits until the client has disposed of the first.  `MaxRecords` counts the records and
  the releases: 3 with one wire, where a record may be written, the wire be released
  and acquired by another thread and a record be written again, and 2 with two wires,
  where both threads write at once.  Two threads are enough for `acquire` to find the
  reserve, a new buffer, a wire that was released and no wire at all.
- `Lease` is 2, the smallest with which a session can be kept alive at all; the theorems
  are for every larger one.
- Three servers are enough for one that a command finds, the one that it starts and one
  that somebody starts in between.  Two files are enough for a crash between two copies.
- Five commands are enough for a server to be started, die, be started again, be
  inspected and be stopped.  Three servers are enough for a start that meets a running
  server and one that follows it.
- `force_close` is not raised in the passing runs: it sets the same flag as `close`
  and differs in not waking the reader, whose timed wait is to find out.
- `Word` is 256: it stands for 2^64 where differences of counters are taken.  That
  the counters themselves wrap after 2^64 bytes is not modelled.

### Fairness

Weak fairness of each thread or process: the operating system runs those that can
run.  The listener and the server answer what they have been asked, since their
loops do nothing else.  That the listener wakes up after its five seconds is
part of that: `TerminationConfirmed` rests on it, since nothing makes the notification
arrive.  An exchange on a free wire succeeds in the end (strong
fairness of `Cas`), which is what `compare_exchange_weak` grants.  No fairness is
assumed of clients making requests, of signals being raised, of crashes, of
expiring waits or of spurious wake-ups: otherwise liveness does not rest on a timeout,
except for the client of a result set that waits for a dead server, whose timed wait is what
`ReaderEnds` is about, and the loops of `Commands`, of which each round is a step that
may find its time over.  In `ResultSetWires` the client does not keep the others from
the mutex of `c_record_` for ever (strong fairness of the notifications).  In
`Transport` the server answers on a session that it has, and need not on one that is
over.

### What is violated, and why

- `queue_overdraft`: `try_pop(admin_slots)` lets an admin request take a normal slot when
  the admin slot is in use, and `try_pop()` then counts it as if it had been reserved.  With
  two admin sessions and one admin slot the second of two normal requests is given a slot
  that another session uses, where it should be told that there is none.  Clients of one
  kind do not get there (`PoolIsNotOverdrawn`): it takes two `tgctl` and normal clients.
- `session_hang`: the wake-up of `cnd_receive_` can be lost.  A second way to wait for
  ever is that `valid()` is tested before `using_wire_` is taken, and not after.
- `life_kill`: `proc_mutex::lock` truncates the file before it has the lock, so a server
  that is refused has erased the pid of the one that runs.

### Known deviations that the properties leave room for

Each of these is behaviour of the code which the model has, and for which a property
or an assumption makes an exception that is named in the module.

- Overdraft (`overdrawn`): after it nothing is said of the connection queue.
- Shared elements (`disturbed`, `spoiled`): the slot of a rejected request returns to the
  pool before its client has read the rejection, and the next owner and the old one may
  clear each other's answer; the answer to a request that was given up stays in the
  element for the next owner.  `OwnAnswer` and `AnswerArrives` are about the other clients.
- Read of a dummy header (`DummyRead` in `Bounded`, `strays` in `SessionReceive`): `await`
  returns a dummy header when the wire is shut down and empty, where its comment says
  "wait for response arrival and return its header" (`transport/wire.h:472`); a `receive`
  that reads it like a message makes `poped_` pass `pushed_`.
- A server without a pid file: `~proc_mutex` closes the pid file and then removes its
  name; a server that locks the file in between runs without one, and `Findable` of
  `life_serial` is about one `tgctl` at a time.
- Lost mutexes (`MutexLost` in `ReaderEnds`): a server that dies with a mutex of the
  result set leaves it locked, and the client waits for ever.
- Late renewal (`Unanswered` in `TransportEnds`): the datastore commands close the
  session while the timer runs; a renewal that is sent after that may never be answered,
  and the destructor joins the thread that waits for it.
- Foreign exceptions in the constructor of `transport` (`main = "left"`): the session
  is not closed, and `SessionNotLeft` says nothing of that end.
- The credential file (`file = "clobbered"`): a file that is made between the check and
  the write is overwritten, although `tgctl/help_text.h:166` says that the program ends
  with an error if the file exists.  No property forbids it.
- `SaysSuccess` lists the paths on which a command fails and the monitor file says
  success, `Stuck` the waits without an end, `MayLeave` the ends that leave a maintenance
  server running.  Among the last is a start that is given up after its timeout although
  the server comes up later: `tgctl.cpp:113` then takes it for a server that
  "somebody else" has invoked.
- `--expiration`: `authenticator::credentials` sets it on its own credential handler,
  while the credential is made by the one inside `transport`, so it has no effect;
  `tgctl/help_text.h:167` describes the option.  No step of the models depends on it.

Other things met while modelling, which no run records: a reader that has begun a long
message sleeps for ever in `read` when the writer drops the rest of it at a close; a
thread that gets an exception in `receive` keeps its slot; `get_pid` polls for ever when
a dead server has left its pid file, and the SIGHUP of `diagnostic` ends a server that
has not yet installed its handler; a record longer than its buffer never fits; with two admin slots of which
one is in use, normal requests may take the other; `payload()` is wrong for
messages longer than the ring; `is_writable` leaves the header out; a start whose
`check()` has the lock while the server tries to take it fails; `start` does not
refuse in the state `boot_error`, so that with boot errors the statements of
`life_serial` do not hold (it has `BootErrors = FALSE`).

## What is proved

Every safety property that a passing run checks is also a theorem, but for those of
`ResultSetWires`; of `TypeOK` of `SessionReceive` the part on slots is.  The theorems hold for every value of the constants that the `ASSUME`
of the module admits; some make a further assumption, named and justified below.  Each rests on an inductive invariant, and TLC has
checked each of these invariants on the instances of the runs.  In the proofs, `USE Zenon`
at the head of a module names the prover of the leaves that do not cite another one.

### ConnectionQueueProofs

For any set of clients, any number of slots and admin slots:

- `SlotsAreExclusive`: always `SlotExclusive` and, up to an overdraft, `AdminCounted`
  (`admin_slots_in_use_` is the number of admin sids);
- `AdminSlotIsReserved`: with `AdminSlots = 1`, always `AdminReservation`;
- `PoolIsNotOverdrawn`: with clients of one kind only (`OneKind`), always `NoOverdraft`;
- `AnswersAreOwn`: always `OwnAnswer`, whatever is rejected, given up or terminated.

The first three follow from `IInv`, which holds until `overdrawn` does.  `SlotExclusive` alone is not
inductive: that a pop takes a slot which is in the ring needs `Bounds` (the counters
of both rings are in order), that a push overwrites no entry needs that the window of
the ring fits (a counting argument over distinct slots, `WindowFits`), and that
`try_pop` refuses in time needs that `adminInUse` is the number of admin sids
(`AdminCounted`) and that normal pops leave the reservation (`Reserved`).  Each action
moves a slot from one holder to another (`HandOver`) or moves none (`NothingMoved`).

`AInv` follows a request from the client to its session: sids are numbered apart
(`Numbered`), so are sessions (`Ids`); a client that shares its element with nobody and
waits is in the ring with an unanswered element or has a session whose id is in its
element (`Placed`); and a request in the ring, or an answer in an element, has a client,
unless its slot is spoiled (`Awaited`, `Clean`).

### SimpleWireProofs and SimpleWireChannelProofs

For every capacity, header size, set of lengths and number of messages:

- `NoWakeupIsLost`: always `NoLostWakeup`;
- `RingIsBounded`, `ViewsAreIntact`: under `ShortViews`, always `Bounded` and `ViewIntact`;
- `WireIsAChannel`: under `ShortViews`, the wire implements `MessageChannel`.

`ShortViews` says that `payload()` is used only for messages that fit into the ring: of a
longer one its view is wrong, as said above.  Longer messages that are read in parts are
covered.  `NoLostWakeup` becomes
inductive with the flags of those that wait (`WInv`, `Waiting`): each
side raises its flag before it tests.  What the ring holds needs the place of every message in
the stream (`Laid`), how far the writer and the reader are with theirs (`WriterPlace`,
`ReaderPlace`), that the writer copies only into room (`HasRoom`, which stays true because
the reader only makes room), and then, byte by byte, that what is published and not popped
is what was sent (`Contents`).  The refinement maps the messages whose last part is
published to the accepted ones; a step of the detailed wire is a step of
the channel or none.

### ServerLifecycleProofs and SerialProofs

For any number of servers, `tgctl` processes, commands and crashes, with and without boot
errors and timeouts:

- `Types`: always `TypeOK`, which is inductive;
- `ServersKeepTheirLocks`: always `LocksKept`;
- `NoAnswerIsMadeUp`: always `AnswerGrounded`;

and under `OneAdministrator`, for any number of servers, commands and crashes:

- `ServersAreFound`, `ReportsAreTrue`: always `Findable` and `ReportTruth`.

`LocksKept` needs more than itself (`LInv`): an open descriptor of a server is of an
inode created for that name (`Opened`, `PathsOwn`), so that closing the lock file of
the database never gives up the lock of the pid file; and a `tgctl` process about to
unlock has the lock (`Checks`), so that `proc_mutex::check` never gives back the lock of
a server.  A step takes or gives back the locks of one process only (`OnlyLocksOf`),
which settles all the others at once (`OtherServers`, `OtherTgctls`).  `AnswerGrounded`
adds that a segment says "activated" only for a server that has served, and what each
process has read of it at each place (`GInv`, with `Flow` and `Grounded`).

`OneAdministrator` is one `tgctl` at a time, no timeouts and no boot errors; with two of
them at once the reports may be wrong (`life_kill`, and the deviations above).  `SInv` says
that at most one server is alive (`Alone`), who has which lock (`Holders`), what a server
has left at each stage where the others look for it (`Standing`), and what the only
process knows at each place (`Situation`): that nothing is alive, that what is alive
serves, or that the server it waits for is the one it has spawned.

### SessionReceiveProofs

For any number of threads, slots and requests, whether or not the server dies:

- `OneReadsAtATime`: always `OneReader`, whatever the replies are;
- `SlotsAreLeftClean`, `EachGetsItsOwn`, `NoReplyIsLost`: under `OneBody`, always the part
  of `TypeOK` that is about slots (`Typed`, `SlotsTidy`), `OwnAnswer` and `NothingLost`, each
  up to the first header that belongs to no message.

`OneBody` says that a reply is one body, as the reply to every request of `tgctl` is; a
body head announces a result set, which none of them asks for.  With two messages in a
reply `OwnAnswer` does not hold: the body may be returned before the head.  The invariant keeps every
reply in one place: at the server, on the wire, in the slot of its thread or in the hands of
that thread (`Placed`, `Addressed`).  A slot has one owner (`Owners`), is as new or holds
one reply (`Shaped`), and what the thread that reads has seen is still the head of the
wire when it takes it (`Intent`), because it is the only reader.

### TransportProofs

For every `Lease` of two intervals or more, with and without crashes:

- `NoSessionLeft`: always `SessionNotLeft`;
- `SessionsKeptAlive`: always `KeptAlive`;
- `CredentialFileSpared`: always `FailureSparesFile`;
- `TypesAreKept`: always `TypeOK`, which ties the timer to the place of the main thread;
- `TheOptionGivenIsUsed`: `ExplicitWins`, an action property.

The invariant relates the place of the main thread to what the server has of the session
(`Phases`), ties the end of the main thread to that of the timer (`Finished`), and says
that at most one interval has passed since the last renewal, and if one has, that the
timer has fired, is awake or has asked (`Renewing`).  That is what makes `KeptAlive`
inductive: an interval passes only when the timer sleeps and has not fired, and then
the whole lease is left.

### CommandsProofs

For any set of commands, any number of files and any number of servers from one:

- `TypesAreKept`: always `TypeOK`;
- `RecordsTellTheExit`: always `RecordTellsExit`;
- `BackupsAreCovered`: always `BackupCovered`;
- `HandsAreOff`: always `HandsOff`;
- `EndsAreClean`: always `CleanEnd`.

`IInv` has five parts besides the types.  `Placed` says in which functions each command may
be in each phase.  `Maintained` says what backup and restore know of the server that they
have launched: once it has been seen with the lock, the server that runs is that one or a
younger one, and once asked to stop it does not come up again (`Lived`, `Gone`); this is
why the kill that follows a stop in vain hits no server that was there before.  The stop
acts on the status segment that it has attached (`att`), which is the own server's or a
younger one's.  `Backed` says
that as long as the server of the session answers, it is the one that holds still for the
backup, so every file copied is good if the reply comes.  `Sessioned` follows the
session.  `Recorded` says that the monitor file is unfinished until the finish record and
then tells what the function has ended with (`Told`), and which failures may be recorded
as success (`Judged`, `Excused`, and `ended`, which keeps how the restore itself ended
while the server is stopped).

### Model-checked only

- Liveness (`AnswerArrives`, `TerminationConfirmed`, `Delivery`, `SignalHeard`,
  `CloseReleasesWriter`, `CommandReturns`, `WireHandedOn`, `CommandEnds`, `WriterGoesOn`,
  `ReaderEnds`, `TransportEnds`): the prover does not reason about fairness.
- `BuffersApart` and `Channels` of `ResultSetWires`: the contents of a buffer are a
  function that a record overrides cell by cell with `@@`, over buffers that are created
  and handed from thread to thread; the invariant would have to repeat that of
  `SimpleWireProofs` for each buffer and its owner.

## What is not modelled

- Formatting and parsing of messages, protobuf, RSA, base64, logging, the text of the
  monitor records and of what commands print: data without control.
- `authenticator::authenticate` with its HTTP client and the tokens: it sends requests to
  a service outside of the repository, one after the other, and keeps no state.
- The search for the configuration file and `tgctl version`: pure functions of the
  command line, the environment and a file.
- The framework behind `backend_main`, the loggers of `altimeter_helper.cpp`, the
  environment and the arguments of the spawned server.
- Reuse of pids by the kernel; clients that die in the middle of a connection (the code
  has nothing to recover the slot with).
- Result sets larger than the bounds, records longer than a buffer (they never fit), and
  the order in which the client serves the wires (it starts from the first every time).
