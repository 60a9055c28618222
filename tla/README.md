# Formal models of nanodistro

nanodistro is the installer of a small distribution: a program with a touch
user interface (LVGL) that lets its user pick a network, an image and a disk,
fetches the image, and runs an installer. Helpers run beside it: a *network
block device* server that makes a remote image readable as a local disk, a
*helper* that copies an image to a disk and reports its progress, and a
*flasher* that drives the installation inside a namespace.

This directory holds TLA+ models of the parts of that code which keep state
across threads, processes and messages, TLC configurations that check them on
small instances, and proofs that hold for every instance. Paths below are
relative to the repository.

## 1. Inventory

| component | source | state | operations |
|---|---|---|---|
| read cache of a block device | `src/netblk/cache*.cpp`, `psi.cpp` | bit per sector, memory, eviction list, mutex | read, prefetch, fetch in rounds, evict half |
| backends | `src/netblk/curl.cpp`, `mem.cpp`, `netblk.cpp` | connection, size | read, write, retry |
| NBD device | `src/netblk/nbd.cpp` | socket pair, running flag, write lock, device list | read thread, interrupt thread, jobs, destroy |
| ublk device | `src/netblk/ublk.cpp` | tags of four queues, ring | fetch, process, commit, stop, destroy |
| FUSE device | `src/netblk/fuse3.cpp` | session thread, file table, loop device | lookup, open, read, attach, detach |
| choice of the device kind, main loop | `src/netblk/netblk.cpp`, `main.cpp` | implementation, running flag, signals | choose, loop, exit |
| worker pool | `src/lib/worker.cpp` | queue, workers, idle flags, stop flags | add, grow, sleep, drain |
| event loop | `src/lib/event-loop.cpp` | handlers, error counters, eventfd | add, remove, process, stop |
| processes | `src/lib/process.cpp`, `cgroup.cpp`, `command.cpp` | pid, exit status, cgroup | start, wait, kill, freeze |
| loop devices, mounts, status lines | `src/lib/loop.cpp`, `libmount.cpp`, `status.cpp` | loop number, mount table, descriptor of the pipe | attach, detach, mount, report |
| uevents | `src/lib/uevent.cpp` | listeners, ids, socket | add, remove, dispatch |
| logging | `src/lib/logging.cpp`, `syslog.cpp` | backends, print mutex | log |
| URLs, time, strings, JSON, readable sizes | `src/lib/url/`, `time.cpp`, `strings.cpp`, ... | none | parse, format |
| flasher | `src/flasher/` | lock file, script process, cgroup, mounts, block device server | lock, start, wait, clean up |
| helper | `src/helper/` | copy engine, report thread | copy, count, report, stop |
| progress page | `src/ui/progress/` | process, pseudo-terminal thread, buttons | start, cancel, back, exit |
| disk chooser | `src/ui/choose_disk/` | list of disks, hot-plug listener | load, add, remove, choose |
| image chooser | `src/ui/choose_image/` | groups, images, covers | load, choose |
| mass storage page | `src/ui/mass_storage/` | configuration, gadget tree in configfs, status thread | choose, start, stop, watch |
| network pages | `src/ui/network/` | panel in front, each panel's device, flags, profiles, list of networks | scan, connect, configure, set proxies, go back |
| wireless client | `src/network/wlan/` | socket, lock, pending reply, listeners | execute, poll, dispatch |
| network primitives | `src/network/*.cpp` | a netlink socket | addresses, routes, masks |
| input | `src/input/` | devices, event queue, read flag | hot-plug, read, dispatch |
| display | `src/display/`, `src/ui/main.cpp` | buffers, commit in progress, pause, console in front | search, flush, commit, flip, switch |
| fonts, images, other pages | `src/fonts/`, `src/image/`, rest of `src/ui/` | widgets | draw |

### How they interact

* The flasher starts the block device server as a child (`src/flasher/netblk.cpp`),
  waits for the JSON it writes, and kills it during clean-up. The server's device
  threads read through `netblk_backend::do_read`, with the cache and the HTTP
  backend behind it. NBD requests are handed to the worker pool by `worker_add`.
* The user interface hands slow work to the worker pool too: scans, lists of disks
  and images, address changes, gadget set-up. Results come back under LVGL's lock
  (`lv_lock`) or as asynchronous calls of LVGL's thread.
* The wireless client's poll thread delivers events through `worker_add` and
  replies through a semaphore to the thread that issued the command.
* The progress page starts the flasher or another command in a pseudo-terminal;
  its thread reads the output and, from a pipe named by `NANODISTRO_STATUS_FD`, lines
  of status; what it shows it shows under LVGL's lock, and it asks the page to finish
  by a call queued for LVGL's thread.
* The helper, started by an image's script, writes its progress as lines of status to
  the same pipe (`src/lib/status.cpp`).

### What is hard, and what must hold

* **Cache**: the eviction thread works without the mutex every reader takes; rounds
  grow backward and forward; the server may answer short; the image may end inside a
  sector. *A set bit means data in memory; a read returns the image; none
  with a sound server is refused; a read is answered.*
* **Worker pool**: one condition variable, notified outside the mutex, growth decided
  on flags, a destructor that takes no lock. *No wake-up is lost; everything added
  runs once, in order; the destructor returns.*
* **NBD**: replies of several jobs share one stream; an error may follow a reply that
  is half sent; the threads that stop the device are the ones the device waits for.
  *One reply per request, whole; the error of one is not the data of another; the
  process notices that the device is gone; tear-down ends.*
* **ublk / FUSE**: tags that must always be handed back; a loop device attached while
  the session may already be dead. *The queue is a disk; a read, a start
  and a stop end; the announced loop device has its file.*
* **Event loop**: handlers added and removed while they are walked, by threads that share
  no lock. *What is there is polled once, and nothing that has gone.*
* **Flasher and processes**: a lock file left by a dead process, signals during
  set-up, clean-up in reverse order. *One flasher at a time; what was set up is torn
  down; the script's end is seen.*
* **Helper**: a counting thread that is stopped while it starts. *What was copied
  is exact, what is reported is true, and the join ends.*
* **Progress page**: the page is destroyed by LVGL's thread while its reader waits for
  LVGL's lock. *No deadlock; the exit of the process is seen once.*
* **Disk chooser, uevents, input**: hot-plug events that overlap a full load, flags that
  coalesce work, queues that overrun. *The list shows what is plugged in; no event is
  forgotten; LVGL knows where the pointer is.*
* **Wireless client and network pages**: replies without a number, a waiter that a dead
  poll handler never wakes, functions of the pool that go through the panel's `current`
  while LVGL's thread resets it, one panel that edits another's profile. *Each command gets
  its own reply; a panel that stays is safe; what is shown is what the supplicant and the
  kernel say; what was typed for one device is not used for another.*
* **Image chooser, mass storage**: covers that come after the list has gone; a tree in
  configfs that fails half-way; covers over a page that stop the pointer and not the keys.
  *What is chosen is what is shown; nothing of a gadget
  survives its end.*
* **Display**: two buffers, a flip that is awaited, signals that stop the drawing
  anywhere. *No tearing; what is shown at last is what was drawn last.*
* **URLs**: texts that are parsed, resolved and parsed again. *The document that is asked
  for is the one that is meant.*

## 2. Plan

The order is that of importance: first what stands between an image on a server and
the bytes on a disk, then what runs an installation, then the user interface's own
concurrency.

| step | modules | composed in | abstract specification | proved |
|---|---|---|---|---|
| 1 | `BlockCache` | | `NetblkDisk`: a disk | types; a set bit is held; aligned reads are right; healthy reads are served; implements the disk |
| 2 | `WorkerPool` | | `JobPool`: a queue | no lost wake-up; implements the queue; nothing left behind |
| 3 | `NbdServer` | with `JobPool` | `NetblkDisk` | replies are whole; implements the disk |
| 4 | `ProgressPage` | `MCInstall` | | success is real, nothing runs on, no stale call, cancel stays |
| 5 | `HelperWrite` | | | the copy is exact; a good end is whole |
| 6 | `Flasher` | `MCInstall` | | types, the lock covers the work, the image stays, others untouched |
| 7 | `UblkQueue`, `FuseServer` | `MCDevices` | `NetblkDisk` (ublk) | implements the disk (`UblkQueue`); the loop device has its file (`FuseServer`) |
| 8 | `HotPlug`, `InputQueue` | `MCInput` | | what is there is polled; where the pointer is and how far the wheel went is shown |
| 9 | `WlanClient`, `WlanList`, `ScanList`, `WlanConnect`, `EthernetPanel`, `NetworkPage`, `ProxyPanel`, `Netlink` | `MCNetwork` | | replies are their commands' own; a panel that stays is safe; what is shown is current; what is read is true |
| 10 | `DiskChooser`, `ImageChooser`, `MassOptions`, `Gadget` | `MCPages` | | a page is left safely; what is chosen and offered is true; nothing of a gadget remains |
| 11 | `DisplaySetup`, `DrmDisplay`, `FbdevDisplay` | `MCPages` | | no tearing; the screen is true |
| 12 | `Url` | `MCInstall` | | the document is the one that is meant |

All twelve steps are done.
Proofs are in modules of their own (`...Proofs`), one for each component or, where they are
short, for several that belong together; the constants' assumptions have names.

Where a definition is called a mutant in its comment it is no part of a model: it is a
plausible mistake, put in place of the definition it is listed for (`mutants` of
`PROJECT.json`) to see that the property notices.

## 3. What is modelled

### `BlockCache`, `NetblkDisk`: the read cache (`src/netblk/cache*.cpp`, `psi.cpp`)

| in the model | in the code |
|---|---|
| `cached` | `is_cached`, a bit per sector |
| `lru` | `lru_list` and `lru_map` |
| `filled` | which sectors of the mapping `cache` hold the image's data |
| `owner` | the mutex |
| `rs`, `req`, `attempt`, `out` | a thread in `netblk_backend::do_read` and its retries |
| `job` | the locals of `cached_read_`, `cache_sector_`, `force_cache_sector_` |
| `psi` | the locals of `reduce_half` in the memory-pressure thread |

`Acquire` clamps and converts (with `size_t`'s wrap-around); `Scan` finds the next run of
missing sectors and its first round, with backward and forward growth; `FetchAnswer`,
`FetchRefused`, `FetchError` are what the backend may do; `Mark`, `Touch`, `NextRound`,
`Copy` and `Throw` the rest of the locked section. The `Psi...` actions are the steps of
an eviction. They take no mutex, as `reduce_half` takes none, so they interleave with the
locked section; the bits of `std::vector<bool>` share words, so a store may be lost.
`overlap` remembers that an eviction ran during a locked section, and the data properties
are claimed only without it: with it the code may return zeros (see section 7).
`NetblkDisk` is what a caller of `do_read` counts on: one answer, an error or the image.

### `WorkerPool`, `JobPool`: the worker pool (`src/lib/worker.cpp`)

`queue`, `wpc`, `idle`, `cb`, `stop` are the pool's queue and each worker's place, flag,
function and stop token; `apc`, `arg` the threads in `worker_add`; `dtor` the destructor.
A section under the mutex is one step, except that a worker which has looked at its stop
flag and is about to sleep (`closing`) is a state of its own: the destructor sets the flags
and notifies without the mutex. `JobPool` is a queue whose functions start in order and
run once; `NbdServer` uses it in place of the pool.

### `NbdServer`: the NBD device (`src/netblk/nbd.cpp`, `main.cpp`)

`toSrv`, `toKer` are the two directions of the socket pair, `line`, `active`, `finished`
the worker pool, `jpc` a `netblk_nbd_context` on its way through `process` and `reply`,
`wlock` `write_lock`, and `reader`, `intr`, `mpc` the read thread, the thread in
`NBD_DO_IT` and the main thread from its loop through `destroy`. The kernel's side
(`KSend`, `KReceive`, `KTake`, `KDown`, `KFail`) is external. Replies are messages for
header and data, so that a reply can be torn; the kernel takes whatever comes in the place
of the data for the data.

### `ProgressPage`: the page that runs an installation (`src/ui/progress/`)

The flasher's process (`child`, `result`, `pid`), its output and status pipe (`out`, `pipe`),
the page's thread (`pc`: `pty_dispatch_thread`), what is queued for LVGL's thread (`calls`),
and LVGL's thread itself (`ui`), which keeps `lv_lock` while it joins. `Cancel` and `Back`
are the buttons; `Back` runs the destructor. LVGL is external; of it the model uses that
queued calls run before input is looked at.

### `HelperWrite`: `helper write` (`src/helper/cmd_write.cpp`, `copy.cpp`)

A command line, its validation, `open_device`'s arithmetic, the copy with its methods and
their fallbacks, short copies and failures, the report thread and its end. Sizes are in
cells, and cell `n` of the input holds `n`, so that the place of every cell can be told.
`use_copy_file_range` and `use_sendfile` are public fields no caller sets; the runs turn
them on so that the engine is covered.

### `Flasher`: the flasher (`src/flasher/`, `src/lib/process.cpp`, `cgroup.cpp`)

`pc` is the place in `flasher_do_main`, `flasher_cleanup` and `flasher_unlock`; `owner`
the record lock, which the kernel drops with its process; `folder`, `mounted`, `netblk`,
`out` what one flasher has set up; `group` the cgroup, which has one name for all;
`script`, `inside`, `child` the script and what it leaves running. Every step of the
set-up may fail (`Fail`: straight to the clean-up). `Signal` is `exit_signal`, which may
interrupt `waitpid`; `SignalCrashes` is the same handler before `flasher.script` is set;
`Killed` is the `SIGKILL` of a page that is left. `held` remembers a process the
clean-up could not stop.

### `UblkQueue`: the ublk device (`src/netblk/ublk.cpp`)

One of the device's queues. `kst`, `kkind`, `kans`, `armed` are the kernel's side of each
tag; `cq` and `sq` the ring; `result` and `buf` a `ublk_io`; `queue` and `main` the places of
the queue's thread and of the main thread. The word of the queue's state is read and
written back in two steps (`state`, `old`), as two threads do it without a lock. The
driver (`KSend`, abort, `START_DEV`, `DEL_DEV`) is external. The queue is checked against
the same `NetblkDisk` as the cache and the NBD device.

### `FuseServer`: the FUSE device (`src/netblk/fuse3.cpp`, `src/lib/loop.cpp`)

`sess` is the place of the session's thread (mount, `fuse_loop`, `open`, `read`, tear-down),
`mutex` guards `listed`, `loopdev` is the loop device over the file, `named` the path that
was announced, `main` the main thread. `pending` is the `SIGUSR1` that is to wake the
session; `missed` remembers that it came between the test and the read.

### `HotPlug`, `InputQueue`: input (`src/input/`, `src/lib/event-loop.cpp`, `uevent.cpp`)

`HotPlug` has the event loop with the handlers of the uevent socket and of the devices
(`handlers`, one epoll batch in `batch`), the socket with its overrun, the kernel's nodes and
the start-up, in which main listens first and probes afterwards, beside the loop's thread and
without a lock. `InputQueue` takes an event of a device through `dispatch`, the modifier
keys and the touch panel's states to the three queues, their trimming, the flag `reading`
and the reads of LVGL's thread. `MCInput` explores one or the other.

### `WlanClient`: the client of `wpa_supplicant` (`src/network/wlan/`)

`requests` and `wire` are the two directions of the datagram socket; `pc` a thread's place
in `exec` under `lock`; `buffer` and `permits` the reply and the semaphore. The supplicant is
external: it answers in order, sends events, may die, and may leave its socket's file.

### `WlanList`, `ScanList`, `WlanConnect`, `EthernetPanel`: panels that hand work to the pool (`src/ui/network/`)

`WlanList` is a wireless device's panel with its client (opened by a function of the
pool), its scans and its listener; `ScanList` which buttons `update_scan_result` draws
from the answers, with the mark and the focus; `WlanConnect` the panel of one network,
from the click through `ADD_NETWORK` and `SELECT_NETWORK` to the event that ends it;
`EthernetPanel` the wired panel and the address panel it listens to, with the timer and
the flags `updating` and `configuring`. Each has the panel's `current`, which leaving
resets without a lock, and `crashed`, a null pointer that was followed.

### `NetworkPage`, `ProxyPanel`: which panel, and what was typed (`src/ui/network/`)

`NetworkPage` has the six panels and the address panel: `front`, `hidden`, each one's `dev`,
the way `onBack`; and `profiles`, `form` and `given`, what was stored, typed and used. `trail`
is what the user would say the way back is. `ProxyPanel` is the text fields and the pairs of
environment variables.

### `Netlink`: the addresses of an interface (`src/network/netlink.cpp`)

Four dumps on one socket (`query`, `asked`, `table`, `info`), each answered part by part
(`sock`, `dump`) by a kernel whose tables change between the parts (`links`, `has`).
`ever` and `always` remember what was there during a query.

### `DiskChooser`, `ImageChooser` (`src/ui/choose_disk/`, `src/ui/choose_image/`)

The first has the pool's `load_disks` under `lock` (`load`, `todo`), LVGL's draw and
registration, and the event loop's `on_hotplug`: called, and before its lock (`called`),
then `hotplug_remove`, or `hotplug_add` in its two halves, one under `lock` and one under
`lv_lock` (`adding`). `spinner` is the cover, a mask that keeps the pointer off:
`set_spinner` disables Refresh, Next and the list's container, but not the entries in it,
so that `Click`, `ClickImage`, `ClickGroup` and `Leave` go on under it, by keyboard, and
a click enables Next again. `gone` says how the disk chooser was left: under its cover,
with `on_hotplug` at work, or with neither. The second has `load_images`, the list in LVGL's thread,
and one function per image that fetches its cover (`jobs`) and puts it on an object that
may be gone (`cover`). `used` is a page, or an object, that was used after it had gone.

### `MassOptions`, `Gadget` (`src/ui/mass_storage/`)

`MassOptions` is the page of options: a configuration that outlives it, a list, a menu
of controllers that is filled when the page is drawn or reloaded, and `start_apply`'s
tests. `Gadget` is the tree in configfs as `apply` builds it and `clean` takes it down;
every step may throw, and a directory goes only when it is empty and no link leads to
it, as the kernel has it. What a disk's claims are is part of the world in the first and
of the tree in the second.

### `DisplaySetup`, `DrmDisplay`, `FbdevDisplay` (`src/display/`, `src/ui/main.cpp`)

`DisplaySetup` tries cards and frame buffers as `display_init` does, with every failure and
what it gives back. `DrmDisplay` is LVGL's two buffers (`act`, `active`), the atomic commit
(`req`, `pending`), the flip's event and the wait for it; `frames` are the calls of
`set_display_mode` in progress, on LVGL's thread (where a signal interrupts anything) and on
the event loop's. `FbdevDisplay` is the same for a frame buffer: areas copied into its
memory, a semaphore and the thread that pans.

### `Url` (`src/lib/url/`, `choose_image/load.cpp`, `flasher/netblk.cpp`)

A text is a sequence of tokens: delimiters, words, a number, and codes of single
characters (a blank is `"space"`, its code `"%20"`). `Parse`, `Relative`, `Text`, `Encode`
and `Decode` are the class's functions, their loops recursive functions; the state machine
is the chain manifest, device, images, image, with the URL handed on as text in between.
`meant` is the path an independent definition gives for plain references (`Walk`): it
goes through a reference name by name, each name decoded by itself, and knows nothing of
parts that are cut, resolved, joined and decoded as a whole.

### `MC...` modules

They give the models' constants their small values: requests, command lines, symmetries,
the kernel's tables, cards and references and, for the cache, the state constraint that
ends a behaviour at an overlap. `MCInput`, `MCDevices`, `MCInstall`, `MCNetwork` and
`MCPages` hold several models that share no state in the code, or of which one runs at a time: a
variable picks one in the initial state and the others stand still, so that one run
explores each by itself (`MCInstall` is run twice: `flasher`, and `page` for the page and
the URLs). Their properties are conjunctions of those stated in the
modules.

## 4. What is checked

| run | instance | shows |
|---|---|---|
| `cache_serial` | 4 sectors of 2 bytes, 2 readers and the prefetching thread, reads inside, across and past sectors and the end, short answers, eviction between locked sections | held bits, right aligned reads, service when the server is sound |
| `cache_ragged` | 3 bytes (a half last sector), one reader, a backend that refuses to read past the end or cuts, evictions at any time | the cache implements `NetblkDisk`, every read is answered |
| `pool` | 2 adders, 2 workers, 3 functions, the destructor | no lost wake-up; all run and the destructor returns; `JobPool` is implemented |
| `nbd` | 2 tags used once, 2 jobs at once, reads and writes on a read-only backend | whole replies, `NetblkDisk` is implemented, every request answered, the end noticed |
| `page` | up to 3 status lines; references of up to 3 tokens | the shown end is the real one, no process or call is left, the join returns, the end is shown; the documents are the ones that are meant |
| `write` | all command lines over a 3-cell input | exact copy, success only for a whole one, the command ends |
| `write_count` | the whole input | a disagreement with the usage text (section 6) |
| `flasher` | 2 flashers | lock covers work, image stays while used, others untouched, a cancel ends |
| `input` | 2 device nodes, one that comes and goes, up to 3 changes, a socket that holds one uevent; 3 events of any kind, queues of 2 | what is there is polled once; LVGL knows pointer and wheel; both are dealt with in the end |
| `devices` | 2 tags and all operations; 2 readers of a loop device, each reading twice | the queue is a disk, the loop device has its file, reads, start and stop end |
| `network` | see below | replies are their commands' own; a panel that stays is safe; what is shown is current; what is read is true; waits end |
| `pages` | see below | true choices, safe leaving, nothing remains of a gadget, no tearing, a true screen |

### Bounds, and why they are enough

* *Cache*: four sectors and rounds of two give a first, a middle and a last round, growth in
  both directions and a cached sector between two missing ones; two readers and the
  prefetching thread are enough for one to fetch what another needs, since only one is in
  the locked section. `Retry` 2 has a retry that succeeds and one that fails. `Word` is
  64, above every sum, so that only the intended wrap-around happens.
* *Pool*: two workers make `idle` of one and work of the other possible at once; three
  functions are one more than workers.
* *NBD*: two tags let two answers meet on the stream and two jobs meet at `write_lock`;
  the kinds are one that is served and one that is refused.
* *Page*: three lines can come before, between and after the polls around the process's end.
* *URLs*: references of up to three tokens reach above the root and below a directory; the
  manifests are with and without a user, a port, a host in brackets and an encoded delimiter
  in the path.
* *Write*: blocks of one and two cells divide and do not divide lengths from 2 to 4;
  offsets are at the start, inside and behind each file; the output is too small, as large,
  or has no size.
* *Flasher*: a flasher runs once, so two of them give every pair of places, one after or
  beside the other; a third adds no further kind of meeting at a lock and a name.
* *Input*: three changes let a node come, go and come again, before, while and after
  main probes; a backlog of one makes the second uevent overrun. Queues of two with
  three events trim, and three events are a press, a move and a release, or a modifier,
  a key and its release.
* *Devices*: two tags let one be served while the other is aborted; two readers and two
  reads let a read meet the stop and a reader come after another.
* *Network*: the client has one thread that opens it and two that send two commands
  each, with two events between: a third could only queue behind `lock`. Two scans may
  overlap, two clicks on Connect too; one event each, because what matters is where it
  falls. The list has two buttons and five stations, two of one name and one that hides
  its name: more names than buttons. One wired and one wireless device give every way
  between panels. With two of a kind `NetworkPage` would go between their panels in the
  same ways, but what a panel keeps across a `switch_to` would meet the other device: the
  wireless list keeps `event_id`, so that going from one adapter's list to the other's
  without leaving leaves the listener at the first client (`wlan.cpp:345-363`). `WlanList`
  and `EthernetPanel` have one device, and their results are for one. The kernel has two
  interfaces, one shown, with routes that could be mixed up, and changes its tables
  twice. Two pairs of variables and one proxy tell spellings and names apart.
* *Pages*: two disks and two changes, so that one comes and goes, goes and comes back, or
  both change (the theorem is for any number); four entries for two images, so that
  two loads exist at once; one gadget of up to three disks in four modes; two
  controllers, one of them virtual; two frames and two switches of terminals, as two
  calls to opposite terminals need; two areas with one change; cards of two connectors,
  encoders and crtcs.
* `Reach`, `Huge`, `Rounds`, `MaxStatus` and the constants whose declaration says "bound" or
  "how often" are bounds of the instances, the others (`MaxIo`, `MaxEvent`, `Retry`, ...) small values
  of constants of the code; the theorems about `ProgressPage` hold for every `MaxStatus`.

`CONSTRAINT StopAtOverlap` of `cache_serial` cuts behaviours where the data properties promise
nothing; the runs that check liveness have no constraint. Deadlock is checked for the
cache. The other systems stop by design: the pool's functions are done, a device is torn
down, a command or a page has ended, and the bounded inputs of a page are used up.

### Fairness

* *Cache*: a thread in the locked section goes on (a transfer ends: `CURLOPT_TIMEOUT`), an
  eviction goes on, and a thread that waits for the mutex gets it some day (strong fairness
  of `Acquire`: the mutex is released again and again). Neither requests nor memory
  pressure need come.
* *Pool*: threads go on and get the mutex; functions return. A sleeper need not wake by
  itself, nobody has to add, the process need not end.
* *NBD*: threads go on; some job that can go on does (the pool's promise); the kernel
  reads its socket and fails what is open on a dead connection. The kernel need not
  send, a connection need not end, and a blocked read need not be interrupted.
* *ublk*: the queue's thread, the main thread and the kernel's driver go on; requests
  need not come. *FUSE*: the session's thread and main go on, and a user closes the loop
  device some day.
* *Page*: both threads go on. The flasher need not end and nobody has to click.
* *Write*: both threads go on, and an input or output operation returns.
* *Flasher*: a flasher goes on, and `SIGTERM` ends a script. The latter is an assumption
  about images' scripts; the clean-up's `SIGKILL` after ten seconds covers the rest, which
  the model takes into `KillScript`. A script without a signal need not end.
* *Input*: the loop's thread, main at start-up and LVGL's thread go on; hardware need
  not change and nobody has to type.
* *Network*: a thread in `exec` goes on, the supplicant answers while it is there and
  the loop reads what arrives; the pool runs what it was given (`WorkerPool`) and LVGL's
  thread its calls; the functions that read the state, run dhcpcd and ask the kernel go
  on. Events, clicks and the end of an attempt need not come.
* *Pages*: none; only safety is checked.

## 5. What is proved

Proofs hold for every value of the constants that satisfies the named assumptions:
`CacheAssumption`, `PoolAssumption`, `NbdAssumption`, `WriteAssumption`, `ReachAssumption`,
`InstallAssumption` (`Nobody` is no flasher, the status lines are a number of lines),
`ChainAssumption` (see below), `DeviceAssumption` (the server is none of the users of
its own file), `InputAssumption` (a queue holds at least one report and a screen has a
column), `NetworkAssumption` (`Free` is no thread, no interface is called
`None`, and there is a button for a network, `ssid_items`) and `PagesAssumption` (the number of units is one, a machine has finitely many disks and
controllers, and no disk is called `None`). The models that run side by side in
one run (`MCDevices`, `MCInput`, `MCInstall`, `MCNetwork`, `MCPages`) are proved about there: a lemma takes a step of the whole to a step or a stutter of each
(`StepOfUblk`, `StepOfFuse`, `InstallSteps`, `StepOfHalf`, `StepOfPart`), and the proofs below it do not know of
the others. The three programs of an installation share one module of proofs, `InstallProofs`:
the command (`HelperWrite`), and the flashers, the page and the URLs that `MCInstall` sets side
by side.

* `BlockCacheProofs`. `TypeCorrect`: `TypeOK` is not inductive, for a sector index comes out of
  the thread's locals; `JobBounds` keeps those inside the image at every step of the locked
  section. The lemmas on `Clamp`, `SizeToSector` and `Erase` carry the arithmetic, the
  wrap-around included. `CachedIsHeld`: `HeldInv` adds that without an overlap eviction and
  locked section exclude each other, that a run is in memory before it is marked and a
  victim's bit is gone before its memory. `AlignedReadsAreRight`: a reader that copies has
  seen all sectors of its request, which needs an invariant on how far `Scan` has come.
  `HealthyReadsAreServed`: who throws has seen the backend fail (`Healthy`), for where the image
  ends at a sector boundary no request is converted to a sector past it (`SectorsFit`, through
  both wrap-arounds). `CacheImplementsDisk`: the places of a thread hide behind "pending",
  nothing is answered before it is done (`Lengths`), and what is not claimed of the bytes is
  the only difference (`ToldGood`), so that every step is one of the disk or none.
* `WorkerPoolProofs`. `PoolInv` says where a function is (`PlaceInv`: in one place), who has
  the mutex (`LockInv`), that whoever adds has made sure of a worker (`AddInv`) and which
  workers are idle (`IdleInv`); together with `QueueServed` it is inductive, and gives
  `NoLostWakeup`, `QueueDrained` and, step by step, the refinement `PoolIsQueue`.
* `NbdServerProofs`. `Flow` follows a request while the connection is up: it is in one place,
  the socket (`InSocket`), the pool's line (`InLine`) or a job (`InJob`), or it is answered by
  messages that stand side by side (`InReply`), and it is the one the kernel has open for
  its tag (`Known`): a late answer cannot meet the next request. `AtLock`, `AtPay` and
  `AtData` say what is half sent while `write_lock` is held. Once the connection is down
  nothing reaches the kernel and `Flow` is not needed. It gives `RepliesWhole` and, with the
  step of the kernel each action is, the refinement `NbdImplementsDisk`, for any number of
  tags, uses of a tag and worker threads.
* `DevicesProofs`. `QueueInv` says that a tag is in one place (`Seen`, `Prepared`), that what is
  to be committed is open and, if it is a read, in its buffer (`ToCommit`), and that a round
  which has handled nothing has nothing to commit (`Rounds`), so that the buffers given back
  then hold no answer. It gives the refinement `UblkImplementsDisk`. `LoopInv` says at which
  places of the session the device is listed and mounted and who uses the loop device; it
  gives `LoopKeepsFile`: no path of a start that fails half-way leaves a loop device that the
  server knows of without its file.
* `InstallProofs`, the command. `WriteInv` adds to `CopyExact` when the options are complete
  (`Begun`) and when the counter lags behind (`Counted`); it gives `CopyIsExact` and
  `DoneMeansWhole`. `ReachAssumption` only says that the model looks at every cell that may be
  written.
* `InstallProofs`, the flashers. `Ahead` says what is there at each place of the set-up,
  `Behind` what is gone at each place of the clean-up, `Apart` that without the lock there is
  nothing. The three need each other: that the cgroup is one's own follows from the lock, that
  it is gone when the lock is given back from the clean-up. They give `FlasherTypeOK`,
  `LockCovers`, `ImageStays` and `Untouched`, for any number of flashers.
* `InstallProofs`, the page. `Truth` (what each place of the thread and each queued call say
  about the process), `Flow` (what may be queued at which place) and `Gone` (what is true of a
  page that is gone) make the inductive invariant of `ShownSuccessIsReal`, `PageLeavesNothing`
  and `NoStaleCall`; `CancelStays` follows from the actions.
* `InstallProofs`, the URLs. `DocumentsMeant` is for texts of any length. `ChainInv` says that
  every url object is `Well`: nothing in its parts is a code any more, the scheme holds no
  authority, there is no password without a user, a path begins with a slash. From the text
  of such an object `Parse` finds its parts again one after the other (`SchemeFound`,
  `UserFound`, ..., joined in `TextReads`), unless a part holds the mark that ends it; without
  a scheme it finds a path that has grown slashes, which make no other parts (`BareReads`,
  `SlashBefore`). And where something is `meant`, the path's parts are its names (`Held`):
  what the parts of base and reference resolve to, decoded, is where the reference leads
  (`WalkIsResolved`, by a simulation of the two recursions token by token), a joined path is
  decoded part by part (`JoinDecodes`) and cut into the same parts (`JoinParts`), although
  the code decodes the path as a whole and the base a second time. The prover's induction
  theorems take an operator; what a recursive function computes for a text of any length is
  got from `GrownIsAll`, for a set that holds the empty text and with each text the longer
  ones, and `RecursionEnds`. `ChainAssumption` is about the configuration: its texts are
  texts, and a manifest whose path is plain has no dots for names in it (`Parse` does not
  resolve them), no "@" in its host (it would be read as a user's), and, if it has no scheme,
  nothing before the path; TLC finds the property violated without it.
* `InputProofs`, the devices. `PathInv` follows one path: the uevents the socket holds of it
  alternate and end with what it is (`Trail`), the vector knows it and the loop polls it, or
  neither (`Follows`), as it was before the first of those uevents, and before an "add" neither
  does. While main opens a node there are two vectors, the loop's and the one main has read, and
  both must be right, for either may be written back; the node that main has opened is polled
  and in neither (`Making`). It gives `PresentStaysPolled`, for any number of nodes, and of
  uevents that the socket holds. What a freed object would do to the process is not part of it:
  the property is about a process that lives (`AtRest`).
* `InputProofs`, the reports. A read of the wheel is asked for by one hand at a time, the loop,
  LVGL's list or the read that runs (`WheelInv`), so that a read finds its report unless
  `reading` was reset in between (`late`). That `SumOf` of a longer or a shorter queue is
  what it should be is proved by induction on a set of numbers (`SetInduction`, from the
  library's theorem that < is well-founded), for the library's own induction theorems take an
  operator. It gives `InputStaysShown`, for any screen, any limit of the queues and any number
  of events.
* `NetworkProofs`. `ClientInv` says that commands are sent one at a time (`Locked`), that
  the one under way is in at most one of the supplicant's requests, the wire and the buffer
  (`Flow`), and that a thread which goes on has its own reply (`Answered`); it gives
  `RepliesFindOwners` for any number of threads and commands. `PanelsAreSafe` needs of each
  panel what its functions in the pool keep of it: a function that would go through
  `current` runs only while the panel is open or has been left (`ListSafe`, `ConnSafe`,
  `WiredSafe`), for any number of scans, attempts and events. `PageIsCurrent` joins five
  invariants: that the listing is current, or a scan that has yet to read is queued
  (`ListInv`); that the panel in front is where the way back leads, a walk of which `OneMore` and
  `Walked` are the two ends (`PlaceInv`); that a device's profile and its form hold
  nothing that was typed for another one (`ProfileInv`); that the focus stays on the network it was put
  on, which needs that the first of the buttons with a name is found (`Least`, `Found`); and
  the two spellings of a proxy's variable. `ReadsAreTrue` joins two more. `AirInv`: a list
  drawn in the order of the strengths holds at every step of its fold what `ListIsTrue` says
  of the stations drawn so far (`ListHolds`). `KernelInv`: the kernel lists nothing that uses
  an interface which is gone (`Listed`); what the query has collected and what waits in the
  socket follow each other in the order of the table without a gap, and where they end the
  kernel goes on (`Waiting`, `Waits`), so that no entry which is there all the time is
  passed over, and no answer of another query waits there unless one was ended by an exception
  (`Asked`); what a finished query came to has been learnt from such entries (`Learnt`).
  Both are for any number of changes and buttons; stations and
  tables are the instance's. What a fold over a sequence comes to is obtained step by step
  (`FoldExists`, `FoldRuns`), by induction on the set of positions.
* `PagesProofs`. `NothingTears`: there is a request exactly while a commit is under way or its
  event is unread (`Requested`), and LVGL's choice of a buffer alternates with what is shown,
  unless a commit failed (`Alternates`). `PagesAreLeftSafely`: what is
  loaded or to be drawn is under the cover, so that a page that was left without it, and
  with no `on_hotplug` at work, has nothing behind it (`DiskSafe`); an entry's object is
  there as long as the page is (`ImageSafe`). A page that was left otherwise may be used,
  and the property says so: the code does it (section 7). `NothingIsLeft`: what clean has been at is gone, for it
  goes through the tree so that whatever holds a node goes first (`HoldersFirst`, from the `Rank`
  of a kind), and a build that stopped anywhere has made the first part of `Build`, which are
  nodes of those kinds (`Building`). It holds for every choice of options and any number of units.
  `ChoicesAreTrue` joins three invariants. Of the disks: once nothing came or went around the
  last load, the events that wait for the loop alternate for each disk and end with what it is
  (`Trail`), so that a disk with no event to come is listed exactly when it is there, and one
  with an "add" to come is not listed yet (`Follows`); `EventComes` and `EventGoes` keep that for
  a queue of any length, and a load that nothing came between has found what is there
  (`Scanned`). Of both lists: Next is enabled for what is selected,
  also by a click under the cover, and a new list selects anew (`Chosen`). Of the images:
  what is selected is listed and visible (`Pictured`). Of what is lent: list, buttons, label and menu agree with the configuration
  while they are shown (`Agreed`), and only a combination that can be lent is started (`Lends`).
  `ScreensAreTrue` joins three as well. `SetupInv`: a display that was found is driven by an
  encoder and a plane that can. `DrmInv`: unless opposite calls met, the switches of the
  terminal that are in progress lead the same way (`AllOneWay`), and when the drawing stands
  still before the terminal in front somebody is on the way to resume it (`Watched`); the
  last frame is what the widgets are, and the older buffer can be brought up to it, unless
  all will be drawn again (`Held`, `Drawn`). `FbInv` is the same for the memory of a
  framebuffer (`OneWay`), and says that what is not to be drawn again is drawn, what is not
  to be flushed is in the memory, and the device shows the memory or is going to (`Flushed`).

Each of these invariants was model-checked before it was proved.

Only model-checked: everything about liveness (`ReadsAnswered`, `PoolServes`,
`RequestsAnswered`, `EndNoticed`, `PageEnds`, `CommandEnds`,
`CancelEnds`, `InputArrives`, `DevicesEnd`, `WaitsEnd`), which the prover cannot do
under fairness. Every invariant and every action property of the runs is proved.

## 6. Findings

* `write_count`: the block count calculated when `-c` is missing is 1, whatever the size,
  because the sum is compared with 0 as a whole (`src/helper/cmd_write.cpp:182`).

## 7. What the models show beside the properties

No text of the repository promises the contrary of these, so they are not findings, but
each bounds a property above and is worth knowing.

* *Cache.* `size_to_sector` takes the misalignment off the size instead of adding it, so
  a read that starts inside a sector may return bytes that were never fetched; the data
  properties are about reads at sector boundaries. `reduce_half` takes no mutex: an
  eviction during a read may zero what is being copied, lose bits, and race on the list.
  The tail branch of `cache.cpp:30` is reached only when a round asks for the tail
  alone; with the HTTP backend, which refuses to read past the end, it never is, and
  with one that clamps a longer round that reaches the tail fails. Hits do not refresh
  `lru_list`: eviction is first in, first out.
* *Pool.* A worker that was notified and does not run yet counts as idle, so the pool
  may not grow when it could. The destructor's notification may fall between a worker's
  look at its flag and its sleep, and the join then waits for ever (`missed` in
  `ShutdownEnds`, part of `PoolServes`).
* *NBD.* The error of an unsupported command is positive and counts as success; a short read
  of the backend is answered with the whole buffer. Jobs keep the device, not its
  descriptor. A signal between the choice of the device and the handlers is lost.
* *Page.* After Cancel, Back is offered while the process may still report: its thread may
  then wait for `lv_lock` while LVGL's thread holds it and joins, and the call that
  `stop_terminal` queues finds no page (`cutoff`). Back also kills a flasher in the midst
  of its clean-up.
* *Helper.* A copy that is over before the report thread has set its flag leaves that
  thread running and the join waiting (`missed` in `CommandEnds`). For an output without
  a size the room is the difference of two unsigned numbers: offset 0 is refused, others
  wrap around. The usage text names `-P`, and the parser does not know it
  (`src/helper/cmd_write.cpp:61`, `:95`).
* *Flasher.* A signal before `flasher.script` is set follows a null pointer; one between the
  fork and the store of its pid is lost; one during `waitpid` ends it with an exception. What a
  script starts before it is put into the cgroup stays outside (`held`). `umount2` with
  `MNT_EXPIRE` and another flag is refused by the kernel, so the last ways to unmount do
  nothing. The server's answer is read as soon as the file is there. Nothing watches the
  server while the script runs.
* *ublk.* `START_DEV` waits for ever when a queue fails to initialise. `STOPPING` is
  overwritten when the queue's thread writes its word back (`unset` in `QueueEnds`).
  `io_inflight` is never counted, and `get_ublk` throws once the object is being
  destroyed.
* *FUSE.* Nothing notices a session that fails; the announced path may not exist. The
  signal that stops the session may come between its test and its read (`missed` in
  `ServerEnds`); one that comes before `running` is set is ignored. `se` is used after
  it was freed.
* *Hot-plug.* A device that changes while main probes may be opened twice (`crossed`). A
  handler that is removed may still be called in the same epoll batch. An overrun of the
  socket takes its handler out of the loop until somebody listens anew (`lost`), and a
  socket that is opened before the old handler is gone is never polled. Descriptors of
  devices that went stay open.
* *Input events.* A report that comes between the look at the empty queue and the reset
  of `reading` waits for the next event (`indev.cpp:134`, `missed`). A read that was
  asked for late repeats the last step of the wheel (`late`). The release of a key is
  not reported while Ctrl or Alt is held. A touch panel that gives no resolution can
  never be tapped (`std::min(1, resolution)`).
* *Wireless client.* A control socket's file left behind is taken for a running
  supplicant: the connection fails and is never tried again. A command whose supplicant
  dies waits for ever and keeps `lock`.
* *Network list.* Events are dropped while `updating`, also when the state was already
  read (`missed`). The client is shown before its first command is answered and reset
  afterwards. A page that is opened before the client is ready never listens until its
  device is chosen again. The list is drawn before the status is read, so its mark is of
  the scan before. A line of `SCAN_RESULTS` with an empty name, or of `LIST_NETWORKS`
  with empty flags, loses its last tab and is skipped: hidden stations are not listed,
  and a network that is enabled and not current is not known, so connecting to it adds
  it again.
* *Connecting.* `CONNECTED` between `SELECT_NETWORK` and the listener is missed, and the
  page waits for ever. Leaving during an attempt follows a null pointer (`left`).
  Several events that were queued before the listener went run it more than once; a
  command that throws in it leaks it.
* *Wired and address panels.* Leaving during a read of the state or a configuration
  follows a null pointer. Apply on the address panel does not reach the panel it was
  opened from, which no longer listens. `load_address` leaves `updating` set when it
  throws. A configuration that is asked for while one runs is dropped; an earlier one's
  end enables the buttons of a later one. The wireless address panel edits the profile
  `default`, never the network's. The address is shown without its prefix, so that a
  second Apply is refused; name servers typed in the static mode are lost. The fields of
  the proxy panel start empty, so that Apply erases proxies from the environment.
* *Netlink.* The answers an aborted query leaves behind are read by the next one on that
  socket. Masks and networks are computed in host order, and `255.255.255.0` is refused
  on a little-endian machine.
* *Disk chooser.* An event between the reading of the directory and the registration is
  lost; an entry is shown twice when a draw falls between the halves of `hotplug_add`,
  and a disk removed during a load comes back (`hotplug.cpp:48` tests a variable that is
  shadowed). Under the cover the keyboard reaches the entries, whose click enables Next
  (`choose.cpp:98-111`, `:174`): Next then hands on an entry of the old list, and both Next
  and Back leave a load behind that uses a page which is gone (`covered`). So does
  `on_hotplug` that waits for a lock, or is between those halves, when the page goes
  (`handling`). The placeholder is shown, not hidden, when a disk is added
  (`hotplug.cpp:38`).
* *Image chooser.* Leaving with covers to come uses the page that is gone, and so does
  leaving under the cover, where the keyboard chooses an image of the old list as well
  and Next may hand it on with the `images_url` of the new one (`load.cpp:69`).
* *Mass storage.* A pre-stop hook that throws leaves everything in place though the page
  says it stopped (`threw`). A failed start keeps its disks claimed until the page of
  options is drawn. Widgets' values are lost when the page goes to the chooser: only
  Start stores them. `str_trim_to("size") == "0"` is never true, so that disks of size
  zero are listed.
* *Display.* A flush swallowed by the pause has swapped LVGL's buffers, and an older
  buffer is committed afterwards (`late`); a failed commit leaves LVGL waiting
  (`failed`). Opposite switches in progress at once leave `gui_pause` wrong (`overlap`).
  No mode is ever set, for `first_atomic` stays false; a connector without an encoder
  falls back to the card's encoders rather than its own; of several planes the last is
  taken.
* *URLs.* A path that is resolved is decoded twice. A length of zero takes the rest of
  the text. A relative reference encodes its `?`, and a URL without a scheme grows
  slashes when it is read again; if it has a host, that becomes the first part of the path.
  Dots in the path of a manifest's own URL stay. A host that was written with an encoded
  "@" is put in brackets and read as a user and a host.

## 8. What is not modelled

* *Of the modelled parts*: the sampling of `/proc/pressure`, HTTP itself, writes through
  a backend, the search for a free device number, the partition scan, more than one ublk
  queue and the device's parameters, attributes and directories of the FUSE file system,
  the widgets and the log queue of the page, the split of status lines longer than a
  buffer, `-F`, `-C` and the number formats of the helper, the choice of script, shell
  and architecture, pipes and limits of processes, functions that add functions while
  the pool is destroyed, the overflow of `count * block_size`, the event loop's timers
  and its stop, the key map and pointer acceleration, the texts of the supplicant's
  commands, a second wireless adapter or wired interface on its panel, requests and JSON
  of the image list, the names and serials of a gadget,
  `sdl2`.
* *Known and left out, each a race of one step with one reader that no property here
  would tell from a run without it*: a worker that was notified counts as idle until it
  runs (`worker.cpp:97`); jobs that keep a number of a socket that was closed
  (`nbd.cpp:170`); the positive `ENOTSUP` of an unknown command (`nbd.cpp:230`); the
  server's answer read while it is being written (`flasher/netblk.cpp:82`); a status
  value that is no number (`progress/status.cpp:47`); a listener of uevents that gets the number
  of another one, after the socket was opened anew (`uevent.cpp:75`); logging backends added and removed
  without `print_mutex`.
* *Not planned*: fonts, images, translations, the drawing of pages, logging,
  configuration, conversions of strings, times and sizes, vendored code: without state
  of their own that other threads see, or outside the repository.
