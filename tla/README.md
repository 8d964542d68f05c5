# A verification of omarchy-surface-touch

TLA+ models of the parts of this repository whose correctness depends on the
order in which things happen, TLC runs that check them on small instances, and
TLAPS proofs of the results that matter most for every instance. Paths such as
`src/ipts/mei.c` are relative to the repository.

## 1. The system

The repository makes the touchscreen of Surface tablets work on Omarchy: a
kernel driver for the Intel Precise Touch & Stylus controller, three user-space
daemons, a compositor plugin, a patched on-screen keyboard, four shell plugins
and their installers.

| Part | Where | State it keeps | Operations |
| --- | --- | --- | --- |
| Receiver | `src/ipts/receiver.c`, `control.c`, `thread.c` | ring of data buffers, doorbell, `lastdb`, `should_stop`, completion | event loop, poll loop, start, stop, restart |
| MEI message list | `src/ipts/mei.c`, `cmd.c` | unread responses, rw-semaphore, wait queue | incoming, search, recv, send |
| Lifecycle, EDS1 mode switch | `src/ipts/main.c`, `control.c`, `resources.c`, `thread.c`, `hid.c`, `eds1.c` | thread object, buffers, HID device, `hid_active`, `mode` | probe, remove, start, stop, restart, SET_REPORT |
| HID reports | `src/ipts/hid.c`, `desc.h`, `eds1.c`, `eds2.c` | report buffer, what HID was told of report lengths | input of frames, of native reports and of feature answers |
| EDS2 feature reports | `src/ipts/eds2.c`, `hid.c` | `feature_lock`, `feature_event`, `feature_report`, the hid2me buffer | GET and SET of features, input |
| OSK daemon | `osk/bin/omarchy-surface-osk` | visibility, focus, lock screen, mode of fcitx5, timers, wvkbd process | focus reports, commands, keys typed |
| Rotation daemon | `rotate/bin/omarchy-surface-rotate` | candidate and applied orientation, enabled, keyboards | poll, commands, keyboards |
| Brightness daemon | `light/bin/omarchy-surface-light` | smoothed light, brightness applied, override by hand | poll, commands |
| Long-press plugin | `longpress/src/main.cpp` | fingers, one armed touch, timer | down, motion, up, cancel, timer |
| wvkbd | `osk/wvkbd/wvkbd-surface.patch`, `layout.surface.h`, `keymap.surface.h` | layer shown, keymap uploaded, latched and locked modifiers, key pressed | press and release of each kind of key, show, hide, end |
| Shell plugins | `osk/plugin`, `rotate/plugin`, `light/plugin`, `gestures` | the daemons' published state | tap, swipe |
| Installers | `install.sh`, `uninstall.sh`, `*/install.sh` | DKMS, files, services | install, reinstall, remove |

**How they interact.** The device and the driver share memory (data buffers, the
doorbell, the hid2me buffer) and exchange commands and responses over MEI. The
bus callback puts a response on a list, and whoever waits for it searches the
list by command code: the receiver thread, the task that starts or stops the
driver, and tasks in HID requests. The receiver thread hands frames to the HID
layer; a request from there may, on an EDS1 device, stop and start the whole
driver. The daemons read kernel interfaces (sensors, input devices, backlight),
call the compositor or fcitx5 over sockets, D-Bus and processes, and publish
their state to files that the shell plugins watch. Each daemon is one GLib main
loop: a callback runs to its end before the next one.

**What is hard about it.** In the driver the receiver thread, the stopping task,
the tasks in HID requests and the device interleave freely; every command has a
time limit and its response may come later; nothing tells the responses of one
session from those of the next; buffers are filled by DMA, so one that is given
back at the wrong moment is overwritten while it is read; any step of a start or
a stop may fail half-way. The daemons combine asynchronous answers, timers,
processes they signal and commands, and the state they rely on (the mode of
fcitx5, the brightness, the screen) is changed by others as well.

**What makes each part correct.**

* Receiver: every frame reaches the HID layer once and in order; no buffer is
  read that the device may write; a buffer is given back once per fill; a stop
  ends, stops the flow, and memory is freed only then; data keeps flowing.
* Message list: an entry is used by one task, while it is on the list; no
  response is lost; nobody sleeps through one; an answer belongs to its command.
* Lifecycle: one receiver loop, which has its buffers; the driver, the device
  and the loop agree on the mode; whoever enters the driver gets out again; a
  removed driver leaves nothing behind.
* HID reports: every frame that fits arrives, on kernels old and new, and nothing of
  an earlier one with it.
* Feature reports: the mutex is released on every path; an answer belongs to the
  request that waits for it.
* OSK: wvkbd is not killed by a signal that comes too early; what is on the
  screen is what the daemon believes; fcitx5 goes back to the mode in which it
  reports the focus; typing does not hide the keyboard.
* wvkbd: a key types what it shows; modifiers stick as sticky keys do, and none is
  left down towards the compositor.
* Installer: what worked goes only when its successor is built; a complete
  installation leaves one version, however earlier ones ended.
* Rotation, brightness, long press: the output follows an input that has held
  long enough, follows it in the end, and a manual choice stands.

## 2. Modules

| Module | What it is |
| --- | --- |
| `FrameChannel` | abstract: a bounded FIFO from the device to the HID layer that may drop frames only while muted |
| `IptsReceiver` | the receiver, its commands, start, stop and restart, and the device; implements `FrameChannel` |
| `RingArithmetic`, `IptsReceiverProofs` | lemmas about remainders; theorems about `IptsReceiver` |
| `ResponseBox` | abstract: one box of unread responses per command, of which the newest is taken in one step |
| `IptsMei`, `IptsMeiProofs` | the message list at the level of its locks, implementing `ResponseBox`; theorems |
| `IptsLifecycle`, `IptsLifecycleProofs` | probe to remove with concurrent mode switches and failing steps; theorems |
| `IptsFeature`, `IptsFeatureProofs` | feature reports of several tasks; theorems |
| `IptsHid` | from a data buffer to a report: descriptors, report lengths, the report made of a frame, what the HID core accepts |
| `LongPress`, `Rotate`, `Light` | one module per plugin or daemon |
| `Osk`, `OskKeyboard`, `OskProofs` | the OSK daemon with fcitx5 and the user; the wvkbd process as operators on a record; theorems |
| `StickyKeys` | abstract: modifier keys that are off, latched or locked |
| `WvkbdKeymaps`, `WvkbdLayouts` | the tables of the keyboard: keymaps with their levels, layers with their keys |
| `Wvkbd`, `WvkbdProofs` | presses, releases, modifiers, layers, keymap uploads; implements `StickyKeys`; theorems |
| `DkmsInstall` | the commands of `install.sh` and `uninstall.sh` around dkms, failing or interrupted |
| `MCPrograms`, `ProgramsProofs` | `LongPress`, `Rotate`, `Light`, `DkmsInstall` and `IptsHid`, explored one at a time; theorems about each by itself |
| other `MC...` | symmetry, constant functions and model values for TLC |

The driver modules are layers of one system. `IptsReceiver` treats the message
list as one box of responses per command (`Posted`, `Has`, `Taken`), which is the
shape of `ResponseBox`, and `IptsMei` implements `ResponseBox` (`BoxCorrect`). `IptsReceiver` models the loops
and their device in detail, with one task that starts and stops them;
`IptsLifecycle` abstracts a loop to a thread that runs until it is told to stop
(as `StopTerminates` says of the real one) and details what lies around it.
`IptsFeature` takes a running driver and adds the tasks that share it. `IptsHid`
takes one buffer at a time from the receiver and models what becomes of it. `Osk`
sees wvkbd as a process that takes signals and prints characters; `Wvkbd` is the
inside of that process.

### State and actions

* **`IptsReceiver`**. `tpc` is where the receiver thread is, `ctl` where the task
  in `ipts_control_start`/`_stop`/`_restart` is; `owner`, `frame`, `filled`,
  `cmds`, `fbq`, `flow` are the device, `mail` the unread responses by command,
  `doorbell`, `lastdb`, `snapshot`, `round`, `buffer` the variables of the loops.
  The poll loop is `PollSnapshot` (reads the doorbell once), `PollDrain`
  (compares `lastdb` with it), the buffer steps, and the second test of
  `should_stop`; the event loop takes a data response, reads, acknowledges and
  requests again. One shared-memory access or message per action. `Fill`,
  `Acknowledge`, `Quiesce`, `FlushDone` are the device. It is modelled from the
  comments of `spec-device.h` and `control.h` and from what the driver expects.
* **`IptsMei`**. Responses and list entries are numbered as they come, so the list
  (which grows at its head) is the set `listed`. `Search` is the walk under the
  read lock, `Unlink` the removal under the write lock, `Deliver` the copy and
  the free; `Begin`, `Wake`, `Expire` are `wait_event_timeout`.
* **`IptsLifecycle`**. `pc[t]` is where each task is; an action is one call made by
  `ipts_control_start` or `_ipts_control_stop`. `Command` and `Fail` give every
  call its failure, and the path taken then is the one in the code: mostly a
  plain return. `thr` is `thread->thread`, which can hold an error pointer; `hid` is
  `ipts->hid`, with "freed" between `hid_destroy_device` and the assignment of NULL.
* **`IptsHid`**. A descriptor is the sequence of those of its items that decide
  lengths, and `Parsed` is the HID parser on them. Of a buffer it is known how far
  it is not zero and whose frame it holds. `Accepts` is what the HID core does with
  a report shorter than its descriptor, before Linux 7.2 and since.
* **`IptsFeature`**. `pc[t]` follows a task through `ipts_eds2_get_feature` or
  `_set_feature`; `report` is the buffer `feature_report` points into, so a
  `Copy` copies what is there by then. A FEEDBACK that the device answers with an error
  other than INVALID_PARAMS ends the request; the receiver thread only logs it.
* **`LongPress`, `Rotate`, `Light`, `Osk`**: one action per callback, the whole
  of it. What the world does (fingers, the tablet, hands, the light, fcitx5,
  wvkbd, the clock) are actions of their own. History variables are named as
  such: they record what a property has to except and no action reads them,
  apart from those that update them.
* **`Rotate`, `Light`**. What does not work at the moment is the set `broken` (the
  sensor, Hyprland, its reload; the sensor, the backlight, `brightnessctl`). `Break` and
  `Mend` change it at any time, and a poll does what the code does with what it finds:
  its failure is never a choice of the poll.
* **`Osk`**. It starts as the daemon does, with wvkbd just started (or not: `Start(k, ok)`)
  and the first call of `arm` on its way. `ShowRaises` is the exception that `send_show`
  ends in when there is no process, which leaves `set_focus` before it publishes. A
  message says what was called and what it is `about`, the focus of a text field or only
  the mode of fcitx5; the daemon cannot see that, only the properties look at it. A
  callback is one step. One that blocks (`session_locked` up to 3 s, `stop` up to 2 s) is a
  main loop that is late: in the world `"late"`, `Tick` lets time pass while messages wait
  and timers are due.
* **`Wvkbd`**. A tap is two actions, the press and `Release`. `mods`, `locked`,
  `lastMod` and `pressed` are `kb->mods`, `mods_locked`, `last_mod` and `last_press`;
  `mask` and `held` are what the compositor was told. What the patch leaves alone is
  modelled from how the patch uses it. The tables are data of the module: every layer
  and every key on it, with labels, code, forced modifiers and target; every row of a
  keymap that one of these keys needs.
* **`DkmsInstall`**. `at` is the command that runs next; every command may fail, and
  the script be interrupted, as `Faults` says. Any number of runs follow each other,
  each of any version, with uninstallations in between.

## 3. Runs

| Run | States | Question |
| --- | --- | --- |
| `receiver_faults` | 540,000 | both loops, one session, late responses, failed sends, error statuses: ring, frames, memory, end of a stop |
| `receiver_switch` | 33,000 | three sessions of both modes on a device that answers: is a flushed device quiet, does data keep flowing |
| `receiver_race` | | violation: a stop can leave the flow on |
| `mei_list` | 35,000 | does a search that lets its lock go act like an atomic take |
| `lifecycle` | 18,800 | probe, switches, remove with every step free to fail, one task at a time |
| `lifecycle_remove` | | violation: a switch that overlaps a remove |
| `feature_reports` | 405,000 | two tasks, a ring of two, late answers, failures, error statuses |
| `programs` | 269,000 | the plugin (two fingers, any movement, loading), the rotation and the brightness daemon (any input, commands, failures), the installer (two versions, failures, interruptions), the HID reports (both devices, both kinds of HID core) |
| `osk` | 5,300,000 | everything that happens to the OSK daemon, from its start on |
| `osk_typing` | | violation: typing hides the keyboard |
| `wvkbd` | 379,000 | every key of every layer under the modifiers that matter on it |
| `wvkbd_away` | | violation: a modifier that stays down |

What they show:

* `receiver_faults`. `ImplementsChannel` is the strongest: the receiver is a FIFO
  of at most `NBuffers` frames, across wraps of the doorbell, whatever fails; the
  refinement mapping reads the waiting frames out of the ring (`Waiting`) and the
  phase from `allocated` and `hidActive`. `RingInv` is the invariant of the poll
  loop the proofs use. `ReadIsStable` is the memory hazard; `EveryFrameIsRead` and
  `StopTerminates` need fairness.
* `receiver_switch`. `FlushedMeansQuiet`: a flush that was acknowledged leaves a
  device without flow that owns all its buffers. `NeverStalls`: it will always be
  possible again for the device to fill its next buffer.
* `mei_list`. `NoLostWakeup`, `OwnAnswer`, `AnswerReceived`; `OnlyLateLeftovers`: the
  list, which nothing ever clears, keeps nothing but answers that came too late; and
  `ImplementsBox`: an entry leaves the box when it is found, and a response that
  arrives later is not passed over.
* `lifecycle`. `OneLoop`, `DriverAgrees`, `SwitchTakesEffect` relate the state of
  thread, device and driver between calls; `NothingDangles`: no thread outlives its
  context or meets a HID device that is gone; `CleanRemoval` what a removal leaves, and
  `FlowStopped` that nothing starts the flow again behind a flush the device acknowledged;
  `CallsReturn` that every call ends.
* `feature_reports`. `LockHeldInside`; `NoForeignAnswer` and `GetsSucceed` as long
  as `smooth`: nothing late or failed and no SET so far.
* `programs`. `ClickIsMeant` compares a click with what the finger really did,
  `HeldFingerClicks` is its other side; `SettledBeforeTurn` and `ScreenFollows` are the
  same pair for the rotation, `HandWins` and `Converges` for the brightness. `ScreenFollows`
  and `Converges` ask for what happens once all that failed works again and stays so,
  whatever failed before.
  `FailedBuildKeepsOld`: until the new version is built nothing that worked is lost;
  `DoneIsExact`: an installation that comes to its end leaves its version and no
  other, whatever state it found. `EveryReportArrives`: a report or a frame that fits
  is accepted by the HID core and reaches user space whole; `NothingStale`: nothing of
  an earlier frame is in it.
* `osk`. `NeverKilled`, `ShownIsVisible`, `StaysArmed`; and `FocusTracked`: when all has
  settled the daemon knows the focus, except after a list of cases that is part of the
  property (section 5). Any other order of reports, timers, questions and answers ends right.
* `wvkbd`. `ShownIsTyped` runs through the tables: the label drawn, the code sent, the
  mask, the keymap uploaded last and the row it gives to that code agree. `MaskFollows`
  and `OnlyNextLayerForgets` say what the compositor is told; `ImplementsSticky` what the
  user sees of it.

Each property has a mutant in `PROJECT.json`: a plausible bug in the code it is
about, defined next to the right version in the module, under which it fails.

### Bounds

* Receiver: 2 buffers (16 in the code) and a doorbell modulo 4 (2^32): a ring
  has an oldest, a newest and a full state with two, and a session may pass the
  four positions of the doorbell any number of times; the ring theorems hold for every size. `MaxMail` 2 keeps a stale
  response next to a fresh one. One session with failures; three without, so
  that each mode comes after each.
* Mei: two tasks and three commands, one of which may outlive its wait.
* Lifecycle: one task that probes and removes and two that switch, three
  switches, a requested mode that is neither of the known ones.
* Feature: two tasks, two requests, two buffers, two unread responses. A third
  request only adds a task that waits for the mutex.
* Programs: they share no state, so that one at a time shows what all would. Long
  press: four positions and a tolerance of one tell "near", "at the limit" and "too
  far" from each other and allow a way out and back; two ticks of time. Rotate: an
  orientation that is allowed and the start, one that is allowed, one that is not,
  and flat; with two ticks to settle a poll comes too early or in time. Rotate and light:
  one thing is broken at a time (`MaxBroken`), any number of times after each other. Installer: two
  versions (the theorems hold for any number). HID: sizes at and around the limit of
  7475 bytes, short ones, and the longest native report.
* OSK: ticks of 250 ms give the timers their real order (start 500, focus 250, ignore
  500 ms, and three ticks for the re-arm timer of 800 and the owner timer of 1000 ms);
  `osk_typing` has ticks of 50 ms and the true 16. `MaxRare` allows two of the rare events
  (locks, plugs, themes, crashes, layouts, restarts of fcitx5, late ticks) in any order at
  any time. `MaxQueue`: commands, plugs and restarts wait until no message is on its way,
  keys and the focus until none is on its way to the daemon. What the daemon has called
  does not hold them back (`RoomToReport`), so that a focus report may pass a question
  that is under way. The theorems have no such numbers.
* Wvkbd: the tables are those of the repository, whole. `Taps` gives for each list of
  layers the modifiers the user taps: Shift, CapsLock and AltGr for the lists the
  daemon starts it with, where they choose labels; Shift and Ctrl for the list
  built in.
* Light: a reading on the steep part of the curve and two on its upper part, where
  the cap of 50 % holds, on a backlight of 24 levels, where 4 % is one level and
  percentages round; a hand that sets it dark and one that sets it to half.

Deadlock is checked except where a system may stop for good: after a failed
`kthread_run` (`lifecycle`), where a switch races with a removal (`lifecycle_remove`:
the restart resets `done` and `should_stop` under the waiting removal, which may then
wait for ever), with requests used up (`feature_reports`) and after the end of wvkbd.

### Fairness

Weak fairness throughout, and only where the code or its host schedules the step.

* Receiver: the thread, the starting task and the stopping task are scheduled by
  the kernel; a wait has a time limit, after which it can go on (`late`).
  `DeviceFairness`, that the firmware works off the commands it was sent, is
  assumed only in `ResponsiveSpec`, for `NeverStalls`. No fairness lets the
  device fill buffers or makes anybody stop the driver.
* Mei: a task that receives goes on; the arrival of a response is not assumed.
* Lifecycle: every task that can go on, and a thread that was told to stop
  (which is what `StopTerminates` shows). Nobody has to request or remove.
* Long press: time passes and the compositor runs a timer that is due.
* Rotate and light: the timer of the poll, and in `Rotate` the clock and the two
  steps of the start. Nothing has to break and nothing has to be mended: `Break` and
  `Mend` have no fairness, and `Poll` alone is one action that succeeds or fails as
  `broken` says. So there are fair behaviours in which all works for good, which is what the two
  liveness properties start from.
* OSK, wvkbd, installer, HID reports: none, they have safety properties only.

## 4. Proofs

All theorems are checked by TLAPS for every value of the constants that
satisfies the assumptions named in the modules.

**Receiver** (`RingAssumption`: the doorbell wraps on a multiple of the ring size
and counts further than one more than it; 2^32 and 16 do).

* `TypeCorrect`: `TypeOK`, with `LoopInv`, which says at which points of the
  loops `round` is below `NBuffers` and which points belong to which mode.
* `RingCorrect`: `RingInv`, in either mode and across switches. The inductive
  invariant is `PollRing`: the doorbell is what the device filled; the buffers
  from `lastdb` (without the one that has just been acknowledged) up to the
  device are the host's and not promised back; there are at most `NBuffers` of
  them; the snapshot lies in between. The exception of one buffer is what makes
  it inductive: between the FEEDBACK and the step of `lastdb` the device may
  already have refilled that buffer, so the lag can be `NBuffers + 1`, which is
  why the modulus has to exceed that. The arithmetic (the slot of an advanced
  doorbell, distinct slots within a ring, wrap-around) is in `RingArithmetic`.
  In event mode nothing is claimed; a start finds the device either quiet, with
  all buffers, or polled before.
* `FreeSafe`: `FreedAfterExit` in either mode, since the stopping task passes the
  completion only when the thread has ended (`FreeInv`).

The other theorems are about a device that is started once (`OneStart`: it knows one
mode only, as every EDS2 device does, or there is no second session), in either loop,
with everything that may fail or come late. A response left from an earlier session of
the event loop breaks them (section 5), so that the assumption cannot go. Their
invariant is `OnceInv`: `PollRing` for the poll loop and `EventRing` for the event loop,
which says that the device is ahead by one buffer at most, that a response to a request
for data says that it is, and that there is one such request or response at a time
(`OneAnswer`).

* `ReadSafe`, `AcknowledgeSafe`: `ReadIsStable` and `AcknowledgedOnce`.
* `FlushCorrect`: `FlushedMeansQuiet`, by `QuietInv`: QUIESCE_IO is sent once, by a thread
  that was told to stop and asks for no data any more, and is answered with SUCCESS only
  when the flow is off and the buffers are the device's.
* `ChannelCorrect`: `ImplementsChannel`, the refinement. `Waiting` is a window of the ring;
  lemmas say what becomes of it when the device fills a buffer, when the thread takes one
  and when neither happens, and every action is a step of `FrameChannel` or a stutter.

**Message list.** `TypeCorrect`; `WakeSafe`: `NoLostWakeup`, with no assumption on who waits
for what. The rest needs that no two tasks wait for the same command (`OneReceiver`; section
5 shows what happens otherwise):

* `SearchSafe`: `HeldByOne` and `NoneLost`, by `ListInv`: the code of what a task holds is
  the code it waits for, and an entry that was unlinked is not listed.
* `LeftoversCorrect` and `AnswerCorrect`: `OnlyLateLeftovers` and `OwnAnswer`, by `OwnInv`: a
  request is answered once, and wherever its answer is (not there yet, on the list, in the
  hands of a task), its task still waits for it and for no other, unless it may give up.
* `BoxCorrect`: `ImplementsBox`, the refinement. The linearisation point is the end of the
  walk: the entry leaves the box when it is found under the read lock, so `Unlink` and
  `Deliver` are stutters. `Balance` counts requests and responses, so that every stamp is one
  the box knows.

**Lifecycle.** `TypeCorrect`, in three parts (`BoolInv`, `LabelInv`, `ValueInv`), with
the fact that a request in the driver has asked for a mode. `OneLoopCorrect`: `OneLoop`
if `Serial`, that is, if no two tasks are in the driver at a time. The inductive invariant
has two halves. `AloneInv`: all tasks but one are outside or in
`hid_add_device`, and a task with a request has a live HID device, so that no
restart ever comes to `hid_add_device`. `LoopInv`: the thread that runs is the one
`thread->thread` points to, it has buffers, and from the wait for it to the next
`kthread_run` none runs. `RemovalCorrect`: `CleanRemoval` under the same
assumption; `RemovalInv` adds where the driver core is in each state of the bus,
and that an error of the thread is a failed flush.

`DanglingCorrect`: `NothingDangles`, from where the context and the HID device are in each
state of the bus (`DangleInv`). `AgreeCorrect` and `SwitchCorrect`: `DriverAgrees` and
`SwitchTakesEffect`. Their invariant `AgreeInv` says what agrees already at each point of
a start (the device's mode from SET_MODE on, the thread and its loop from `kthread_run`
on, the flow behind READY_FOR_DATA), that `hid_active` is not set between the first step
of a stop and the last of a start, and that a request in between has put its mode in
`ipts->mode`. `FlowCorrect`: `FlowStopped`. Behind an acknowledged flush there is no flow
until a start asks for one again (`FlowInv`), and a removal leaves no thread and nobody in a
start (`RemovalInv`). A loop that leaves without a flush, which `receiver.c:183` does with
nothing failed (`receiver_race`), or whose flush fails, is not `flushed`, and nothing is
claimed of the flow then. All of these assume `Serial`; `lifecycle_remove` shows what
happens without it.

**Feature reports.** `LockCorrect`: `LockHeldInside`, from the fact that only gets
come to the mutex (`LockInv`). `TypeCorrect`, with `RingInv`: the buffers between the one the
thread is at and the one the device fills next are the host's and promised to nobody, and a
buffer is given back once. `AnswerCorrect` and `GetsCorrect`: `NoForeignAnswer` and
`GetsSucceed`. As long as `smooth`, the answer to the one request under way is in exactly one
place (`Token`): not asked for, in the queue, asked for in the device, in a buffer, pointed
to by `feature_report`, or known to the task; and there are as many commands and responses
as waits for them (`FlowInv`). They assume that `MaxUnread`, the bound on unread responses, is at least 2
(`Roomy`): with 1 the bound, and not the code, would drop the second of the two responses
that can be unread then. `mei.c` has no such bound.

**OSK.** `NeverKilledCorrect` and `ShownCorrect`: `NeverKilled` and `ShownIsVisible`, for any time
wvkbd takes to start and any commands, keys and worlds. The invariant `Sound` is about the
class `Keyboard` alone: a show timer of the running process is due exactly when the start
is over (`left + since = Startup`), when the process blocks its signals; what is visible and not shown has such a
timer. One lemma per method (`StartIsSound`, `ShowIsSound`, `HideIsSound`, ...) shows that it is
kept, whether wvkbd can be started or not, and `KbStep` that the daemon does nothing else to
its keyboard, and that as long as the process runs state.json says what the daemon believes.

`ArmedCorrect`: `StaysArmed`, if every key prints (`Printed`; section 5 has what a silent key
does). `ArmedInv`: whenever fcitx5 is not in on-screen keyboard mode and no keyboard is
attached, a call to arm it, a re-arm or owner timer, or a keystroke the daemon has yet to
read is on its way. `FocusCorrect`: `FocusTracked`, for any times, bounds, commands and worlds
and without an assumption. The invariant `FocusInv` follows the truth about the focus along
its way: as long as the daemon is not `misled`, the last report under way says it, or else the
timer, or else a question that no field has `overtaken` stands for "hidden", or else the
daemon knows it (`ReportTrue`, `TimerTrue`, `QuestionTrue`, `DaemonTrue`). It needs `FlowType`
(what messages and timers may hold), and `FocusSaid`
that state.json follows unless there is no wvkbd.

**Wvkbd.** `MaskCorrect`: `MaskFollows`; its invariant weakens "between two keys" to "no key
that forces a modifier is down". `ForgottenOnlyByNextLayer`: `OnlyNextLayerForgets`.
`StickyCorrect`: `ImplementsSticky`, the refinement, step by step. They hold for any tables
and any modifiers tapped.

**Programs.** Each about the specification of one program by itself, which in `MCPrograms`
runs while the others stand still.

* Installer. `FailedBuildIsSafe`: `FailedBuildKeepsOld`, and `DoneIsExactly`: `DoneIsExact`, for any
  set of versions and any history of failed, interrupted and completed runs. `KeepInv`
  follows what worked before through the commands, `ExactInv` what is left of the old
  versions.
* HID reports. `NothingStaleCorrect`: `NothingStale`, for frames, reports and buffers of any
  size.
* Rotation. `SettledCorrect`: `SettledBeforeTurn`. `CandidateInv`: while somebody polled all the
  time, the candidate is none, or the way the tablet is held and not older than that.
* Long press. `ClickCorrect`: `ClickIsMeant`, for any number of fingers. `CountInv` ties the
  number the plugin counts to the set of fingers on the screen, and `HoldInv` the armed touch to a
  finger that lies still where it came down, with the time it has been there and the time
  left on the timer adding up to `LONG_PRESS_MS` at least.
* Brightness. `HandCorrect`: `HandWins`, for any curve, limits, steps and number of levels.
  `HandInv`: the backlight is away from what the daemon remembers only when a hand was there or
  a setting failed, since what it remembers is read back from the level it has set and not the
  percentage it asked for.

Only model-checked:

* Everything under fairness (`EveryFrameIsRead`, `StopTerminates`, `NeverStalls`,
  `AnswerReceived`, `CallsReturn`, `HeldFingerClicks`, `ScreenFollows`, `Converges`), since
  liveness and ENABLED are outside what the prover handles.
* `EveryReportArrives`, whose lengths come out of a fold over a descriptor: induction over
  data is outside the prover's reach as well. No module has a recursive operator.
* `ShownIsTyped`, which is about concrete tables.
* `FlushedMeansQuiet` across sessions of both modes, on a device that answers in time
  (`receiver_switch`); the theorem has failures and late answers, and one session.

## 5. Disagreements with what the code says of itself

Four runs show that a line of the repository does not hold:

* `receiver_race`. `ipts_receiver_poll_loop` sends QUIESCE_IO when `should_stop` is
  seen at `receiver.c:153` and leaves the loop when it is seen at `:183`. Set
  between the two, the thread leaves without the flush, the wait for its response
  runs out and counts as success, and the buffers are freed under a flow that is
  still on. `control.h:111`: "ipts_control_stop() - Stops the data flow".
* `lifecycle_remove`. `ipts_eds1_switch_mode` takes no lock. A SET_REPORT that has
  passed `hid.c:96` restarts the driver after `ipts_remove` has stopped it.
* `osk_typing`. The hide that a key causes is judged by the mode of fcitx5 250 ms
  later; if the re-arm timer of an earlier key, or the timer set when fcitx5 came up,
  fires in between, it is taken for a lost focus and the keyboard goes away under the
  fingers (`omarchy-surface-osk:372`).
* `wvkbd_away`. The 123 key sets `kb->mods` to 0 without releasing the keys it sent
  (`wvkbd-surface.patch:76`): after Ctrl and 123 the compositor keeps Ctrl down, and
  hiding the keyboard does not release it, since `kb->mods` is 0.
  `wvkbd-surface.patch:85`: "release every modifier the keyboard holds down, so none
  stays stuck when it goes away".

Properties that hold under a condition say what happens without it. The
conditions are not conveniences: lifting them gives a counterexample.

| Where | Without the condition | To see it |
| --- | --- | --- |
| `FlushedMeansQuiet` | a flush response that comes late is taken by the next session's flush (`receiver.c:192`) | `receiver_switch` with `Faults = {"late"}`, 2 sessions |
| `ReadIsStable` | a data response left from an earlier session makes the event loop read a buffer that is not complete | `receiver_faults` with `Faults = {"late"}`, 3 sessions |
| `ImplementsBox` | two tasks that wait for FEEDBACK (the receiver thread and a GET of features do) find the same entry: it is deleted and freed twice (`mei.c:94-111`) | `mei_list` with `"FEEDBACK"` for both in `OwnCodes` |
| `OwnAnswer` | a task that gave up takes the old answer for the new one | ask it of the tasks in `Late` as well |
| `OneLoop` | two SET_REPORTs at once stop and start the same thread | `lifecycle` with `Serial = FALSE` |
| `CallsReturn` | after `kthread_run` failed, its error pointer stays in `thread->thread` and the next stop waits for ever (`thread.c:55`) | drop the exception |
| `FlowStopped` | a loop that leaves without QUIESCE_IO, which needs no failure (`receiver.c:183`), leaves the flow on, and so does a flush that fails | drop `flushed` |
| `CleanRemoval` | a loop that ends with an error makes the stop return before anything is freed (`control.c:437`); a start that fails behind the receiver's leaves the thread running in a context that devm frees | drop the exception; ask the same of `bus = "failed"` |
| `NoForeignAnswer`, `GetsSucceed` | a late answer completes the next request; a SET overwrites a GET the device has not run | drop `smooth` |
| `NoForeignAnswer` | the buffer `feature_report` points into is refilled before it is copied | leave `Report` out of the set |
| `ClickIsMeant` | loaded while fingers are down, the plugin counts from 0 (`main.cpp:111`) | drop `uncounted` |
| `SettledBeforeTurn` | the candidate and its clock outlive a time in which nobody polled | drop `blind` |
| `ScreenFollows` | a reload that fails is not noticed and never repaired (`omarchy-surface-rotate:261`); a screen that cannot be asked for at the start is taken to be "normal" (`:284`) | drop `deceived` |
| `StaysArmed` | a key that prints nothing disarms fcitx5 for good; so does a wvkbd that is stopped before its output is read | `osk` with `"silent"` in `Keys`; drop `kb.lost` |
| `FocusTracked` | a focus that moves while fcitx5 is in the other mode, or moved before the start, is not reported; a report within the 500 ms after arming is dropped (`omarchy-surface-osk:362`), and one that the hide of a key or of arm follows within 250 ms is replaced (`:364`); the hide of a key or of arm is applied when fcitx5 is back in keyboard mode, the hide of the focus is not when fcitx5 answers in the other mode (`:374`) | drop that part of `misled` in `Refocus`, `Init`, `OnFocus`, `FocusFires` or `OnCurrentUI` |
| `FocusTracked` | an answer that comes after a newer focus was applied undoes it (`omarchy-surface-osk:374`) | drop `overtaken` in `OnCurrentUI` |
| `FocusTracked` | after a start of wvkbd that failed, `send_show` raises before `set_focus` has published (`omarchy-surface-osk:236`) | drop `kb.proc = "none"` |
| `Converges` | on a backlight of few levels a step of 4 % or less may round to no step at all, and the brightness stalls before its target (so with 8, 10, 11, 12, 15 or 19 levels) | `programs` with `MaxRaw = 10` and `Hands = {2, 8}` |
| `HandWins` | while paused, a second setting by hand is not noticed | remember it while not `Following` |
| `HandWins` | a setting that failed is taken for a hand | drop `failed` |
| `DriverAgrees`, `SwitchTakesEffect` | two switches at once leave loop, device and driver in different modes | `lifecycle` with `Serial = FALSE` |
| `NothingDangles` | a probe that fails behind the start of the receiver frees the context under the thread (`control.c:410`); an error pointer or a destroyed device stays in `ipts->hid` (`hid.c:202`, `:238`) | drop the exception |
| `OnlyLateLeftovers` | answers that came too late stay on the list until the device goes (`mei.c:55`) | drop the exception |
| `ShownIsTyped` | ten keys do not type their label (`Misprints`); a symbol under a latched Shift types the shifted character, under a label that does not change, while `README.md:98` says "Every key shows what it types" | drop `Misprints` or `Labelled` |
| `FailedBuildKeepsOld` | a version that is reinstalled is removed before it is built again (`install.sh:189`), although `install.sh:196` says that a failed build leaves a working version in place | drop the exception for `version` |
| `DoneIsExact` | a `dkms remove` that failed leaves its version | drop `stuck` |

## 6. What is not modelled

* The contents of HID reports and what user space makes of them; the GET_REPORT of
  an EDS1 device, which only reads the mode. The HID core is external, and so is the
  device, which is assumed to write within its buffer and to ask for buffers with
  room for the longest report its descriptor tells of (`HidAssumption`).
* wvkbd outside the patch: drawing, popups, swipes, the rotation of the output, where
  keys lie and how wide they are. What the patch uses of it is external. Only
  letters of the Cyrillic layer lead to a compose layer, so that those of the Latin
  letters are in the model and never shown. The scripts that generate the tables are
  run by hand; their output is what is modelled.
* dkms building the module for a new kernel, packages, keys, headers, calibration and
  the `--dry-run` of `install.sh`.
* Configuration files, colours, the icon command, how devices are found, which axis
  makes which orientation, a logarithmic curve.
* The daemons' shutdown. Of the OSK daemon: a start at which fcitx5 is not up yet, in
  which the first calls of `arm` fail, and the keys of an attached physical keyboard, after
  which fcitx5 leaves its mode as well.
* Shell plugins: bindings to the published state. Part installers: sequences of
  copies that run to the end or stop. `verify.sh`: reads and prints.

Two hazards that no property covers: a physical keyboard that comes between the scan
and the start of the monitor goes unnoticed (`omarchy-surface-rotate:176`; the model has
the two steps, and it happens there), and a wvkbd that ends by itself or cannot be started
stays visible for the daemon until the next show (`omarchy-surface-osk:228`). The code promises nothing in
either case, so a property could only restate the failure. And one that no property
states: when the brightness daemon ends its pause and is already within the deadband it
returns before it publishes (`omarchy-surface-light:264`), so the bar goes on showing "set
by hand" (`light/plugin/BarWidget.qml:24`) until something else is published.

## 7. Plan

Done so far, in this order: `FrameChannel`, `IptsReceiver`; `ResponseBox`, `IptsMei`;
`IptsLifecycle`; `IptsFeature`; `LongPress`; `Rotate`; `OskKeyboard`, `Osk`; `Light`;
`WvkbdKeymaps`, `WvkbdLayouts`, `StickyKeys`, `Wvkbd`; `DkmsInstall`; `IptsHid`; the HID device's
lifetime in `IptsLifecycle`; and the proofs of section 4.

To extend the model:

1. The event loop's error returns in more detail: which codes end it.
2. The keys of an attached physical keyboard, and a start of the OSK daemon before fcitx5.
3. Two mode switches at once, down to which of the two threads a stop waits for.

To prove:

1. `FlushedMeansQuiet` and `ImplementsChannel` across sessions of both modes for a device
   that answers in time: an invariant about what a session leaves in the mailbox.
2. `StickyKeys` and `FrameChannel` by themselves: what they promise, as invariants of
   theirs, so that `StickyCorrect` and `ChannelCorrect` carry it over.
