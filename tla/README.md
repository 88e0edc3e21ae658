# A TLA+ development of daekey

daekey grabs the keyboards and mice of a Wayland session, runs user closures on the
keys bound to them, and passes everything else on through virtual devices. It is
two processes. Whatever goes wrong between them takes the user's keyboard with
it, so what these modules are about is: keys that stay stuck, keys that are
swallowed, threads that block each other, and bindings that the two processes disagree on.

Paths are relative to `src/`. `manager/` stands for `bindae/src/bin/manager/`,
`comp/` for `libdae/src/compositor_interface/`.

## 1. Inventory

| Component (source) | State it keeps | Operations | Talks to |
|---|---|---|---|
| Input thread (`manager/input_manager.rs`), privileged | open devices, modifiers each holds, bindings, actions since the last SYN, motion put aside, timerfd | fetch and grab devices; poll; key, motion and SYN events; a message of the core; the timer | kernel; core (socket, both ways); uinput thread (channel) |
| UInput thread (`manager/uinput_manager.rs`), privileged | three virtual devices, `cur_modifiers` | key actions, mouse actions, tap, click, new screen space | kernel; anyone who sends |
| Workers (`bin/priv_handler.rs`), privileged | none | forward a socket to the uinput channel | core, uinput thread |
| Event loop (`libdae/src/app.rs`), core | `closures_unbound`, pool of `Api` | a keybind: closure, pause, macro (unfinished), exit | input thread, closures |
| Closures and `Api` (`api.rs`) | one worker socket each | tap, click, actions; calls to the compositor | workers, compositor client |
| Main thread of the core (`app.rs`) | none | forward updates of the compositor | input and uinput threads |
| Compositor client (`comp/`), core | one invisible layer per output, their state, `answer`, seat objects | position of the cursor, screens, output and seat events | Wayland compositor, callers, main thread |
| Start, handshake and end (`app.rs`, `priv_handler.rs`) | which threads run, the sockets made | start the child, context, acknowledgement, one socket at a time, joins, the listener on stdin | both processes |
| `WrappedSocket` (`app.rs`) | bytes in the socket, the lock of the writers | send, receive, clone | every thread with a socket |
| `ScreenSpace` (`comp/mod.rs`), `Configs` (`configs.rs`), messages (`message.rs`), modifiers (`modifiers.rs`) | data | pure functions | everyone |

What is hard: five queues between seven kinds of threads; a socket that blocks
its sender when it is full; hotplug while keys are down; a timer that the loop
both sets and waits for; modifiers that taps press and release behind the
bookkeeping; toggles and keybinds that cross on one socket; emits that fail; calls that
time out while their answer is still under way; a start in which either process can fail
while the other waits for it; a device opened by several calls while the user goes on typing; either process, or one
thread of it, ending first. `PROJECT.json`
lists these hazards at their lines.

What makes each part correct:

- *Input thread*: the modifiers a key is matched under are those held; motion is
  neither lost nor doubled; what is put aside will be sent; no device starves;
  the thread does not fail or block.
- *UInput thread*: the modifiers booked are those held on the virtual keyboard;
  an Exact tap goes down under exactly its modifiers and leaves no trace.
- *Core*: no Api is lost or shared, whatever its closure does.
- *Both processes*: only bound keys are sent; a pause reaches the input thread and
  takes effect; a pause that is complete starts no closure; the key that unpauses is
  never lost; no key is stuck.
- *Compositor client*: every call is answered, with a position of its own time, and fails
  only for a reason; the layers let the pointer go.
- *Start and end*: each process holds the other end of each socket, for the same purpose;
  a start does not hang; the processes end together; the virtual mouse spans the screens.
- *WrappedSocket*: what is received is what was sent, whole and in one order; a send returns, or fails once
  the receiver is gone.

## 2. Modules

| Module | Models |
|---|---|
| `Keys` | `input.rs`, `modifiers.rs`: keybinds, key states, the modifier conversions. A bit field is the set of its bits. |
| `Channels` | the sockets and the channel, `message.rs`. A socket is ordered, reliable and blocks when it holds `SockCap` messages; the channel is unbounded. |
| `Mailbox` | abstract: a socket as a queue of whole messages, what the other modules take one for |
| `Framing` | `WrappedSocket` over a stream of bytes; implements `Mailbox` |
| `InputManager` | the input thread and the hardware around it |
| `UInput` | the uinput thread and its virtual devices |
| `Core` | the event loop, closures, the main thread and, on the other side, the forwarding threads |
| `PauseSwitch` | abstract: what the two processes promise about keybinds and pauses, without sockets, devices or rounds |
| `Daekey` | `InputManager`, `UInput` and `Core` over their channels, and the end of either process; implements `PauseSwitch` |
| `HeldKeys` | `Daekey` with a history of the keys down when a device was listed: what the user and the compositor take for held |
| `Compositor` | the client thread, its callers, the compositor and the user's pointer |
| `Screens` | `ScreenSpace::from_monitors`, and the pixels it stands for |
| `Launch` | the start of both processes, what each thread's end does to the others, and the way of the screens to the virtual mouse |
| `MC*` | small instances for TLC |
| `*Proofs` | theorems about the module they are named after |

`Daekey` extends `InputManager`, `Core` and `UInput`, which each extend `Channels`; each
of the three also has a specification of its own (`OpenSpec`, `UInputSpec`,
`CoreSpec`) in which the others are reduced to what they may send. `Compositor`
stands alone: its updates reach the rest as `CompUpdates` of `Core` and as the
layouts of `Launch`. `Launch` extends `Screens`; what `Daekey` does is, in it, a thread that
runs or has ended. `Framing` justifies the sockets of `Channels`.

How they correspond to the code (`PROJECT.json`, "map", has the lines):

- **InputManager.** `input_loop` is a cycle of `StartFetch`, the opening of each
  device, `FetchDone`, then rounds of `Poll`, `FetchEvents` per readable device,
  one step per event of the batch (`KeyFromKbd`, `KeyFromMouse`, `KbdSyn`,
  `MouseRel`, `MouseSyn`), `ReceiveFromCore` (at most one message a round),
  `DrainAccumulated`. `pc` and the sets `todo`, `ready`, `batch` hold what is left of each loop.
  `DeviceError` is every `?` that carries an error of a device out of the loop: the
  thread panics and the process goes with it. `timer` is the timerfd; reading one that
  has not expired blocks, which the guard of `DrainAccumulated` expresses.
  Opening a device is one step per call that looks at it (`opening`, `at`): `OpenDevice`; in the first fetch `Check`,
  which grabs it when no key is down, and `Recheck`, which lets go of it and starts over when one is; then
  `ReadModifiers`, which lists it. The user types between any two of them. Each of these calls reads the key state, and the
  kernel drops the key events in the buffer of who asks (`WithoutKeys`).
- **UInput.** One action per message. Every emit may fail (`EmitOutcome`);
  `failed` remembers that one did. `tap` records the last tap for the properties.
  A device drops keys outside its key set (`KeysOf`), as the kernel does.
- **Core.** One action per branch of the event loop. Closures are spawned at once
  (the pool has a thread per Api), may send any of `ClosureMsgs` and end or panic. `WorkerForwards` and
  `UpdateForwards` are threads of the privileged process. `CoreAlone` is what the core still does when that process has
  ended (`CoreDrains` of `Daekey`): it handles the keys that are buffered, a toggle among them fails (`ToggleFails`), and then it
  finds the socket closed (`CoreExits`).
- **Compositor.** One action per request or event the client handles. Requests to the compositor
  and its events are two ordered queues; the compositor's side (layers, input
  regions, focus, a button that pins the focus) is an environment, written from the way
  `compositor_client.rs` relies on it. A position is the output the pointer is on. `hindered`
  holds the calls during which something happened that may make them fail. `client` tells how the thread ends: "panicked" by a reply
  whose receiver is gone, "failed" by anything else (`DispatchFails`, `DrawFails`, `PoolFails`).
- **Launch.** The main threads of the two processes are the program counters `main` and
  `priv`; `stdin` is the socket that is the child's stdin. `LaunchFails`, `HandlerFails` and the two
  `...CallFails` are every `expect`, `unwrap` and `?` on the way. `CoreEnds` and
  `PrivEnds` are the end of a process, wherever it comes from: `process::exit`, a panic of the
  main thread, its return. A panic of another thread ends that thread alone, and what it
  owns is closed: `InputSocketClosed`, `client = "ended"`. `keys` counts the keybinds the event loop has yet to handle. It
  handles them before it sees that the socket is closed (`LoopReadsEnd`); each may be any bound key: `KeyHandled`, `KeyExits`, a macro
  (`KeyPanics`) or a toggle, whose send fails when the input side has closed (`TogglePanics`).
- **Framing.** A byte is which byte of which message it is; `Write` puts some of the bytes left in
  the socket, as `write_all` does; `ReadByte` takes one, and a byte that does not continue the message
  begun makes the reader `torn`, which the refinement rules out. Either end may close at any byte: `SendersEnd`,
  `ReceiverEnds`, after which `SendFails` is the error that `send` returns.

**Refinements.** `Daekey` maps to `PauseSwitch` (`Switch`): `taken` is the socket to the
core, `late` the number of changes of the bindings the input thread has not read.
`Framing` maps to `Mailbox` (`Mail`): a send takes effect with its first byte, and the queue is the
sequence of the messages begun, or of those that are whole once the sender has ended. Once the receiver has, it is empty for good.

## 3. Runs

| Run | Question | Result |
|---|---|---|
| `InputHotplug` | keyboard and unthrottled mouse, hotplug, refetch, a bound chord: are modifiers and motion right? | holds |
| `InputServed` | two throttled mice, timer at any moment, hotplug, a core that keeps sending: is all motion sent once, every device read? | holds |
| `InputTimer` | "Empty the fd so that it stops being readable." | violated: a SYN in the same round sets the timer again and the wait blocks |
| `UInput` | every message in any order, emits may fail | holds |
| `UInputClick` | "Ensure an exact set of modifiers is active.", for clicks | violated: the virtual mouse has no modifier keys |
| `Core` | more keys than Apis, all actions, unbound keybinds | holds |
| `Pause` | toggles, refetches, closures that panic, keys in flight: do the processes agree, is a paused daekey quiet, is it a switch? | holds, liveness and refinement included |
| `KeysFollow` | chord, closure that taps, user typing while the keyboard is opened and after: is a key stuck, or lost? | holds, but for keys down already when the keyboard is listed |
| `Compositor` | two overlapping calls, timeouts, moves, buttons, two changes of outputs or sizes: is each call answered, why do calls fail, which reply panics the thread? | holds |
| `CompositorStale` | "The absolute cursor position" | violated: a position left over from an earlier call is returned |
| `Launch` | every error at the start, six layouts, every end of a thread, keys that are buffered as one ends: are the sockets shared, the screens spanned, and does nobody wait for ever? | holds, liveness included; two keys may leave the core alone |
| `Framing` | two senders, messages of one to three bytes, an end of either side within one: is the stream a queue of messages? | holds, liveness and refinement included |

**Bounds**, all of them constants: `MaxEvents` (events in a device's buffer: two or four, so
that a batch holds one or two frames and more arrive while it is handled),
`MaxMotion` (distance under way; motion of both signs occurs, so that sums that cancel do too), `MaxUInput`
(waiting uinput messages at which the user and closures pause; the uinput channel never blocks the input thread), `SockCap`
(1 or 2 messages: full sockets are reached at once), `MaxChanges` (two changes of outputs or of the
size of a layer, so that layers are replaced while they are being replaced), `MaxLayouts` (one change of
the screens after the ones found at the start), `MaxKeys` (two keybinds: one handled before and one after the
other side ends), `ByteCap` (less than the longest message, so that it is
written in pieces), `MaxSends`, `MaxBuffered` (messages on the Wayland connection at which the user stops moving).
Two devices are enough for one to be served before another; two keys, one
a modifier, for a chord; two Apis for a pool that is used, shared and exhausted (one in `Pause`, where the pool is
not the question); two worker sockets, for one after another; layouts at, beyond and before the origin, with gaps,
and none; two calls
for one to get the answer of the other. `Pause` has one key, which toggles when pressed and starts a closure when it repeats, so that the two
cross in either order on sockets of two messages; it is none of the virtual keyboard's (`KbdKey`), as no property of that run
is about what is down there. The composed runs have one keyboard, so that the timer stays off in them: throttled mice are the
matter of `InputServed`. Symmetry is used where the elements are
interchangeable and nothing temporal is checked. `CHECK_DEADLOCK FALSE` is set
where the system may stop: after an exit, with nothing to read, or with all calls made.

**Fairness.** `OpenFairSpec` and `FairSpec` give weak fairness to the steps of threads
(an OS schedules a thread that can run) and to the timer (the kernel fires it). The user, hotplug, the compositor and
the closures are owed nothing. `LaunchFairness` is of the same kind: threads run, but the client need not
start and nothing has to fail of itself; that the call for the screens gives up after 200 ms is part of
`LaunchFails`. The event loop is owed a step only once the input socket is closed: till then a toggle may wait for room in it.
In `FrameFairSpec` a sender that can take the lock, write, return or fail does so, and the receiver reads until its end is closed;
weak fairness of `Lock` is enough as each sender makes finitely many calls. `SendsReturn` is thus about `WrappedSocket` alone:
it assumes that the thread at the other end goes on reading, which in the whole program the input thread need not
(`MutuallyBlocked`, below). `GrabbedDeviceIsServed` allows for the thread having died or waiting in the first fetch
for keys to be released; `PauseTakesEffect` for what the code really may do instead: unpause, end, or the block of `MutuallyBlocked`, in which the event loop waits
for room in the socket to the input thread and the latter for room in the other direction.

Every property of a passing run has a mutant, an operator marked "Mistaken" beside
the definition it spoils, that makes the run fail.

## 4. Proofs

`tlapm` checks eight modules, for all values of the constants under the assumptions of the modules. Every safety
property the passing runs check, invariant, action property or refinement, is also a theorem.

- `FoldTheorems`: what the other modules need of folds. The library's induction theorems take an operator as a parameter, which
  the provers cannot instantiate; here induction is stated with a *set* (of naturals, sequences or finite sets)
  that is closed under one more element. From it: a `CHOOSE` that defines a fold has a solution
  (`FoldExists`, `SequenceFoldExists`), `FoldLeft` follows its recursion (`BeginningsFold`), one more element is one
  more step (`IterationAppended`), and a sum over a set does not depend on the order and changes by what one term changes (`SumDiffers`).

- `InputManagerProofs`: `InputIsTyped` (InputTypeOK) and `ModifiersAreThoseHeld` (ModifiersArePhysical). The latter says
  of keys only what is true at poll time; the inductive invariant, `ModifiersInv`, says that
  applying the events still in the batch and in the device's buffer to the
  modifiers kept yields those held (`ModifiersAgree`), that events are well typed
  and that devices which are not open have none. `MotionAsideIsTimed` (AccumulatedWillBeSent).
  `MotionIsConserved` (MotionConserved): the balance of each axis, what was reported less what was passed on, is at any time the sum
  of what is in the buffers, the batch, the actions of the frame and put aside. Each step moves motion from
  one of these to another; the lemmas are what appending an event, taking one, dropping a buffer and
  dropping what is not relative do to the sums (`MotionAppended`, `MotionOfHead`, `SumDiffers`, `NonRelIsStill`).
  That needs the sets of devices and of axes to be finite (`InputAssumption`): they are the nodes of a
  directory and 16-bit codes.
- `UInputProofs`: `UInputTypeCorrect`, then `ModifiersAreTracked`, `TapsAreExact`,
  `TapsLeaveTheRest`, for all messages. A modifier that is tapped itself is released without
  being booked; `loose` is the history of those, and the invariant says that nothing else parts the books from the keyboard.
- `CoreProofs`: `CoreIsTyped`, and `ApisAreConserved` from `PoolInv`, that the pile and the
  Apis in use partition the Apis with none on the pile twice.

- `DaekeyProofs`, the whole program:
  - `KeysReceivedAreBound`, `PauseAlwaysReachesInput`,
    `ControlKeysAreKept`, `PauseIsQuiet`, from `BindingsInv`: following the messages under way to the input thread
    (`LeadsTo`) from the bindings in force ends in those of the core's pause state, and all of them on the way
    are sets the core has computed. For `PauseIsQuiet`: with no change under way and only
    control keys before the core, every key that can still be sent is one of those bound, so no step starts a closure
    and none leaves that state but by unpausing.
  - `PauseSwitchIsImplemented`: each action of the three threads is mapped to a step
    of `PauseSwitch` or to none; the invariant ties the bindings in force to the number of changes
    under way (an even number: those of the pause state, an odd one: the others).
  - `DaekeyIsTyped` (TypeOK): the parts are typed separately against an environment that sends anything of the right type; here each
    channel is shown to carry only what its reader expects, whoever writes it.
  - `PromisesAreKept`: what the parts promise on their own (MotionConserved, AccumulatedWillBeSent, ModifiersArePhysical, ModifiersTracked, ExactTap,
    ApisConserved) holds of the composition, the ends of either process included; `TapsOfClosuresLeaveTheRest` (TapLeavesTheRest) likewise.
  - `KeysOfOneKeyboard` (KeysFollowTheUser). `DownInTheEnd` is what becomes of a key once the device's buffer, the
    batch, the frame's actions and the messages to the uinput thread are handled: the last of them that is about it
    decides, and what is down now if none is. The invariant `KeysInv` says that a key that will be down is down on the
    keyboard (`NoKeyInvented`, unless its release may be swallowed) and that one that is down there will be (`NoKeyLost`, unless it is bound or
    closures send it). Each step leaves that fate as it is while a report moves one queue further
    (`OnItsWay`), or the user changes both sides. `NoKeyLost` is not about the keys that were down when the keyboard was listed
    (`downAtOpen`): reading the modifiers drops a press that came after the recheck, so that its key is held and
    unknown until it is released. `HeldSpec` is `Spec` with that history beside it. It is a theorem about a keyboard that is the only one
    and opened once (`OneKeyboard`), with closures whose messages leave no key down. All three are needed, as the program has no more to
    offer: of two keyboards that hold the same key, the first to release it lifts it on the
    one virtual keyboard; a refetch drops the releases it finds buffered; and a closure may press a key and never release it.

- `LaunchProofs`: `LaunchIsTyped` and `SocketsArriveAsSent`, from `HandshakeInv`: before the
  acknowledgement nothing but the context is in stdin, which is why a buffered read loses nothing; after it, what was
  received and what is in stdin are together the sockets kept, in their order. `MouseSpansScreens`, from
  `LayoutIsFollowed`: the last layout on its way, as an update or as a range, is the client's, and once there is none the
  mouse has it. `RangeIsRight` is about the computation itself: for every nonempty list of monitors the range spans their
  pixels and no more than the way to the origin. A list has bounds, and a set of naturals has a least element
  (`LeastNatural`). It is assumed that layouts are lists of monitors
  that have a size (`LaunchAssumption`).

- `FramingProofs`: `FramesAreTyped`, `FramesAreWhole` and the refinement `StreamIsAMailbox`. `FrameInv` says of
  the bytes that each is followed by the next of its message or, after the last, by the first of another (`Flows`); of the writers, that
  only the holder of the lock has written any; and, until the receiver is gone, that the stream ends within a message exactly while
  its sender is there, and where that sender is (`EndIsWritten`): this is what ties the lock to the bytes. The
  first byte written of a message is then `TakeEffect`, the last one read `Receive`, every other byte a stutter. When the senders end,
  the messages begun and the messages whole differ by the unfinished one at the end, if there is one (`BegunOrWhole`, by
  induction over the stream): `CutOff`. When the receiver ends the stream is empty (`Close`), and the calls left are returns or `Fail`.

- `CompositorProofs`: all invariants of `Compositor` but the one that is violated. Lemmas about queues (`In`, `Once`,
  `Before`, `LastIs`) say what appending, taking and joining do, and the invariants are stated with these.
  `CallsAreNotForgotten` and `LateRepliesAlonePanic` follow from `CallsInv`: a call that waits is at exactly one
  place, as a request, a capture or a sync done. `PointerIsLetGo` from `FocusInv`: who holds the pointer is about to be
  released, replaced or seen by the client, and the last replacement on its way is that of the client's layers.
  `FailuresHaveReasons` needs both, and that a call nothing hinders is the only one and has an enter of one
  of the client's layers before its sync is done (`Smooth`).

Only model-checked: liveness, which is out of the provers' reach (`GrabbedDeviceIsServed`, `PauseTakesEffect`, `LaunchEnds`,
`AllEndTogether`, `SendsReturn`), and the properties that are violated.

## 5. Not modelled

- The seats: that a pointer object exists is taken for granted, although the removal of the pointer capability of
  any seat releases it, whatever seat it is of (`comp/compositor_client.rs:482`). Which capabilities a seat reports, and
  when, is decided by the compositor and the toolkit, neither of which is here, and the virtual devices
  keep their seat's capabilities while daekey runs. The handlers of keyboards, of `Leave`, of frames and of
  surfaces do nothing but trace.
- The configuration builder: setters called in sequence before launch. Its results are constants.
- Time. A timer may expire at any moment; the timerfd is set to an absolute time of the wall clock, so
  that setting the clock back delays motion, and a poll interval may be so short that it is no
  microsecond: neither is in the model.
- The bytes of a message (postcard): only that they tell where it ends.
- Sizes of layers: a configure with another size is redrawn, but what `req_screen_info` answers then is not followed.
- `Api` calls to the compositor are those of `Compositor`; they are not composed with `Core`.
- The order of keys and axes within one frame, as the kernel's consumers see a frame at once.
- `scrdae` and the examples: they use the library and add no logic.

## 6. What the code does that its reader may not expect

Besides the violated runs, the model has, and the properties make room for:

- A keybind sent before the input thread has read a pause spawns its closure after it:
  the event loop does not look at `closures_unbound` (`app.rs:196`).
  Once the input thread has read the pause and the core the keys sent before, none starts (`PausedStaysQuiet`).
- A removed device is not noticed by `devices_changed` (`manager/input_manager.rs:366`): it is found gone at the
  next read, whose error ends the input thread ("input loop should not fail", `manager/input_manager.rs:149`) and,
  one after the other, both processes (`AllEndTogether`). So does `poll` failing.
- A reply to a call that has timed out panics the client thread (`comp/compositor_client.rs:265`, 276); no other reply
  does (`OnlyLateRepliesPanic`). What else ends the thread is an error that `dispatch` returns (`comp/mod.rs:205`), a pool that cannot be
  made (`comp/shell_layers.rs:79`) and a buffer that cannot be made or attached (`comp/shell_layers.rs:99`, 121), which may happen at any
  time that this code runs. After either, the next call fails on "should be able to send" (`comp/mod.rs:214`),
  and the main thread leaves its loop for the wait for its child.
- A call fails after a button was pressed in a layer, as the pointer may stay there (`pinned`).
- Without a screen the range ends before it begins (`comp/mod.rs:70`): the kernel refuses the virtual
  mouse and the start fails in both processes. Screens that are all to the right of or below the origin have a range that
  reaches back to it.
- A tap of a modifier key releases it without `cur_modifiers` knowing (`manager/uinput_manager.rs:151`).
- An absolute move along one axis leaves the other one at -1 (`manager/uinput_manager.rs:162`).
- Recording a macro is `todo!()`, which ends the event loop alone (`app.rs:228`): the input thread goes on withholding the
  bound keys, and the end of the privileged process goes unnoticed by a core that gets no updates.
- A toggle that is handled after the input side has closed, because it was buffered or waits for room in the socket, panics the event loop
  on the `expect` of its send (`app.rs:219`, 223), and the core is left in the same way. `AllEndTogether` excepts these two and no other.
- A key pressed between the second check of the first fetch and the reading of the modifiers (`manager/input_manager.rs:101`, 132) is
  held without anyone being told: the kernel drops its press with the reading. `KeysFollowTheUser` excepts the keys down when a keyboard
  is listed. (The code warns of a release lost in the same place, lines 108-110, when it lets go of the device again.)
- The layers ask for the size of their output, anchored at its top and left (`comp/shell_layers.rs:61`): a compositor that gives them another
  size changes what `req_screen_info` answers, and neither the core nor the virtual mouse is told.
- A stale answer taken while a button is held in a layer leaves the layers active, with the
  pointer in one of them, until the pointer enters another layer or the next call: `LayersLetGo`
  excludes a button pressed in a layer for this reason.
- A refetch drops what the devices have buffered: a release among it is never passed on.

## 7. Plan

Done: everything in section 2, and all the safety properties of section 3 proved. To come:

1. *Several keyboards*: that no key is stuck on the virtual keyboard holds of any number of them, each opened once
   (only the other half of `KeysFollowTheUser` needs a single one): whichever is read last, it says that the key is up.
2. *Sockets*: `Channels` justified by `Mailbox` in a proof, and not in words only.
3. *Time in the throttle*: the timer as a date on a clock that may be set.
