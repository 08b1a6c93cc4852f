# nrm_ha in TLA+

`nrm_ha` is the firmware of an equatorial telescope mount: an ESP32-S3 with two
cores, FreeRTOS, two steppers driven by the RMT peripheral, a 12 V rail it
watches, and a USB serial port on which a client sends line-framed JSON
requests. These modules model the concurrent core, the serial link, the mount
layer with its settings and the encoding of steps; TLC checks them and TLAPS
proves what matters most. Paths below are relative to `src/main/`.

## 1. Inventory

### Tasks

| task | core, priority | runs |
|---|---|---|
| receive task (`usb_cdc/usb_cdc_rx.c`) | 0, 19 | frames, dispatch, every mount and motors call of a request, to its end |
| TinyUSB task (`usb_cdc/usb_cdc_init.c`) | 0, 20 | the DTR callback: resets of the transmit state, the receive buffer, the replay ring |
| motion task (`motors/motors_motion_task.c`) | 1, 23 | the command queue, the slewing and the tracking loop |
| main loop (`runtime/runtime_loop.c`) | 0, 5 | every 200 ms: power, LED, buzzer |
| timers, RMT interrupts | - | delayed reset, buzzer, transmit completion |

### Components

| component | state | operations | hard part | what makes it correct |
|---|---|---|---|---|
| motors control API | status, tracking mode, guiding, command queue, stop epoch | stop, park, unpark, home, slew, move, track, guide | two cores, few locks, several unlocked stores per call | STOP stops; PARKED stays parked; queued commands belong to the current epoch |
| motion task | the command it runs, `s_motion`, idle semaphore | receive, process, slewing loop, tracking loop | reads shared state between the stores of the callers | status says what the loop does; motions end; commands are served |
| slewing loop | batches, ping/pong buffers, counted position | plan, hand over, count, refill | hardware emits on its own, STOP anywhere, transmissions may be refused | counted = emitted; never past the target; nothing left behind |
| RMT wrapper | channels, semaphores, driver queue | transmit, wait, recreate, encode | lifetime of the buffers, completions per channel | every completion counted once |
| power and faults | fault flags | 200 ms poll | restores READY while others write status | a hardware fault is final |
| limits and home | limits, counters, NVS | six setters | must exclude the motion task | written while no motion runs |
| position reads | two 64-bit counters | snapshot | two words, one side locks | a read value was once the position |
| mount operations | manual rates, saved tracking, guide rates | the client's requests | saved state may be stale | restore what was running, only then |
| protocol session | replay ring, boot id, revision | lookup, record, reset | reset while a handler runs | executed at most once per session |
| framing, USB | receive and transmit buffers | feed, drain, send, reset | reset from another task | no byte of one session in another |
| configuration | settings, NVS | get, set, save | partial writes, restart between writes | revision changes with the values |
| coordinates, LED, buzzer, boot | small | conversions, polls | numeric edges, missed polls | round trip; patterns follow status |

The receive task is the only caller of the motors API, so two requests never
run at once. What interleaves is one request with the motion task (other core,
any instruction), and with the main loop at the points where the receive task
blocks.

## 2. Modules

| module | role |
|---|---|
| `MotionControl` | the motors API, the motion task and the power loop, one action per access to shared state |
| `MotionControlProofs` | its inductive invariant and six theorems |
| `PatientMotionProofs` | with a patient client: stops are final, TRACKING is true |
| `SlewPipeline` | the double-buffered slewing loop, the RMT queue, stop and errors |
| `Traverse` | abstract specification: what the loop promises about the counted position |
| `SlewPipelineProofs` | the plan fits, and the loop implements `Traverse` |
| `SlewQueueProofs` | extends it with the driver's queue: what is counted is what is emitted, never more than the motion has, and all of it when a motion ends unaborted |
| `BatchEncoding` | the ramp, the batch sizes and the RMT symbols of each step |
| `BatchEncodingProofs` | every step takes its time, every batch fits, the ramp is smooth and ends slowly |
| `ManualMotion` | control messages and stops: the cached rates, the saved tracking, the motors as they see them |
| `MountRequests` | extends it with the configuration, the limits, the flash and power cuts |
| `MountRequestsProofs` | one inductive invariant, five theorems |
| `RecentResults` | abstract specification: a memory of the latest results |
| `ProtoSession` | the replay ring: lookup, record, reset |
| `ProtoLink` | extends it with the client, the USB driver, framing and dispatch |
| `ProtoLinkProofs` | the ring implements `RecentResults`, the receive buffer never fills, replies stay whole |
| `ProtoOnceProofs` | for an orderly client: actions run once, answers are its own |
| `MC...` | the instances for TLC |

How they fit. A request comes in through `ProtoLink`, where what it does is one
step, `Execute`. `MountRequests` is what the handlers of the mount layer then do,
with every call of the motors API one step. `MotionControl` takes those calls
apart, up to the motion task's loops; `SlewPipeline` is the inside of the slewing
loop, with batches of any size; `BatchEncoding` says which sizes, and what is in
a batch.

### MotionControl

Variables carry the names of the code: `status`, `tracking`, `guiding` are the
fields of `motors_state`; `queue` is `motion_cmd_queue`; `generation` is
`motors_stop_generation`; `active` is `s_motion.active`; `guide` holds the two
guide deadlines as *off* (zero), *ahead* or *passed*; `idle` is
`s_motion_idle_sem`; `powerFault`, `hwFault` the two static flags. `pc` and `rx`
are the program counters of the motion and the receive task, `cmd` the command
in hand. `cmd` also stands for `active_cmd_type`.

A critical section, a queue or semaphore operation, and an unlocked store are
one action each: `motors_stop()` is `QueueClear`, `StopSettle`,
`BumpGeneration`, `Halt`, `Quell`, in the order of its statements; `motors_park()`
has the order of *its* statements, which is another one. `Enter` pauses a
tracking that is *visible* and queues the slew and then the tracking to resume
(`Put`, `Resume`).

Abstractions. Positions, speeds, angles and the range checks on arguments are
left out: `SlewDone` and `EmitRaFails` may happen at any time in their loops.
The motion conditions that the tracking loop checks every 500 us are part of
each `TrackPoll`, which removes only delays. A task that sees ERROR leaves its
loop before the next 200 ms tick (`ErrorSeen`): the longest sleep of a loop is
50 ms. A wait for idle times out only when no stopped motion is winding down,
which takes far less than 500 ms. `aborted` belongs to `SlewPipeline`. Requests
that are refused change nothing and are not actions.

### SlewPipeline and Traverse

`FirstBatches`, `SecondBatches`, `Loop`, `Count`, `Conditions`, `Exit` follow
`slewing_loop_rmt()` and `motion_loop()`. Each axis has two buffers with
`batch[a][0]`, `batch[a][1]` steps; `ping` says which one is counted next; `fifo`
is the driver's queue with the buffer and the motion of every entry; `sem` is
the counting semaphore that the interrupt (`Complete`) gives. `Halt` and
`MarkAborted` are the two stores of `motors_motion_stop()`. A batch is any
number of steps up to the maximum; `BatchEncoding` has the rest. `Room` is the
driver blocking on a full queue. `emitted` and `orphaned` are history: what left
the pin, and whether a motion ended with batches queued. The tracking loop,
which sends one step and waits for it, does not use the pipeline.

`Traverse` says: one motion at a time, destination fixed at the start, each axis
moved toward it by at most one batch and never past it. `TraverseSpec` is the
refinement, with `target` as destination and "not waiting for a command" as
moving.

### BatchEncoding

One axis of a slew or of a manual motion. `Size` is `compute_batch_size()`,
`Pulse`, `BulkIdle`, `LastIdle` and `Truncate` are the symbols that
`encode_one_step()` writes or gives up, `Submit`, `Recalculate`, `Complete` the
loop around it. `tape` is the buffer, `kept` the part of it that the whole steps
fill, `due` (history) the time they should take. Distances are in steps; `Cds`
turns them into the whole centidegrees that the ramp works with, `TravelledCds`
into the share of them already done, for a gear of `StepsPerTurn` (3 840 000 in
the code, 106.7 steps for a centidegree). A slew shorter than a centidegree has a
`Cds` of zero, for which `Velocity` is the speed that was asked for, as in the
code: `ArrivesSlowly` and `SmoothRamp` are about the others. Quotients of floats
are those of integers, with a speed rounded to a centidegree per second.

### ManualMotion and MountRequests

`rate` and `saved` are the static variables of `mount_set_move_axis_speed.c`,
`want` and `keep` locals of its functions; `pc` is where the handler is.
`MoveAxes` runs to the first call of the motors API and the calls (`StopMoving`,
`Interrupt`, `Restore`, `Order`) are steps of their own, so the motion task, a
fault or the end of a tracking may come between any two. In the motors only what
these callers can see is kept: status, mode, the queue and the command being
executed; `StartCommand`, `Complete` and `TrackingEnds` are the motion task. The
other requests (`OtherAction`) matter for what they leave of both. A guide pulse
leaves both alone but for the slot it takes in the queue, and is left out. The boot
of a flash without free pages or of another layout, which erases it
(`runtime_setup.c:34-36`), is not a step of `MountRequests`.

`Config` to `Answer` is `proto_config.c`: the site is checked as a whole and
saved key by key (`SaveSite`), then the guide rates and the clock are applied
field by field whatever became of it, then the revision is counted and saved.
`SetLimits` and `SaveLimits` are the setters. `flash` has a value for every key;
each write is atomic, may fail (`worn`), and `PowerCut` may come before it.
`asked`, `stopped`, `owed`, `read` are history: what clients asked of each axis,
whether a full stop was the last word, the mode a manual stop must bring back,
and what a client knows.

### ProtoSession, RecentResults and ProtoLink

`seen`, `seenLen`, `seenNext` are the three static variables of the ring; lookup
and record are critical sections. `ProtoLink` has three tasks. The host
(`OpenPort`, `Send`, `Retry`, `LateRetry`, `ClosePort`, `Vanish`) is external:
an orderly client leaves only with all its answers, a hasty one in the middle of
a frame. The TinyUSB task moves bytes and runs the DTR callback in its three
resets, and preempts the receive task anywhere. The receive task reads, feeds
byte by byte, drains, dispatches, executes, records and replies; a reply is two
halves, so that a cut reply is one half. Bytes carry the write they belong to:
a frame stitched from two writes parses and is a malformed request.

`FrameReset` may be lost, when it falls between the load and the store of
`s_rx_len` in the other task. When it falls inside a dispatch,
`s_rx_len - total` wraps (`proto_frame.c:68-71`) and the `memmove()` that follows
runs through memory: `Fault` is the restart. Headers of two bytes instead of
four and a `MAXFRAME` of three keep all lengths that are too small, right, too
long and implausible.

## 3. Runs

| run | shows | bounds |
|---|---|---|
| `motion_safety` | every interleaving of the requests, power loss, limit and RMT failures: queue epochs, parked, faults, exclusion of home and limit writes | 2 stops, queue of 2, one mode; home and set_limit, made of the steps of stop, slew and set_home, are left to `motion_patient` and the proofs; 7.6 million states |
| `motion_patient` | with a client that waits until the last request shows: stop stops, slews end, tracking takes effect and yields, status is what runs | 3 stops, two modes, no guiding, no faults |
| `slew_loop` | accounting, bounds, refinement and termination of the pipeline; a motion that ends unaborted is complete | 2 motions, batches of at most 2, RA up to 4 steps, DEC 0 or 1, RA starting outside its limits |
| `encoding` | a batch that is sent has the steps that will be counted and takes their time; the speed of a slew of a centidegree or more changes little by little and is low at the target | the constants of the code with 2.5 steps for a centidegree, so that slews around every threshold stay short and round both ways; distances and periods on both sides of every threshold; 1.1 million states |
| `mount` | manual rates follow what was asked, a full stop forgets, a manual stop brings back what it interrupted, revisions tell configurations apart, what was answered survives a cut | two modes, one rate, a queue of 2; 4 motion requests, or 2 settings, or one of each; two keys per save; one power cut; 0.84 million states |
| `link` | at most once, own answers, whole replies, room in the buffer, every request served, the callback gets through | two sessions, three ids over a ring of two, four writes (hasty: two), a transmit ring of half a reply |
| `lost_stop`, `parked`, `blocked_slew`, `guided_slew`, `slew_orphan`, `id_collision` | one disagreement each (section 5) | the smallest instance that has it |

Why the bounds are enough. A queue of two holds the slew and the tracking that
resumes behind it, and one more request finds it full. Two stops give three
epochs: a command of an epoch, one in hand of the epoch before. Three stops in
`motion_patient` allow a goto that pauses a tracking, twice, between two other
requests. Two batches and a remainder fill both buffers and refill each; a
second motion meets what the first left behind. The two axes go different
distances, so one waits while the other ends. Requests that differ only in
arguments are one operation (`set_limit` stands for the five setters that write
limits). No deadlock is checked where requests are optional or bounded: a mount
without requests rests. `encoding` repeats for ever and checks it.

In `mount` four motion requests are: tracking, a manual motion that interrupts
it, a change of one axis, a stop; the second mode is the one that could come
back in its place. Two settings requests leave a revision read and changed by
another message; two keys give a save a middle. Two flash values and a missing
key are the values a cut may tell apart. The two families share only the
receive task, the motors' stop and the power, so one of each is enough.

In `link` the third id overwrites a ring of two. A client has at most as many ids
unanswered as the ring has slots; with one more `OncePerSession` fails, so the
bound of the precondition is tight (the real ring has eight). The second session
meets whatever the first left in pipe, FIFO, buffer, ring and flag. A sender gives
up only when nothing drains its ring (`Undrained`): a host with the port open is
assumed to read a reply within the timeout of a second, which the code counts from
the start of the send. A receive length that wraps restarts the device, which the
client sees as a link that is down. That a host reads only when its open has
reached the device is an assumption about USB hosts; without it `Framed` fails.
The 10 ms wait for the transmit lock never expires, since the callback holds it
for a few instructions only; the branch of `proto_feed()` for a full buffer is
never taken (`NeverFull`), and the branch of the ring that updates an entry only
after a lost race.

`PatientClient` and, for the liveness properties, the absence of guiding in
`motion_patient` are preconditions: without them the properties fail, as
`lost_stop`, `blocked_slew` and, for guiding, `guided_slew` show.

Fairness. The motion task has the highest priority of its core and the receive
task blocks only on the queue (10 ms), the idle semaphore (500 ms) and output, so
their steps are weakly fair; time passes (`GuideDue`, `Stuck`); the peripheral
emits what it holds (`Complete`); a stop between its stores goes on
(`MarkAborted`). Weak fairness of `MotionStep` includes that a slew gets to its
target. In `ProtoLink` the TinyUSB task is fair (highest priority on its core) and
so is the receive task below it, since USB events are finite between two of its
steps; a client that stays asks again (`LateRetry`). In `MountRequests` the motion
task and the steps of a handler are fair. Requests, power changes and errors never
are. `SlewEnds` and `TrackingYieldsToSlew` are about a client that asks no more.

## 4. Proofs

`MotionControlProofs`: for any modes, capacity, number of stops and choice of
requests, each safety invariant of `motion_safety` holds. None is inductive
alone; `Inv` joins the types with: the request in hand fits the step of the
receive task; queued commands have the current epoch except between clear and
bump; TRACKING has a mode, and the mode a command will publish is one; while
the mount is parked no step on the way to a put is reachable; a command in hand
after a bump is stale; the idle token, once taken for a commit, implies a task
that is waiting or holds only a stale command; a hardware fault goes with a dead
task. One lemma per part (`QueueStep`, `ModeStep`, `ParkStep`, `EpochStep`,
`IdleStep`, `FaultStep`) shows that a step preserves it. The only assumption is
`ConstantsOK`.

`PatientMotionProofs`: for a client that waits until a request shows
(`PatientClient`, the hypothesis of both theorems, without which `lost_stop`
refutes the first), `NoStaleMotion` and `TrackingIsRunning`; power loss, faults
and guiding may come at any time. `PatientInv` says why waiting is enough: a
request that shows leaves the motion task at rest or in a loop (`TaskRests`), so
no stop can find it between its epoch check and the store of `active`
(`ArmedIsCurrent`), and a command that is taken runs at once (`InlineRuns`).
`StopShows` and `TrackingRuns` are the two sides of what the status tells.

`SlewPipelineProofs`: `PlanInv` is `PlanFits`, the types, and the empty buffers of
a motion that starts. `NextBatchFits` bounds what is planned, `CountedBatch`
what is counted; the steps of the driver, of STOP and of errors leave the plan
alone (`BystanderStep`). From it `PlanAlwaysFits`: the unsigned remainders never
wrap; and `CountsAsTraverse`: the loop implements `Traverse`. Assumption:
`SlewConstants` (limits are ordered, batches are not empty).

`SlewQueueProofs`: the types of the pipeline, `StepsAccounted` and
`RefillsFreeBuffer`. `QueueInv` adds to `PlanInv` what the driver holds: the
batches of ping and pong in this order, less those whose completion is already in
the semaphore (`InOrder`), unless a stop has orphaned batches. A buffer left empty
while steps remain would break the order, so `Refilled` shows that the loop leaves
one empty only when the rest is in the other; that needs the target to be within
the limits or where the axis stands (`WithinLimits`, `RefillNotEmpty`). One lemma
per action that touches the queue. `NoOvershoot` needs no order: what was emitted
of the motion and what the driver still holds of it never exceed what was counted
and what the two buffers hold (`Spent`, in `EmissionInv`), which also holds with
the batches of an earlier motion in front. `CompleteMotions` puts the two
together: a motion leaves the loop without an abort only where both axes are at
their targets (`TargetIsDone`, by `PlanInv`), and then `CompletedBatch` and the
sum of `StepsAccounted` leave nothing in the buffers or the driver; every other
way out sets `aborted`, or is a stop that will (`StopsAbort`), unless it came before
the loop reset the flag and no step was sent (`Quiet`).

`BatchEncodingProofs`: for any constants, distance and period, `EncodedInTime`.
That the written ticks plus the idle time left are the step's period (`Timed`)
needs the period to exceed the pulse; that needs a speed of the ramp of at least
the minimum; and that needs a position within the distance, because past it the
ramp is negative. So the invariant also has that no more is planned than is left
(`Planned`), and the types (`Shape`). `Roomy`: a step takes few symbols as long as
the batch has several steps, so a batch fits and only a step alone in its batch is
given up; hence `CountsWhatIsEncoded`. `OnRamp`: the speed is that of the ramp at
the steps planned, a quotient of a quotient; the lemmas on quotients
(`CloseQuotients`, `CloseSpeeds`) bound how far two of them may differ; that a
step makes up at most one of the whole centidegrees the ramp is in (`WayStep`),
for any gear of at least a step for a centidegree, carries the bound from
centidegrees to steps; and from them `SlewsAreSmooth` and `SlewsArriveSlowly` for
every slew of a centidegree or more and every speed. They say nothing of shorter
slews, which run and end at the speed that was asked for. Assumptions:
`EncodingConstants` and `BufferSuffices`, the three inequalities between the
constants of `motors_rmt.c` and `motors_motion_task.c` that make the buffer large
enough; TLC evaluates them for the constants of the code.

`MountRequestsProofs`: the five safety properties of `mount`, for any modes,
rates, keys, values, queue length and number of restarts. `CacheIsAsked`: the
cache of the mount layer is what clients asked since the last stop, which makes
the next order right. `ForgottenAtStop`: a saved mode, and every step of a
handler on the way to saving or restoring one, follow the last full stop.
`CopyIsOld`: memory is ahead of the revision only between the change of the site
and the count. `FlashFollows`: memory is ahead of the flash only in the keys
still to be written, and after a failed write nothing is claimed. Assumptions:
`ManualConstants`, `SettingsConstants` (the keys of the two saves differ, no
value is the mark of a missing key).

`ProtoLinkProofs`: for any ring size, clients and numbers of sessions and writes.
`RingInv`: until it is full the ring fills from slot zero, and no id is in two
slots; with it each operation of the array is one of `RecentResults`, which
`LinkRingIsRecent` states for the whole link. `FrameRoom`: a plausible frame is
at least one byte shorter than the buffer while the next byte is fed.
Assumptions: `RingOK`, `LinkOK`.

`RepliesStayWhole` is for any clients, hasty ones included. `Frames` follows the
stream from the half the client has read through the ring to the half the sender
will queue: fronts and backs alternate and belong together, as long as the device
knows that the port is open (`Connected`); before that nothing is read, and the
reset that precedes it empties the ring. A front without its back is the last half
queued, and then the sender is at work or the failed flag refuses the next reply
until a reset.

`ProtoOnceProofs`: `ExecutedOnce` and `AnswersAreOwn`, for any ring size, clients
and numbers of sessions, ids and writes, with one hypothesis: a client has no more
ids unanswered than the ring has slots (`Window <= RingSize`). Copies of an id may
be in the pipe, the FIFO, the chunk and the buffer at once, cut into bytes; the
invariant reads all of them as one sequence `w` of ids, and the state of a session
as `w` and a number `m` of ids executed (`Held`). `OnTheWay` says that the bytes
are those of `w`, each in its place; `Ordered` that no id of `w` is a window or
more behind `m`, and none ahead of `m + 1` without its predecessor in front;
`Remembered` that the ring holds the last ids up to `m`. So an id of `w` is in the
ring or is `m + 1`, which has not run (`HitIff`, `DispatchHeld`). The sessions are
kept apart by `Owing` and `Resets`: a client that closes the port when all was
answered leaves nothing behind (`Calm`), so a reset never meets a request. One
lemma per action.

Every safety invariant and action property of the passing runs is a theorem. Only
model-checked: the liveness properties `SlewEnds`, `TrackingYieldsToSlew`,
`TrackTakesEffect`, `MotionEnds`, `CallbackReturns`, `Served` and
`ManualStopResumes` (fairness is outside the prover).

## 5. Disagreements between code and documentation

With a run:

1. `lost_stop`: a STOP between the epoch check (`motors_motion_task.c:501`) and
   `active = true` (533, 560, 585, 604) is overwritten; the slew goes on.
2. `parked`: `set_home` unparks (`motors_limits.c:82`). The READY writes of a
   motion that finishes during the park (448, 288) do the same.
3. `blocked_slew`: a goto sent before a queued TRACK shows is never executed.
4. `guided_slew`: the RA limit or an RMT error ends a pulse without clearing its
   deadline, from which the end of the command sets `guiding` again. A slew that
   waits is dispatched by that flag to the tracking loop, which leaves it unexecuted
   and the status SLEWING (`motors_motion_task.c:1256`, 1063-1068); without one
   `guiding` stays true, where a pulse is said to end (`test_gui.py:26`).
5. `slew_orphan`: a STOP preempted between its two stores leaves batches queued
   with the channels not recreated.
6. `id_collision`: the disconnection empties the ring but not the receive FIFO. A
   request of the client that left is read and executed after it, its result goes
   into the ring of the next client, and that client's request with the same id is
   answered from the ring without being executed (`proto_init.c:14-17`).

Met while modelling; the models have the behaviour, no property states the
comment:

- A STOP is said to clear what manual motion remembers
  (`mount_set_move_axis_speed.c:9-11`); only `mount_stop()` does. After park and
  unpark, or a goto, a manual DEC rate also moves RA at its old rate.
- A tracking mode chosen during a manual motion is overwritten by the older saved
  one at the manual stop. A second manual stop undoes the tracking the first
  restored, and one without a manual motion stops tracking for good
  (`proto_action.c:67`, `proto_control.c:3`).
- `{tracking, manual}` in one message: the tracking is still queued, so it is not
  saved, and the manual motion waits behind it.
- CONFIG is said to check all fields before it applies one (`proto/README.md`);
  `proto_config.c:29-86` applies what is valid and counts the revision also when
  it answers an error. Guide rates are not saved, so the same revision names
  another configuration after a restart; the revision is saved after the site, so
  a cut between them leaves a change uncounted, and one in the middle of the site
  leaves half of it. Failed writes are only logged.
- A slew of 1 to 106 steps is zero centidegrees to `ramp_velocity()`, which returns
  the speed that was asked for (`motors_motion_task.c:158`, 686) where the comment
  has "constant slow speed below this" (108): it starts and ends at full speed.
  `encoding` has such slews (of two steps); the two properties of the ramp
  leave them out.
- `ramp_percent()` is said to return 0-100 (`motors_motion_task.c:117`); a slew of
  odd length gets a little more at the top. `ArrivesSlowly` has the bound that
  holds.
- The comment at `motors_motion_task.c:57-61` bounds the uncounted steps of a
  stopped motion by one batch; both buffers may be in flight, so
  `NeverOvershoots` states two. The comment at line 49 gives 40k ticks = 20 ms for
  a batch; the constant is 320000 ticks, 160 ms, so the two buffers may hold more
  than the 100 ms that `recreate_channel()` waits.
- A manual motion with a period between 32780 and 65546 ticks ends a step with a
  symbol whose second half has duration zero, in the middle of a buffer. To the
  peripheral that is an end marker: what follows is counted and not emitted, where
  `motors_motion_task.c:619-622` says no step is lost. What the hardware does with
  it is not in the repository.
- `motors_current_state.c:13-15` excludes torn reads of the positions; the motion
  task writes them without the lock. Limits set from the current position may
  cross, also after the origin moves (`motors_limits.c:87`).

## 6. Not modelled

- Destination of a goto: spherical trigonometry in floating point, and the choice
  of the pier side. The side is chosen for the moment of the request with a slew
  time estimated for it.
- Tracking phases: when a sidereal step is due is a free choice; the accumulators
  are 64-bit fixed point and have no interleaving.
- Position words: a model of a torn read would have the two halves as states and
  the missing lock as its only property.
- JSON scanning, number and string formatting: sequential text.
- Stepper pins, ADC, LED, buzzer: I/O that shows or samples a status.
- Boot order: the receive task starts before the motors are set up; whether a host
  opens the port in those milliseconds is outside the code.

## 7. Plan

Done: `MotionControl`, `SlewPipeline` and `Traverse`, `ProtoSession` and
`ProtoLink` (framing, USB and replay in one composition), `ManualMotion` and
`MountRequests`, `BatchEncoding`, each with proofs.

Left, in this order:

1. Which sequences of the limit setters keep the limits ordered, the assumption of
   `SlewPipeline`.
