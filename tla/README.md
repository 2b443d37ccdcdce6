# A verification development for rdk-aamp

AAMP is an adaptive streaming player in C++.  An application (or the JavaScript bindings)
calls a `PlayerInstanceAAMP`; collector threads download fragments, injector threads push
them to a GStreamer sink, callbacks of the sink and the collectors ask for retunes and
discontinuity processing, and events go back to the application on the main loop.  Most of
what is hard to get right in it is the order in which these threads meet. The modules here
model that concurrency core, one module per component, check it with TLC on small
instances, and prove with TLAPS that their safety properties hold for every size of the
instance; section 6 says which of the ads' do not.

Contents: [1 Inventory](#1-inventory), [2 Modules](#2-modules), [3 Runs](#3-runs), [4
Proofs](#4-proofs), [5 What the models show of the
code](#5-what-the-models-show-of-the-code), [6 Limits](#6-limits), [7 Plan](#7-plan).

To repeat a check: `tlc -config Track.cfg MCFragmentTrack.tla`; a proof: `tlapm
FragmentTrack_proofs.tla`.

## 1 Inventory

| component | state it keeps | operations | talks to |
|---|---|---|---|
| AampScheduler (`AampScheduler.cpp`) | task queue, ids, lock-out, two locks | ScheduleTask, RemoveTask, RemoveAllTasks, Suspend, Resume, Stop, worker loop | every public command, the retune and the discontinuity task |
| PlayerInstanceAAMP (`main_aamp.cpp`) | configuration, the scheduler | Tune, Stop, detach, SetRate, Seek, PauseAt, setters and getters | its PrivateInstanceAAMP, as tasks or calls |
| PrivateInstanceAAMP (`priv_aamp.cpp`) | player state, stream, sink, retune and discontinuity flags, position to pause at | Tune, TuneHelper, TeardownStream, Stop, ScheduleRetune, ProcessPendingDiscontinuity, pause-position monitor | everything |
| StreamAbstractionAAMP, MediaTrack (`streamabstraction.cpp`) | per track a ring of cached fragments; `mTrackState` of both tracks; buffer monitors | cache, wait, inject, abort, pair discontinuities, choose a profile | collectors above, sink below |
| HLS / DASH / progressive collectors (`fragmentcollector_*.cpp`) | playlists, periods, timelines | fetch loop, refresh, seek, stop | MediaTrack, DRM, cache |
| AampEventManager (`AampEventManager.cpp`) | event queue, idle sources, listeners | SendEvent (sync, async), flush, add and remove listeners | all threads; the main loop |
| AampCacheHandler (`AampCacheHandler.cpp`) | playlist cache, init fragment cache, queues, a clean-up thread | insert, retrieve, remove, start, stop | collectors, several players |
| AampDRMSessionManager (`drm/`) | slots of sessions, cached key ids, abort flags | createDrmSession, clear | the licence thread, the pipeline's decryptor, every tune, seek and stop |
| AampCurlStore | stored handles per host, user counts | get, keep, remove | downloads |
| CDAI (`admanager_mpd.cpp`) | ad breaks, periods, the placement, what is played | SetAlternateContents, fulfil, PlaceAds, onAdEvent, prune | the DASH collector's loop; the application |
| subtec PacketSender | packet queue, a thread | send, flush, close | subtitle parsers |
| AAMPGstPlayer, shims, tsprocessor, isobmff, configuration, JSON, CC, JS bindings | pipeline, parsers, values | forwarding and byte formats | platform libraries |

`PROJECT.json` lists each with its status and, when it is not modelled, the reason.  It
also lists the hazards, with their lines and the properties that cover them.

What makes these correct, and hard:

* **Scheduler.**  A cleared task must not run, no task may run while an API call holds the
  execution lock, tasks keep their order, the worker misses no notification and can be
  joined.  Flags are tested without the lock that protects the queue.
* **Commands.**  Stop, retune, seek and PauseAt come from different threads and decide on
  state they read before they waited.
* **Fragment ring.**  Two threads and two indices; waits are single `pthread_cond_wait`
  calls, not loops; flags are tested outside the mutex.
* **Discontinuity.**  Two injectors wait for each other in one condition variable, two
  monitors take the wait back, a task restarts the injection while the application may
  delete the stream.
* **Events.**  Each event needs its own idle source; source and queue are two steps.
* **Caches.**  Two entries share a buffer, one may free it; a timer thread flushes.
* **DRM.**  A slot is chosen under one mutex and used under another, a licence request
  takes seconds with the session locked, and a stop, a seek or a new tune aborts, clears
  and deletes beside it.
* **Ads.**  Ads are placed over periods that are not published yet, refresh by refresh,
  while they are given, downloaded and played; three positions (placement, base content,
  what is played) have to meet again at the end of a break.

Nothing is persisted, so there is no crash recovery; a lost download is a retry inside one
step; messages between threads are not lost, but wake-ups are.

## 2 Modules

A step is in general one critical section; what the code reads or writes outside of the
lock is a step of its own.  A thread is a program counter.  Histories (marked "history" at
the declaration) are read by properties only and never guard an action that models code.
Names of variables and actions are those of the source; `PROJECT.json` "map" gives the
lines.

### AampScheduler, SerialExecutor

`AampScheduler` has the queue mutex and the execution lock (DELIA-57121) apart.  The
worker's steps are the segments of `ExecuteAsyncTask` between its lock operations; a
caller of `ScheduleTask` is two steps, the unlocked tests and the push under the mutex.
The application thread has Suspend, RemoveAllTasks, Resume, EnableScheduleTask and
StopScheduler.  Ids wrap at `IdMax`.  A history counts the *epochs* that a RemoveAllTasks
under lock-out begins; each task carries the one it was accepted in.

`SerialExecutor` is what the scheduler promises, without threads: tasks start in the order
of acceptance, one at a time, none while suspended.  The refinement maps `suspended` to
"the application thread holds the execution lock".

### Player

The commands of one player against the retune task, the threads that call
`ScheduleRetune`, and the pause-position monitor with its task.  The scheduler in it is
`SerialExecutor`, by INSTANCE: `Player` calls its actions, `AampScheduler` implements
them, so the two compose.  `Executors` are the application's thread, the scheduler's and
the main loop; with AsyncTune every command but Stop is a task, without it commands run on
the application's thread next to retune and pause tasks.  A command goes through `check`
(eSTATE_ERROR), `cancel` and `join` (StopPausePositionMonitoring) and its own `body`; Tune
and Stop through PrivateInstanceAAMP::Stop (`stop`, `gCond`, `teardown`), tunes of all
kinds through TuneHelper under the stream lock (`lock`, `tune`).  Stop and Seek decide on
the state they have read before (`seen`).  A Seek of a player that is still preparing,
also one that a listener calls from inside the tune, adds an idle source
(`preparedSeeks`), and the main loop tunes when it gets there (`SeekAfterPrepared`).  A
PauseAt request is a number; the history `wanted` is the request that no later command has
cancelled.  `refusedPause` and `refusedRetune` record that the task of the request was
refused or cleared under a lock-out, or the monitor thread could not be created; they are
set where the code ignores that answer.

### FragmentTrack, FragmentChannel

One MediaTrack: collector, injector, and the player that stops and restarts them.  A
fragment is its number, a slot holds a number or 0 for a NULL ptr.  A thread in
`pthread_cond_wait` is at `wait`; a signal (and, with `Spurious`, anything) moves it to
`woken`, from where it goes on without a test, as the code does.  `RefreshSubtitles` and
`SwitchSubtitleTrack` are the HLS subtitle switch (bounded by `MaxSwitches`),
`StopInjectLoop` and `StartInjectLoop` the restart of the injection (`MaxRestarts`).
`Timeouts` are the `timeoutMs` a collector may pass.

`FragmentChannel` is what the ring promises: a bounded channel of fragments, of which only
the oldest is delivered, once, before it leaves.  The refinement maps its queue to the
slots from `fragmentIdxToInject` on, as many as `numberOfFragmentsCached` says;
`UpdateTSAfterFetch` puts, a send that is not the stop in front of a discontinuity
delivers, `UpdateTSAfterInject` releases, and all other steps stutter.

### Discontinuity

Two tracks of fragments, some of which begin with a discontinuity (`layout`).  The
injector's steps follow `InjectFragment` and `ProcessDiscontinuity`, including the
unlocked read and write of `mTrackState`.  The monitors are the buffer monitors with the
two stall checks; `NotifyEOS`, `Underflow` come from the sink.  The thread of the tasks
runs `ProcessPendingDiscontinuity` step by step; `TeardownStream` runs against it, for a
seek or a change of rate.  The sink keeps whether it has data and an EOS of a track.

### AampEventManager, EventMailbox

Sender threads (append, add the idle source, mark it pending), the main loop (dispatch,
mark dispatched, pop, copy of the listeners, test of the state, deliver), and the
application that stops, tunes and changes listeners.  An event is the number it got in the
queue.  A listener that is called may send an event itself: on the main loop it is
delivered inside that call, from its own copy of the list, and so on in depth (`outer` is
the stack of the lists of the deliveries that wait).  The history `owed` counts, for a
listener that is removed or stopped, the deliveries under way that still have it in their
list.

`EventMailbox` is what it promises the listeners: events are posted, taken one at a time
in order, delivered and put away, and a flush withdraws what is not yet taken.  The event
in hand is that of the main loop from its pop (`AsyncEvent`) to the last call; idle
sources, marks and the copy of the listeners are not seen.

### AampCacheHandler

The caches are records: entries (buffer, duplicate mark), a heap from buffer to the url
its content came from, and the booked size.  Every public operation is one action, as each
is one critical section; the clean-up thread has a step per lock operation.  Buffers that
no entry refers to are left out of the heap; a flush beside a use of the cache ends the
behaviour (`player = "race"`), as what follows is undefined.  The limits are variables: a
tune sets them (`SetLimits`), also below what is cached.

### DrmSessionManager

`createDrmSession` of the licence thread and of the decryptor, one step per stretch
between its locks and its remote calls: enter, choose a slot (`cachedKeyMutex`), take its
session (`sessionMutex`), initialise, make the challenge, fetch a token, request the
licence, hand it over.  The player's side is the order in which the code calls
`clearDrmSession`, `clearFailedKeyIds`, `setLicenseRequestAbort`, joins the licence thread
and stops the sink for a tune, a seek and a stop; DASH joins the thread for a seek, HLS
does not.  A remote call ends with any answer the code tells apart.  A session is the key
it was made for and its state.  `held` (history) is the session the decryptor works with,
and since which requests; `failedKeys` the keys that failed in the stream that plays.

### AdManager

The CDAI object and the part of the DASH collector's loop that drives it.  The base stream
is a row of periods of which `edge` is published; a manifest, and what has left it, follow
from `edge`.  `UpdateMPD` grows it and then does what the code does on an update:
`FindTimedMetadata`, `PrunePeriodMaps`, `PlaceAds`.  The placement is the code's walk, as
a fold over the content each period has gained: it fills the current ad, goes to the next
one, opens the next period, closes the break with its alignment.  The application gives
ads at any time, a thread fulfils one at a time (`FulFillAdObject` with the trimming).
`onAdEvent` is an operator from the event and the state to the state; the loop's steps
call it at the places where the code does: at the head of a period, with each fragment
(`BASE_OFFSET_CHANGE`), at the end of an ad, after a failure.  Time is in units of half
`OFFSET_ALIGN_FACTOR`, a fragment is one unit.

## 3 Runs

All runs are exhaustive within the bounds.  Every action fires in one of the passing runs,
and every property is broken by a mutant of a mapped definition (the operators marked `\*
mutant:` in the modules, paired with the properties in `PROJECT.json`).

| run | distinct states | what it shows |
|---|---|---|
| `scheduler` | 84,804 | exclusion, cleared tasks never run, the cleared queue stays empty, refinement of SerialExecutor, no lost wake-up, StopScheduler returns |
| `player` | 1,655,862 | Stop and retune exclude each other (AsyncTune); the position of a cancelled or replaced PauseAt is withdrawn; a set position is watched, a set `reTune` has its task; every call of the application returns |
| `track` | 42,648 | the ring stays in order and is a channel in which each fragment reaches the sink once (refinement of FragmentChannel); the end is reported after the last one |
| `track_stop` | 139,116 | the joins of Stop and StopInjection return, with spurious wake-ups and a subtitle switch, when waits are timed |
| `events` | 391,640 | the assertions hold, each event has its source, the manager is a mailbox that delivers in order (refinement of EventMailbox), a listener that was removed is called only by deliveries that were under way, once by each; every queued event is taken |
| `discontinuity` | 361,726 | the injectors never wait for each other; the task id and the flag belong to a live task; the sink is flushed at a discontinuity only; waits end |
| `cache` | 1,221,672 | no entry dangles, no buffer is freed twice, content is right, sizes hold, each queued init url has its entry and is queued once, no step goes further above a limit, the destructor returns |
| `drm` | 586,175 | a request keeps its session, is refused only after a failure in this stream, the decryptor's session is not evicted early, a stop is silent, every call returns |
| `ads` | 294,536 | the break that plays is kept, ads are placed one behind the other, the content resumes where they end, they play in order, a wait for the content ends |
| `player_stop` | violation | see section 5 |
| `discontinuity_deleted` | violation | see section 5 |
| `discontinuity_deadlock` | violation | see section 5 |

### Bounds, and why they are enough

* `scheduler`: two callers, three tasks, two suspensions, ids 1..3.  Two callers meet
  between the unlocked test and the push; three tasks let the id wrap and the queue hold
  one before, one in and one after a clear; the second suspension comes after an
  EnableScheduleTask or a Resume that the worker has yet to see.
* `player`: four commands, two PauseAt positions, one report.  The longest story of a
  property is tune, PauseAt, a command that cancels it, PauseAt again while the first
  one's task is queued.  A second report adds nothing once `reTune` is set or refused;
  `player_stop` allows two, with three commands.
* `track`: three slots and seven fragments wrap both indices twice; a discontinuity at the
  second fragment and two restarts let the injector stop in front of it, twice.
  `track_stop` takes two slots, four fragments, so that spurious wake-ups and the switch
  stay exhaustive.
* `discontinuity`: four fragments, the discontinuity in the middle; layouts are a pair,
  one of either track alone, and one in front of which no audio came.  One slot of cache
  is enough for the test "more than two fragments behind" to go both ways.  DASH and HLS
  settings differ in `RetuneForUnpair` and `IsDashAsset`.
* `events`: two events of two senders plus one sent on the main loop, from the idle loop or
  nested in the delivery of a queued event; a stop and a tune, two changes of the listeners.
  With `MaxSyncs = 2` the nesting is two deep; the safety properties hold there as well
  (1,478,864 states), and the theorems are about any depth.
* `drm`: three contents, one with two key ids, for two slots, so that a slot is always
  taken from somebody; three configurations (DASH with and without a token to fetch, HLS);
  four requests and two streams, so that a request of the old stream meets the clean-up of
  the new one and another request after that.  `Ticks` is one millisecond per request: two
  requests in the same millisecond have the same time, and the slot chosen may then be the
  newer one.
* `ads`: five periods and two breaks.  Break 2 is longer than its period, so its ads cross
  two period ends and the second is trimmed; break 4 ends well before its period does, so
  the content resumes inside.  Manifests grow by nothing or by two alignment units,
  periods are announced before they have content, and content leaves the manifest behind a
  window of nine.  `MaxLag` keeps the edge near the player, as a live edge is.  One seek,
  to the beginning or into a period, and one failure (of an ad's manifest or a fragment).
* `cache`: a redirected manifest, two video playlists of which one redirects to the other
  and which do not fit together, an audio playlist; five init fragments in two queues.
  The playlists may take 4, 3 or without limit, a queue has two slots or one, so a tune
  may lower both below what is cached.  `StoredBound` cuts off the drift of
  `mCacheStoredSize` (section 5), which otherwise grows without limit.  No init fragment
  is asked for under the url that another one is redirected to.  `QueueBound`, one more
  than the slots, is not reached in this run; it cuts off the queue whose eviction has
  stopped, when `MCInitFragments` asks for such urls too (section 5).

### Fairness

Liveness assumes that a thread that can take a step takes one: weak fairness per thread,
never per action of the environment.  Beyond that:

* `track` has two specifications.  `StopSpec` says only that threads run and
  `pthread_cond_timedwait` ends; the joins are checked under it.  `FairSpec` adds that
  playback starts, and strong fairness of a successful download, since the code retries
  forever and a stream whose downloads all fail does not progress.
* `scheduler`: `WF(ApiContinue)`, because a suspended scheduler is resumed: Stop and
  detach call ResumeScheduler on every path.
* `discontinuity`: the sink plays what it has and reports EOS; no underflow has to happen
  and nobody has to stop the player.
* `events`: the main loop dispatches its sources.  `player`: each executor,
  the monitor and the reporter run; nothing is assumed of the application, the sink's
  callbacks or other players.
* `drm`: remote calls and the CDM end, since all have timeouts; the player finishes a
  tune, seek or stop that it began.
* `ads`: the ad thread ends its download; the collector runs; a live manifest that may
  grow is found grown again and again.  The last two are stated as `[]<><<A>>_vars`, that
  is without ENABLED, which is costly to evaluate for the loop's large steps.

`CHECK_DEADLOCK FALSE` is set in every run but `ads` since bounded environments end: all
commands are given, the stream is over, the scheduler or the handler is gone.  A thread
that is stuck is found by the liveness property of the run instead.  No run uses symmetry,
which is unsound for the liveness properties and would gain little in the other runs.

## 4 Proofs

14,314 obligations in eight modules, all leaves checked by SMT, Zenon or LS4.  None of the
theorems fixes a constant; the assumptions on constants are those the modules declare, and
what a theorem assumes beyond them is named below.

**AampScheduler_proofs** (518 obligations; any number of callers, tasks, suspensions):

| theorem | says |
|---|---|
| `TypeCorrect` | `Spec => []TypeOK` |
| `SuspendExcludesTasks` | no task runs while the application holds the execution lock |
| `ClearedTasksAreGone` | a task accepted before a RemoveAllTasks under lock-out never runs after it |
| `ClearedStaysEmpty` | the queue stays empty until tasks are admitted again |
| `Refinement` | `Spec => Executor!Spec` |

`NoTaskWhileSuspended` is not inductive, as nothing in it keeps the worker from taking the
lock; `LockInv` ties the owner of the execution lock to the places of both threads, and
the lock-out flag to the places of the application thread.  `EpochInv` says that every
queued task and the running one are of the current epoch; it needs `LockInv`, because the
epoch changes only while the worker cannot be past its execution lock.  The refinement has
one step per action of `Next`; each is an action of the abstract executor or a stutter.

**FragmentTrack_proofs** (925 obligations; any ring size, stream, set of discontinuities,
number of restarts, timed and untimed waits):

| theorem | says |
|---|---|
| `TypeCorrect` | `Spec => []TypeOK`, with spurious wake-ups and switches |
| `NeverOverflows` | `assert(numberOfFragmentsCached <= maxCachedFragmentsPerTrack)` |
| `RingStaysInOrder` | the ring holds exactly the fragments between the two positions |
| `SinkInOrder` | the sink gets every fragment once, in order (`InjectedInOrder`, which no run checks beside the refinement) |
| `TrackIsChannel` | `Spec => Channel!Spec`: the ring implements FragmentChannel |
| `EosIsLast` | unless it was aborted, the track reports the end of the stream only after its last fragment |

All but the first assume `MaxSwitches = 0` and `Spurious = FALSE`; with either of them the
code breaks the statements (section 5), so the assumptions are needed.  The invariant is
`TypeOK /\ Control /\ Room /\ RingInOrder /\ History`.  `Room` is the reason why waits
without a loop are enough: a collector that was woken has room, since only it adds
fragments, an injector past its wait has a fragment, since only it takes them away, and
each thread only strengthens what the other one knows.  `RingInOrder` needs that N
consecutive numbers have N residues (`WindowIsInjective`), proved from a short theory of
`%` because the SMT backend knows little of it.  `History` relates what was injected to
what was released, and gives the action property.  For
the end of the stream it takes one more fact, that `eosReached` is set only when all is
fetched: an injector that finds the ring empty has then injected `Total`.  For the
refinement the slots of `Cached` are shown to be the sequence of the numbers after
`released` (`CachedIsWindow`), on which put and release are `Append` and `Tail`; `History`
is the reason why a fragment whose discontinuity stopped the injection is delivered after
the restart and not before, and none is delivered twice.

**Player_proofs** (1,058 obligations; any number of commands, positions and reports):

| theorem | says |
|---|---|
| `TypeCorrect` | `Spec => []TypeOK` |
| `StopAndRetuneExclude` | with AsyncTune, Stop does not tear the stream down under a tune |
| `CancelledAlwaysWithdrawn` | the position of a cancelled or replaced PauseAt is neither left set nor, with AsyncTune, paused for, unless its thread could not be created |
| `RetuneAlwaysScheduled` | a set `reTune` has its task, unless that was refused or cleared |
| `PauseAtAlwaysWatched` | a set position has its monitor or its task, unless that was refused or cleared |

The invariant is `IInv`: the types and `Control`, which has three parts.  `AtWork` ties
the place of each thread to the command it executes, `LockOut` says that a Stop past
`SuspendScheduler` has the lock-out and that no task runs under it, `Queued` that Stop is
never a task and that without AsyncTune only retunes and pauses are.  With AsyncTune they
leave one of the two threads that run commands idle or in front of the lock-out
(`OneAtATime`), which is the exclusion.  `CancelledAlwaysWithdrawn` adds `Position`: a
position is set only while there is a monitor thread or none could be created, it is that
of the request that counts, and a command that joins the thread has withdrawn it.  It says
nothing of the task by which the pause is made: that may be the one of a replaced request
(section 5).  The last two theorems are inductive beside `IInv`; they rest on
`WaitingStep`, that a task queued or running stays so until it is cleared or ends.  The
proof splits `Next` by what a step does to the control state (`NextCases`), not by action,
and a command is a move to another of its places or its end (`CommandShape`).

**DrmSessionManager_proofs** (2,233 obligations; any number of slots, keys, requests and
streams, any configuration):

| theorem | says |
|---|---|
| `TypeCorrect` | `Spec => []TypeOK` |
| `SessionStaysInUse` | DASH: the session a request works on stays one of its key ids and is not deleted meanwhile |
| `RefusedOnlyIfFailed` | DASH: a key is refused without a request only if it failed in the stream that plays |
| `StoppedIsSilent` | DASH without a token to fetch: a request that a stop ended sends no error event |
| `LastUsedIsKept` | requests a millisecond apart: the session of the decryptor lives on while fewer other contents than slots are asked for |

The invariant of the first four is `TypeOK /\ Lock /\ Contents`, and with it, for DASH,
`Quiet`, `HasSession`, `Belongs`, `Failures` and `Silence`.  `Lock` is the exclusion of
`mDrmSessionLock`, `Contents` says that the key ids of a slot are those of one content.
`Quiet` is what the join of the licence thread buys: while the player clears, no request
of the old stream is under way.  HLS does not join it for a seek, which is why these
conjuncts are stated of DASH. `Failures` says that a marked slot, or one whose session is
not ready, stands for a failure of this stream or a request under way, and that the
clean-up leaves no other behind.  That an oldest slot exists is the minimum of a set of
naturals, by the well-foundedness of `<`.

`LastUsedIsKept` has an invariant of its own, `OrderInv`.  `Order` says that no two used
slots have one time or one content.  `HeldOrdered` counts: either as many other contents
as slots were asked for since, or every slot that was used later than the held one has one
of those contents and the held session lives.  When the held slot is the oldest and its
session is replaced, all other slots have such a content and the new one is in none of
them, which makes as many contents as slots (a one-to-one function from the slots,
`AllTaken`).  The assumption `Apart`, that `Ticks` does not contain 0, is needed: of slots
of one millisecond the first is taken (`AampDRMSessionManager.cpp:1094`), and with
`Ticks = {0, 1}` TLC finds the session of the last use thrown away.

**AampEventManager_proofs** (1,148 obligations; any number of senders, events and
listeners):

| theorem | says |
|---|---|
| `TypeCorrect` | `Spec => []TypeOK` |
| `CallbacksMatch` | the assertions of the callbacks hold and every queued event has its source |
| `InOrder` | events are delivered in the order in which they were queued (`DeliveredInOrder`, which the refinement covers in the run) |
| `EventsAreMail` | `Spec => Mailbox!Spec`: the manager implements EventMailbox |
| `LateCallsOwed` | a listener that was removed, or whose player is stopped, is called only by deliveries that were under way, at most once by each, however deep they are nested |

`CallbacksMatch` is `TypeOK /\ MarksInv /\ Owed`.  `Owed` counts: the queue is never
longer than the idle sources that are left, the senders that have queued and not yet added
their source, and the callback between its dispatch and its pop.  It is the reason why a
flush, which empties queue and sources at two places, leaves neither an event nobody comes
for nor a callback that pops another one's event.  `OrderInv` carries the order
and the refinement, in which an event is taken, delivered to the first listener and put
away, and all else stutters.  For `LateCallsOwed` the calls still owed are those of the
lists that have the listener (`Copies`): a list that is copied later does not.

**Discontinuity_proofs** (1,432 obligations; any layout, depth of the cache, both
settings):

| theorem | says |
|---|---|
| `TaskLives` | the id and the flag of the discontinuity task belong to a task that is queued or runs |
| `NoMutualWaits` | the two injectors never both wait for each other's discontinuity |
| `FlushesAtDiscontinuity` | the task flushes the sink and starts the injection anew only while the video injector is parked at a discontinuity |

`TaskInv` adds to the statement that the thread runs no task between two tasks.  `WaitInv`
says that an injector that waits has its bit in `mTrackState`, so whoever takes the bit
away has to wake it.  `ParkInv` says that the video injector's flag is set only when it
has left at its discontinuity, and that the task goes on to restart it only after it has
seen the flag.

**AampCacheHandler_proofs** (1,718 obligations; any urls, redirects, sizes, limits and their
changes):

| theorem | says |
|---|---|
| `EntriesLive` | no entry has a freed buffer, no buffer is freed twice (with TypeOK) |
| `ContentIsRight` | what is found under a url came from it or from one redirected to it |
| `QueuesMatchCache` | for any requests: each queued init url that no other one is redirected to is there once and has its entry |
| `StoredSizeBounds` | the playlists take no more than `mCacheStoredSize` says |
| `LimitsKept` | no insertion takes a cache above its limit, or further above it |

`EntriesLive`, `ContentIsRight` and `LimitsKept` assume `NoTargetRequested`: no init
fragment is asked for under the url that another one is redirected to.  Without it the
entry of the target is overwritten, and the first and the last fail (section 5); the
instance of `cache` satisfies it.  `QueuesMatchCache` assumes nothing of the requests and
names the exception in its statement.  It rests on `KeptInv`: an entry is marked only if
it was made under the url of the request, and then names the second entry, so what an
eviction erases beside the head of the queue is a redirect target.  `Valid`, the invariant
of either cache, says of each entry that its buffer lives, that it is the entry of the url
the content came from or of its effective url, and that the duplicate mark tells which.
From it follows what an eviction needs: the two entries of a buffer have one media type,
so they go together.

`StoredSizeBounds` and `LimitsKept` speak of the sum of the buffers, a fold over a finite
set.  The provers have no induction to unfold it; what they have is that a set of naturals
that is not empty has a least member.  So each fact about the sum (`SumsExist`,
`SumsUnique`, and from them that it grows by a buffer that is added and does not depend on
the others) is proved from a smallest set for which it would fail.  `Covered` then says of
the playlists that no more is stored than is booked.

**AdManager_proofs** (5,282 obligations; any stream, breaks, ads, growth, window, number
of seeks and failures):

| theorem | says |
|---|---|
| `CurrentBreakStays` | the break the player is in stays in `mAdBreaks` |
| `PlayingBreakStays` | one break known at a time: with it the break whose ad is played or waited for, and `mCurAdIdx` is one of its ads; all types |
| `AdsPlacedInTurn` | one break known at a time: the first ad begins with its break, and no ad before those in front of it are placed |
| `AdsNeverOverlap` | the same: no ad of a break begins on the base timeline before those in front of it end |
| `ContentResumesAfterAds` | the same: the content goes on less than twice `Align` before the end of any placed ad |

The first needs no hypothesis and is inductive as it stands: `PrunePeriodMaps` keeps
`mCurPlayingBreakId`, `PlaceAds` neither adds nor removes a break, and each event enters
only a break that it found.  The others are of the form `Spec /\ []OneAtATime => []P`,
where `OneAtATime` says that no two breaks are in `mAdBreaks` at once.  It holds throughout
in a stream with one break, and in one where each break has left the table before the next
is announced; in the stream of the run it holds until the second break is announced, and
from there on TLC alone answers.  It is a condition of the code, not of the proof: with two
breaks the statements are false for some streams (section 6).

Their invariant is `Types /\ Machine /\ Names /\ Giving /\ TablesOK /\ AdsLie`.
`TablesOK` is what a refresh keeps of the tables: each break has its ads placed from the
front (`Turn`), a placement is at the end of those that are placed (`AtAd`), the offsets
of a period lead to ads that its break has (`DataOK`), and no second placement is waiting.
That an index found through `mPeriodMap` is one of the ads is the reason why `onAdEvent`
may index without a test, and it rests on the two facts that `Machine` and `Names` add:
ads are only ever appended, and each is given once.

`AdsLie` is about where the ads lie.  `AdsDoNotOverlap` is not inductive: what the next
refresh places begins where `mPlacementObj` says, so the invariant has to say that this
point is behind all that was placed.  `Trail` does: no content of the periods behind the
open one is counted, what is counted of the open one is its duration in `mPeriodMap`, and
every ad that was placed, with the begun part of the one at turn, ends at or before that
point (`Behind`).  Once the last ad is placed and the end of its break is still to be
adjusted, the chosen end takes the place of that point (`Closed`), and `Resumes` is what
`AdjustEnd` leaves of it.  A period that joins the manifest had no content before
(`JoinsLate`), so pruning and finding periods keep `Trail`; a break without ads has none
of its content counted, which is what lets its first ad begin at its first period.

`PlaceAds` is two nested folds, over the periods of the manifest and in each of them over
the ads.  `Covering` and `Placing`, and for the positions `Lying` and `Onward`, are their
invariants; the lemmas `FoldAds` and `PeriodsFold` carry them through a fold of any length
(from a smallest subset on which they would fail, as for the sums of the caches).  `Lying`
holds the argument of one turn of the inner loop: the content of the period up to what is
left of the delta is behind all that is placed, and a turn uses the delta up, or finishes
its ad and moves that point by the ad's rest, or waits with the last ad for more content.

Model-checked only: that the ads leave no gap and the content goes on no later than its
ads end (the other halves of `AdsAreConsecutive` and `EndsWithItsAds`), `LandsInPlace`,
the order the ads play in and the end of the wait (section 6 says why); and every liveness
property.

## 5 What the models show of the code

Three statements of the source that its behaviour contradicts; each is a run that TLC
finds violated, with the quotation in `PROJECT.json` "findings":

1. `player_stop`: `PlayerInstanceAAMP::Stop` reads the state before it waits for the
   running task (`main_aamp.cpp:287`, the comment has the other order).  A Tune that is
   just starting is waited for and then left playing.
2. `discontinuity_deleted`: between the start of the discontinuity task and its flag, a
   teardown deletes the stream that the task goes on to use.
3. `discontinuity_deadlock`: a teardown under `mStreamLock` waits for the task, whose
   progress report needs the lock.

Three more contradict a statement as well.  They are no runs of `PROJECT.json`; the
counterexamples come from the configurations named here:

* `tlc -config Player_pauseat.cfg MCPlayer.tla` (`PausesForItsRequest`): "Any subsequent
  call to this method will override the previous call" (`main_aamp.h:895`), but the task
  of a PauseAt carries no position.  With AsyncTune the monitor of the first request may
  schedule it while the command of the second one has withdrawn the position and joins the
  monitor; it then runs behind that command and pauses at once for the new position
  (`priv_aamp.cpp:1659`).
* `tlc -config Cache_freed.cfg MCInitFragments.tla` (`InitBuffersLive`): an init fragment
  that is cached, and to whose url another one is then redirected, loses its entry to the
  second entry of the redirected one (`AampCacheHandler.cpp:490`); its eviction frees the
  buffer of the redirected one (573), whose entry stays.  "remove the very first inserted
  entry & its duplicate entry from cache table" says line 465.
* `tlc -config Cache_slots.cfg MCInitFragments.tla` (`SlotsKept`): if the redirected one
  is evicted first, the entry of the target goes with it while its url stays queued.  As
  the head of the queue it has no entry, the eviction returns without a pop (553), and
  this queue is no longer limited.

`Cache_queues.cfg` of the same instance finds no error: with redirect targets asked for,
each other queued init url still has its entry (15,276 states; `QueuesMatchCache` proves
it).

Behaviour the models contain that no statement of the source excludes, noted here for
whoever changes this code:

* Scheduler: a late task stays in the queue of a stopped scheduler (the tests of
  `ScheduleTask` come before the mutex); EnableScheduleTask between Suspend and Stop makes
  StopScheduler lock a lock it owns.  The refusal in eSTATE_ERROR does not work, as
  `SendErrorEvent` and Stop write `mState` without telling the scheduler.
* Player: `ScheduleRetune` ignores that its task was refused, and `reTune` then stops all
  later requests until a Stop.  Without AsyncTune a retune may run during the teardown of
  Stop, and a command may withdraw the position a pause task has just read (hence the
  conditions on `mAsyncTuneEnabled`).  A seek left to the main loop holds only the stream
  lock, so with either setting it may tune during the teardown of Stop, and it runs after
  any commands that came in between.  With AsyncTune a Seek in an idle player runs on the
  caller's thread, also with a Tune queued.  When the monitor thread of a PauseAt cannot
  be created, its position stays set and no command withdraws it.  `gCond` is waited on
  once, without a predicate, and is shared by all players.  A retune resumes a pipeline
  that the user paused.  `mSeekOperationInProgress` stays set after a seek whose tune
  fails.
* Fragment ring: a spurious wake-up overflows the ring; the flush of a subtitle switch
  between the injector's wait and its release makes `numberOfFragmentsCached` -1; the
  abort flag of the switch may also end the injector.  `WaitForFreeFragmentAvailable`
  tests the abort outside the mutex and waits without testing it again; with `timeoutMs`
  -1, as HLS VOD passes (`fragmentcollector_hls.cpp:1949`), Stop may join the collector
  forever.
* Discontinuity: video waits until a teardown when audio has ended not more than two
  fragments away; `DiscontinuitySeenInAllTracks` tests auxiliary audio twice and never
  audio; a stall check that resets the flags after it left the lock turns the next EOS
  into a bogus one.
* Events: a flush between AddCallback and SetCallbackAsPending leaves the id of a
  dispatched source in the pending map.
* Caches: a flush is not repeated after a lost signal, and may run beside a new session;
  removals are not always booked in `mCacheStoredSize`.  A limit that an earlier tune
  configured stays when the next one has the default (`priv_aamp.cpp:5511-5528`); a lower
  number of slots is not enforced on a queue that is longer, as each insertion evicts one
  entry.
* DRM: an HLS seek does not join the licence thread, so `clearDrmSession` may delete the
  session it works with.  An abort is not always silent: a token request is not ended by
  it, and HLS sets the session manager inactive before the join.  A failed licence request
  is logged as "before next retry" and not repeated for a 5xx answer. `isPrimaryKeyId` is
  never set.
* Ads, placement: an ad that is added after the placement of its break was closed is never
  placed and yet played, and then waited for without end (`CatchupEnds` names the case).
  What is left of the last ad when it is under 2000 ms is dropped at each refresh.  A
  third break overwrites `mAdtoInsertInNextBreak`, and when the open period of the break
  to come leaves the manifest the placement is stuck.  The alignment at the end of a break
  resets what is known of the next period, also if a break begins there.
* Ads, playing: `mAdFailed` is looked at only at the head of the next pass and may then
  mark the next ad invalid.  `mBasePeriodOffset` is not reset when a break ends in another
  period, becomes negative when a break is found in the middle of one
  (`BASE_OFFSET_CHANGE` also moves on a period), and goes on when a failed ad restarts the
  base period.  After a break without ads the next one is played under the old
  `mCurPlayingBreakId`. A seek into an ad that continues from the period before ignores
  `adStartOffset`, which is why `LandsInPlace` leaves seeks out.  `onAdEvent` waits for
  `mDaiMtx` while an ad is downloaded.
* Ads, answers: `SetAlternateContents` for an unknown break never answers, and for a full
  break sends the id of the previous ad; an inner `int ret` hides that the thread was not
  created.

## 6 Limits

* Out of the prover's reach: liveness under fairness and ENABLED.  Induction over data is
  too, as the induction theorems take an operator; what is proved about folds (the sums of
  the caches, `PlaceAds`) is proved case by case from a smallest counterexample.  No module
  uses RECURSIVE.
* What the ads run checks is not all true of every stream, and what is not is not proved.
  The last part of `AdsAreConsecutive`, that no gap is left, fails when a refresh brings
  less than `OFFSET_ALIGN_FACTOR` of new content and the last ad ends in it: the loop of
  `PlaceAds` counts that content and leaves the ad's rest (TLC with `Growth = {0, 1}`).
  Two breaks known at a time break `PlayingBreakIsKept` and the placement for some
  lengths: a break without ads followed by another leaves `mCurPlayingBreakId` at the
  first, the open period of a placement moves into the next break's, and the alignment at
  a break's end resets what is known of it.  `EndsWithItsAds`, in its second part, and
  `LandsInPlace` have tolerances that fit the run's unit of half an `Align`;
  `AdsPlayInOrder` rests on the positions that these give.
* Player leaves out detach, trick play, keepPaused, the destructor and the setters and
  getters; the play rate is normal.  With AsyncTune it has no Seek called in the idle
  state, which runs on the caller's thread beside the tasks; of the calls that listeners
  make from inside a command it has only the Seek.  `StopExcludesRetune` speaks of the
  application's and the scheduler's thread, not of the main loop's seek.  The failure of a
  tune is a choice; what the collector does inside it is not modelled.
* FragmentTrack stands for one track; the low-latency chunk ring has the same shape and is
  not instantiated.  A download either fills the slot or fails.  The injector's waits for
  the sink (`BlockUntilGstreamerWantsData`) and for the video track
  (`WaitForVideoTrackCatchup`) are left out.  `track` has no spurious wake-ups, with which
  the ring does not keep its order; `track_stop` has them.
* Discontinuity has demuxed audio and video at normal rate with AsyncTune off; auxiliary
  audio, muxed streams, subtitles are out; a behaviour ends at the first teardown. Buffer
  depths and clocks are choices.
* AampEventManager has one event type; the filter of a fake tune is left out.  Of what a
  listener may do in its call the nested event is modelled; adding and removing listeners
  is the application's thread.
* AampCacheHandler goes on after a buffer that is in use was freed, as if the memory were
  untouched; both violations of section 5 are reached before that.
* DrmSessionManager leaves out the external licence (Verimatrix), SecManager, the wait for
  ContentProtectionDataUpdate, fake tunes and `AampHlsDrmSessionManager`, and the DASH
  collector's thread of deferred DRM requests (`fragmentcollector_mpd.cpp:9949`) as one
  more caller of `createDrmSession`; a remote call is a choice among the answers that the
  code tells apart.
* AdManager leaves out trick play, Fog, tracks other than video and the ad events;
  `PlaceAds`, `PrunePeriodMaps` and `FindTimedMetadata` run without `mDaiMtx` in the code
  and are one step here, so their race with `FulFillAdObject` is not modelled.
* Data races are modelled as orders of whole reads and writes.
* Parsing (playlists, MPD, TS, MP4, JSON), ciphers, curl, GStreamer, OCDM and Thunder are
  not modelled.

Not modelled although it has state: `AAMPGstPlayer` runs its tasks on the main loop of
GLib and on the pipeline's bus and streaming threads, and its flags are not locked; the
order of those threads is GStreamer's.  Read with the models beside it, it has hazards of
its own: `NotifyEOS` stores the task's id and pending flag after it has scheduled the
task, so the flag may stay set; `IdleCallbackOnEOS` may clear the id of a later task; an
ASYNC_DONE may overwrite the id of the buffering timer; a pause during the buffering of an
underflow is swallowed (`main_aamp.cpp:650`).

Hazards of the code that no property covers, and `PROJECT.json` does not list: a Seek with
AsyncTune in a player still idle, on the caller's thread beside a Tune that is queued or
starting (`main_aamp.cpp:977`), where caller and scheduler may also be in
StopPausePositionMonitoring at once; the main loop's seek beside Stop's teardown (1018,
see section 5); the HLS
`SwitchSubtitleTrack` beside the injector, the unlocked read in `SendEvent`, the cache
flush without `mMutex`, the join in `PacketSender::Close`, the user count of
`AampCurlStore`, and the wait of `priv_aamp.cpp:1918` for the end of a discontinuity,
which has no predicate.

## 7 Plan

Done, in the order of importance: AampScheduler with SerialExecutor, the scheduler every
command passes; FragmentTrack with FragmentChannel, the ring every fragment passes;
AampEventManager with EventMailbox, Discontinuity, AampCacheHandler and Player, whose
threads meet in more than one lock; DrmSessionManager and AdManager.  All have proofs of
their safety properties, AdManager of those that hold for every stream.

Left, in this order:

1. PacketSender and AampCurlStore, each one queue or map with a counter.
2. The chunk ring as a second instance of FragmentTrack.
3. The wait for the end of a discontinuity in the DASH collector
   (`WaitForDiscontinuityProcessToComplete`), in Discontinuity.
4. Pure parts as operators against a reference definition: `uint33_t`, base64, the owner
   priorities of AampConfig, the choice of a profile.
