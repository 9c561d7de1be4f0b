# TLA+ models of gvisor-ligolo

This directory holds TLA+ specifications of the concurrent parts of this gVisor
tree. TLC checks them. Each module is translated from the Go source under
`src/`. `PROJECT.json` lists the following:

- the component each module models;
- the source lines behind every definition (`map`);
- the runs;
- a mutant for each checked property;
- the findings;
- the hazards.

## 1. Inventory of the system

| Component | Source | State it keeps | Operations |
|---|---|---|---|
| AIO contexts | `pkg/sentry/mm/aio_context.go` | `aioManager.contexts` maps ring address (the ID) to context. Each `AIOContext` keeps `outstanding`, `maxOutstanding`, `results`, `dead` and `requestReady` (a channel of capacity 1). | `NewAIOContext`, `DestroyAIOContext`, `LookupAIOContext`, `Prepare`, `FinishRequest`, `PopRequest`, `CancelPendingRequest`, `Drain`, `WaitChannel`, `destroy`, `checkForDone`, `CopyMapping` (mremap), `RemoveMapping`, `destroyAIOManager` |
| VFS dentry lifecycle | `pkg/sentry/vfs/dentry.go` | `Dentry.mu`, `dead`, `evictable`, `mounts`; the VFS `mountMu` and the mountpoints table | `Prepare/Abort/CommitDeleteDentry`, `Prepare/Abort/CommitRename{Replace,Exchange}Dentry`, `InvalidateDentry`, `forgetDeadMountpoint` |
| Sandbox supervisor | `runsc/sandbox/sandbox.go` | sandbox `Pid`, `child`, `status` under `statusMu`, `ControlAddress` | `New`, `createSandboxProcess`, `Wait`, `WaitPID`, `destroy`, `DestroyContainer`, `waitForStopped`, `IsRunning` |
| Loader process table | `runsc/boot/loader.go` | `l.processes` maps execID to execProcess (under `l.mu`); `portForwardProxies` | `run`, `createSubcontainer`, `startSubcontainer`, `destroySubcontainer`, `executeAsync`, `waitContainer`, `waitPID`, `signal*`, `startGoferMonitor` |
| Controller RPCs | `unnamed/part_000` (boot/controller.go) | `startChan` and `startResultChan`, both unbuffered | `StartRoot`, `Restore`, `Checkpoint`, `Create/Start/DestroySubcontainer`, `ExecuteAsync`, `Wait`, `WaitPID`, `Signal` |
| Mmap layout | `pkg/sentry/arch/arch.go` | none (a pure function) | `NewMmapLayout`, `MmapLayout.Valid` |
| Not modelled | see `PROJECT.json` components | | |

### How the parts interact

- The AIO context is driven by four syscalls and by the memory manager:
  - io_setup creates a context.
  - io_submit looks it up, `Prepare`s and then cancels or completes the request asynchronously.
  - io_getevents pops results and blocks on `requestReady`.
  - io_destroy unmaps the ring, destroys the context, then loops: it `Drain`s and sleeps uninterruptibly on `requestReady` until the channel is nil.
  - munmap, mmap and mremap of the ring run concurrently with all of these.
  - `destroyAIOManager` runs at address-space teardown.
- The runsc supervisor (sandbox) talks to the boot process (controller and loader) over RPC. The loader keeps the process table that the controller's RPCs read and change. A gofer-monitor goroutine kills a container when its gofer goes away.

### Hard behaviours

These are listed with their source lines as `hazards` in `PROJECT.json`:

- the capacity-1 notification channel, which loses wakeups;
- the close-exactly-once of `requestReady`;
- underflow of `outstanding`;
- a context looked up without a reference and used after io_destroy;
- mremap overwriting the ID map;
- `l.mu` held across task exit;
- the lookup, wait and delete windows of `waitPID`;
- unbuffered start handshakes;
- the start-sync pipe `New` blocks on, and a `New` that fails halfway;
- a partially failed Restore;
- racing `Wait` calls;
- the bounded poll in `waitForStopped`;
- lock order in rename;
- the layout clamps.

### What makes each component correct

- **AIO.** No panic. `outstanding` equals the prepared requests that have not been cancelled, popped or drained. `requestReady` is closed exactly when the context is dead and empty. Every live context is reachable from the map. io_destroy returns.
- **Dentry.** No mount is left on a dead dentry. Rename and delete cannot deadlock against mount.
- **Loader.** A destroyed container has no process entries. Every waitPID returns.
- **Sandbox.** `New` returns, and a failed `New` leaves nothing behind. Every Wait on the root returns the same status.
- **Layout.** `NewMmapLayout` returns EINVAL or a valid layout inside `[min, max]`. It never panics. The model shows that it can panic (see `MmapLayout.tla`).

## 2. Plan

Modules are listed in order, most important behaviour first:

1. `AIOContext` (done): the context, the manager map and the syscall threads that drive them.
2. `LoaderProcesses` (done): the `l.processes` table with the create, start, exec, waitPID, destroy and signal RPCs and the gofer monitor.
3. `ControllerStart` (done): the StartRoot and Restore handshakes between the supervisor's call, the controller's handler and the boot goroutine. `SandboxStart` composes it with `SandboxWait`.
4. `SandboxWait` (done): `Sandbox.New`, then the supervisor's `Wait` and `destroy` over a sandbox process whose exit is reaped once.
5. `DentryMount` (done): delete, rename and invalidate against mount and umount. The mount code is not under `src/`, so mount is modelled from the spec.
6. `MmapLayout` (done): `NewMmapLayout` as an operator over exact 64-bit unsigned arithmetic, checked against `Valid`.
7. `ReclaimSet` (done): the segment-set B-tree of `pgalloc`, refining the abstract `SegmentSet`.

Two abstract specifications are worth stating:

- an abstract AIO queue, in which requests are reserved, completed and delivered once, with `AIOContext` refining it;
- an abstract "container lifecycle" that `LoaderProcesses` refines.

Still to do: the two abstract specifications. The map covers source lines from `arch.go`, `aio_context.go`, `loader.go`, `sandbox.go`, `reclaim_set.go`, `dentry.go` and the controller. New runs should add properties to the existing runs where the bounds allow, because each question gets one run.

## 3. What is modelled now

### `AIOContext.tla`

- **State.**
  - `mapping`: the VMA at each ring address.
  - `contexts`: `aioManager.contexts`.
  - `ctx`: the fields of each `AIOContext`. `ready = "nil"` means the channel has been closed and nilled. `token` is the channel's one buffered slot.
  - `req`, `wthr`, `dthr`: the progress of each io_submit request, io_getevents thread and io_destroy thread.
  - `mmAlive`: whether the address space is still alive.
  - `panicked`: whether the code has reached a panic.
- **Methods as operators.** Each AIOContext method is an operator from the record to the new record plus a panic flag: `CheckForDone`, `Destroy`, `PrepareResult`, `Popped`, `Finished`, `Cancelled`, `Drained`. Each locked method is one atomic step, as `ctx.mu` makes it.
- **Syscall threads.** Each thread is split at the points where the code releases every lock:
  - lookup, then Prepare;
  - Pop, then WaitChannel, then block;
  - unmap, then destroy, then Drain, then WaitChannel, then block.
- **Callers.** The syscall callers are not under `src/`, so their control flow comes from the spec and is marked `spec_modelled`.
- **io_getevents** is modelled for one event per call (`nr = 1`).

### Fairness

- **Weak fairness** applies to each step of a started syscall and to the completion or cancel of each prepared request.
- **Strong fairness** applies to a blocked thread's wakeup, which is enabled only intermittently. Go wakes the receivers on a channel in FIFO order.
- **No fairness** applies to starting a syscall, to munmap, mmap and mremap, to timeouts, or to process exit.

### Runs

| Run | Result | What it shows |
|---|---|---|
| `aio_safety` | pass | In every interleaving (2 addresses, 2 context objects, 2 requests, 1 waiter, 1 destroyer, capacity up to 2), no panic is reached, the `outstanding` accounting holds, and the channel is closed exactly when the context is done. In every behaviour where the io_getevents thread never starts, io_destroy returns (`IoDestroyReturnsAlone`). About 2.2M states; no symmetry reduction, because the run checks a liveness property. |
| `aio_destroy_lost_wakeup` | violation | io_getevents steals the single notification and pops one of two queued results. io_destroy then sleeps forever (finding 1). |
| `aio_mremap_overwrite` | violation | mremap of a ring onto another ring drops a live context from the map (finding 2). |

Two requests is the smallest bound at which a second completion can find the channel's slot full. Two addresses and two contexts are the smallest bound at which mremap can move a ring onto another ring. A capacity of 2 lets `EAGAIN` occur (capacity 1 with 2 requests) and also lets two results queue up.

### Mutants

Each property of a passing run is broken by one plausible bug:

- an off-by-one in `Prepare`;
- `Drain` without its early return;
- `PopRequest` without its decrement;
- `CancelPendingRequest` without `checkForDone`;
- `FinishRequest` without the notify.

### `LoaderProcesses.tla`

- **State.**
  - `processes`: `l.processes`. It maps `<<cid, pid>>` keys to `[tg, pidnsPath, hostTTY]`, or to `NoEntry`.
  - `tgs`: the kernel's thread groups, each with its state, whether a clone is in flight, its container ID and its PID namespace. A namespace is named by the init process that created it, or by `"root"`.
  - `mu`: `l.mu`, but only where a handler holds it across steps (`destroySubcontainer` and the gofer monitor's kill).
  - `rootRun`: whether `run()` is pending, running or has failed.
  - `monitor`: each container's gofer-monitor goroutine.
  - `dthr`, `wthr`: the destroy and waitPID handlers in flight.
  - `startCalls`: the runsc client's record of which containers it has started.
- **Actions.** Every handler that does all its work under `l.mu` is one step: `CreateSubcontainer`, `StartSubcontainer` (including the whole of `createContainerProcess`), `Run`, `ExecuteAsync`. `StartSubcontainer` takes as an input the point at which it fails: `createProcessArgs`, before the gofer monitor starts, after it, or not at all. Each failure point has its own effects on the entry and on the monitor.
- **Split handlers.** These are split where the code releases `l.mu` or blocks:
  - `waitPID`: lookup, `WaitExited`, delete;
  - `destroySubcontainer`: lock and look up, then Pause and SIGKILL, then wait for the tasks it enumerated, then delete and unlock;
  - gofer monitor: hangup, lock and look up, then Pause and SIGKILL.
- **Signals.** `Signal(c, pid, mode)` is `signal` (the Signal RPC, and `run()`'s forwarding of host signals to the root init) with SIGKILL, the signal whose effect the model tracks. The three modes go through `signalProcess` (`SignalProcessTarget`: the exec entry, else the TGID in the root PID namespace if `ContainerID()` matches), `signalForegrondProcessGroup` (`ForegroundGroups`: the thread group itself, or a foreground group of the container's session; `ep.tty` is not tracked, so a missing TTY is the error case), and `signalAllProcesses` (`KillAll`). The lookups are under `l.mu` and the send after the unlock. The send acts only on thread-group pointers or the container ID already resolved, so the call is one step. Errors change nothing. The callers are `Sandbox.SignalContainer` (PID 0, mode "process" or "all") and `Sandbox.SignalProcess` (mode "process" or "fg"), the runsc side, which picks the mode from its flags. Each thread group records in `killedBy` the container its SIGKILL was addressed to. Signals are enabled by the constant `SignalRPC`, which only `loader_destroy_returns` sets: in `loader_safety`'s larger configuration they take the state space past what a run can afford.
- **Application.** The application's processes clone (in two steps, so that a clone can be in flight), exit, or die once SIGKILLed. These are kernel behaviours, modelled from the spec. `k.Pause()` is modelled as two rules: no clone starts while a kill is pending, and the kill waits until no clone is in flight.
- **Client assumptions.** The runsc client's ordering is an assumption of the model, not code in `src/`:
  - subcontainers start only after the root runs;
  - each created container is started at most once, when `ClientStartsOnce` is TRUE. Every run sets it. Without it, a repeated start that fails nils `ep.tg` of a running container (`loader.go:869`), and a destroy then returns without killing it; only a client that ignores the container state can do that.
- **Fairness.**
  - Weak fairness applies to handler steps, clone completion and the death of a killed process.
  - Strong fairness applies to acquiring `l.mu`.
  - No fairness applies to a process exiting on its own or to client calls.

| Run | Result | What it shows |
|---|---|---|
| `loader_safety` | pass | With the root, one subcontainer, 3 thread groups, a named PID namespace `"p"` and one waitPID goroutine (about 3.8M states): every table entry points at a process of its own container (`TypeOK`), and a destroy that returns success leaves no live process of the container, whatever clones were in flight. |
| `loader_destroy_returns` | pass | With the root, one subcontainer and 3 thread groups, and SIGKILLs sent in every delivery mode to any PID at any time (about 930k states): `destroySubcontainer` always returns, and no kill reaches a process of another container (`KillStaysInContainer`, broken when `signalProcess` drops its `ContainerID` check). |
| `loader_pidns_nil_tg` | violation | A start that fails after recording the namespace path makes the next start that names that path dereference a nil thread group (finding 3). |

The bounds: three thread groups are enough for an init process, an exec'd process or clone, and a clone of that. Two subcontainers are needed only for finding 3.

- **Elsewhere.** `Loader.New` and `waitContainer` are in `SandboxWait`, where the supervisor meets them.
- **Not modelled.**
  - `portForward`: under `l.mu`, it looks up the container's thread group, fails while it is nil, and appends a proxy to `l.portForwardProxies`; the proxy's cleanup removes it under `l.mu`. The proxy package that runs those cleanups is not under `src/`, and both runs of this module are at the limit of what a run can afford.
  - `Loader.Destroy`: `runsc boot` (not under `src/`) calls it once the kernel is done.

### `SandboxWait.tla`

This module models the runsc supervisor's side of one sandbox process (`runsc/sandbox/sandbox.go`). Several goroutines of one runsc process share the `Sandbox`.

- **State.**
  - `sbx`: the sandbox process. It is not started yet (`"none"`, only while `New` runs), running, a zombie, or reaped. It carries the status it exited with:
    - `"exit"` when it exits after a root container that exited;
    - `"exit128"` when it exits after a root container killed by a signal, because `Main` (`boot/debug.go`) exits with 128 + the signal;
    - `"sigkill"` when it is killed;
    - `"boot"` when the boot process exits after a failed start or on a fatal setup error.
  - `appDone`: how the root container ended (`"exit"` or `"signal"`), so the `ContMgrWait` RPC can answer with it.
  - `npc`: where `Sandbox.New` is. It is `"none"` when this runsc loaded a sandbox another runsc created, and `"ok"` or `"err"` once `New` returned.
  - `sock`: `s.ControlAddress`: none yet, a socket file, that file removed, or an abstract address.
  - `synced`: the boot process wrote its byte to the start-sync pipe.
  - `bpc`: the boot process's startup stage. It is `"serving"` for a loaded sandbox.
  - `pidVal`: `s.Pid` (set, or `"0"` once cleared).
  - `pidOwner`: who owns that PID number now. It is the sandbox, nobody (after the reap), or an unrelated process that reused it.
  - `status` and `statusMu`: `s.status` and `s.statusMu`.
  - `wthr` and `dthr`: the `Wait(root)` and `destroy` goroutines.
  - `strayKill`: set when a SIGKILL reached a process other than the sandbox.
- **Actions.**
  - `Wait` has three steps:
    - `WaitConnect`: `sandboxConnect`.
    - `WaitRPC`: the RPC answers once the container has exited, or fails once the sandbox is gone.
    - `WaitStatus`: the fallback read of `s.status`, which is an error for a non-child.
  - `destroy` has three steps:
    - `DestroyLoad`: load `s.Pid`.
    - `DestroyKill`: `kill(SIGKILL)`; ESRCH is ignored.
    - `DestroyCheck`: `DestroyContainer` drops the error when `!IsRunning`.
  - `waitForStopped` is shared by both:
    - `WfsLock` then `Wait4` for a child. `Wait4` blocks holding `statusMu`, then stores the status and clears `s.Pid`.
    - `WfsPoll` for a non-child: IsRunning is false, or the 5 s budget runs out.
  - `Sandbox.New` runs in the `Creator` goroutine. Every error return runs the cleanup registered first, a `destroy` by `Creator`:
    - `NewInit`: the pod init config and the sync pipe, either of which may fail.
    - `NewControlSocket`: `createSandboxProcess` up to `createControlSocket`, which ends on a socket file or an abstract address (`ControlAddresses`).
    - `NewPrepare` and `NewStart`: the rest of the command's setup, then `StartInNS`; each may fail.
    - `NewStore`: `GetOOMScoreAdj` and `SetUserMappings`, then `s.child` and `s.Pid` are stored. A failure here leaves the started boot process unknown to `destroy`.
    - `NewSync`: the blocking one-byte read of the sync pipe. It gets the byte, or EOF once the boot process is gone, because `New` closed its own write end.
    - `NewMetrics`: the optional `MetricsGetRegistered` call.
    - `NewFailed`: the cleanup's `destroy` returned, and `New` returns its error.
  - The boot process starts up in stages (`bpc`), and any stage can hit a fatal error. `util.Fatalf` then exits before the sync byte is written (`BootStage`):
    - `BootMain`: `Main` in `boot/debug.go`: flags, configuration and log files;
    - `LoaderNewSetup`: `boot.New` up to `k.Init`;
    - `LoaderNewServe`: the rest of `boot.New`, ending with the control server serving on the donated socket;
    - `BootSync`: the boot command writes the sync byte. This step is spec_modelled, because `runsc/cmd/boot.go` is not under `src/`.
  - The Wait RPC's server side is `containerManager.Wait` → `Loader.waitContainer`. `threadGroupFromID` fails while the root's thread group is nil (`WaitNotStarted`). Otherwise `l.wait(tg)` returns once the group exited, with its status (`WaitExited`).
- **Input.** `root` is the root container as the boot process reports it: `"pending"` while its thread group is nil, `"known"`, `"running"`, or `"failed"` when `Loader.Run` failed. The module never changes `root`. On its own it is `"running"`, as the violation runs below use it; `SandboxStart` drives it from the start handshake. A Wait RPC for a pending root fails at once, the container can exit only when it is running, and `BootExit` is the boot process exiting after a failed `Run`.
- **Environment.**
  - The container exits (`Loader.WaitExit`).
  - The sandbox exits with the root's status, converted by `Main`.
  - A non-child is reaped by its real parent.
  - The host reuses the PID.
- **Fairness.**
  - Weak fairness applies to goroutine steps, to every step of `New` and its cleanup, to the boot process syncing or dying, and to the sandbox exiting after its root container.
  - Strong fairness applies to `statusMu`.
  - No fairness applies to starting a call, the container exiting, the host's reaping, or PID reuse.

| Run | Result | What it shows |
|---|---|---|
| `sandbox_wait_disagree` | violation | One `Wait` returns the container's status from the RPC; a later one falls back to the reaped status of the boot process. TLC's shortest trace has the container killed by a signal: the first `Wait` sees the signal, the second sees exit code 128 + the signal. With a `destroy` that kills the sandbox between the two exits, the second sees SIGKILL. |
| `sandbox_stray_kill` | violation | `destroy` loads `s.Pid` outside `statusMu`. In the reported trace the sandbox is not runsc's child: the container and the sandbox exit, the sandbox's real parent reaps it (`ParentReap`), and the PID is reused. `destroy`'s SIGKILL then hits an unrelated process. With `child` true the same happens when a concurrent `Wait`'s `waitForStopped` reaps it with `wait4`; TLC reports the shorter trace. |

- **Initial states.** Either a loaded sandbox (child or not, running, synced, with a socket file), or a `New` about to start.
- **Bounds.** Two waiters are the fewest that let one `waitForStopped` find the PID already reaped by another, which is what the `Wait4NoClear` mutant breaks. One destroyer is enough for both races.
- **Mutants** (checked under `sandbox_lifecycle`, below). Each checked property has a mutant that breaks it:
  - an early return that keeps `statusMu`;
  - a `Wait4` that does not clear `s.Pid`;
  - a `destroy` that never sends the SIGKILL;
  - a `New` that keeps its own write end of the sync pipe open, so its read never sees EOF (breaks `NewReturns`);
  - a `New` that returns its sync error without the cleanup (breaks `NewCleanup`).
- **Not checked.** If `GetOOMScoreAdj` or `SetUserMappings` fails (sandbox.go:1058-1066), `s.Pid` is never stored. The cleanup's `destroy` then loads 0, and the boot process is left running, unreaped, after `New` failed. The run reaches this state, but no property names it: it would be violated, and there is no run slot left for it. It is listed as a hazard.

### `ControllerStart.tla` and `SandboxStart.tla`

The root container starts through three goroutines in two processes:

- the supervisor's call: `Sandbox.StartRoot`, or `Sandbox.Restore` for `runsc restore`;
- the controller's handler for it: `containerManager.StartRoot` or `.Restore`;
- the boot process's main goroutine: it blocks in `WaitForStartSignal`, then runs `Loader.Run`.

Handler and main goroutine meet twice on unbuffered channels. `startChan` says "start now"; `startResultChan` carries `run()`'s error back.

- **State.** `call` is the supervisor's call: its kind (chosen in `Init`), position and result. `srv` is the handler's position and the error it returns. `boot` is the main goroutine: waiting, running `run()`, started, or failed. The loader's bookkeeping:
  - `lk` is `l.k`;
  - `wd` is the kernel `l.watchdog` watches;
  - `restore` is `l.restore`;
  - `rootTg` is the kernel whose `GlobalInit` the root's `tg` is.

  Kernels are named: `K0` is the one `New` built, `K1` the one a Restore builds. Each kernel has a state (`kst`: not built, new, paused, running) and `initFrom`: whether its root init came from `createContainerProcess`, from the state file, or both. `wdStarted` is the kernel whose watchdog `run()` started.
- **Actions.**
  - `StartRootBegin` and `RestoreBegin` are the supervisor's connect, network setup and call. Any of them can fail, and connecting fails once the sandbox is gone.
  - `RestoreLoad` is the Restore handler up to the start signal. It pauses `l.k` and has three outcomes:
    - `createPlatform` or `createMemoryFile` fails (`"early"`);
    - after `cm.l.k = k`, `configureRestore`, the state-file checks, the seccomp install or `Load` fails (`"late"`);
    - success: the kernel, watchdog, restore flag and process table are replaced.
  - `StartSignal` is the `startChan` rendezvous.
  - `Run` is `run()` and the `startResultChan` rendezvous. It can fail before it changes anything. On success it creates the root init unless restoring, sets the root's `tg` to `l.k.GlobalInit()`, and starts `l.watchdog` and `l.k`.
  - `CallReturn` delivers the handler's reply, or an error once the sandbox process is dead.
- **Composition.** `SandboxStart` instantiates both modules. It keeps two inputs as variables of its own, because TLC cannot evaluate variables replaced by expressions over another module's variables at this nesting:
  - `alive`, the handshake's input, is whether the sandbox process runs; every supervisor step updates it;
  - `root`, `SandboxWait`'s input, is derived from `boot` and `rootTg`; every handshake step updates it.

  Its next-state relation lists every action of both modules, so coverage shows each one firing. So a destroy can kill the sandbox anywhere in the handshake. A root `Wait` can begin before the root has a thread group and fall back to `waitForStopped`.
- **Fairness.** Weak fairness applies to the handler and main goroutine steps and to the call returning. The call itself is the client's choice. `SandboxWait`'s fairness is kept, plus weak fairness for `BootExit`: `Run` sleeps 2 s and returns its error, and the boot process exits.
- **Bounds.** One start call of either kind (the supervisor sends one per sandbox), two root `Wait`s, one `destroy`, and either a loaded sandbox (child or not) or a `New`: 89,172 distinct states. The handshake only starts once `New` returned (`SW!Created`).

| Run | Result | What it shows |
|---|---|---|
| `sandbox_lifecycle` | pass | The properties of `SandboxWait` hold with the start in front of them:<br>- No `Wait` fails or returns a status nobody reaped. This includes a `Wait` whose RPC said "not started".<br>- Once a destroy starts, every `Wait` and the destroy return.<br>`StartResultAgrees`: a start call that reports success leaves `l.k`, the root's thread group and the started watchdog on one running kernel.<br>`OneInitPerKernel`: a restored kernel never also gets a fresh root init.<br>`StartCallReturns`: the start call returns, whether the root starts, `Run` fails, or a destroy kills the sandbox mid-handshake.<br>`NewReturns`: `New` returns, also when the boot process dies before it syncs.<br>`NewCleanup`: a failed `New` leaves no socket file and no unreaped stored child. |

- **Mutants.**
  - A Restore that does not store the new watchdog in `l.watchdog` breaks `StartResultAgrees`: `run()` starts the old kernel's watchdog.
  - A `run()` that creates the root process even when restoring breaks `OneInitPerKernel`.
  - A `conn.Call` that waits only for a reply, and misses the closed connection, breaks `StartCallReturns` when a destroy kills the sandbox mid-start.
- **Spec and code.** The spec says Restore replaces the loader's bookkeeping atomically: the kernel pointer, watchdog, process table and restore flag. `containerManager.Restore` assigns `cm.l.k = k` (part_000:468) before `configureRestore`, the state-file checks, the seccomp install and `Load`. A `"late"` failure therefore returns with `l.k` on the new, unloaded kernel, while `l.restore`, the watchdog and the process table still describe the paused old kernel. An invariant stating atomicity fails on every such path. It is not one of the runs, because the project keeps one run per question and the run slot went to the layout panic. `StartResultAgrees` checks what a caller can observe: such a Restore is never reported as a started sandbox.
- **Not modelled.** A second start call: it would block on `startChan` forever, because the main goroutine receives once. The container state machine that prevents one is outside `src/`. `containerManager.Checkpoint` saves `cm.l.k` together with `cm.l.watchdog`. After a late Restore failure these name different kernels (see "Spec and code"), but `control.State.Save` is outside `src/`, and the restore divergence has no run slot of its own. The other RPCs (`Processes`, `Event`, the trace and usage calls, `Pause`/`Resume`) read or forward one call and change no state the models keep.

### `ReclaimSet.tla` and `SegmentSet.tla`

`pgalloc.reclaimSet` (`pkg/sentry/pgalloc/reclaim_set.go`) is the B-tree segment set generated from `pkg/segment`. The page allocator keeps the ranges it still has to reclaim in it.

- **`SegmentSet` (abstract).** A set `segs` of non-empty, disjoint half-open ranges, and `call`, the method call that made the last step, with its arguments (an iterator argument is the range of the segment or gap it points at). Each mutating method is one action of the call, written from the method's doc comment: its precondition (what the code panics on) and its exact effect on the set:
  - Add (merges with touching neighbours), AddWithoutMerging, InsertWithoutMerging (the gap must hold the range), Remove (the segment holding the key), RemoveAll and RemoveRange;
  - MergeAll, MergeRange (joints strictly inside r), MergeAdjacent (the start of the segment holding r.Start and the end of the one holding r.End-1), and Merge (two neighbours, joined only if they touch);
  - Split, SplitAt and ApplyContiguous;
  - SetRange, SetStart and SetEnd (one segment takes a new range that overlaps no other);
  - SaveRestore, which leaves the set as it was.

  `Next` takes the call from `call'` and allows only that method's effect, so a step is checked against the one call that made it.
- **`ReclaimSet` (the code).**
  - **State.** `nodes` is a table of nodes indexed by identifiers. Each node holds its `keys` (a sequence of ranges), its `children`, and its `parent`, `parentIndex` and `hasChildren`. Node 0 is the embedded root. A node no pointer reaches is free, and a split takes the lowest free identifier.
  - **Operators.** Every Go function is an operator from a table (and iterators) to a new table (and iterators):
    - `Find`'s binary search;
    - the iterator navigation;
    - `rebalanceBeforeInsert` (root split and non-root split);
    - `rebalanceAfterRemove` (rotate from the previous or next sibling, root collapse, sibling merge, then up to the parent);
    - the queries `FirstSegment`/`LastSegment`, `FirstGap`/`LastGap`, `LowerBound`/`UpperBound` of segments and gaps, `PrevNonEmpty`/`NextNonEmpty`, and the gap iterator's `PrevGap`/`NextGap`;
    - `ExportSortedSlices` and `ImportSortedSlices`, which `saveRoot` and `loadRoot` call when the set is saved and restored with the sentry;
    - `Insert` with its two merges, `Remove` of an internal segment through its predecessor, `SplitUnchecked`, `Isolate`, and the loops of `RemoveRange`, `MergeAll`/`MergeRange` and `ApplyContiguous`.

    A LET-bound result used several times is passed on as a parameter of the next operator instead, for example `SplitResult(seg2)` or `RemoveRangeLoop(rm, r)`. This keeps the model's call structure close to the Go statements.
  - **Actions.** One action per public method, `Call<Method>`, enabled when the method is in `Ops`. The methods that take iterators (`InsertWithoutMerging`, `Merge`, `Split`, `SetRange`, `SetStart`, `SetEnd`) are given every segment or gap the tree holds (`SegIts`, `GapIts`). Their panics on a bad argument are guards: a panic ends the sentry, so such a call takes no step. Each action also sets `call`, the history variable the refinement mapping passes to `SegmentSet`; no action reads it. `CallSaveRestore` saves the set and loads the result into a fresh set. The Set is thread-compatible, and the allocator calls it under its own lock, so each call is atomic.
  - **Left out.** `reclaimSetValue` is an empty struct, so values are dropped. `trackGaps` is 0, so every `maxGap` update is dead code and is also left out.
- **Refinement.** `Abs == INSTANCE SegmentSet WITH segs <- Segs` (and `call` for `call`) maps the tree to the set of ranges its live nodes hold (`SegsOf`). `Sorted` separately checks that an in-order walk visits them in key order. `AbsSpec` is that instance's `Spec`, so every transition must be the named method's effect with the named arguments. Because `call` is read by no action, `MC_ReclaimSet_tree.cfg` sets `VIEW NodesView` (the tree alone): states that differ only in `call` have the same successors and are explored once. TLC still checks `AbsSpec` on every transition, including those into states already seen.

| Run | Result | What it shows |
|---|---|---|
| `reclaim_tree` | pass | Over keys 0..9, ranges of any length, minDegree 3 (8,312 states, about 2.8 million transitions; two-level trees with up to three leaves):<br>- `BTreeOK`: node sizes, child counts, parent and parentIndex back-pointers, and equal leaf depth hold.<br>- `Sorted`: the ranges stay in key order.<br>- `FindAgrees`: `Find` returns the segment, or else a gap whose bounds hold the key.<br>- `IteratorsAgree`: the forward gap walk from `FirstGap` and the backward walk from `LastGap` each visit exactly the gaps between the sorted ranges. `LastSegment`, the upper and lower bounds and `Prev`/`NextNonEmpty` return what the sorted list of ranges says for every key.<br>- `RestoreRoundTrip`: saving the set and loading it into a fresh one never fails, and gives the same ranges in the same order.<br>- `QueriesAgree`: `Span` and `SpanRange` count exactly the keys held, and `IsEmptyRange` holds exactly when `SpanRange` is 0, as its doc comment claims.<br>- `NeighboursMerged`: `MergeAll` leaves no two touching segments; and from a state without any, `Add`, `Remove`, `RemoveRange`, `MergeRange` and `MergeAdjacent` never create one. This is the package's "mergeable neighbours are merged".<br>- `AbsSpec`: every call changes the set of ranges exactly as `SegmentSet` says for that method and those arguments. This covers the iterators the methods hand to each other inside the calls (the gap `Remove` returns to `RemoveRange`'s loop and to `Insert`, the segments returned by `SplitUnchecked` to `Isolate`), which a wrong fix-up would break. |

- **Bounds.** minDegree 3 is the smallest degree the generated code's invariants allow (a non-root node has at least 2 keys). With keys 0..9, trees reach a root with two keys over three leaves, so a leaf that is not the root splits. `MaxLen` bounds the length of the ranges passed in; the run sets it to 9, so every range is tried. That is enough for both split cases, both rotations, the root collapse and the sibling merge, and for the `parentIndex` shifting they need. Removing a root key of a two-level tree goes through the internal-node `Remove` (the predecessor's range copied over it, then the leaf removal), so that path is exercised. The rotations and merges that move children between internal nodes (`hasChildren` true) need three-level trees, which need many more keys, and are out of reach. Those branches are translated the same way but are not exercised.
- **Mutants.**
  - `SplitAt` without its `CanSplitAt` guard breaks `TypeOK` (an empty range).
  - A non-root split that does not re-index the shifted siblings breaks `BTreeOK`.
  - A split that moves the wrong median key up breaks `Sorted`.
  - `Find` with an inclusive end bound breaks `FindAgrees`.
  - `IsEmptyRange` with `<` for `<=` breaks `QueriesAgree`.
  - An internal-node `Remove` that returns the gap left where its predecessor was, not the gap after the removed range, breaks `AbsSpec`: `RemoveRange`'s loop then continues from the wrong place. (`Isolate` keeping the wrong half at `r.End`, and `Insert` without its second merge, break it too.)
  - `Insert` without its second merge breaks `NeighboursMerged`.
  - `UpperBoundGap` taking the gap after the segment instead of the one before breaks `IteratorsAgree`.
  - `ImportSortedSlices` reusing the gap the insert invalidated breaks `RestoreRoundTrip`: the next range fails the superset check, and `loadRoot` would panic.

### `MmapLayout.tla`

`pkg/sentry/arch/arch.go` computes the layout of every new address space:

- `Context64.NewMmapLayout(min, max, limits)` rounds `min` up (EINVAL if that wraps) and clamps `max` to `maxAddr64` and rounds it down (EINVAL if `min > max`);
- it takes the stack gap from `RLIMIT_STACK`, clamped to `[minGap64, max/6*5]`;
- it shrinks the random range when `max - gap - maxMmapRand64` falls below `preferredTopDownBaseMin`, the range TSAN needs, and does so only if the shrink fits;
- it places `BottomUpBase = max/3 + rnd` and `TopDownBase = max - gap - rnd`, both rounded down;
- it panics if `Valid` rejects the result.


- **Arithmetic.** `hostarch.Addr` is a `uint64` that wraps, and the wrap is the point. TLC's integers are 32-bit, so a value is four 16-bit limbs. `AddU`, `SubU`, `LtU`, `DivSmall` and `MulSmall` carry and borrow limb by limb, modulo 2^64. The constants are built from their source expressions (`(1 << 47) - PageSize`, `maxAddr64 / 3 * 2`, ...). `MC_MmapLayout` checks, as `ASSUME`s, that the limb operators agree with integer arithmetic on small values and wrap at 2^64. The model's results were also compared with a direct 64-bit evaluation of the Go code on every input below: the same outcome, bases and `MaxStackRand`.
- **From the spec (`spec_modelled`).** `hostarch` and `limits` are not in the tree: `RoundUp`, `RoundDown`, `AddLength` and `limits.Infinity` follow their documented behaviour.
- **State and actions.** `NewLayout` is one call with inputs chosen from the constants `MinIn`, `MaxIn` and `StackIn` and one random draw. `result` is EINVAL, the panic (with the layout that failed `Valid`), or the layout. `rand.Int63n(n)` returns 0, `n/2` or `n-1`: the smallest, a middle and the largest draw.
- **Bounds.** `min` is 0, 4097 (rounded up) or 2^64-1 (RoundUp wraps). `max` is 2^64-1 (clamped to `maxAddr64`), 8 TB, 4 TB, 1 TB, 256 GB or one page. The stack limit is 8 MiB, 512 GB (at the full address space, the gap for which shrinking `maxRand` fits), 64 TB or `RLIM_INFINITY` (which also selects bottom-up). Together these reach every branch: both clamps of the gap, the shrink of `maxRand` and the case where it does not fit, and EINVAL from both checks.
- **Not modelled.** `PIELoadAddress`, which picks the ELF load base from a returned layout. It changes no state, and no property here is about the address it picks.

| Run | Result | What it shows |
|---|---|---|
| `mmap_layout_panic` | violation | `LayoutNeverPanics` fails. With `max` = 256 GB and an 8 MiB stack, any draw above about 240 GB makes `max - gap - rnd` wrap, and `TopDownBase` lands near 2^64. With 1 TB, the highest draw puts `BottomUpBase = max/3 + rnd` above `max`. With 4 TB, the same happens once the task raises `RLIMIT_STACK` to 64 TB or unlimited, so an unprivileged setrlimit decides whether the sentry panics. The interface comment promises a layout inside `[min, max]`, and the spec reserves panics for broken invariants. With the full 47-bit space and 8 TB, every input gives a valid layout. |

### `DentryMount.tla`

`pkg/sentry/vfs/dentry.go` gives filesystem implementations a locking contract for deleting, renaming and invalidating a dentry while mounts come and go:

- `PrepareDeleteDentry` and `PrepareRenameDentry` check, under `vfs.mountMu`, that the dentries are not mount points in the caller's namespace (else `EBUSY`), lock their `d.mu` (for rename: `to` first, then `from`), drop `mountMu` and return holding the dentry locks.
- `Abort*` unlocks. `CommitDeleteDentry` and `CommitRenameReplaceDentry` set `dead` on the dentry that goes away and unlock; then, apart, `isMounted` decides whether `forgetDeadMountpoint` must take `mountMu` and umount every mount on it, in every namespace.
- `InvalidateDentry` does the same for a dentry whose file went away behind the VFS. `MarkEvictable` sets a hint under `d.mu`.

- **State.** `mountMu` and each `mu` hold a goroutine or `NoHolder`; `dead`, `evictable`; `mountpoints[n][d]` is `mntns.mountpoints[d]` of namespace `n`, and `d.mounts` is their sum (`Mounts`). `thr` is each goroutine's position in its call and the call's arguments.
- **Actions.** One action per step between two lock operations: `PrepareDeleteLockMount` (lock, EBUSY check) and `PrepareDeleteLockDentry`; `PrepareRenameLockMount`, `PrepareRenameLockTo`, `PrepareRenameLockFrom`; `Abort*`, `Commit*`; `CheckMounted` (the `isMounted` test after the unlock); `ForgetDeadMountpoint`; `InvalidateDentry`; `MarkEvictable`.
- **From the spec (`spec_modelled`).** `vfs/mount.go` is not in the tree. Mount takes `mountMu`, then the mount point's `d.mu`, refuses a dead dentry (`ENOENT`) and otherwise connects; umount takes `mountMu` only. `Begin` is the filesystems' use of the contract: they call Prepare, then Abort or one Commit.
- **From `sys_mount.go`.** `Mount` is mount(2) and `Umount2` is umount2(2): after the capability, flag and path checks, which return an error and change nothing, both a bind mount and a new mount go to the mount path above, and umount2 to the umount path. A propagation change only sets a mount's propagation type, which no property reads.
- **Fairness.** Strong fairness on each goroutine's steps inside a call: the lock steps are enabled only while the mutex is free, and `sync.Mutex`'s starvation mode hands a contended mutex to a long-waiting goroutine. Entering a call carries no fairness.
- **Bounds.** Two goroutines, two dentries, two namespaces, at most one mount per dentry and namespace (233,524 states). Two goroutines are enough for two renames in opposite directions and for a delete or invalidate racing a mount; a third goroutine takes the state space past 6M states before liveness checking.

| Run | Result | What it shows |
|---|---|---|
| `dentry_mount` | pass | `PreparedNotMounted`: between a successful Prepare and its Abort or Commit, the dentries the filesystem works on are locked by the caller and are no mount point in its namespace.<br>`DeadMountpointForgotten`: a dead dentry is a mount point, in any namespace, only while the goroutine that killed it has its `isMounted` test or `forgetDeadMountpoint` still to run.<br>`CallsReturn`: every call returns, so the to-then-from lock order of rename cannot deadlock. |

- **Spec and code.** The specification says rename locks both dentries "atomically in address order". The code takes `to.mu` then `from.mu` in argument order. It cannot deadlock because every dentry lock is taken under `mountMu`, and no goroutine holding a dentry lock waits for `mountMu`. `CallsReturn` checks exactly this.
- **Mutants.**
  - a rename that drops the `EBUSY` check on `to` breaks `PreparedNotMounted`;
  - `CommitRenameReplaceDentry` without its `isMounted`/`forgetDeadMountpoint` breaks `DeadMountpointForgotten`;
  - `AbortRenameDentry` that forgets to unlock `to.mu` breaks `CallsReturn`;
  - an umount without its "is there a mount" check breaks `TypeOK`.
