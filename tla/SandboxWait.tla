----------------------------- MODULE SandboxWait -----------------------------
(***************************************************************************)
(* The runsc supervisor's view of one sandbox process                      *)
(* (runsc/sandbox/sandbox.go): Wait on the root container, destroy, and    *)
(* waitForStopped, which reaps the sandbox with Wait4 under statusMu and   *)
(* caches its exit status in s.status when runsc is the sandbox's parent   *)
(* (s.child), or polls kill(pid, 0) every 100 ms for at most 5 s when it   *)
(* is not. Several goroutines of one runsc process share the Sandbox.      *)
(*                                                                         *)
(* `root` is the root container as the boot process reports it: "pending" *)
(* (its thread group is still nil), "known" (set, not yet running),       *)
(* "running" or "failed" (Loader.Run failed and the boot process exits).   *)
(* This module never changes it; alone it is "running", and SandboxStart  *)
(* drives it from the start handshake (ControllerStart).                  *)
(*                                                                         *)
(* The host PID is abstracted to who currently owns the number stored in   *)
(* s.Pid: the sandbox, nobody (after the zombie is reaped), or an          *)
(* unrelated process that reused it.                                       *)
(***************************************************************************)
EXTENDS Naturals, FiniteSets

CONSTANTS
  Waiters,     \* goroutines calling Wait(root cid)
  Destroyers,  \* goroutines calling destroy (DestroyContainer(root cid))
  Creator,     \* the goroutine running New, which destroys the sandbox if New fails
  NoHolder

VARIABLES
  root,        \* the root container in the boot process (input)
  child,       \* s.child: runsc forked the sandbox and reaps it itself (fixed at creation)
  sbx,         \* the sandbox process: st "running", "zombie" or "reaped"; its exit status
  appDone,     \* how the root container's init ended: "none" yet, "exit" or "signal"
  pidVal,      \* s.Pid: "sbx" while set, "0" once cleared
  pidOwner,    \* who owns that PID number: "sbx", "free" or "other"
  status,      \* s.status, the cached wait status ("none" until set)
  statusMu,    \* holder of s.statusMu
  wthr,        \* Wait goroutines
  dthr,        \* destroy goroutines
  strayKill,   \* a SIGKILL reached a process other than the sandbox
  npc,         \* New's progress; "none" when this runsc loaded an existing sandbox
  sock,        \* s.ControlAddress: "none", a "file", that file "removed", or "abstract"
  synced,      \* the boot process wrote its byte to the start-sync pipe
  bpc          \* the boot process's startup: "main", "kernel", "serve", "serving"

newVars == <<npc, sock, synced, bpc>>
vars == <<root, child, sbx, appDone, pidVal, pidOwner, status, statusMu, wthr, dthr, strayKill, newVars>>

Threads == Waiters \cup Destroyers \cup {Creator}
Cleaners == Destroyers \cup {Creator}

(* New has returned the sandbox (or it was loaded): the OCI commands that *)
(* Wait, destroy and start it can run.                                    *)
Created == npc \in {"none", "ok"}
(* Wait statuses: the root's own ("exit", "signal"); the boot process's  *)
(* exit code for a signalled root ("exit128"); SIGKILL of the sandbox;    *)
(* the boot process's failure exit ("boot").                              *)
Statuses == {"exit", "signal", "exit128", "sigkill", "boot"}

-----------------------------------------------------------------------------
(* kill(pid, sig) on the number s.Pid held when it was loaded. *)
Signal(target) ==
  /\ strayKill' = (strayKill \/ target = "other")
  /\ sbx' = IF target = "sbx" /\ sbx.st = "running"
              THEN [st |-> "zombie", exit |-> "sigkill"] ELSE sbx

(* IsRunning: kill(pid, 0) succeeds for any live or zombie owner. *)
IsRunning == pidVal # "0" /\ pidOwner # "free"

(* A thread's next step once waitForStopped is done, by the caller. *)
AfterStopped(t) == IF t \in Cleaners THEN "check" ELSE wthr[t].next

(* waitForStopped returned an error: Wait returns it; destroy returns it  *)
(* to DestroyContainer, which checks IsRunning before passing it on.      *)
Fail(t) ==
  IF t \in Waiters
    THEN /\ wthr' = [wthr EXCEPT ![t].pc = "done", ![t].ret = "err"] /\ UNCHANGED dthr
    ELSE /\ dthr' = [dthr EXCEPT ![t].pc = "check", ![t].ok = FALSE] /\ UNCHANGED wthr

SetPc(t, pc) ==
  IF t \in Waiters
    THEN /\ wthr' = [wthr EXCEPT ![t].pc = pc] /\ UNCHANGED dthr
    ELSE /\ dthr' = [dthr EXCEPT ![t].pc = pc] /\ UNCHANGED wthr

PcOf(t) == IF t \in Waiters THEN wthr[t].pc ELSE dthr[t].pc

-----------------------------------------------------------------------------
(* waitForStopped, child: take statusMu; with s.Pid cleared return at     *)
(* once, else block in Wait4 (still holding statusMu) until the zombie is  *)
(* there, store its status and clear s.Pid.                               *)
WfsLockEarlyReturnKeepsLock(t) ==
  /\ child
  /\ PcOf(t) = "wfs"
  /\ statusMu = NoHolder
  /\ statusMu' = t
  /\ SetPc(t, IF pidVal = "0" THEN AfterStopped(t) ELSE "wait4")
  /\ UNCHANGED <<root, child, sbx, appDone, pidVal, pidOwner, status, strayKill, newVars>>

WfsLock(t) ==
  /\ child
  /\ PcOf(t) = "wfs"
  /\ statusMu = NoHolder
  /\ IF pidVal = "0"
       THEN SetPc(t, AfterStopped(t)) /\ UNCHANGED statusMu
       ELSE SetPc(t, "wait4") /\ statusMu' = t
  /\ UNCHANGED <<root, child, sbx, appDone, pidVal, pidOwner, status, strayKill, newVars>>

(* Wait4 reaps the zombie; it fails (ECHILD) if the number is not a child *)
(* of ours any more, and waitForStopped returns that error.                *)
Wait4NoClear(t) ==
  /\ PcOf(t) = "wait4"
  /\ \/ /\ pidOwner = "sbx" /\ sbx.st = "zombie"
        /\ sbx' = [sbx EXCEPT !.st = "reaped"]
        /\ pidOwner' = "free"
        /\ status' = sbx.exit
        /\ SetPc(t, AfterStopped(t))
        /\ UNCHANGED pidVal
     \/ /\ pidOwner # "sbx"
        /\ Fail(t)
        /\ UNCHANGED <<root, child, sbx, pidOwner, status, pidVal, newVars>>
  /\ statusMu' = NoHolder
  /\ UNCHANGED <<root, child, appDone, strayKill, newVars>>

Wait4(t) ==
  /\ PcOf(t) = "wait4"
  /\ \/ /\ pidOwner = "sbx" /\ sbx.st = "zombie"
        /\ sbx' = [sbx EXCEPT !.st = "reaped"]
        /\ pidOwner' = "free"
        /\ status' = sbx.exit
        /\ pidVal' = "0"
        /\ SetPc(t, AfterStopped(t))
     \/ /\ pidOwner # "sbx"
        /\ Fail(t)
        /\ UNCHANGED <<root, child, sbx, pidOwner, status, pidVal, newVars>>
  /\ statusMu' = NoHolder
  /\ UNCHANGED <<root, child, appDone, strayKill, newVars>>

(* waitForStopped, not a child: poll IsRunning until false, or give up    *)
(* with an error after the 5 s budget.                                     *)
WfsPoll(t) ==
  /\ ~child
  /\ PcOf(t) = "wfs"
  /\ \/ ~IsRunning /\ SetPc(t, AfterStopped(t))
     \/ IsRunning /\ Fail(t)
  /\ UNCHANGED <<root, child, sbx, appDone, pidVal, pidOwner, status, statusMu, strayKill, newVars>>

-----------------------------------------------------------------------------
(* Wait(root): sandboxConnect fails once the sandbox no longer serves its *)
(* control socket or destroy removed the socket file, and Wait falls back *)
(* to waitForStopped and s.status.                                        *)
Reachable == sbx.st = "running" /\ sock # "removed"

WaitConnect(w) ==
  /\ Created /\ wthr[w].pc = "idle"
  /\ wthr' = [wthr EXCEPT ![w] = IF Reachable
                                  THEN [@ EXCEPT !.pc = "rpc"]
                                  ELSE [@ EXCEPT !.pc = "wfs", !.next = "status"]]
  /\ UNCHANGED <<root, child, sbx, appDone, pidVal, pidOwner, status, statusMu, dthr, strayKill, newVars>>

(* The ContMgrWait RPC answers with the container's status once it has    *)
(* exited; for the root container Wait then waits for the sandbox to stop *)
(* and returns that status. It fails if the sandbox dies first, or at     *)
(* once if the root's thread group is still nil ("not started"), and Wait *)
(* falls back as above.                                                   *)
\* containerManager.Wait runs waitContainer: threadGroupFromID fails while
\* the container's thread group is nil.
WaitNotStarted == root = "pending"
\* Then l.wait(tg) returns once the thread group has exited, with its status.
WaitExited == appDone # "none"

WaitRPC(w) ==
  /\ wthr[w].pc = "rpc"
  /\ \/ /\ WaitExited /\ sbx.st = "running"
        /\ wthr' = [wthr EXCEPT ![w] = [pc |-> "wfs", next |-> "done", ret |-> appDone]]
     \/ /\ sbx.st # "running" \/ WaitNotStarted
        /\ wthr' = [wthr EXCEPT ![w].pc = "wfs", ![w].next = "status"]
  /\ UNCHANGED <<root, child, sbx, appDone, pidVal, pidOwner, status, statusMu, dthr, strayKill, newVars>>

(* After the fallback waitForStopped: a non-child has no status to give;  *)
(* a child returns s.status under statusMu.                               *)
WaitStatus(w) ==
  /\ wthr[w].pc = "status"
  /\ \/ ~child /\ wthr' = [wthr EXCEPT ![w].pc = "done", ![w].ret = "err"]
     \/ /\ child /\ statusMu = NoHolder
        /\ wthr' = [wthr EXCEPT ![w].pc = "done", ![w].ret = status]
  /\ UNCHANGED <<root, child, sbx, appDone, pidVal, pidOwner, status, statusMu, dthr, strayKill, newVars>>

(* destroy, from DestroyContainer or from New's cleanup: remove the      *)
(* control socket file (not an abstract address), load s.Pid; with 0      *)
(* there is nothing more to do.                                            *)
DestroyLoad(d) ==
  /\ dthr[d].pc = "idle"
  /\ IF d = Creator THEN npc = "cleanup" ELSE Created
  /\ dthr' = [dthr EXCEPT ![d].pc = IF pidVal = "0" THEN "check" ELSE "kill"]
  /\ sock' = IF sock = "file" THEN "removed" ELSE sock
  /\ UNCHANGED <<root, child, sbx, appDone, pidVal, pidOwner, status, statusMu, wthr, strayKill, npc, synced, bpc>>

(* SIGKILL the loaded number, whoever owns it now (ESRCH is ignored), then *)
(* waitForStopped.                                                        *)
DestroyKillNoSignal(d) ==
  /\ dthr[d].pc = "kill"
  /\ dthr' = [dthr EXCEPT ![d].pc = "wfs"]
  /\ UNCHANGED <<root, child, sbx, appDone, pidVal, pidOwner, status, statusMu, wthr, strayKill, newVars>>

DestroyKill(d) ==
  /\ dthr[d].pc = "kill"
  /\ Signal(IF pidOwner = "free" THEN "none" ELSE pidOwner)
  /\ dthr' = [dthr EXCEPT ![d].pc = "wfs"]
  /\ UNCHANGED <<root, child, appDone, pidVal, pidOwner, status, statusMu, wthr, newVars>>

(* DestroyContainer: an error from destroy is dropped if !IsRunning. *)
DestroyCheck(d) ==
  /\ dthr[d].pc = "check"
  /\ dthr' = [dthr EXCEPT ![d].pc = "done", ![d].ok = (@ \/ ~IsRunning)]
  /\ UNCHANGED <<root, child, sbx, appDone, pidVal, pidOwner, status, statusMu, wthr, strayKill, newVars>>

-----------------------------------------------------------------------------
(* Sandbox.New and createSandboxProcess, in the Creator goroutine. Every  *)
(* error return runs the cleanup registered first, a destroy ("cleanup"). *)
(* Apart from what is modelled, the steps only build the boot command and *)
(* its donated files.                                                      *)
NewFrame == UNCHANGED <<root, appDone, pidOwner, status, statusMu, wthr, dthr, strayKill, bpc>>

(* New up to createSandboxProcess: the pod init config and the sync pipe  *)
(* may fail.                                                              *)
NewInit ==
  /\ npc = "init"
  /\ npc' \in {"socket", "cleanup"}
  /\ UNCHANGED <<child, sbx, pidVal, sock, synced>> /\ NewFrame

(* createControlSocket tries a socket file in the root dir, /var/run,    *)
(* /run and /tmp in turn, then an abstract address; all may fail.         *)
ControlAddresses == {"file", "abstract"}

(* createSandboxProcess up to the control socket: the log files may fail  *)
(* to open; s.ControlAddress is set once the socket exists.               *)
NewControlSocket ==
  /\ npc = "socket"
  /\ \/ npc' = "cleanup" /\ UNCHANGED sock
     \/ npc' = "prepare" /\ sock' \in ControlAddresses
  /\ UNCHANGED <<child, sbx, pidVal, synced>> /\ NewFrame

(* The spec file, platform device, namespaces, user and chroot checks,    *)
(* console and stdios, and the memory and CPU arguments: each may fail.   *)
NewPrepare ==
  /\ npc = "prepare"
  /\ npc' \in {"start", "cleanup"}
  /\ UNCHANGED <<child, sbx, pidVal, sock, synced>> /\ NewFrame

(* StartInNS forks the boot process, or fails with nothing started.       *)
NewStart ==
  /\ npc = "start"
  /\ \/ npc' = "cleanup" /\ UNCHANGED sbx
     \/ npc' = "spawned" /\ sbx' = [st |-> "running", exit |-> "none"]
  /\ UNCHANGED <<child, pidVal, sock, synced>> /\ NewFrame

(* GetOOMScoreAdj and SetUserMappings may fail before s.child and s.Pid   *)
(* are stored; then the boot process runs on and destroy sees pid 0.     *)
(* Back in New, sandboxSyncFile is closed, so the pipe's only write end   *)
(* left is the boot process's.                                             *)
NewStore ==
  /\ npc = "spawned"
  /\ \/ npc' = "cleanup" /\ UNCHANGED <<child, pidVal>>
     \/ npc' = "sync" /\ child' = TRUE /\ pidVal' = "sbx"
  /\ UNCHANGED <<sbx, sock, synced>> /\ NewFrame

(* Read one byte from the sync pipe: it blocks until the boot process     *)
(* writes it, or gets EOF once that process is gone. Then, with a metric  *)
(* server configured, fetch the registered metrics.                        *)
(* Mutant: New keeps its copy of the write end open, so no EOF. *)
NewSyncNoEOF ==
  /\ npc = "sync"
  /\ synced /\ npc' \in {"metrics", "ok"}
  /\ UNCHANGED <<child, sbx, pidVal, sock, synced>> /\ NewFrame

(* Mutant: New's error returns skip the cleanup. *)
NewSyncNoCleanup ==
  /\ npc = "sync"
  /\ \/ synced /\ npc' \in {"metrics", "ok"}
     \/ ~synced /\ sbx.st # "running" /\ npc' = "err"
  /\ UNCHANGED <<child, sbx, pidVal, sock, synced>> /\ NewFrame

NewSync ==
  /\ npc = "sync"
  /\ \/ synced /\ npc' \in {"metrics", "ok"}
     \/ ~synced /\ sbx.st # "running" /\ npc' = "cleanup"
  /\ UNCHANGED <<child, sbx, pidVal, sock, synced>> /\ NewFrame

(* The MetricsGetRegistered call fails if the sandbox is gone. *)
NewMetrics ==
  /\ npc = "metrics"
  /\ npc' \in IF sbx.st = "running" THEN {"ok", "cleanup"} ELSE {"cleanup"}
  /\ UNCHANGED <<child, sbx, pidVal, sock, synced>> /\ NewFrame

(* The cleanup's destroy has returned (its error is only logged), and New *)
(* returns its error.                                                     *)
NewFailed ==
  /\ npc = "cleanup" /\ dthr[Creator].pc = "check"
  /\ npc' = "err"
  /\ dthr' = [dthr EXCEPT ![Creator].pc = "done"]
  /\ UNCHANGED <<root, child, sbx, appDone, pidVal, pidOwner, status, statusMu, wthr, strayKill, sock, synced, bpc>>

NewStep == NewInit \/ NewControlSocket \/ NewPrepare \/ NewStart \/ NewStore
             \/ NewSync \/ NewMetrics \/ NewFailed

(* The boot process (runsc boot) until it has synced. Each stage of its  *)
(* startup may hit a fatal error: util.Fatalf exits before the sync byte  *)
(* is written.                                                             *)
BootFrame == UNCHANGED <<root, child, appDone, pidVal, pidOwner, status, statusMu, wthr, dthr, strayKill, npc, sock>>

BootStage(from, to) ==
  /\ sbx.st = "running" /\ bpc = from
  /\ \/ bpc' = to /\ UNCHANGED <<sbx, synced>>
     \/ sbx' = [st |-> "zombie", exit |-> "boot"] /\ UNCHANGED <<bpc, synced>>
  /\ BootFrame

(* Main: flags, configuration and the log files. *)
BootMain == BootStage("main", "kernel")

(* Loader.New up to k.Init: rand, usage, the stdio FDs, the platform, the *)
(* memory file, the VDSO, strace, credentials and the network namespace.  *)
LoaderNewSetup == BootStage("kernel", "serve")

(* Loader.New from k.Init: the filesystems, the root's process args, the  *)
(* compat logs, the mount hints, hostfs and seccheck, then the controller *)
(* on the donated socket, which starts serving.                           *)
LoaderNewServe == BootStage("serve", "serving")

(* With the control server up, the boot command writes the sync byte. *)
BootSync ==
  /\ sbx.st = "running" /\ bpc = "serving" /\ ~synced
  /\ synced' = TRUE
  /\ UNCHANGED <<sbx, bpc>> /\ BootFrame

BootStartup == BootMain \/ LoaderNewSetup \/ LoaderNewServe \/ BootSync

-----------------------------------------------------------------------------
(* The sandbox process and the host around it. *)

(* The root container's init exits; the boot process learns its status. *)
AppExit ==
  /\ Created /\ root = "running" /\ appDone = "none" /\ sbx.st = "running"
  /\ appDone' \in {"exit", "signal"}
  /\ UNCHANGED <<root, child, sbx, pidVal, pidOwner, status, statusMu, wthr, dthr, strayKill, newVars>>

(* The boot process exits with the root container's status: its exit    *)
(* code, or 128 + the signal for a root killed by a signal (Main).        *)
ExitCode(how) == IF how = "signal" THEN "exit128" ELSE "exit"

SandboxExit ==
  /\ appDone # "none" /\ sbx.st = "running"
  /\ sbx' = [st |-> "zombie", exit |-> ExitCode(appDone)]
  /\ UNCHANGED <<root, child, appDone, pidVal, pidOwner, status, statusMu, wthr, dthr, strayKill, newVars>>

(* Loader.Run failed: it returns after its sleep and the boot process     *)
(* exits with an error status.                                            *)
BootExit ==
  /\ root = "failed" /\ sbx.st = "running"
  /\ sbx' = [st |-> "zombie", exit |-> "boot"]
  /\ UNCHANGED <<root, child, appDone, pidVal, pidOwner, status, statusMu, wthr, dthr, strayKill, newVars>>

(* Not our child (another runsc created it): its real parent reaps the   *)
(* zombie. A sandbox this runsc forked in New is never reaped by others.  *)
ParentReap ==
  /\ ~child /\ npc = "none" /\ sbx.st = "zombie"
  /\ sbx' = [sbx EXCEPT !.st = "reaped"]
  /\ pidOwner' = "free"
  /\ UNCHANGED <<root, child, appDone, pidVal, status, statusMu, wthr, dthr, strayKill, newVars>>

(* The kernel hands the freed number to an unrelated new process. *)
PidReuse ==
  /\ pidOwner = "free"
  /\ pidOwner' = "other"
  /\ UNCHANGED <<root, child, sbx, appDone, pidVal, status, statusMu, wthr, dthr, strayKill, newVars>>

-----------------------------------------------------------------------------
(* Either this runsc loaded a sandbox another runsc created, and may or   *)
(* may not be its parent, or it runs Sandbox.New itself.                  *)
SupervisorInit ==
  /\ \/ /\ npc = "none" /\ child \in BOOLEAN /\ synced = TRUE /\ sock = "file" /\ bpc = "serving"
        /\ sbx = [st |-> "running", exit |-> "none"] /\ pidVal = "sbx"
     \/ /\ npc = "init" /\ child = FALSE /\ synced = FALSE /\ sock = "none" /\ bpc = "main"
        /\ sbx = [st |-> "none", exit |-> "none"] /\ pidVal = "0"
  /\ appDone = "none"
  /\ pidOwner = "sbx"
  /\ status = "none"
  /\ statusMu = NoHolder
  /\ wthr = [w \in Waiters |-> [pc |-> "idle", next |-> "done", ret |-> "none"]]
  /\ dthr = [d \in Cleaners |-> [pc |-> "idle", ok |-> TRUE]]
  /\ strayKill = FALSE

Init == root = "running" /\ SupervisorInit

(* No call in flight: the system may stay as it is. *)
Idle ==
  /\ npc \in {"none", "ok", "err"}
  /\ \A w \in Waiters : wthr[w].pc \in {"idle", "done"}
  /\ \A d \in Cleaners : dthr[d].pc \in {"idle", "done"}
  /\ UNCHANGED vars

ThreadStep(t) == WfsLock(t) \/ Wait4(t) \/ WfsPoll(t)

Next ==
  \/ \E t \in Threads : ThreadStep(t)
  \/ \E w \in Waiters : WaitConnect(w) \/ WaitRPC(w) \/ WaitStatus(w)
  \/ \E d \in Cleaners : DestroyLoad(d) \/ DestroyKill(d)
  \/ \E d \in Destroyers : DestroyCheck(d)
  \/ NewStep \/ BootStartup
  \/ AppExit \/ SandboxExit \/ BootExit \/ ParentReap \/ PidReuse
  \/ Idle

(* Go runs every goroutine that can run; statusMu is handed to a waiting  *)
(* Lock eventually. New runs to its end, and a started boot process       *)
(* either syncs or dies. Starting a call, the container exiting and the   *)
(* host's reaping and PID reuse are not under the code's control.         *)
Fairness ==
  /\ \A t \in Threads : SF_vars(WfsLock(t)) /\ WF_vars(Wait4(t)) /\ WF_vars(WfsPoll(t))
  /\ \A w \in Waiters : WF_vars(WaitRPC(w)) /\ WF_vars(WaitStatus(w))
  /\ \A d \in Cleaners : WF_vars(DestroyKill(d))
  /\ \A d \in Destroyers : WF_vars(DestroyCheck(d))
  /\ WF_vars(DestroyLoad(Creator)) /\ WF_vars(NewStep)
  /\ WF_vars(BootStartup)
  /\ WF_vars(SandboxExit) /\ WF_vars(BootExit)

Spec == Init /\ [][Next]_vars /\ Fairness

-----------------------------------------------------------------------------
TypeOK ==
  /\ root \in {"pending", "known", "running", "failed"}
  /\ child \in BOOLEAN
  /\ sbx.st \in {"none", "running", "zombie", "reaped"}
  /\ sbx.exit \in Statuses \cup {"none"}
  /\ appDone \in {"none", "exit", "signal"}
  /\ pidVal \in {"sbx", "0"}
  /\ pidOwner \in {"sbx", "free", "other"}
  /\ status \in Statuses \cup {"none"}
  /\ statusMu \in Threads \cup {NoHolder}
  /\ wthr \in [Waiters -> [pc : {"idle", "rpc", "wfs", "wait4", "status", "done"},
                            next : {"done", "status"},
                            ret : Statuses \cup {"none", "err"}]]
  /\ dthr \in [Cleaners -> [pc : {"idle", "kill", "wfs", "wait4", "check", "done"},
                             ok : BOOLEAN]]
  /\ strayKill \in BOOLEAN
  /\ npc \in {"none", "init", "socket", "prepare", "start", "spawned", "sync",
              "metrics", "cleanup", "ok", "err"}
  /\ sock \in {"none", "file", "removed", "abstract"}
  /\ synced \in BOOLEAN
  /\ bpc \in {"main", "kernel", "serve", "serving"}
  /\ statusMu # NoHolder => PcOf(statusMu) = "wait4"

(* Sandbox.New always returns: the blocking read of the start-sync pipe   *)
(* ends even when the boot process dies before writing to it, because New *)
(* closed its own copy of the write end, and the cleanup's destroy ends.  *)
NewReturns == npc = "init" ~> npc \in {"ok", "err"}

(* When New returns an error, the cleanup has undone what it created: the *)
(* control socket file is removed, and a sandbox runsc forked and stored  *)
(* as its child is killed and reaped.                                     *)
NewCleanup == npc = "err" => sock # "file" /\ (child => sbx.st = "reaped")

(* When runsc is the sandbox's parent, a Wait on the root container never *)
(* fails and never hands back a status nobody collected: either the RPC   *)
(* answered, or waitForStopped reaped the zombie (here or in a concurrent *)
(* waitForStopped) before Wait reads s.status.                            *)
WaitReturnsReapedStatus ==
  child => \A w \in Waiters : wthr[w].pc = "done" => wthr[w].ret \in Statuses

(* Concurrent Wait(root) callers all observe the same exit status.        *)
WaitersAgree ==
  \A v, w \in Waiters :
    (wthr[v].pc = "done" /\ wthr[w].pc = "done" /\ {wthr[v].ret, wthr[w].ret} \subseteq Statuses)
      => wthr[v].ret = wthr[w].ret

(* destroy's SIGKILL only ever reaches the sandbox process, never a      *)
(* process that reused its PID number.                                    *)
NoStrayKill == ~strayKill

(* Once a destroy has started, every Wait in flight returns and the       *)
(* destroy itself returns, whether or not the container ever exits.       *)
DestroyStarted == \E d \in Destroyers : dthr[d].pc # "idle"
DestroyEndsWaits ==
  /\ \A w \in Waiters : (DestroyStarted /\ wthr[w].pc \notin {"idle", "done"}) ~> wthr[w].pc = "done"
  /\ \A d \in Destroyers : dthr[d].pc # "idle" ~> dthr[d].pc = "done"

=============================================================================
