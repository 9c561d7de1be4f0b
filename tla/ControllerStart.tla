--------------------------- MODULE ControllerStart ---------------------------
(***************************************************************************)
(* Starting the root container of a sandbox: the supervisor's one start   *)
(* call (Sandbox.StartRoot or Sandbox.Restore, runsc/sandbox/sandbox.go), *)
(* the control server's handler goroutine for it                          *)
(* (containerManager.StartRoot or .Restore, the controller), and the boot *)
(* process's main goroutine, which blocks in WaitForStartSignal and then  *)
(* runs Loader.Run (runsc/boot/loader.go). Handler and main goroutine meet *)
(* twice on unbuffered channels: startChan (start now) and startResultChan *)
(* (run()'s error), each a rendezvous of the two goroutines.              *)
(*                                                                         *)
(* Kernels are named: K0 is the kernel New built, K1 the one a Restore    *)
(* builds. A kernel's root init process is abstracted to where it came    *)
(* from: created by run() (createContainerProcess) or loaded from the     *)
(* state file. `alive` is whether the sandbox process still runs; the     *)
(* composition with the supervisor (SandboxStart) ties it to the process. *)
(***************************************************************************)
EXTENDS Naturals, FiniteSets

VARIABLES
  alive,      \* the sandbox process runs (input)
  call,       \* the supervisor's call: kind "start"/"restore", pc, ret
  srv,        \* the handler goroutine: pc, and the error it will return
  boot,       \* the boot main goroutine: "wait", "run", "started", "failed"
  lk,         \* l.k, the loader's kernel
  kst,        \* each kernel: "none" (not built), "new", "paused", "running"
  initFrom,   \* each kernel: where its root init came from, a subset of {"create","load"}
  wd,         \* l.watchdog: the kernel the loader's watchdog watches
  wdStarted,  \* the kernel whose watchdog run() started, or "none"
  restore,    \* l.restore
  rootTg      \* l.processes[root].tg: the GlobalInit of that kernel, or "none" (nil)

csVars == <<call, srv, boot, lk, kst, initFrom, wd, wdStarted, restore, rootTg>>
vars == <<alive, csVars>>

Kernels == {"K0", "K1"}
Results == {"none", "ok", "err"}

-----------------------------------------------------------------------------
(* New builds K0 and its watchdog; the process table holds the root with   *)
(* no thread group yet.                                                    *)
HandshakeInit ==
  /\ call \in [kind : {"start", "restore"}, pc : {"idle"}, ret : {"none"}]
  /\ srv = [pc |-> "idle", res |-> "none"]
  /\ boot = "wait"
  /\ lk = "K0"
  /\ kst = [k \in Kernels |-> IF k = "K0" THEN "new" ELSE "none"]
  /\ initFrom = [k \in Kernels |-> {}]
  /\ wd = "K0"
  /\ wdStarted = "none"
  /\ restore = FALSE
  /\ rootTg = "none"

Init == alive = TRUE /\ HandshakeInit

(* The handler returns res; urpc sends it back to the caller. *)
Reply(res) == srv' = [pc |-> "reply", res |-> res]

(* Sandbox.StartRoot: connect (fails once the sandbox is gone), configure  *)
(* the network, then call ContMgrRootContainerStart and block.             *)
StartRootBegin(ok) ==
  /\ call.kind = "start" /\ call.pc = "idle"
  /\ IF alive /\ ok
       THEN call' = [call EXCEPT !.pc = "rpc"] /\ srv' = [srv EXCEPT !.pc = "send"]
       ELSE call' = [call EXCEPT !.pc = "done", !.ret = "err"] /\ UNCHANGED srv
  /\ UNCHANGED <<alive, boot, lk, kst, initFrom, wd, wdStarted, restore, rootTg>>

(* Sandbox.Restore: open the state file and the platform device, connect, *)
(* configure the network, then call ContMgrRestore and block.              *)
RestoreBegin(ok) ==
  /\ call.kind = "restore" /\ call.pc = "idle"
  /\ IF alive /\ ok
       THEN call' = [call EXCEPT !.pc = "rpc"] /\ srv' = [srv EXCEPT !.pc = "restore"]
       ELSE call' = [call EXCEPT !.pc = "done", !.ret = "err"] /\ UNCHANGED srv
  /\ UNCHANGED <<alive, boot, lk, kst, initFrom, wd, wdStarted, restore, rootTg>>

(* Mutant: the restored kernel's watchdog is built but not stored in      *)
(* l.watchdog.                                                            *)
RestoreLoadKeepsWatchdog(outcome) ==
  /\ srv.pc = "restore" /\ alive
  /\ CASE outcome = "early" ->
            /\ kst' = [kst EXCEPT ![lk] = "paused"]
            /\ Reply("err")
            /\ UNCHANGED <<lk, initFrom, wd, restore, rootTg>>
       [] outcome = "late" ->
            /\ kst' = [kst EXCEPT ![lk] = "paused", !["K1"] = "new"]
            /\ lk' = "K1"
            /\ Reply("err")
            /\ UNCHANGED <<initFrom, wd, restore, rootTg>>
       [] outcome = "ok" ->
            /\ kst' = [kst EXCEPT ![lk] = "paused", !["K1"] = "new"]
            /\ initFrom' = [initFrom EXCEPT !["K1"] = @ \cup {"load"}]
            /\ lk' = "K1"
            /\ restore' = TRUE
            /\ rootTg' = "K1"
            /\ srv' = [srv EXCEPT !.pc = "send"]
            /\ UNCHANGED wd
  /\ UNCHANGED <<alive, call, boot, wdStarted>>

(* containerManager.Restore up to the start signal. It pauses l.k; a      *)
(* failure of createPlatform or createMemoryFile returns with nothing     *)
(* else changed ("early"). Then l.k is already the new kernel when        *)
(* configureRestore, the state file checks, the seccomp install or Load   *)
(* fail ("late"). On success the loader's kernel, watchdog, restore flag  *)
(* and process table (one root entry, tg = the loaded GlobalInit) are     *)
(* replaced, and the handler goes on to kick startChan.                    *)
RestoreLoad(outcome) ==
  /\ srv.pc = "restore" /\ alive
  /\ CASE outcome = "early" ->
            /\ kst' = [kst EXCEPT ![lk] = "paused"]
            /\ Reply("err")
            /\ UNCHANGED <<lk, initFrom, wd, restore, rootTg>>
       [] outcome = "late" ->
            /\ kst' = [kst EXCEPT ![lk] = "paused", !["K1"] = "new"]
            /\ lk' = "K1"
            /\ Reply("err")
            /\ UNCHANGED <<initFrom, wd, restore, rootTg>>
       [] outcome = "ok" ->
            /\ kst' = [kst EXCEPT ![lk] = "paused", !["K1"] = "new"]
            /\ initFrom' = [initFrom EXCEPT !["K1"] = @ \cup {"load"}]
            /\ lk' = "K1"
            /\ wd' = "K1"
            /\ restore' = TRUE
            /\ rootTg' = "K1"
            /\ srv' = [srv EXCEPT !.pc = "send"]
  /\ UNCHANGED <<alive, call, boot, wdStarted>>

(* `cm.startChan <- struct{}{}` meets WaitForStartSignal's receive. *)
StartSignal ==
  /\ srv.pc = "send" /\ boot = "wait" /\ alive
  /\ srv' = [srv EXCEPT !.pc = "recv"]
  /\ boot' = "run"
  /\ UNCHANGED <<alive, call, lk, kst, initFrom, wd, wdStarted, restore, rootTg>>

(* Mutant: run() creates the root process whether or not it restores. *)
RunIgnoresRestore(ok) ==
  /\ boot = "run" /\ srv.pc = "recv" /\ alive
  /\ IF ok
       THEN /\ initFrom' = [initFrom EXCEPT ![lk] = @ \cup {"create"}]
            /\ rootTg' = lk
            /\ wdStarted' = wd
            /\ kst' = [kst EXCEPT ![lk] = "running"]
            /\ boot' = "started"
            /\ Reply("ok")
       ELSE /\ boot' = "failed"
            /\ Reply("err")
            /\ UNCHANGED <<initFrom, rootTg, wdStarted, kst>>
  /\ UNCHANGED <<alive, call, lk, wd, restore>>

(* Loader.Run: run(), then `startResultChan <- err`, which meets the      *)
(* handler's receive; the handler returns that error. run() fails on the  *)
(* host network setup, and unless restoring on the seccomp install or     *)
(* createContainerProcess, all before anything changes. Otherwise it      *)
(* creates the root init in l.k when not restoring, sets the root's tg to *)
(* l.k.GlobalInit(), starts l.watchdog and l.k. On an error Run sleeps    *)
(* and returns it, and the boot process exits.                            *)
Run(ok) ==
  /\ boot = "run" /\ srv.pc = "recv" /\ alive
  /\ IF ok
       THEN /\ initFrom' = IF restore THEN initFrom
                           ELSE [initFrom EXCEPT ![lk] = @ \cup {"create"}]
            /\ rootTg' = lk
            /\ wdStarted' = wd
            /\ kst' = [kst EXCEPT ![lk] = "running"]
            /\ boot' = "started"
            /\ Reply("ok")
       ELSE /\ boot' = "failed"
            /\ Reply("err")
            /\ UNCHANGED <<initFrom, rootTg, wdStarted, kst>>
  /\ UNCHANGED <<alive, call, lk, wd, restore>>

(* Mutant: conn.Call waits for a reply and misses the closed connection. *)
CallReturnOnReplyOnly ==
  /\ call.pc = "rpc"
  /\ srv.pc = "reply" /\ alive /\ call' = [call EXCEPT !.pc = "done", !.ret = srv.res]
  /\ srv' = [srv EXCEPT !.pc = "idle"]
  /\ UNCHANGED <<alive, boot, lk, kst, initFrom, wd, wdStarted, restore, rootTg>>

(* conn.Call returns: with the handler's reply, or with an error once the *)
(* sandbox process is gone and the connection closes.                     *)
CallReturn ==
  /\ call.pc = "rpc"
  /\ \/ srv.pc = "reply" /\ alive /\ call' = [call EXCEPT !.pc = "done", !.ret = srv.res]
     \/ ~alive /\ call' = [call EXCEPT !.pc = "done", !.ret = "err"]
  /\ srv' = [srv EXCEPT !.pc = IF srv.pc = "reply" THEN "idle" ELSE @]
  /\ UNCHANGED <<alive, boot, lk, kst, initFrom, wd, wdStarted, restore, rootTg>>

-----------------------------------------------------------------------------
Next ==
  \/ \E ok \in BOOLEAN : StartRootBegin(ok) \/ RestoreBegin(ok) \/ Run(ok)
  \/ \E o \in {"early", "late", "ok"} : RestoreLoad(o)
  \/ StartSignal
  \/ CallReturn

(* Goroutines that can run do; the supervisor's call itself is the        *)
(* client's choice.                                                        *)
Fairness ==
  /\ WF_vars(\E o \in {"early", "late", "ok"} : RestoreLoad(o))
  /\ WF_vars(StartSignal)
  /\ WF_vars(\E ok \in BOOLEAN : Run(ok))
  /\ WF_vars(CallReturn)

Spec == Init /\ [][Next]_vars /\ Fairness

-----------------------------------------------------------------------------
TypeOK ==
  /\ alive \in BOOLEAN
  /\ call \in [kind : {"start", "restore"}, pc : {"idle", "rpc", "done"}, ret : Results]
  /\ srv \in [pc : {"idle", "restore", "send", "recv", "reply"}, res : Results]
  /\ boot \in {"wait", "run", "started", "failed"}
  /\ lk \in Kernels /\ wd \in Kernels
  /\ kst \in [Kernels -> {"none", "new", "paused", "running"}]
  /\ initFrom \in [Kernels -> SUBSET {"create", "load"}]
  /\ wdStarted \in Kernels \cup {"none"}
  /\ restore \in BOOLEAN
  /\ rootTg \in Kernels \cup {"none"}

(* A start call that reports success leaves one consistent running        *)
(* sandbox: the boot goroutine went on to WaitExit, and l.k, the root's    *)
(* thread group and the watchdog run() started all belong to one kernel,   *)
(* which runs. Restore writes them from one goroutine and run() reads     *)
(* them from another, ordered only by the startChan handshake.             *)
StartResultAgrees ==
  call.pc = "done" /\ call.ret = "ok" =>
    /\ boot = "started"
    /\ kst[lk] = "running"
    /\ rootTg = lk
    /\ wdStarted = lk

(* Every kernel has at most one root init: one loaded from a state file   *)
(* is never joined by a fresh one from createContainerProcess. run()      *)
(* relies on l.restore, set by the Restore handler, to tell the two apart. *)
OneInitPerKernel == \A k \in Kernels : Cardinality(initFrom[k]) <= 1

(* The supervisor's start call returns: the handler gets its result from  *)
(* Loader.Run, or the sandbox process dies and closes the connection.     *)
StartCallReturns == call.pc = "rpc" ~> call.pc = "done"

=============================================================================
