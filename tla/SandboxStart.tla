---------------------------- MODULE SandboxStart ----------------------------
(***************************************************************************)
(* One sandbox from its start to its end: the supervisor's start call and *)
(* the boot process's start handshake (ControllerStart) composed with the *)
(* supervisor's Wait and destroy goroutines and the sandbox process       *)
(* (SandboxWait). They interact through the process: the handshake runs   *)
(* only while the sandbox process runs, and a dead process fails the      *)
(* start call; the root container can only exit once Loader.Run started   *)
(* it, a failed Run makes the boot process exit, and a Wait RPC fails at  *)
(* once while the root's thread group is nil.                             *)
(***************************************************************************)
CONSTANTS Waiters, Destroyers, Creator, NoHolder

VARIABLES
  root, alive,
  child, sbx, appDone, pidVal, pidOwner, status, statusMu, wthr, dthr, strayKill,
  npc, sock, synced, bpc,
  call, srv, boot, lk, kst, initFrom, wd, wdStarted, restore, rootTg

CS == INSTANCE ControllerStart

(* `alive` (ControllerStart's input) is whether the sandbox process runs, *)
(* updated by every step of SandboxWait. `root` (SandboxWait's input) is  *)
(* the root as waitContainer and the kernel see it, updated by every step *)
(* of ControllerStart: tryThreadGroupFromIDLocked returns nil until        *)
(* Restore or run() sets the root's tg.                                   *)
RootState ==
  CASE boot = "started" -> "running"
    [] boot = "failed"  -> "failed"
    [] rootTg # "none"  -> "known"
    [] OTHER            -> "pending"

SW == INSTANCE SandboxWait

swVars == <<child, sbx, appDone, pidVal, pidOwner, status, statusMu, wthr, dthr, strayKill,
           npc, sock, synced, bpc>>
csVars == <<call, srv, boot, lk, kst, initFrom, wd, wdStarted, restore, rootTg>>
vars == <<root, alive, swVars, csVars>>

Init == SW!SupervisorInit /\ CS!HandshakeInit /\ alive = (sbx.st = "running") /\ root = RootState

(* A step of the supervisor side or of the handshake, with the other    *)
(* side's state unchanged. The start call is made on a sandbox New has   *)
(* returned.                                                              *)
Sup(A) == A /\ UNCHANGED csVars /\ alive' = (sbx'.st = "running")
Hs(A) == SW!Created /\ A /\ UNCHANGED swVars /\ root' = RootState'

Next ==
  \/ \E t \in SW!Threads : Sup(SW!WfsLock(t))
  \/ \E t \in SW!Threads : Sup(SW!Wait4(t))
  \/ \E t \in SW!Threads : Sup(SW!WfsPoll(t))
  \/ \E w \in Waiters : Sup(SW!WaitConnect(w))
  \/ \E w \in Waiters : Sup(SW!WaitRPC(w))
  \/ \E w \in Waiters : Sup(SW!WaitStatus(w))
  \/ \E d \in SW!Cleaners : Sup(SW!DestroyLoad(d))
  \/ \E d \in SW!Cleaners : Sup(SW!DestroyKill(d))
  \/ \E d \in Destroyers : Sup(SW!DestroyCheck(d))
  \/ Sup(SW!NewInit)
  \/ Sup(SW!NewControlSocket)
  \/ Sup(SW!NewPrepare)
  \/ Sup(SW!NewStart)
  \/ Sup(SW!NewStore)
  \/ Sup(SW!NewSync)
  \/ Sup(SW!NewMetrics)
  \/ Sup(SW!NewFailed)
  \/ Sup(SW!BootMain)
  \/ Sup(SW!LoaderNewSetup)
  \/ Sup(SW!LoaderNewServe)
  \/ Sup(SW!BootSync)
  \/ Sup(SW!AppExit)
  \/ Sup(SW!SandboxExit)
  \/ Sup(SW!BootExit)
  \/ Sup(SW!ParentReap)
  \/ Sup(SW!PidReuse)
  \/ Sup(SW!Idle)
  \/ \E ok \in BOOLEAN : Hs(CS!StartRootBegin(ok))
  \/ \E ok \in BOOLEAN : Hs(CS!RestoreBegin(ok))
  \/ \E o \in {"early", "late", "ok"} : Hs(CS!RestoreLoad(o))
  \/ Hs(CS!StartSignal)
  \/ \E ok \in BOOLEAN : Hs(CS!Run(ok))
  \/ Hs(CS!CallReturn)

Spec == Init /\ [][Next]_vars /\ SW!Fairness /\ CS!Fairness

-----------------------------------------------------------------------------
TypeOK == SW!TypeOK /\ CS!TypeOK

(* A root Wait never fails and never returns an uncollected status when   *)
(* runsc is the sandbox's parent, now also when it began before the root  *)
(* started and its Wait RPC failed with "not started".                    *)
WaitReturnsReapedStatus == SW!WaitReturnsReapedStatus

(* Once a destroy has started every Wait and the destroy return, also     *)
(* while the start handshake is in flight.                                *)
DestroyEndsWaits == SW!DestroyEndsWaits

(* A successful start call leaves l.k, the root's thread group and the    *)
(* started watchdog on one running kernel.                                *)
StartResultAgrees == CS!StartResultAgrees

(* No kernel gets both a loaded and a freshly created root init.          *)
OneInitPerKernel == CS!OneInitPerKernel

(* The start call returns, whether the boot process starts the root,      *)
(* fails, or is killed by a concurrent destroy.                           *)
StartCallReturns == CS!StartCallReturns

(* Sandbox.New returns, also when the boot process dies before it syncs. *)
NewReturns == SW!NewReturns

(* A failed New leaves no control socket file and no unreaped child.     *)
NewCleanup == SW!NewCleanup

=============================================================================
