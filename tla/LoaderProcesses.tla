--------------------------- MODULE LoaderProcesses ---------------------------
(***************************************************************************)
(* The boot loader's process table (runsc/boot/loader.go): l.processes,    *)
(* guarded by l.mu, maps execID{cid, pid} to an execProcess; pid 0 is a    *)
(* container's init entry, a non-zero pid an exec'd process. The          *)
(* controller's RPCs (create, start, exec, waitPID, destroy, signal), the  *)
(* root container's run() and the per-container gofer monitor goroutine    *)
(* read and change it, while the sentry's thread groups fork, get killed   *)
(* and exit underneath.                                                    *)
(*                                                                         *)
(* A thread group is a model value; it doubles as its own TGID and, for a  *)
(* container init started in a new PID namespace, as that namespace's      *)
(* identity.                                                               *)
(***************************************************************************)
EXTENDS Naturals, FiniteSets

CONSTANTS
  Cids,          \* container IDs
  Root,          \* the sandbox ID: the root container's ID
  TGs,           \* thread groups the kernel may create
  Paths,         \* PID namespace paths a spec may name ("" is none)
  Waiters,       \* controller goroutines serving waitPID
  NoTG, NoEntry, NoHolder,
  ClientStartsOnce, \* the runsc client starts each container at most once
  SignalRPC        \* the client sends a SIGKILL through the Signal RPC

ASSUME Root \in Cids /\ "" \in Paths /\ ClientStartsOnce \in BOOLEAN /\ SignalRPC \in BOOLEAN

Keys == Cids \X ({0} \cup TGs)
Entry == [tg: TGs \cup {NoTG}, pidnsPath: Paths, hostTTY: BOOLEAN]

VARIABLES
  processes,   \* l.processes: Keys -> Entry, or NoEntry when absent
  tgs,         \* kernel thread groups: state, container ID, PID namespace
  mu,          \* l.mu when held across steps: <<cid, "destroy" or "gofer">>
  rootRun,     \* run() (StartRoot): "pending", "running" or "failed"
  monitor,     \* gofer monitor goroutine per container: "none", "armed", "fired"
  dthr,        \* destroySubcontainer per container ID
  wthr,        \* waitPID goroutines
  panicked,    \* the sentry panicked
  startCalls   \* containers the client has asked to start since their create

vars == <<processes, tgs, mu, rootRun, monitor, dthr, wthr, panicked, startCalls>>

Live == {"running", "killed"}
Free(t) == tgs[t].st = "free"
LiveTGsOf(c) == {t \in TGs : tgs[t].cid = c /\ tgs[t].st \in Live}

-----------------------------------------------------------------------------
(* tryThreadGroupFromIDLocked: error if the entry is absent, else its tg   *)
(* (NoTG when the container has not started).                             *)
Found(k) == processes[k] # NoEntry
TGOf(k) == processes[k].tg

(* Mutant: the new process is not tagged with its container's ID. *)
NewProcessUntagged(t, c, ns) ==
  tgs' = [tgs EXCEPT ![t] = [st |-> "running", cloning |-> FALSE, cid |-> Root, ns |-> ns, killedBy |-> NoEntry]]

(* createContainerProcess on success: a new thread group, started by      *)
(* StartProcess, in PID namespace ns; it arms the gofer monitor.          *)
NewProcess(t, c, ns) ==
  tgs' = [tgs EXCEPT ![t] = [st |-> "running", cloning |-> FALSE, cid |-> c, ns |-> ns, killedBy |-> NoEntry]]

(* Mutant: SIGKILL sent without pausing the kernel first. *)
QuiescentNoPause == TRUE

(* Mutant: only the container's init process is killed. *)
KillAllInitOnly(c) ==
  tgs' = [t \in TGs |-> IF t = TGOf(<<c, 0>>) /\ tgs[t].st = "running"
                          THEN [tgs[t] EXCEPT !.st = "killed", !.killedBy = c] ELSE tgs[t]]

(* signalAllProcesses: k.Pause() waits for every task to stop, so no clone *)
(* is in flight, then SendContainerSignal(SIGKILL) reaches every task of  *)
(* the container.                                                          *)
Quiescent == \A t \in TGs : ~tgs[t].cloning

(* A k.Pause() is in progress: tasks stop at their next syscall boundary, *)
(* so none starts a clone.                                                 *)
PausePending == \E c \in Cids : dthr[c].pc = "kill" \/ monitor[c] = "killing"

KillAll(c) ==
  tgs' = [t \in TGs |-> IF tgs[t].cid = c /\ tgs[t].st = "running"
                          THEN [tgs[t] EXCEPT !.st = "killed", !.killedBy = c] ELSE tgs[t]]

(* The PID namespace a start joins: any entry with the same non-empty      *)
(* pidnsPath (map iteration order), else a new child namespace, else the  *)
(* root namespace when the spec names none.                               *)
JoinCandidates(path) == {k \in Keys : Found(k) /\ processes[k].pidnsPath = path}

Unlocked == mu = NoHolder


-----------------------------------------------------------------------------
(* createSubcontainer: a new init entry, keeping the TTY donated at create. *)
CreateSubcontainer(c, tty) ==
  /\ Unlocked
  /\ ~Found(<<c, 0>>)
  /\ processes' = [processes EXCEPT ![<<c, 0>>] = [tg |-> NoTG, pidnsPath |-> "", hostTTY |-> tty]]
  /\ startCalls' = startCalls \ {c}
  /\ UNCHANGED <<tgs, mu, rootRun, monitor, dthr, wthr, panicked>>

(* startSubcontainer, with createContainerProcess, under l.mu. ns names    *)
(* the spec's PID namespace: "none" for no entry (root namespace), else    *)
(* its path. fail is where it fails: "args" (createProcessArgs), "early"   *)
(* (TTY or FD import, before the gofer monitor starts), "late" (mounts or  *)
(* CreateProcess, after it), or "ok". A failure stores nil in ep.tg.       *)
StartSubcontainer(c, ns, terminal, fail) ==
  LET ep == processes[<<c, 0>>]
      t == CHOOSE x \in TGs : Free(x)
      cands == IF ns \in {"none", ""} THEN {} ELSE JoinCandidates(ns)
      ttyErr == terminal /\ ~ep.hostTTY
      Stored(tg) == [processes EXCEPT ![<<c, 0>>] =
                       [tg |-> tg,
                        pidnsPath |-> IF ns = "none" THEN ep.pidnsPath ELSE ns,
                        hostTTY |-> ep.hostTTY /\ ~(terminal /\ fail # "args")]]
  IN
  /\ Unlocked
  /\ Found(<<c, 0>>)
  /\ rootRun = "running"
  /\ ClientStartsOnce => c \notin startCalls
  /\ fail = "ok" => \E x \in TGs : Free(x)
  /\ \/ \E k \in cands : TGOf(k) = NoTG /\ panicked' = TRUE
                         /\ UNCHANGED <<processes, tgs, monitor>>
     \/ LET joined == IF ns = "none" THEN "root"
                      ELSE IF cands = {} THEN t
                      ELSE tgs[TGOf(CHOOSE k \in cands : TGOf(k) # NoTG)].ns
        IN
        /\ \A k \in cands : TGOf(k) # NoTG
        /\ panicked' = FALSE
        /\ IF fail = "ok" /\ ~ttyErr
             THEN /\ NewProcess(t, c, joined)
                  /\ processes' = Stored(t)
                  /\ monitor' = [monitor EXCEPT ![c] = "armed"]
             ELSE /\ processes' = Stored(NoTG)
                  /\ monitor' = IF fail = "late" /\ ~ttyErr
                                  THEN [monitor EXCEPT ![c] = "armed"] ELSE monitor
                  /\ UNCHANGED tgs
  /\ UNCHANGED <<mu, rootRun, dthr, wthr>>
  /\ startCalls' = startCalls \cup {c}

(* run(), served once StartRoot hands over: the root entry must still be   *)
(* there; the init process lives in the root PID namespace. The runsc      *)
(* client starts subcontainers only once the root container runs; when     *)
(* run() fails the boot process exits, which is not modelled further.      *)
Run(ns, ok) ==
  LET ep == processes[<<Root, 0>>]
      t == CHOOSE x \in TGs : Free(x) IN
  /\ Unlocked
  /\ rootRun = "pending"
  /\ \E x \in TGs : Free(x)
  /\ rootRun' = IF Found(<<Root, 0>>) /\ ok THEN "running" ELSE "failed"
  /\ IF Found(<<Root, 0>>) /\ ok
       THEN /\ NewProcess(t, Root, "root")
            /\ processes' = [processes EXCEPT ![<<Root, 0>>] =
                               [ep EXCEPT !.tg = t,
                                          !.pidnsPath = IF ns = "none" THEN @ ELSE ns]]
            /\ monitor' = [monitor EXCEPT ![Root] = "armed"]
       ELSE UNCHANGED <<processes, tgs, monitor>>
  /\ UNCHANGED <<mu, dthr, wthr, panicked, startCalls>>

(* executeAsync, entirely under l.mu so that it cannot race destroy: the   *)
(* container must be started and not stopped; the new process joins its   *)
(* init's PID namespace and gets an entry keyed by its TGID.               *)
ExecuteAsync(c) ==
  LET init == TGOf(<<c, 0>>)
      t == CHOOSE x \in TGs : Free(x) IN
  /\ Unlocked
  /\ Found(<<c, 0>>)
  /\ init # NoTG
  /\ tgs[init].st \in Live
  /\ \E x \in TGs : Free(x)
  /\ NewProcess(t, c, tgs[init].ns)
  /\ processes' = [processes EXCEPT ![<<c, t>>] = [tg |-> t, pidnsPath |-> "", hostTTY |-> FALSE]]
  /\ UNCHANGED <<mu, rootRun, monitor, dthr, wthr, panicked, startCalls>>

-----------------------------------------------------------------------------
(* waitPID(cid, tgid): look the exec entry up under l.mu and wait on it,   *)
(* deleting the entry under l.mu afterwards; without an entry, look the    *)
(* TGID up in the init process's PID namespace and wait on it there.       *)
WaitPIDLookup(w, c, t) ==
  LET init == TGOf(<<c, 0>>) IN
  /\ Unlocked
  /\ wthr[w].pc = "idle"
  /\ wthr' = [wthr EXCEPT ![w] =
       IF Found(<<c, t>>) /\ TGOf(<<c, t>>) # NoTG
         THEN [pc |-> "wait", key |-> <<c, t>>, tg |-> TGOf(<<c, t>>), entry |-> TRUE]
       ELSE IF Found(<<c, 0>>) /\ init # NoTG /\ ~Free(t)
               /\ tgs[t].ns = tgs[init].ns /\ tgs[t].cid = c
         THEN [pc |-> "wait", key |-> <<c, t>>, tg |-> t, entry |-> FALSE]
       ELSE [wthr[w] EXCEPT !.pc = "done"]]
  /\ UNCHANGED <<processes, tgs, mu, rootRun, monitor, dthr, panicked, startCalls>>

(* wait: tg.WaitExited, outside l.mu. *)
WaitPIDExited(w) ==
  /\ wthr[w].pc = "wait"
  /\ tgs[wthr[w].tg].st = "exited"
  /\ wthr' = [wthr EXCEPT ![w].pc = IF wthr[w].entry THEN "delete" ELSE "done"]
  /\ UNCHANGED <<processes, tgs, mu, rootRun, monitor, dthr, panicked, startCalls>>

WaitPIDDelete(w) ==
  /\ Unlocked
  /\ wthr[w].pc = "delete"
  /\ processes' = [processes EXCEPT ![wthr[w].key] = NoEntry]
  /\ wthr' = [wthr EXCEPT ![w].pc = "done"]
  /\ UNCHANGED <<tgs, mu, rootRun, monitor, dthr, panicked, startCalls>>

-----------------------------------------------------------------------------
(* destroySubcontainer(cid) holds l.mu throughout: an unknown container is *)
(* an error; a started one is SIGKILLed (signalAllProcesses) and every     *)
(* task of the container then enumerated is waited for; finally every      *)
(* entry of the container is deleted.                                      *)
DestroyLock(c) ==
  /\ Unlocked
  /\ dthr[c].pc = "idle"
  /\ IF ~Found(<<c, 0>>)
       THEN /\ dthr' = [dthr EXCEPT ![c] = [pc |-> "done", waitset |-> {}, ok |-> FALSE]]
            /\ UNCHANGED mu
       ELSE /\ dthr' = [dthr EXCEPT ![c].pc = IF TGOf(<<c, 0>>) = NoTG THEN "delete" ELSE "kill"]
            /\ mu' = <<c, "destroy">>
  /\ UNCHANGED <<processes, tgs, rootRun, monitor, wthr, panicked, startCalls>>

DestroyKill(c) ==
  /\ dthr[c].pc = "kill"
  /\ Quiescent
  /\ KillAll(c)
  /\ dthr' = [dthr EXCEPT ![c].pc = "wait", ![c].waitset = LiveTGsOf(c)]
  /\ UNCHANGED <<processes, mu, rootRun, monitor, wthr, panicked, startCalls>>

DestroyWaited(c) ==
  /\ dthr[c].pc = "wait"
  /\ \A t \in dthr[c].waitset : tgs[t].st = "exited"
  /\ dthr' = [dthr EXCEPT ![c].pc = "delete"]
  /\ UNCHANGED <<processes, tgs, mu, rootRun, monitor, wthr, panicked, startCalls>>

DestroyDelete(c) ==
  /\ dthr[c].pc = "delete"
  /\ processes' = [k \in Keys |-> IF k[1] = c THEN NoEntry ELSE processes[k]]
  /\ dthr' = [dthr EXCEPT ![c].pc = "done", ![c].ok = TRUE]
  /\ mu' = NoHolder
  /\ UNCHANGED <<tgs, rootRun, monitor, wthr, panicked, startCalls>>

-----------------------------------------------------------------------------
(* The gofer monitor goroutine: ppoll returns on a hangup, then under l.mu *)
(* it SIGKILLs the container if it is still registered and started.        *)
GoferHangup(c) ==
  /\ monitor[c] = "armed"
  /\ monitor' = [monitor EXCEPT ![c] = "hup"]
  /\ UNCHANGED <<processes, tgs, mu, rootRun, dthr, wthr, panicked, startCalls>>

GoferMonitorLock(c) ==
  /\ Unlocked
  /\ monitor[c] = "hup"
  /\ IF Found(<<c, 0>>) /\ TGOf(<<c, 0>>) # NoTG
       THEN /\ monitor' = [monitor EXCEPT ![c] = "killing"]
            /\ mu' = <<c, "gofer">>
       ELSE /\ monitor' = [monitor EXCEPT ![c] = "fired"]
            /\ UNCHANGED mu
  /\ UNCHANGED <<processes, tgs, rootRun, dthr, wthr, panicked, startCalls>>

GoferMonitorKill(c) ==
  /\ monitor[c] = "killing"
  /\ Quiescent
  /\ KillAll(c)
  /\ monitor' = [monitor EXCEPT ![c] = "fired"]
  /\ mu' = NoHolder
  /\ UNCHANGED <<processes, rootRun, dthr, wthr, panicked, startCalls>>

-----------------------------------------------------------------------------
(* threadGroupFromID: under l.mu, the entry's thread group; NoTG stands    *)
(* for both errors, no entry and a container not started.                 *)
ThreadGroupFromID(k) == IF Found(k) THEN TGOf(k) ELSE NoTG

(* Mutant: the fallback lookup does not check the process's container.   *)
SignalProcessAnyContainer(c, pid) ==
  IF ThreadGroupFromID(<<c, pid>>) # NoTG THEN ThreadGroupFromID(<<c, pid>>)
  ELSE IF pid # 0 /\ ~Free(pid) THEN pid ELSE NoTG

(* signalProcess: the exec'd process with that PID, else the thread group *)
(* with that TGID in the root PID namespace if it belongs to container c; *)
(* NoTG is an error.                                                       *)
SignalProcessTarget(c, pid) ==
  IF ThreadGroupFromID(<<c, pid>>) # NoTG THEN ThreadGroupFromID(<<c, pid>>)
  ELSE IF pid # 0 /\ ~Free(pid) /\ tgs[pid].cid = c THEN pid ELSE NoTG

(* SIGKILL the thread groups in g that still run, for container c. *)
KillTGs(g, c) ==
  tgs' = [t \in TGs |-> IF t \in g /\ tgs[t].st = "running"
                          THEN [tgs[t] EXCEPT !.st = "killed", !.killedBy = c] ELSE tgs[t]]

(* signalForegrondProcessGroup once the entry's thread group tg is found  *)
(* under l.mu: the TTY's foreground process group, read after the unlock, *)
(* is none (tg itself is signalled) or a group of the container's session, *)
(* every thread group of which is signalled. Whether ep.tty is set is not  *)
(* tracked; without it the call fails and changes nothing.                 *)
ForegroundGroups(c, tg) ==
  {{tg}} \cup ((SUBSET {t \in TGs : ~Free(t) /\ tgs[t].cid = c}) \ {{}})

(* signal(cid, pid, SIGKILL, mode): the Signal RPC, and run()'s forwarding *)
(* of the host's signals to the root container's init. The lookups happen *)
(* under l.mu, which is dropped before the signal is sent; the send acts  *)
(* only on the thread groups or the container ID already resolved, and a  *)
(* thread group that exited meanwhile ignores it, so the call is one step. *)
(* DeliverToAllProcesses needs pid 0 and a started container and pauses   *)
(* the kernel. Every error leaves the state as it was.                     *)
Signal(c, pid, mode) ==
  /\ SignalRPC
  /\ Unlocked
  /\ CASE mode = "process" ->
            LET tg == SignalProcessTarget(c, pid) IN tg # NoTG /\ KillTGs({tg}, c)
       [] mode = "fg" ->
            LET tg == ThreadGroupFromID(<<c, pid>>) IN
            tg # NoTG /\ \E g \in ForegroundGroups(c, tg) : KillTGs(g, c)
       [] mode = "all" ->
            pid = 0 /\ ThreadGroupFromID(<<c, 0>>) # NoTG /\ Quiescent /\ KillAll(c)
  /\ UNCHANGED <<processes, mu, rootRun, monitor, dthr, wthr, panicked, startCalls>>

(* The runsc side, Sandbox.SignalContainer and Sandbox.SignalProcess: the  *)
(* delivery mode follows from the all and fgProcess flags, and the call    *)
(* goes through containerManager.Signal to signal. SignalContainer sends   *)
(* PID 0, the container's init.                                            *)
SignalContainer(c, all) == Signal(c, 0, IF all THEN "all" ELSE "process")

SignalProcess(c, pid, fg) == Signal(c, pid, IF fg THEN "fg" ELSE "process")

-----------------------------------------------------------------------------
(* The application inside the sentry: a process clones a child (unless no *)
(* thread group is left), exits on its own, or dies once SIGKILLed.        *)
CloneStart(t) ==
  /\ ~PausePending
  /\ tgs[t].st = "running"
  /\ ~tgs[t].cloning
  /\ tgs' = [tgs EXCEPT ![t].cloning = TRUE]
  /\ UNCHANGED <<processes, mu, rootRun, monitor, dthr, wthr, panicked, startCalls>>

CloneEnd(t) ==
  LET child == CHOOSE x \in TGs : Free(x) IN
  /\ tgs[t].cloning
  /\ tgs' = IF \E x \in TGs : Free(x)
              THEN [tgs EXCEPT ![t].cloning = FALSE,
                               ![child] = [st |-> "running", cloning |-> FALSE,
                                           cid |-> tgs[t].cid, ns |-> tgs[t].ns,
                                           killedBy |-> NoEntry]]
              ELSE [tgs EXCEPT ![t].cloning = FALSE]
  /\ UNCHANGED <<processes, mu, rootRun, monitor, dthr, wthr, panicked, startCalls>>

Exit(t) ==
  /\ tgs[t].st = "running"
  /\ ~tgs[t].cloning
  /\ tgs' = [tgs EXCEPT ![t].st = "exited"]
  /\ UNCHANGED <<processes, mu, rootRun, monitor, dthr, wthr, panicked, startCalls>>

KilledExit(t) ==
  /\ tgs[t].st = "killed"
  /\ ~tgs[t].cloning
  /\ tgs' = [tgs EXCEPT ![t].st = "exited"]
  /\ UNCHANGED <<processes, mu, rootRun, monitor, dthr, wthr, panicked, startCalls>>

-----------------------------------------------------------------------------
Init ==
  /\ processes = [k \in Keys |-> IF k = <<Root, 0>>
                                   THEN [tg |-> NoTG, pidnsPath |-> "", hostTTY |-> FALSE]
                                   ELSE NoEntry]
  /\ tgs = [t \in TGs |-> [st |-> "free", cloning |-> FALSE, cid |-> NoEntry, ns |-> "root",
                           killedBy |-> NoEntry]]
  /\ mu = NoHolder
  /\ rootRun = "pending"
  /\ monitor = [c \in Cids |-> "none"]
  /\ dthr = [c \in Cids |-> [pc |-> "idle", waitset |-> {}, ok |-> FALSE]]
  /\ wthr = [w \in Waiters |-> [pc |-> "idle", key |-> <<Root, 0>>, tg |-> NoTG, entry |-> FALSE]]
  /\ panicked = FALSE
  /\ startCalls = {}

Subs == Cids \ {Root}
StartFailures == {"args", "early", "late", "ok"}

Step ==
  \/ \E c \in Subs, tty \in BOOLEAN : CreateSubcontainer(c, tty)
  \/ \E c \in Subs, ns \in {"none"} \cup Paths, term \in BOOLEAN, f \in StartFailures :
        StartSubcontainer(c, ns, term, f)
  \/ \E ns \in {"none"} \cup Paths, ok \in BOOLEAN : Run(ns, ok)
  \/ \E c \in Cids : \/ ExecuteAsync(c)
                     \/ DestroyLock(c) \/ DestroyKill(c) \/ DestroyWaited(c) \/ DestroyDelete(c)
                     \/ GoferHangup(c) \/ GoferMonitorLock(c) \/ GoferMonitorKill(c)
  \/ \E w \in Waiters : \/ \E c \in Cids, t \in TGs : WaitPIDLookup(w, c, t)
                        \/ WaitPIDExited(w) \/ WaitPIDDelete(w)
  \/ \E t \in TGs : CloneStart(t) \/ CloneEnd(t) \/ Exit(t) \/ KilledExit(t)
  \/ \E c \in Cids, all \in BOOLEAN : SignalContainer(c, all)
  \/ \E c \in Cids, pid \in {0} \cup TGs, fg \in BOOLEAN : SignalProcess(c, pid, fg)

(* The controller serves no RPC in flight and waits for the next one. *)
Idle ==
  /\ \A c \in Cids : dthr[c].pc \in {"idle", "done"} /\ monitor[c] \notin {"hup", "killing"}
  /\ \A w \in Waiters : wthr[w].pc \in {"idle", "done"}
  /\ UNCHANGED vars

(* After a panic the sentry is gone: nothing happens any more. *)
Next == (~panicked /\ Step) \/ Idle

(* Fairness: a served RPC and the gofer monitor keep running; a goroutine  *)
(* waiting for l.mu gets it eventually (strong fairness: the lock is free  *)
(* only now and then); a clone in flight finishes, so a pending Pause      *)
(* finds the kernel quiescent; a SIGKILLed process dies. A process that is *)
(* not killed may run forever, and clients call when they like.            *)
Fairness ==
  /\ \A c \in Cids : /\ WF_vars(DestroyKill(c)) /\ WF_vars(DestroyWaited(c))
                     /\ WF_vars(DestroyDelete(c)) /\ SF_vars(GoferMonitorLock(c))
                     /\ WF_vars(GoferMonitorKill(c))
  /\ \A w \in Waiters : WF_vars(WaitPIDExited(w)) /\ SF_vars(WaitPIDDelete(w))
  /\ \A t \in TGs : WF_vars(CloneEnd(t)) /\ WF_vars(KilledExit(t))

Spec == Init /\ [][Next]_vars /\ Fairness

-----------------------------------------------------------------------------
TypeOK ==
  /\ processes \in [Keys -> Entry \cup {NoEntry}]
  /\ tgs \in [TGs -> [st: {"free", "running", "killed", "exited"}, cloning: BOOLEAN,
                      cid: Cids \cup {NoEntry}, ns: TGs \cup {"root"},
                      killedBy: Cids \cup {NoEntry}]]
  /\ mu \in (Cids \X {"destroy", "gofer"}) \cup {NoHolder}
  /\ rootRun \in {"pending", "running", "failed"}
  /\ monitor \in [Cids -> {"none", "armed", "hup", "killing", "fired"}]
  /\ dthr \in [Cids -> [pc: {"idle", "kill", "wait", "delete", "done"},
                        waitset: SUBSET TGs, ok: BOOLEAN]]
  /\ wthr \in [Waiters -> [pc: {"idle", "wait", "delete", "done"}, key: Keys,
                           tg: TGs \cup {NoTG}, entry: BOOLEAN]]
  /\ startCalls \subseteq Cids
  /\ \A k \in Keys : Found(k) /\ TGOf(k) # NoTG => tgs[TGOf(k)].cid = k[1]

(* The sentry never dereferences a nil thread group: startSubcontainer's   *)
(* search for a named PID namespace only finds entries that have one.      *)
NoPanic == ~panicked

(* When destroySubcontainer returns success no process of the container is *)
(* alive: the SIGKILL reached every task, forks included, and each of them *)
(* was waited for.                                                         *)
DestroyLeavesNoLiveTask ==
  [][\A c \in Cids : (dthr[c].pc # "done" /\ dthr'[c].pc = "done" /\ dthr'[c].ok)
                        => LiveTGsOf(c)' = {}]_vars

(* A process is only ever killed by a kill addressed to its own container: *)
(* destroy, the gofer monitor and every signal delivery mode reach no     *)
(* other container's process, whatever PID the client names and whatever  *)
(* has exited, been waited for or been deleted since. killedBy records    *)
(* the container each SIGKILL was sent for.                               *)
KillStaysInContainer ==
  \A t \in TGs : tgs[t].st \in {"killed", "exited"} /\ tgs[t].killedBy # NoEntry
                   => tgs[t].killedBy = tgs[t].cid

(* destroySubcontainer, which holds l.mu while it waits, always returns.  *)
DestroyReturns ==
  \A c \in Cids : dthr[c].pc \in {"kill", "wait", "delete"} ~> (dthr[c].pc = "done" \/ panicked)

=============================================================================
