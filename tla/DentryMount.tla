----------------------------- MODULE DentryMount -----------------------------
(***************************************************************************)
(* The locking protocol between dentry deletion, rename and invalidation   *)
(* (pkg/sentry/vfs/dentry.go) and mount and umount over the same dentries. *)
(* Filesystem implementations call PrepareDeleteDentry, then Abort- or     *)
(* CommitDeleteDentry, and PrepareRenameDentry, then AbortRenameDentry or  *)
(* CommitRename{Replace,Exchange}Dentry; a prepared dentry is held locked  *)
(* (d.mu) across the filesystem's own work so that no mount can land on   *)
(* it. A dentry that dies while mounted has its mounts removed, in every   *)
(* namespace, by forgetDeadMountpoint.                                    *)
(*                                                                         *)
(* Mount and umount live in vfs/mount.go, which is not part of this tree:  *)
(* they are modelled from the specification (a mount takes mountMu, then   *)
(* the dentry's mu, and refuses a dead dentry). The callers' sequence of   *)
(* Prepare / Abort / Commit is likewise the documented contract. Mounts    *)
(* are counted per namespace and dentry (mntns.mountpoints[d]); d.mounts   *)
(* is their sum. Mounts stacked on mounts are not modelled.                *)
(***************************************************************************)
EXTENDS Naturals, FiniteSets, Functions

CONSTANTS
  Threads,     \* goroutines calling into the VFS
  Dentries,
  Namespaces,  \* mount namespaces
  MaxMounts,   \* bound on the mounts of one dentry in one namespace
  NoHolder,    \* an unlocked mutex
  NoDentry     \* rename's to == nil

VARIABLES
  mountMu,     \* holder of vfs.mountMu
  mu,          \* holder of each d.mu
  dead,        \* d.dead
  evictable,   \* d.evictable
  mountpoints, \* mntns.mountpoints[d], per namespace
  thr          \* each goroutine: pc, the call's namespace, d (or from), to

vars == <<mountMu, mu, dead, evictable, mountpoints, thr>>

Holders == Threads \cup {NoHolder}
Pcs == {"idle", "delete", "delete_mu", "delete_fs", "rename", "rename_to",
        "rename_from", "rename_fs", "check", "forget", "invalidate",
        "mount", "mount_mu", "umount"}

(* d.mounts: the number of Mounts whose mount point is d. *)
Mounts(d) == SumFunction([n \in Namespaces |-> mountpoints[n][d]])

(* d.isMounted(), an atomic load of d.mounts. *)
isMounted(d) == Mounts(d) # 0

Goto(t, pc) == thr' = [thr EXCEPT ![t].pc = pc]

(* A goroutine between calls; the arguments of its last call are dropped. *)
Idle == [pc |-> "idle", ns |-> CHOOSE n \in Namespaces : TRUE,
         d |-> CHOOSE d \in Dentries : TRUE, to |-> NoDentry]

Return(t) == thr' = [thr EXCEPT ![t] = Idle]

-----------------------------------------------------------------------------
(* A filesystem goroutine enters one of dentry.go's calls with arguments  *)
(* of its choice: a Prepare (then Abort or one Commit), or Invalidate.     *)
Begin(t) ==
  /\ thr[t].pc = "idle"
  /\ \E n \in Namespaces, d \in Dentries, to \in Dentries \cup {NoDentry} :
       \/ /\ to = NoDentry
          /\ \E pc \in {"delete", "invalidate"} :
               thr' = [thr EXCEPT ![t] = [pc |-> pc, ns |-> n, d |-> d, to |-> to]]
       \/ /\ d # to
          /\ thr' = [thr EXCEPT ![t] = [pc |-> "rename", ns |-> n, d |-> d, to |-> to]]
  /\ UNCHANGED <<mountMu, mu, dead, evictable, mountpoints>>

(* mount(2) in the caller's mount namespace. Without CAP_SYS_ADMIN, with  *)
(* an unsupported flag, or when a path or string cannot be copied in or   *)
(* resolved, it returns an error having changed nothing. A propagation     *)
(* change only sets a mount's propagation type under mountMu, which       *)
(* nothing here reads. MS_BIND (BindAt) and a new mount (MountAt) both add *)
(* a mount at the target dentry, taking mountMu and then its d.mu. A mount *)
(* is only started below MaxMounts, counting the mounts in flight.        *)
Mount(t) ==
  /\ thr[t].pc = "idle"
  /\ \E n \in Namespaces, d \in Dentries :
       LET pending == Cardinality({u \in Threads : thr[u].pc \in {"mount", "mount_mu"}
                                                   /\ thr[u].ns = n /\ thr[u].d = d})
       IN /\ mountpoints[n][d] + pending < MaxMounts
          /\ thr' = [thr EXCEPT ![t] = [pc |-> "mount", ns |-> n, d |-> d, to |-> NoDentry]]
  /\ UNCHANGED <<mountMu, mu, dead, evictable, mountpoints>>

(* umount2(2): after the same checks (MNT_FORCE and MNT_EXPIRE are        *)
(* EINVAL), UmountAt on the resolved path.                                *)
Umount2(t) ==
  /\ thr[t].pc = "idle"
  /\ \E n \in Namespaces, d \in Dentries :
       thr' = [thr EXCEPT ![t] = [pc |-> "umount", ns |-> n, d |-> d, to |-> NoDentry]]
  /\ UNCHANGED <<mountMu, mu, dead, evictable, mountpoints>>

(* MarkEvictable: d.mu.Lock(); d.evictable = true; d.mu.Unlock(). *)
MarkEvictable(t) ==
  /\ thr[t].pc = "idle"
  /\ \E d \in Dentries : mu[d] = NoHolder /\ evictable' = [evictable EXCEPT ![d] = TRUE]
  /\ UNCHANGED <<mountMu, mu, dead, mountpoints, thr>>

(* PrepareDeleteDentry: under mountMu, EBUSY if d is a mount point in the  *)
(* caller's namespace; otherwise lock d.mu, then drop mountMu and return   *)
(* holding d.mu.                                                           *)
PrepareDeleteLockMount(t) ==
  /\ thr[t].pc = "delete"
  /\ mountMu = NoHolder
  /\ IF mountpoints[thr[t].ns][thr[t].d] # 0
       THEN mountMu' = NoHolder /\ Return(t)
       ELSE mountMu' = t /\ Goto(t, "delete_mu")
  /\ UNCHANGED <<mu, dead, evictable, mountpoints>>

PrepareDeleteLockDentry(t) ==
  /\ thr[t].pc = "delete_mu"
  /\ mu[thr[t].d] = NoHolder
  /\ mu' = [mu EXCEPT ![thr[t].d] = t]
  /\ mountMu' = NoHolder
  /\ Goto(t, "delete_fs")
  /\ UNCHANGED <<dead, evictable, mountpoints>>

(* AbortDeleteDentry: the filesystem failed to delete; unlock d.mu. *)
AbortDeleteDentry(t) ==
  /\ thr[t].pc = "delete_fs"
  /\ mu' = [mu EXCEPT ![thr[t].d] = NoHolder]
  /\ Return(t)
  /\ UNCHANGED <<mountMu, dead, evictable, mountpoints>>

(* CommitDeleteDentry: d.dead = true; d.mu.Unlock(); then, apart, if       *)
(* d.isMounted(), forgetDeadMountpoint.                                    *)
CommitDeleteDentry(t) ==
  /\ thr[t].pc = "delete_fs"
  /\ dead' = [dead EXCEPT ![thr[t].d] = TRUE]
  /\ mu' = [mu EXCEPT ![thr[t].d] = NoHolder]
  /\ Goto(t, "check")
  /\ UNCHANGED <<mountMu, evictable, mountpoints>>

(* The isMounted test that follows an unlock in CommitDeleteDentry,       *)
(* InvalidateDentry and CommitRenameReplaceDentry (on thr[t].d, the dentry *)
(* just killed).                                                           *)
CheckMounted(t) ==
  /\ thr[t].pc = "check"
  /\ IF isMounted(thr[t].d) THEN Goto(t, "forget") ELSE Return(t)
  /\ UNCHANGED <<mountMu, mu, dead, evictable, mountpoints>>

(* forgetDeadMountpoint: under mountMu, umount every mount whose mount     *)
(* point is d, in every namespace (vfs.mountpoints[d]); the references are *)
(* dropped (or, for InvalidateDentry, returned) after the unlock.          *)
ForgetDeadMountpoint(t) ==
  /\ thr[t].pc = "forget"
  /\ mountMu = NoHolder
  /\ mountpoints' = [n \in Namespaces |-> [mountpoints[n] EXCEPT ![thr[t].d] = 0]]
  /\ Return(t)
  /\ UNCHANGED <<mountMu, mu, dead, evictable>>

(* InvalidateDentry: d.mu.Lock(); d.dead = true; d.mu.Unlock(); then the  *)
(* isMounted test.                                                         *)
InvalidateDentry(t) ==
  /\ thr[t].pc = "invalidate"
  /\ mu[thr[t].d] = NoHolder
  /\ dead' = [dead EXCEPT ![thr[t].d] = TRUE]
  /\ Goto(t, "check")
  /\ UNCHANGED <<mountMu, mu, evictable, mountpoints>>

(* PrepareRenameDentry: under mountMu, EBUSY if from, or a non-nil to, is *)
(* a mount point in the caller's namespace; otherwise lock to.mu (if to is *)
(* not nil), then from.mu, then drop mountMu and return holding both.      *)
(* Mutant: the EBUSY check of a non-nil to is dropped. *)
PrepareRenameLockMountFromOnly(t) ==
  /\ thr[t].pc = "rename"
  /\ mountMu = NoHolder
  /\ IF mountpoints[thr[t].ns][thr[t].d] # 0
       THEN mountMu' = NoHolder /\ Return(t)
       ELSE mountMu' = t /\ Goto(t, IF thr[t].to # NoDentry THEN "rename_to" ELSE "rename_from")
  /\ UNCHANGED <<mu, dead, evictable, mountpoints>>

PrepareRenameLockMount(t) ==
  /\ thr[t].pc = "rename"
  /\ mountMu = NoHolder
  /\ LET n == thr[t].ns
         busy == \/ mountpoints[n][thr[t].d] # 0
                 \/ thr[t].to # NoDentry /\ mountpoints[n][thr[t].to] # 0
     IN IF busy
          THEN mountMu' = NoHolder /\ Return(t)
          ELSE mountMu' = t /\ Goto(t, IF thr[t].to # NoDentry THEN "rename_to" ELSE "rename_from")
  /\ UNCHANGED <<mu, dead, evictable, mountpoints>>

PrepareRenameLockTo(t) ==
  /\ thr[t].pc = "rename_to"
  /\ mu[thr[t].to] = NoHolder
  /\ mu' = [mu EXCEPT ![thr[t].to] = t]
  /\ Goto(t, "rename_from")
  /\ UNCHANGED <<mountMu, dead, evictable, mountpoints>>

PrepareRenameLockFrom(t) ==
  /\ thr[t].pc = "rename_from"
  /\ mu[thr[t].d] = NoHolder
  /\ mu' = [mu EXCEPT ![thr[t].d] = t]
  /\ mountMu' = NoHolder
  /\ Goto(t, "rename_fs")
  /\ UNCHANGED <<dead, evictable, mountpoints>>

(* The locks a prepared rename holds: from.mu and, unless nil, to.mu. *)
RenameLocks(t) == {thr[t].d} \cup ({thr[t].to} \ {NoDentry})

(* AbortRenameDentry: unlock from.mu and, if to is not nil, to.mu. *)
(* Mutant: to.mu is not unlocked. *)
AbortRenameDentryKeepsTo(t) ==
  /\ thr[t].pc = "rename_fs"
  /\ mu' = [mu EXCEPT ![thr[t].d] = NoHolder]
  /\ Return(t)
  /\ UNCHANGED <<mountMu, dead, evictable, mountpoints>>

AbortRenameDentry(t) ==
  /\ thr[t].pc = "rename_fs"
  /\ mu' = [x \in Dentries |-> IF x \in RenameLocks(t) THEN NoHolder ELSE mu[x]]
  /\ Return(t)
  /\ UNCHANGED <<mountMu, dead, evictable, mountpoints>>

(* CommitRenameReplaceDentry: unlock from.mu; if to is not nil, to.dead = *)
(* true and unlock to.mu, then the isMounted test on to.                  *)
(* Mutant: the replaced dentry is killed without the isMounted test. *)
CommitRenameReplaceDentryNoForget(t) ==
  /\ thr[t].pc = "rename_fs"
  /\ mu' = [x \in Dentries |-> IF x \in RenameLocks(t) THEN NoHolder ELSE mu[x]]
  /\ dead' = IF thr[t].to = NoDentry THEN dead ELSE [dead EXCEPT ![thr[t].to] = TRUE]
  /\ Return(t)
  /\ UNCHANGED <<mountMu, evictable, mountpoints>>

CommitRenameReplaceDentry(t) ==
  /\ thr[t].pc = "rename_fs"
  /\ mu' = [x \in Dentries |-> IF x \in RenameLocks(t) THEN NoHolder ELSE mu[x]]
  /\ IF thr[t].to = NoDentry
       THEN dead' = dead /\ Return(t)
       ELSE /\ dead' = [dead EXCEPT ![thr[t].to] = TRUE]
            /\ thr' = [thr EXCEPT ![t].pc = "check", ![t].d = thr[t].to]
  /\ UNCHANGED <<mountMu, evictable, mountpoints>>

(* CommitRenameExchangeDentry: an exchange has a non-nil to; unlock both. *)
CommitRenameExchangeDentry(t) ==
  /\ thr[t].pc = "rename_fs"
  /\ thr[t].to # NoDentry
  /\ mu' = [x \in Dentries |-> IF x \in RenameLocks(t) THEN NoHolder ELSE mu[x]]
  /\ Return(t)
  /\ UNCHANGED <<mountMu, dead, evictable, mountpoints>>

(* Mount (vfs/mount.go, from the specification): lock mountMu, then the   *)
(* mount point's d.mu; a dead mount point fails with ENOENT; otherwise    *)
(* the mount is connected (mountpoints[d] and d.mounts grow) and both     *)
(* locks are released.                                                    *)
MountLockMount(t) ==
  /\ thr[t].pc = "mount"
  /\ mountMu = NoHolder
  /\ mountMu' = t
  /\ Goto(t, "mount_mu")
  /\ UNCHANGED <<mu, dead, evictable, mountpoints>>

MountLockDentry(t) ==
  /\ thr[t].pc = "mount_mu"
  /\ mu[thr[t].d] = NoHolder
  /\ mountpoints' = IF dead[thr[t].d] THEN mountpoints
                    ELSE [mountpoints EXCEPT ![thr[t].ns][thr[t].d] = @ + 1]
  /\ mountMu' = NoHolder
  /\ Return(t)
  /\ UNCHANGED <<mu, dead, evictable>>

(* Umount (from the specification): under mountMu, disconnect one mount  *)
(* at d in the caller's namespace, EINVAL if there is none; it does not   *)
(* take d.mu.                                                              *)
(* Mutant: umount decrements without checking that a mount is there. *)
UmountNoCheck(t) ==
  /\ thr[t].pc = "umount"
  /\ mountMu = NoHolder
  /\ mountpoints' = [mountpoints EXCEPT ![thr[t].ns][thr[t].d] = @ - 1]
  /\ Return(t)
  /\ UNCHANGED <<mountMu, mu, dead, evictable>>

Umount(t) ==
  /\ thr[t].pc = "umount"
  /\ mountMu = NoHolder
  /\ mountpoints' = IF mountpoints[thr[t].ns][thr[t].d] = 0 THEN mountpoints
                    ELSE [mountpoints EXCEPT ![thr[t].ns][thr[t].d] = @ - 1]
  /\ Return(t)
  /\ UNCHANGED <<mountMu, mu, dead, evictable>>

-----------------------------------------------------------------------------
Init ==
  /\ mountMu = NoHolder
  /\ mu = [d \in Dentries |-> NoHolder]
  /\ dead = [d \in Dentries |-> FALSE]
  /\ evictable = [d \in Dentries |-> FALSE]
  /\ mountpoints = [n \in Namespaces |-> [d \in Dentries |-> 0]]
  /\ thr = [t \in Threads |-> Idle]

(* Every step of a call already entered: the goroutine runs it, or waits  *)
(* for the mutex it needs.                                                 *)
Proceed(t) ==
  \/ PrepareDeleteLockMount(t) \/ PrepareDeleteLockDentry(t)
  \/ AbortDeleteDentry(t) \/ CommitDeleteDentry(t)
  \/ CheckMounted(t) \/ ForgetDeadMountpoint(t) \/ InvalidateDentry(t)
  \/ PrepareRenameLockMount(t) \/ PrepareRenameLockTo(t) \/ PrepareRenameLockFrom(t)
  \/ AbortRenameDentry(t) \/ CommitRenameReplaceDentry(t) \/ CommitRenameExchangeDentry(t)
  \/ MountLockMount(t) \/ MountLockDentry(t) \/ Umount(t)

Next == \E t \in Threads : Begin(t) \/ Mount(t) \/ Umount2(t) \/ MarkEvictable(t) \/ Proceed(t)

(* Fairness: a goroutine inside a call keeps running. Its steps that take *)
(* a mutex are enabled only while the mutex is free, and sync.Mutex's      *)
(* starvation mode hands a contended mutex to a waiter that has waited    *)
(* long enough, so they are strongly fair; the other steps stay enabled.  *)
(* Entering a call, and the filesystem's choice between abort and commit, *)
(* carry no obligation beyond that.                                       *)
Spec == Init /\ [][Next]_vars /\ \A t \in Threads : SF_vars(Proceed(t))

-----------------------------------------------------------------------------
TypeOK ==
  /\ mountMu \in Holders
  /\ mu \in [Dentries -> Holders]
  /\ dead \in [Dentries -> BOOLEAN]
  /\ evictable \in [Dentries -> BOOLEAN]
  /\ mountpoints \in [Namespaces -> [Dentries -> 0..MaxMounts]]
  /\ thr \in [Threads -> [pc : Pcs, ns : Namespaces, d : Dentries, to : Dentries \cup {NoDentry}]]

(* From a successful PrepareDeleteDentry or PrepareRenameDentry until its *)
(* Abort or Commit, the filesystem works on dentries that are no mount     *)
(* point in the caller's namespace: the EBUSY check under mountMu and the  *)
(* d.mu held from before mountMu is dropped keep every mount out.          *)
PreparedNotMounted ==
  \A t \in Threads :
    /\ thr[t].pc = "delete_fs" =>
         mu[thr[t].d] = t /\ mountpoints[thr[t].ns][thr[t].d] = 0
    /\ thr[t].pc = "rename_fs" =>
         \A x \in RenameLocks(t) : mu[x] = t /\ mountpoints[thr[t].ns][x] = 0

(* A dead dentry (deleted, replaced by a rename, or invalidated) stays a   *)
(* mount point, in any namespace, only until the goroutine that killed it  *)
(* has run its isMounted test and forgetDeadMountpoint: no mount survives  *)
(* on a dead dentry, and none is made on one.                              *)
DeadMountpointForgotten ==
  \A d \in Dentries :
    dead[d] /\ isMounted(d) =>
      \E t \in Threads : thr[t].pc \in {"check", "forget"} /\ thr[t].d = d

(* Every call that is entered returns: PrepareRenameDentry's two dentry   *)
(* locks, taken in the order to, from, cannot deadlock with another rename *)
(* taking them in the other order, nor with delete or mount, because every *)
(* dentry lock is taken under mountMu and no holder of a dentry lock waits *)
(* for mountMu.                                                            *)
CallsReturn == \A t \in Threads : thr[t].pc # "idle" ~> thr[t].pc = "idle"

=============================================================================
