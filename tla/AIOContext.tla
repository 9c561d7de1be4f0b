----------------------------- MODULE AIOContext -----------------------------
(***************************************************************************)
(* Asynchronous I/O contexts of one MemoryManager                          *)
(* (pkg/sentry/mm/aio_context.go): the aioManager's map from ring address  *)
(* to AIOContext, each context's outstanding counter, completed-result     *)
(* list, dead flag and requestReady notification channel (capacity 1).     *)
(*                                                                         *)
(* The threads that drive it are the syscalls that call it: io_setup       *)
(* (NewAIOContext), io_submit (LookupAIOContext, Prepare, then either      *)
(* CancelPendingRequest or an asynchronous FinishRequest), io_getevents    *)
(* (PopRequest / WaitChannel / block) and io_destroy (DestroyAIOContext,   *)
(* then Drain / WaitChannel / block until the channel is gone), racing     *)
(* with munmap, mmap and mremap of the ring and with address-space         *)
(* teardown (destroyAIOManager).                                           *)
(***************************************************************************)
EXTENDS Naturals, Sequences, FiniteSets, Functions

CONSTANTS
  Addrs,       \* ring addresses, which are also the context IDs
  Ctxs,        \* AIOContext objects io_setup may allocate
  Reqs,        \* I/O requests, one io_submit each
  Waiters,     \* threads calling io_getevents
  Destroyers,  \* threads calling io_destroy
  MaxEvents,   \* largest events argument of io_setup (maxOutstanding)
  NoCtx        \* model value: aioManager.contexts has no entry

ASSUME MaxEvents \in Nat \ {0}
ASSUME NoCtx \notin Ctxs

VARIABLES
  mapping,     \* the VMA at each ring address: "none", "aio" or "other"
  contexts,    \* aioManager.contexts
  ctx,         \* the fields of each AIOContext object
  req,         \* progress of each io_submit request
  wthr,        \* progress of each io_getevents thread
  dthr,        \* progress of each io_destroy thread
  mmAlive,     \* FALSE once destroyAIOManager ran at address-space teardown
  panicked     \* TRUE once the code reached one of its panic() or close(nil)

vars == <<mapping, contexts, ctx, req, wthr, dthr, mmAlive, panicked>>

-----------------------------------------------------------------------------
(* The AIOContext struct. ready = "nil" once checkForDone closed the       *)
(* channel and set the field to nil; token is the channel's one buffered   *)
(* slot. born marks the objects io_setup has allocated.                   *)

CtxRec == [born: BOOLEAN, dead: BOOLEAN, maxOutstanding: 0..MaxEvents,
           outstanding: 0..Cardinality(Reqs), results: Seq(Reqs),
           ready: {"open", "nil"}, token: 0..1]

Unborn == [born |-> FALSE, dead |-> FALSE, maxOutstanding |-> 0,
           outstanding |-> 0, results |-> <<>>, ready |-> "open", token |-> 0]

(* A method's effect: the new AIOContext fields, and whether it panicked. *)
Ok(r) == [r |-> r, panic |-> FALSE]
Panic(r) == [r |-> r, panic |-> TRUE]

(* checkForDone: once dead with nothing outstanding, close requestReady    *)
(* and set it to nil. close() of the nil field panics.                    *)
CheckForDone(r) ==
  IF r.dead /\ r.outstanding = 0
    THEN [r |-> [r EXCEPT !.ready = "nil", !.token = 0], panic |-> r.ready = "nil"]
    ELSE Ok(r)

(* destroy: mark dead, then checkForDone. *)
Destroy(r) == CheckForDone([r EXCEPT !.dead = TRUE])

(* Mutant: the capacity test off by one. *)
PrepareResultOffByOne(r) ==
  IF r.dead THEN "EINVAL"
  ELSE IF r.outstanding > r.maxOutstanding THEN "EAGAIN"
  ELSE "ok"

(* Prepare: EINVAL when dead, EAGAIN at capacity, else reserve a slot. *)
PrepareResult(r) ==
  IF r.dead THEN "EINVAL"
  ELSE IF r.outstanding >= r.maxOutstanding THEN "EAGAIN"
  ELSE "ok"

(* Mutant: the result is removed but outstanding is not decremented. *)
PoppedNoDecrement(r) ==
  IF r.outstanding = 0 THEN Panic(r)
  ELSE CheckForDone([r EXCEPT !.results = Tail(@)])

(* PopRequest, called with a non-empty result list. *)
Popped(r) ==
  IF r.outstanding = 0 THEN Panic(r)
  ELSE CheckForDone([r EXCEPT !.outstanding = @ - 1, !.results = Tail(@)])

(* Mutant: the result is pushed without notifying requestReady. *)
FinishedNoNotify(r, q) == [r EXCEPT !.results = Append(@, q)]

(* FinishRequest: push, then a non-blocking send (a send on the nil field  *)
(* takes the default branch, as does a send on the full buffer).           *)
Finished(r, q) ==
  [r EXCEPT !.results = Append(@, q),
            !.token = IF r.ready = "open" THEN 1 ELSE @]

(* Mutant: the decrement without the checkForDone after it. *)
CancelledNoCheck(r) ==
  IF r.outstanding = 0 THEN Panic(r)
  ELSE Ok([r EXCEPT !.outstanding = @ - 1])

(* CancelPendingRequest. *)
Cancelled(r) ==
  IF r.outstanding = 0 THEN Panic(r)
  ELSE CheckForDone([r EXCEPT !.outstanding = @ - 1])

Drained(r) ==
  IF r.outstanding = 0 THEN Ok(r)
  ELSE IF r.outstanding < Len(r.results) THEN Panic(r)
  ELSE CheckForDone([r EXCEPT !.outstanding = @ - Len(r.results), !.results = <<>>])

(* LookupAIOContext: the map entry, then isValidAddr (CopyIn of 4 bytes    *)
(* succeeds while something is mapped there).                             *)
Lookup(a) == IF contexts[a] # NoCtx /\ mapping[a] # "none" THEN contexts[a] ELSE NoCtx

SetCtx(c, o) ==
  /\ ctx' = [ctx EXCEPT ![c] = o.r]
  /\ panicked' = o.panic

-----------------------------------------------------------------------------
(* io_setup: NewAIOContext maps a fresh ring (MMap picks a free address),  *)
(* then newAIOContext registers it unless the ID is still in the map, in   *)
(* which case the ring is unmapped again and io_setup fails with EINVAL.   *)
NewAIOContext(a, ev) ==
  LET c == CHOOSE x \in Ctxs : ~ctx[x].born IN
  /\ mmAlive
  /\ \E x \in Ctxs : ~ctx[x].born
  /\ mapping[a] = "none"
  /\ IF contexts[a] = NoCtx
       THEN /\ mapping' = [mapping EXCEPT ![a] = "aio"]
            /\ contexts' = [contexts EXCEPT ![a] = c]
            /\ ctx' = [ctx EXCEPT ![c] = [Unborn EXCEPT !.born = TRUE, !.maxOutstanding = ev]]
       ELSE UNCHANGED <<mapping, contexts, ctx>>
  /\ UNCHANGED <<req, wthr, dthr, mmAlive, panicked>>

(* munmap of a ring: RemoveMapping does nothing, the context stays. *)
Munmap(a) ==
  /\ mmAlive
  /\ mapping[a] # "none"
  /\ mapping' = [mapping EXCEPT ![a] = "none"]
  /\ UNCHANGED <<contexts, ctx, req, wthr, dthr, mmAlive, panicked>>

(* An unrelated mmap landing on a free ring address. *)
MmapOther(a) ==
  /\ mmAlive
  /\ mapping[a] = "none"
  /\ mapping' = [mapping EXCEPT ![a] = "other"]
  /\ UNCHANGED <<contexts, ctx, req, wthr, dthr, mmAlive, panicked>>

(* mremap of a ring from s to d (whatever was at d is unmapped first):     *)
(* CopyMapping moves a live context to the new ID, and refuses with        *)
(* EINVAL, leaving the ring where it was, when none or a dead one is at s. *)
CopyMapping(s, d) ==
  LET c == contexts[s] IN
  /\ mmAlive
  /\ s # d
  /\ mapping[s] = "aio"
  /\ IF c # NoCtx /\ ~ctx[c].dead
       THEN /\ contexts' = [contexts EXCEPT ![d] = c, ![s] = NoCtx]
            /\ mapping' = [mapping EXCEPT ![s] = "none", ![d] = "aio"]
       ELSE UNCHANGED <<contexts, mapping>>
  /\ UNCHANGED <<ctx, req, wthr, dthr, mmAlive, panicked>>

(* Address-space teardown once every task of the process has exited:      *)
(* destroyAIOManager destroys every context still in the map.              *)
DestroyAIOManager ==
  LET inMap == Range(contexts) \ {NoCtx} IN
  /\ mmAlive
  /\ \A r \in Reqs : req[r].st # "looked"
  /\ \A w \in Waiters : wthr[w].pc \in {"idle", "done"}
  /\ \A d \in Destroyers : dthr[d].pc \in {"idle", "done"}
  /\ ctx' = [c \in Ctxs |-> IF c \in inMap THEN Destroy(ctx[c]).r ELSE ctx[c]]
  /\ panicked' = \E c \in inMap : Destroy(ctx[c]).panic
  /\ contexts' = [a \in Addrs |-> NoCtx]
  /\ mmAlive' = FALSE
  /\ UNCHANGED <<mapping, req, wthr, dthr>>

-----------------------------------------------------------------------------
(* io_submit of request q: look the context up, then Prepare. *)
SubmitLookup(q, a) ==
  /\ mmAlive
  /\ req[q].st = "idle"
  /\ req' = [req EXCEPT ![q] = IF Lookup(a) = NoCtx
                                 THEN [st |-> "done", c |-> NoCtx]
                                 ELSE [st |-> "looked", c |-> Lookup(a)]]
  /\ UNCHANGED <<mapping, contexts, ctx, wthr, dthr, mmAlive, panicked>>

SubmitPrepare(q) ==
  LET c == req[q].c IN
  /\ req[q].st = "looked"
  /\ IF PrepareResult(ctx[c]) = "ok"
       THEN /\ ctx' = [ctx EXCEPT ![c].outstanding = @ + 1]
            /\ req' = [req EXCEPT ![q].st = "pending"]
       ELSE /\ req' = [req EXCEPT ![q].st = "done"]
            /\ UNCHANGED ctx
  /\ UNCHANGED <<mapping, contexts, wthr, dthr, mmAlive, panicked>>

(* The submission fails after Prepare: CancelPendingRequest. *)
SubmitCancel(q) ==
  LET c == req[q].c IN
  /\ req[q].st = "pending"
  /\ SetCtx(c, Cancelled(ctx[c]))
  /\ req' = [req EXCEPT ![q].st = "done"]
  /\ UNCHANGED <<mapping, contexts, wthr, dthr, mmAlive>>

(* The asynchronous operation completes: FinishRequest. *)
FinishRequest(q) ==
  LET c == req[q].c IN
  /\ req[q].st = "pending"
  /\ ctx' = [ctx EXCEPT ![c] = Finished(ctx[c], q)]
  /\ req' = [req EXCEPT ![q].st = "done"]
  /\ UNCHANGED <<mapping, contexts, wthr, dthr, mmAlive, panicked>>

-----------------------------------------------------------------------------
(* io_getevents for one event: lookup, then loop { PopRequest; on nothing, *)
(* WaitChannel, return EINVAL if nil, else block on the channel }.         *)
WaitLookup(w, a) ==
  /\ mmAlive
  /\ wthr[w].pc = "idle"
  /\ wthr' = [wthr EXCEPT ![w] = IF Lookup(a) = NoCtx
                                   THEN [pc |-> "done", c |-> NoCtx]
                                   ELSE [pc |-> "pop", c |-> Lookup(a)]]
  /\ UNCHANGED <<mapping, contexts, ctx, req, dthr, mmAlive, panicked>>

PopRequest(w) ==
  LET c == wthr[w].c IN
  /\ wthr[w].pc = "pop"
  /\ IF ctx[c].results # <<>>
       THEN /\ SetCtx(c, Popped(ctx[c]))
            /\ wthr' = [wthr EXCEPT ![w].pc = "done"]
       ELSE /\ wthr' = [wthr EXCEPT ![w].pc = "wait"]
            /\ UNCHANGED <<ctx, panicked>>
  /\ UNCHANGED <<mapping, contexts, req, dthr, mmAlive>>

WaiterWaitChannel(w) ==
  LET c == wthr[w].c IN
  /\ wthr[w].pc = "wait"
  /\ wthr' = [wthr EXCEPT ![w].pc = IF ctx[c].ready = "nil" THEN "done" ELSE "blocked"]
  /\ UNCHANGED <<mapping, contexts, ctx, req, dthr, mmAlive, panicked>>

(* A receive on the channel: it takes the buffered token or sees it closed. *)
Receive(c) ==
  /\ ctx[c].ready = "nil" \/ ctx[c].token = 1
  /\ ctx' = [ctx EXCEPT ![c].token = 0]

WaiterWake(w) ==
  /\ wthr[w].pc = "blocked"
  /\ Receive(wthr[w].c)
  /\ wthr' = [wthr EXCEPT ![w].pc = "pop"]
  /\ UNCHANGED <<mapping, contexts, req, dthr, mmAlive, panicked>>

(* The deadline passes or a signal interrupts the block. *)
WaiterTimeout(w) ==
  /\ wthr[w].pc = "blocked"
  /\ wthr' = [wthr EXCEPT ![w].pc = "done"]
  /\ UNCHANGED <<mapping, contexts, ctx, req, dthr, mmAlive, panicked>>

-----------------------------------------------------------------------------
(* io_destroy: DestroyAIOContext checks the address (isValidAddr), unmaps  *)
(* the ring, then under the manager lock removes and destroys the context; *)
(* io_destroy then loops { Drain; WaitChannel; nil: return; block }.       *)
DestroyUnmap(d, a) ==
  /\ mmAlive
  /\ dthr[d].pc = "idle"
  /\ IF mapping[a] = "none"
       THEN /\ dthr' = [dthr EXCEPT ![d].pc = "done"]
            /\ UNCHANGED mapping
       ELSE /\ mapping' = [mapping EXCEPT ![a] = "none"]
            /\ dthr' = [dthr EXCEPT ![d] = [pc |-> "unmapped", a |-> a, c |-> NoCtx]]
  /\ UNCHANGED <<contexts, ctx, req, wthr, mmAlive, panicked>>

DestroyAIOContextLocked(d) ==
  LET a == dthr[d].a
      c == contexts[a] IN
  /\ dthr[d].pc = "unmapped"
  /\ IF c = NoCtx
       THEN /\ dthr' = [dthr EXCEPT ![d].pc = "done"]
            /\ UNCHANGED <<contexts, ctx, panicked>>
       ELSE /\ contexts' = [contexts EXCEPT ![a] = NoCtx]
            /\ SetCtx(c, Destroy(ctx[c]))
            /\ dthr' = [dthr EXCEPT ![d].pc = "drain", ![d].c = c]
  /\ UNCHANGED <<mapping, req, wthr, mmAlive>>

Drain(d) ==
  LET c == dthr[d].c IN
  /\ dthr[d].pc = "drain"
  /\ SetCtx(c, Drained(ctx[c]))
  /\ dthr' = [dthr EXCEPT ![d].pc = "wait"]
  /\ UNCHANGED <<mapping, contexts, req, wthr, mmAlive>>

DestroyerWaitChannel(d) ==
  LET c == dthr[d].c IN
  /\ dthr[d].pc = "wait"
  /\ dthr' = [dthr EXCEPT ![d].pc = IF ctx[c].ready = "nil" THEN "done" ELSE "blocked"]
  /\ UNCHANGED <<mapping, contexts, ctx, req, wthr, mmAlive, panicked>>

DestroyerWake(d) ==
  /\ dthr[d].pc = "blocked"
  /\ Receive(dthr[d].c)
  /\ dthr' = [dthr EXCEPT ![d].pc = "drain"]
  /\ UNCHANGED <<mapping, contexts, req, wthr, mmAlive, panicked>>

-----------------------------------------------------------------------------
Init ==
  /\ mapping = [a \in Addrs |-> "none"]
  /\ contexts = [a \in Addrs |-> NoCtx]
  /\ ctx = [c \in Ctxs |-> Unborn]
  /\ req = [q \in Reqs |-> [st |-> "idle", c |-> NoCtx]]
  /\ wthr = [w \in Waiters |-> [pc |-> "idle", c |-> NoCtx]]
  /\ dthr = [d \in Destroyers |-> [pc |-> "idle", a |-> CHOOSE a \in Addrs : TRUE, c |-> NoCtx]]
  /\ mmAlive = TRUE
  /\ panicked = FALSE

(* The process has exited and every request has completed. *)
Terminated ==
  /\ ~mmAlive
  /\ \A q \in Reqs : req[q].st \in {"idle", "done"}
  /\ UNCHANGED vars

Step ==
  \/ \E a \in Addrs, ev \in 1..MaxEvents : NewAIOContext(a, ev)
  \/ \E a \in Addrs : Munmap(a) \/ MmapOther(a)
  \/ \E s, d \in Addrs : CopyMapping(s, d)
  \/ DestroyAIOManager
  \/ \E q \in Reqs : \/ \E a \in Addrs : SubmitLookup(q, a)
                     \/ SubmitPrepare(q) \/ SubmitCancel(q) \/ FinishRequest(q)
  \/ \E w \in Waiters : \/ \E a \in Addrs : WaitLookup(w, a)
                        \/ PopRequest(w) \/ WaiterWaitChannel(w)
                        \/ WaiterWake(w) \/ WaiterTimeout(w)
  \/ \E d \in Destroyers : \/ \E a \in Addrs : DestroyUnmap(d, a)
                           \/ DestroyAIOContextLocked(d) \/ Drain(d)
                           \/ DestroyerWaitChannel(d) \/ DestroyerWake(d)

(* A panic ends the sentry: nothing happens after it. *)
Next == (~panicked /\ Step) \/ Terminated

(* Fairness: a started syscall keeps running (weak fairness on each of its *)
(* steps), an issued I/O completes or is cancelled, and a goroutine        *)
(* blocked on a channel is woken when a value or the close reaches it      *)
(* (Go wakes channel receivers in FIFO order: strong fairness). Starting a *)
(* syscall, munmap/mmap/mremap, timeouts and process exit are not forced.  *)
Fairness ==
  /\ \A q \in Reqs : WF_vars(SubmitPrepare(q)) /\ WF_vars(SubmitCancel(q) \/ FinishRequest(q))
  /\ \A w \in Waiters : WF_vars(PopRequest(w)) /\ WF_vars(WaiterWaitChannel(w))
                        /\ SF_vars(WaiterWake(w))
  /\ \A d \in Destroyers : WF_vars(DestroyAIOContextLocked(d)) /\ WF_vars(Drain(d))
                           /\ WF_vars(DestroyerWaitChannel(d)) /\ SF_vars(DestroyerWake(d))

Spec == Init /\ [][Next]_vars /\ Fairness

-----------------------------------------------------------------------------
TypeOK ==
  /\ mapping \in [Addrs -> {"none", "aio", "other"}]
  /\ contexts \in [Addrs -> Ctxs \cup {NoCtx}]
  /\ ctx \in [Ctxs -> CtxRec]
  /\ \A c \in Ctxs : ctx[c].outstanding <= ctx[c].maxOutstanding
  /\ req \in [Reqs -> [st: {"idle", "looked", "pending", "done"}, c: Ctxs \cup {NoCtx}]]
  /\ wthr \in [Waiters -> [pc: {"idle", "pop", "wait", "blocked", "done"}, c: Ctxs \cup {NoCtx}]]
  /\ dthr \in [Destroyers -> [pc: {"idle", "unmapped", "drain", "wait", "blocked", "done"},
                              a: Addrs, c: Ctxs \cup {NoCtx}]]
  /\ mmAlive \in BOOLEAN
  /\ panicked \in BOOLEAN

-----------------------------------------------------------------------------
(* No method reached one of its panics: outstanding never underflows in    *)
(* PopRequest, CancelPendingRequest or Drain, and checkForDone never       *)
(* closes requestReady twice, whatever the order of io_submit completions, *)
(* io_getevents, io_destroy and address-space teardown.                   *)
NoPanic == ~panicked

(* The counter matches the requests: outstanding is the number of requests *)
(* Prepared on the context and neither cancelled nor completed, plus the   *)
(* completed results not yet popped or drained.                           *)
OutstandingAccounting ==
  \A c \in Ctxs : ctx[c].born =>
     ctx[c].outstanding =
       Cardinality({q \in Reqs : req[q].st = "pending" /\ req[q].c = c})
         + Len(ctx[c].results)

(* requestReady is closed (and nil) exactly when the context is dead with  *)
(* nothing outstanding: every path that makes that true runs checkForDone, *)
(* and nothing Prepares on a context after it.                            *)
ReadyClosedExactlyWhenDone ==
  \A c \in Ctxs : ctx[c].born =>
     ((ctx[c].ready = "nil") <=> (ctx[c].dead /\ ctx[c].outstanding = 0))

(* A live context is reachable from aioManager.contexts, which is the only *)
(* way io_destroy and destroyAIOManager find a context to destroy.         *)
LiveContextRegistered ==
  \A c \in Ctxs : ctx[c].born /\ ~ctx[c].dead => c \in Range(contexts)

(* io_destroy, which sleeps uninterruptibly on requestReady, returns once  *)
(* it has destroyed the context: every pending request's completion wakes  *)
(* it to Drain again until the channel is closed.                          *)
IoDestroyReturns ==
  \A d \in Destroyers : dthr[d].pc = "drain" ~> dthr[d].pc = "done"

(* The same, in every behaviour where no io_getevents runs: io_destroy    *)
(* and the completions it waits for then share requestReady with nobody,  *)
(* so its one-slot notification can only be taken by io_destroy.          *)
IoDestroyReturnsAlone ==
  [](\A w \in Waiters : wthr[w].pc = "idle") => IoDestroyReturns

=============================================================================
