----------------------------- MODULE VirtualBus -----------------------------
(***************************************************************************)
(* One virtual USB bus (virtualbus/virtualbus.go): the registration list,  *)
(* device addresses, the per-incarnation operation fence, exact removal,   *)
(* close, and the "empty bus" incarnations used by delayed cleanup.        *)
(*                                                                         *)
(* Every critical section of vb.mtx is one step; a goroutine that leaves   *)
(* the mutex between two sections has a program counter in `pc'.  An Add   *)
(* incarnation (registrationLifecycle) is named by its registration token. *)
(***************************************************************************)
EXTENDS Integers, FiniteSets

CONSTANTS
  Procs,        \* goroutines that call the bus
  Devices,      \* usb.Device identities
  Aliases,      \* production Xbox export names issued by the server
  NoAlias,      \* the numeric export name "bus-dev" (always distinct)
  NoProc,
  MaxToken,     \* stands for ^uint64(0), where registration tokens run out
  MaxDeviceID,  \* stands for ^uint32(0), the largest device address
  Ceilings,     \* address ceilings that callers of addRegistration pass
  MaxEmpty      \* bound on empty-bus incarnations explored

ASSUME BusConstants ==
  /\ MaxToken \in Nat /\ MaxDeviceID \in Nat /\ MaxEmpty \in Nat
  /\ Ceilings \subseteq 1..MaxDeviceID
  /\ NoAlias \notin Aliases
  /\ NoProc \notin Procs

Tokens == 1..MaxToken
DeviceIDs == 1..MaxDeviceID
EmptyCtxs == 1..MaxEmpty

VARIABLES
  closed, closeDone,          \* vb.closed; the closeDone channel is closed
  busIDAllocated,             \* allocatedBusIds[vb.busID]
  nextRegistrationToken,
  devices,                    \* tokens of the entries of vb.devices
  info,                       \* token -> immutable dev, devID, alias
  allocatedDevIDs,
  published, active, removing, removalDone,  \* lifecycle flags, as token sets
  cancelled,                  \* tokens whose device context is cancelled
  readers, writer,            \* lifecycle.mu: read holders, pending writer
  emptyCtx, nextEmpty,        \* current empty incarnation (0 = nil), last made
  pc, tok,                    \* per goroutine: control point, its snapshot
  todo,                       \* per goroutine: marked, not yet finished
  closer, waiting,            \* who runs CloseAndTake, and whom it waits for
  emptySince, closedBy        \* ghosts: token count when a context was made,
                              \* and the context that closed the bus (0 = none)

regVars == <<nextRegistrationToken, info>>
listVars == <<devices, allocatedDevIDs, active, cancelled>>
flagVars == <<published, removing, removalDone>>
fenceVars == <<readers, writer>>
emptyVars == <<emptyCtx, nextEmpty, emptySince, closedBy>>
closeVars == <<closed, closeDone, busIDAllocated, closer, waiting>>
procVars == <<pc, tok, todo>>
vars == <<regVars, listVars, flagVars, fenceVars, emptyVars, closeVars, procVars>>

\* Where a goroutine can be between two critical sections.
Labels == {"idle", "acqRLock", "acqRecheck", "leased", "finLock", "finWait",
           "finSignal", "waitDone", "waitClose", "closeWait", "closeFree",
           "closeSignal"}

NoInfo == [dev |-> NoProc, devID |-> 0, alias |-> NoAlias]
Infos == [dev : Devices, devID : DeviceIDs, alias : Aliases \cup {NoAlias}]

\* NewWithBusID: a fresh bus holds its number and nothing else.
Init ==
  /\ closed = FALSE /\ closeDone = FALSE /\ busIDAllocated = TRUE
  /\ nextRegistrationToken = 0
  /\ devices = {} /\ info = [t \in Tokens |-> NoInfo]
  /\ allocatedDevIDs = {}
  /\ published = {} /\ active = {} /\ removing = {} /\ removalDone = {}
  /\ cancelled = {}
  /\ readers = [t \in Tokens |-> {}] /\ writer = [t \in Tokens |-> NoProc]
  /\ emptyCtx = 0 /\ nextEmpty = 0
  /\ pc = [p \in Procs |-> "idle"] /\ tok = [p \in Procs |-> 0]
  /\ todo = [p \in Procs |-> {}]
  /\ closer = NoProc /\ waiting = {}
  /\ emptySince = [e \in EmptyCtxs |-> 0] /\ closedBy = 0

-----------------------------------------------------------------------------
\* Predicates over one registration, and the address allocator.

Issued == 1..nextRegistrationToken

\* Variant: a marked removal still counts as active.
ActiveIgnoringRemoval(t) == t \in active

registrationActiveLocked(t) == t \in active /\ t \notin removing

deviceDiscoverableLocked(t) == t \in published /\ registrationActiveLocked(t)

authenticatesRegistrationLocked(t) == t \in Issued /\ registrationActiveLocked(t)

\* Variant: the search starts at address 0.
AddressFromZero(maxDeviceID) ==
  {i \in 0..maxDeviceID : /\ i \notin allocatedDevIDs
                          /\ \A j \in 0..(i - 1) : j \in allocatedDevIDs}

\* The lowest free address not above the ceiling; empty when there is none.
nextAvailableDeviceIDLocked(maxDeviceID) ==
  {i \in 1..maxDeviceID : /\ i \notin allocatedDevIDs
                          /\ \A j \in 1..(i - 1) : j \in allocatedDevIDs}

\* Variant: the empty incarnation is left armed.
LeaveEmptyArmed == UNCHANGED emptyCtx

\* Cancelling the current empty incarnation.
CancelEmpty == emptyCtx' = 0

Goto(p, label) == pc' = [pc EXCEPT ![p] = label]

-----------------------------------------------------------------------------
\* Registration.

\* Variant: a device whose removal is under way may be added again.
AddDuringRemoval(p, d, publish, maxDeviceID, a) ==
  /\ pc[p] = "idle"
  /\ ~closed
  /\ nextRegistrationToken # MaxToken
  /\ \A t \in devices \ removing : /\ info[t].dev # d
                                   /\ a # NoAlias => info[t].alias # a
  /\ \E i \in nextAvailableDeviceIDLocked(maxDeviceID) :
       LET t == nextRegistrationToken + 1 IN
       /\ nextRegistrationToken' = t
       /\ info' = [info EXCEPT ![t] = [dev |-> d, devID |-> i, alias |-> a]]
       /\ allocatedDevIDs' = allocatedDevIDs \cup {i}
       /\ devices' = devices \cup {t}
       /\ active' = active \cup {t}
       /\ published' = IF publish THEN published \cup {t} ELSE published
  /\ CancelEmpty
  /\ UNCHANGED <<cancelled, removing, removalDone, fenceVars, nextEmpty,
                 emptySince, closedBy, closeVars, procVars>>

addRegistration(p, d, publish, maxDeviceID, a) ==
  /\ pc[p] = "idle"
  /\ ~closed
  /\ nextRegistrationToken # MaxToken
  /\ \A t \in devices : /\ info[t].dev # d
                        /\ a # NoAlias => info[t].alias # a
  /\ \E i \in nextAvailableDeviceIDLocked(maxDeviceID) :
       LET t == nextRegistrationToken + 1 IN
       /\ nextRegistrationToken' = t
       /\ info' = [info EXCEPT ![t] = [dev |-> d, devID |-> i, alias |-> a]]
       /\ allocatedDevIDs' = allocatedDevIDs \cup {i}
       /\ devices' = devices \cup {t}
       /\ active' = active \cup {t}
       /\ published' = IF publish THEN published \cup {t} ELSE published
  /\ CancelEmpty
  /\ UNCHANGED <<cancelled, removing, removalDone, fenceVars, nextEmpty,
                 emptySince, closedBy, closeVars, procVars>>

PublishRegistration(p, t) ==
  /\ pc[p] = "idle"
  /\ ~closed
  /\ t \in devices /\ authenticatesRegistrationLocked(t)
  /\ published' = published \cup {t}
  /\ UNCHANGED <<regVars, listVars, removing, removalDone, fenceVars,
                 emptyVars, closeVars, procVars>>

-----------------------------------------------------------------------------
\* AcquireRegistrationOperation: check under the bus lock, take the read
\* fence without it, check again.  A failed first check returns at once and
\* changes nothing, so only the passing check is a step.

AcquireCheck(p, t) ==
  /\ pc[p] = "idle"
  /\ ~closed /\ authenticatesRegistrationLocked(t)
  /\ tok' = [tok EXCEPT ![p] = t]
  /\ Goto(p, "acqRLock")
  /\ UNCHANGED <<regVars, listVars, flagVars, fenceVars, emptyVars, closeVars,
                 todo>>

\* RLock blocks while a writer holds or awaits the fence.
AcquireRLock(p) ==
  /\ pc[p] = "acqRLock"
  /\ writer[tok[p]] = NoProc
  /\ readers' = [readers EXCEPT ![tok[p]] = @ \cup {p}]
  /\ Goto(p, "acqRecheck")
  /\ UNCHANGED <<regVars, listVars, flagVars, writer, emptyVars, closeVars, tok,
                 todo>>

\* Variant: the lease is granted without the second check.
AcquireWithoutRecheck(p) ==
  /\ pc[p] = "acqRecheck"
  /\ Goto(p, "leased")
  /\ UNCHANGED <<regVars, listVars, flagVars, fenceVars, emptyVars, closeVars,
                 tok, todo>>

AcquireRecheck(p) ==
  /\ pc[p] = "acqRecheck"
  /\ IF ~closed /\ authenticatesRegistrationLocked(tok[p])
       THEN Goto(p, "leased") /\ UNCHANGED <<readers, tok>>
       ELSE /\ Goto(p, "idle")
            /\ readers' = [readers EXCEPT ![tok[p]] = @ \ {p}]
            /\ tok' = [tok EXCEPT ![p] = 0]
  /\ UNCHANGED <<regVars, listVars, flagVars, writer, emptyVars, closeVars, todo>>

Release(p) ==
  /\ pc[p] = "leased"
  /\ readers' = [readers EXCEPT ![tok[p]] = @ \ {p}]
  /\ tok' = [tok EXCEPT ![p] = 0]
  /\ Goto(p, "idle")
  /\ UNCHANGED <<regVars, listVars, flagVars, writer, emptyVars, closeVars, todo>>

-----------------------------------------------------------------------------
\* Removal: mark under the lock, then finish behind the write fence.

\* markRegistrationRemovalLocked: p becomes the one finisher of t.
markRegistrationRemovalLocked(p, t) ==
  /\ removing' = removing \cup {t}
  /\ todo' = [todo EXCEPT ![p] = {t}]
  /\ Goto(p, "finLock")
  /\ UNCHANGED tok

\* A second remover waits for the first one's removalDone.
JoinRemoval(p, t) ==
  /\ tok' = [tok EXCEPT ![p] = t]
  /\ Goto(p, "waitDone")
  /\ UNCHANGED <<removing, todo>>

RemoveUnchanged == UNCHANGED <<regVars, listVars, published, removalDone,
                               fenceVars, emptyVars, closeVars>>

\* RemoveDeviceRegistrationByIDSnapshot: selects by address.
RemoveDeviceByID(p, i) ==
  /\ pc[p] = "idle"
  /\ \E t \in devices \cap published :
       /\ info[t].devID = i
       /\ \/ t \in removing /\ JoinRemoval(p, t)
          \/ registrationActiveLocked(t) /\ markRegistrationRemovalLocked(p, t)
  /\ RemoveUnchanged

\* Variant: a removal already in progress is started again.
RemoveTwice(p, d) ==
  /\ pc[p] = "idle"
  /\ \E t \in devices : info[t].dev = d /\ markRegistrationRemovalLocked(p, t)
  /\ RemoveUnchanged

\* RemoveIfPresent: selects by device identity, published or not.
RemoveIfPresent(p, d) ==
  /\ pc[p] = "idle"
  /\ \E t \in devices :
       /\ info[t].dev = d
       /\ \/ t \in removing /\ JoinRemoval(p, t)
          \/ registrationActiveLocked(t) /\ markRegistrationRemovalLocked(p, t)
  /\ RemoveUnchanged

\* RemoveRegistrationIfPresent: selects the exact incarnation of a snapshot.
RemoveRegistrationIfPresent(p, t) ==
  /\ pc[p] = "idle"
  /\ t \in Issued
  /\ \/ (t \in removing \/ t \notin active) /\ JoinRemoval(p, t)
     \/ /\ t \in devices /\ authenticatesRegistrationLocked(t)
        /\ markRegistrationRemovalLocked(p, t)
  /\ RemoveUnchanged

\* finishMarkedRegistrationRemoval finishes marked entries in list order.
NextMarked(p, t) == t \in todo[p] /\ \A u \in todo[p] : t =< u

\* Variant: removalDone is closed before the write fence is held.
SignalBeforeFence(p) ==
  /\ pc[p] = "finLock"
  /\ \E t \in Tokens :
       /\ NextMarked(p, t)
       /\ writer' = [writer EXCEPT ![t] = p]
       /\ tok' = [tok EXCEPT ![p] = t]
       /\ removalDone' = removalDone \cup {t}
  /\ Goto(p, "finWait")
  /\ UNCHANGED <<regVars, listVars, published, removing, readers, emptyVars,
                 closeVars, todo>>

\* lifecycle.mu.Lock announces the writer, which stops later readers ...
FinishAnnounce(p) ==
  /\ pc[p] = "finLock"
  /\ \E t \in Tokens :
       /\ NextMarked(p, t)
       /\ writer[t] = NoProc
       /\ writer' = [writer EXCEPT ![t] = p]
       /\ tok' = [tok EXCEPT ![p] = t]
  /\ Goto(p, "finWait")
  /\ UNCHANGED <<regVars, listVars, flagVars, readers, emptyVars, closeVars, todo>>

\* Variant: lifecycle.mu is not unlocked after the removal.
RemoveKeepsFence(p) ==
  LET gone == devices \cap {tok[p]} IN
  /\ pc[p] = "finWait"
  /\ readers[tok[p]] = {}
  /\ devices' = devices \ gone
  /\ active' = active \ gone
  /\ cancelled' = cancelled \cup gone
  /\ allocatedDevIDs' = allocatedDevIDs \ {info[u].devID : u \in gone}
  /\ Goto(p, "finSignal")
  /\ UNCHANGED <<regVars, flagVars, fenceVars, emptyVars, closeVars, tok, todo>>

\* ... and acquires once earlier readers have left; then the bus section.
FinishRemove(p) ==
  LET t == tok[p]
      gone == devices \cap {t}
  IN
  /\ pc[p] = "finWait"
  /\ readers[t] = {}
  /\ devices' = devices \ gone
  /\ active' = active \ gone
  /\ cancelled' = cancelled \cup gone
  /\ allocatedDevIDs' = allocatedDevIDs \ {info[u].devID : u \in gone}
  /\ writer' = [writer EXCEPT ![t] = NoProc]
  /\ Goto(p, "finSignal")
  /\ UNCHANGED <<regVars, flagVars, readers, emptyVars, closeVars, tok, todo>>

\* close(removalDone), then the next marked entry or the caller's next step.
FinishSignal(p) ==
  LET rest == todo[p] \ {tok[p]} IN
  /\ pc[p] = "finSignal"
  /\ removalDone' = removalDone \cup {tok[p]}
  /\ todo' = [todo EXCEPT ![p] = rest]
  /\ tok' = [tok EXCEPT ![p] = 0]
  /\ Goto(p, IF rest # {} THEN "finLock"
             ELSE IF closer = p THEN "closeWait" ELSE "idle")
  /\ UNCHANGED <<regVars, listVars, published, removing, fenceVars, emptyVars,
                 closeVars>>

AwaitRemoval(p) ==
  /\ pc[p] = "waitDone"
  /\ tok[p] \in removalDone
  /\ tok' = [tok EXCEPT ![p] = 0]
  /\ Goto(p, "idle")
  /\ UNCHANGED <<regVars, listVars, flagVars, fenceVars, emptyVars, closeVars,
                 todo>>

-----------------------------------------------------------------------------
\* Close.

\* CloseAndTakeRegistrations, first section: fence admission, mark every
\* entry nobody is removing, remember the entries somebody else is removing.
CloseAndTakeRegistrations(p) ==
  LET marked == devices \ removing IN
  /\ pc[p] = "idle"
  /\ ~closed
  /\ closed' = TRUE
  /\ closer' = p
  /\ removing' = removing \cup marked
  /\ waiting' = devices \cap removing
  /\ todo' = [todo EXCEPT ![p] = marked]
  /\ Goto(p, IF marked # {} THEN "finLock" ELSE "closeWait")
  /\ CancelEmpty
  /\ UNCHANGED <<regVars, listVars, published, removalDone, fenceVars,
                 nextEmpty, emptySince, closedBy, closeDone, busIDAllocated, tok>>

\* A later closer waits for the first one.
JoinClose(p) ==
  /\ pc[p] = "idle" /\ closed
  /\ Goto(p, "waitClose")
  /\ UNCHANGED <<regVars, listVars, flagVars, fenceVars, emptyVars, closeVars,
                 tok, todo>>

AwaitClose(p) ==
  /\ pc[p] = "waitClose" /\ closeDone
  /\ Goto(p, "idle")
  /\ UNCHANGED <<regVars, listVars, flagVars, fenceVars, emptyVars, closeVars,
                 tok, todo>>

\* Variant: the closer does not wait for removals others started.
CloseWithoutWaiting(p) ==
  /\ pc[p] = "closeWait"
  /\ allocatedDevIDs' = {}
  /\ Goto(p, "closeFree")
  /\ UNCHANGED <<regVars, devices, active, cancelled, flagVars, fenceVars,
                 emptyVars, closeVars, tok, todo>>

\* Every other remover has signalled: clear the address map.
CloseClear(p) ==
  /\ pc[p] = "closeWait"
  /\ waiting \subseteq removalDone
  /\ allocatedDevIDs' = {}
  /\ Goto(p, "closeFree")
  /\ UNCHANGED <<regVars, devices, active, cancelled, flagVars, fenceVars,
                 emptyVars, closeVars, tok, todo>>

\* delete(allocatedBusIds, busID), under the global lock.
CloseFree(p) ==
  /\ pc[p] = "closeFree"
  /\ busIDAllocated' = FALSE
  /\ Goto(p, "closeSignal")
  /\ UNCHANGED <<regVars, listVars, flagVars, fenceVars, emptyVars, closed,
                 closeDone, closer, waiting, tok, todo>>

\* close(vb.closeDone)
CloseSignal(p) ==
  /\ pc[p] = "closeSignal"
  /\ closeDone' = TRUE
  /\ Goto(p, "idle")
  /\ UNCHANGED <<regVars, listVars, flagVars, fenceVars, emptyVars, closed,
                 busIDAllocated, closer, waiting, tok, todo>>

\* GetBusEmptyContext: name the current empty period.
GetBusEmptyContext(p) ==
  /\ pc[p] = "idle"
  /\ ~closed /\ devices = {} /\ emptyCtx = 0
  /\ nextEmpty < MaxEmpty
  /\ nextEmpty' = nextEmpty + 1
  /\ emptyCtx' = nextEmpty + 1
  /\ emptySince' = [emptySince EXCEPT ![nextEmpty + 1] = nextRegistrationToken]
  /\ UNCHANGED <<regVars, listVars, flagVars, fenceVars, closedBy, closeVars,
                 procVars>>

\* CloseIfEmptyContext(expected): a context is cancelled exactly when it is
\* no longer current, so expected.Err() is covered by the comparison.
CloseIfEmptyContext(p, expected) ==
  /\ pc[p] = "idle"
  /\ ~closed /\ devices = {} /\ emptyCtx = expected
  /\ closed' = TRUE
  /\ CancelEmpty
  /\ closedBy' = expected
  /\ Goto(p, "closeFree")
  /\ UNCHANGED <<regVars, listVars, flagVars, fenceVars, nextEmpty, emptySince,
                 closeDone, busIDAllocated, closer, waiting, tok, todo>>

-----------------------------------------------------------------------------
Step(p) ==
  \/ AcquireRLock(p) \/ AcquireRecheck(p) \/ Release(p)
  \/ FinishAnnounce(p) \/ FinishRemove(p) \/ FinishSignal(p) \/ AwaitRemoval(p)
  \/ AwaitClose(p) \/ CloseClear(p) \/ CloseFree(p) \/ CloseSignal(p)

Call(p) ==
  \/ \E d \in Devices, publish \in BOOLEAN, m \in Ceilings,
        a \in Aliases \cup {NoAlias} : addRegistration(p, d, publish, m, a)
  \/ \E t \in Tokens : \/ PublishRegistration(p, t)
                       \/ AcquireCheck(p, t)
                       \/ RemoveRegistrationIfPresent(p, t)
  \/ \E i \in DeviceIDs : RemoveDeviceByID(p, i)
  \/ \E d \in Devices : RemoveIfPresent(p, d)
  \/ CloseAndTakeRegistrations(p)
  \/ JoinClose(p)
  \/ GetBusEmptyContext(p)
  \/ \E e \in EmptyCtxs : CloseIfEmptyContext(p, e)

Next == \E p \in Procs : Step(p) \/ Call(p)

\* A goroutine inside a call keeps running (the Go scheduler), and a holder
\* of a lease releases it: "call Release exactly once" (virtualbus.go).
Fairness == \A p \in Procs : WF_vars(Step(p))

Spec == Init /\ [][Next]_vars /\ Fairness

-----------------------------------------------------------------------------
(***************************************************************************)
(* Properties.                                                             *)
(***************************************************************************)

\* Every variable has the shape the Go types give it.
TypeOK ==
  /\ closed \in BOOLEAN /\ closeDone \in BOOLEAN /\ busIDAllocated \in BOOLEAN
  /\ nextRegistrationToken \in 0..MaxToken
  /\ devices \in SUBSET Tokens
  /\ info \in [Tokens -> Infos \cup {NoInfo}]
  /\ \A t \in Issued : info[t] \in Infos
  /\ allocatedDevIDs \in SUBSET DeviceIDs
  /\ published \in SUBSET Tokens /\ active \in SUBSET Tokens
  /\ removing \in SUBSET Tokens /\ removalDone \in SUBSET Tokens
  /\ cancelled \in SUBSET Tokens
  /\ readers \in [Tokens -> SUBSET Procs]
  /\ writer \in [Tokens -> Procs \cup {NoProc}]
  /\ emptyCtx \in 0..MaxEmpty /\ nextEmpty \in 0..MaxEmpty
  /\ closedBy \in 0..MaxEmpty
  /\ emptySince \in [EmptyCtxs -> 0..MaxToken]
  /\ pc \in [Procs -> Labels]
  /\ tok \in [Procs -> 0..MaxToken]
  /\ todo \in [Procs -> SUBSET Tokens]
  /\ closer \in Procs \cup {NoProc}
  /\ waiting \in SUBSET Tokens

\* The address map and the list never disagree: the allocated addresses are
\* exactly the addresses of listed registrations, and no two listed
\* registrations, removals in progress included, share a device, an address
\* or a production alias (addRegistration, finishMarkedRegistrationRemoval).
AddressesMatchList ==
  /\ allocatedDevIDs = {info[t].devID : t \in devices}
  /\ \A t, u \in devices : t # u =>
       /\ info[t].dev # info[u].dev
       /\ info[t].devID # info[u].devID
       /\ info[t].alias # NoAlias => info[t].alias # info[u].alias

\* An operation that holds a lease works on a registration that is still
\* listed and active with a live context, even while a remover or a closer
\* waits for it: AcquireRegistrationOperation "can never resume in a
\* same-pointer successor incarnation".
LeaseFencesRemoval ==
  \A p \in Procs : pc[p] = "leased" =>
    /\ tok[p] \in devices /\ tok[p] \in active
    /\ tok[p] \notin cancelled

\* Every removal that was marked and has not signalled removalDone has exactly
\* one goroutine that will finish it, so those who join it are not waiting
\* for nobody and no two goroutines tear one incarnation down.
RemovalHasOneOwner ==
  \A t \in removing \ removalDone :
    \E p \in Procs : /\ t \in todo[p]
                     /\ \A q \in Procs \ {p} : t \notin todo[q]

\* Once removalDone is closed the incarnation is out of the list for good and
\* its context is cancelled; a context is cancelled for no other reason.
SignalledMeansGone ==
  /\ removalDone \cap devices = {}
  /\ cancelled = Issued \ devices

\* The bus number returns to the global pool only when no registration is
\* listed and no operation is running on this bus, and closeDone is only
\* signalled after that (CloseAndTakeRegistrations, CloseIfEmptyContext).
NumberFreedAfterDrain ==
  /\ ~busIDAllocated => /\ closed /\ devices = {}
                        /\ \A p \in Procs : pc[p] # "leased"
  /\ closeDone => ~busIDAllocated

\* A delayed empty-bus cleanup that closes the bus was armed for the current
\* empty period: nothing was added since it was armed (CloseIfEmptyContext:
\* "makes a stale cleanup callback a no-op").
StaleCleanupIsNoOp ==
  closedBy # 0 => emptySince[closedBy] = nextRegistrationToken

\* Every call returns: removers, joined removers, closers and joined closers
\* are never stuck once lease holders release.
EveryCallReturns == \A p \in Procs : pc[p] # "idle" ~> pc[p] = "idle"

\* The bus implements the lock-free registry: an incarnation becomes used at
\* the second check of AcquireRegistrationOperation, is withdrawn when marked
\* and retired when its entry leaves the list.
RegistryRecords == [token : Tokens, dev : Devices, devID : DeviceIDs,
                    alias : Aliases \cup {NoAlias}]

Record(t) == [token |-> t, dev |-> info[t].dev, devID |-> info[t].devID,
              alias |-> info[t].alias]

Registry == INSTANCE RegistrationRegistry WITH
  Records <- RegistryRecords,
  sealed <- closed,
  used <- Issued,
  live <- {Record(t) : t \in devices},
  visible <- {t \in devices : deviceDiscoverableLocked(t)},
  withdrawn <- removing,
  using <- {<<p, tok[p]>> : p \in {q \in Procs : pc[q] = "leased"}}

\* Every behaviour of the bus is a behaviour of RegistrationRegistry.
ImplementsRegistry == Registry!Spec
=============================================================================
