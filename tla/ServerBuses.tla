----------------------------- MODULE ServerBuses -----------------------------
(***************************************************************************)
(* Bus management of the USB/IP server (internal/server/usb/server.go) and *)
(* its API handlers: creating, registering and removing buses by number,   *)
(* adding and removing their devices, and the delayed cleanup of empty     *)
(* buses, on top of the process-wide pool of bus numbers.                  *)
(*                                                                         *)
(* Each critical section of busesMu or globalMtx is one step.  A bus is    *)
(* taken at the level of its promises (VirtualBus.tla): its registrations  *)
(* are a count, closing drains them, and an empty period has a name.  The  *)
(* retained-import bookkeeping of a removal is left out.                   *)
(***************************************************************************)
EXTENDS Naturals, FiniteSets

CONSTANTS
  Callers,      \* goroutines serving API requests
  Payloads,     \* kinds of bus/create in use: "id", "zero", "none"
  MaxId,        \* bus numbers 1..MaxId
  MaxBus,       \* bound: VirtualBus objects made
  MaxAdds,      \* bound: device additions
  MaxRemovals   \* bound: bus removals started

ASSUME ServerConstants ==
  /\ Payloads \subseteq {"id", "zero", "none"}
  /\ MaxId \in Nat /\ MaxBus \in Nat /\ MaxAdds \in Nat /\ MaxRemovals \in Nat

Ids == 1..MaxId
Buses == 1..MaxBus
NoBus == 0
Removals == 1..MaxRemovals
NoRemoval == 0

VARIABLES
  busses,           \* s.busses: number -> bus
  busRemovals,      \* s.busRemovals: number -> removal in progress
  serverClosing,
  allocatedBusIds,  \* virtualbus: the process-wide pool
  made, number,     \* buses made so far and their numbers
  closed,           \* buses closed for admission
  devices,          \* bus -> registrations
  emptyCtx,         \* bus -> name of its current empty period, 0 = none
  adds,             \* devices added so far; names the empty periods
  timers,           \* cleanup goroutines waiting for their timer
  done,             \* removals whose done channel is closed
  started,          \* removals started
  pc, id, bus, rem, \* per caller
  entered, lastAdd, \* history: buses once registered, last addition to a bus
  asked             \* history: bus a RemoveBus call found under its number

poolVars == <<allocatedBusIds, made, number>>
addVars == <<adds, lastAdd>>
busVars == <<poolVars, closed, devices, emptyCtx, addVars>>
serverVars == <<busses, busRemovals, serverClosing, timers, done, started,
                entered>>
callVars == <<pc, id, bus, rem, asked>>
vars == <<busVars, serverVars, callVars>>

Labels == {"idle", "picked", "adding", "join", "close", "drain", "finish",
           "addDevice", "removeDevice", "schedule"}

Init ==
  /\ busses = [i \in Ids |-> NoBus]
  /\ busRemovals = [i \in Ids |-> NoRemoval]
  /\ serverClosing = FALSE
  /\ allocatedBusIds = {} /\ made = 0 /\ number = [b \in Buses |-> 0]
  /\ closed = {} /\ devices = [b \in Buses |-> 0]
  /\ emptyCtx = [b \in Buses |-> 0] /\ adds = 0
  /\ timers = {} /\ done = {} /\ started = 0
  /\ pc = [p \in Callers |-> "idle"] /\ id = [p \in Callers |-> 0]
  /\ bus = [p \in Callers |-> NoBus] /\ rem = [p \in Callers |-> NoRemoval]
  /\ entered = {} /\ lastAdd = [b \in Buses |-> 0]
  /\ asked = [p \in Callers |-> NoBus]

Goto(p, label) == pc' = [pc EXCEPT ![p] = label]

\* A call returns and its locals are gone.
Return(p) ==
  /\ Goto(p, "idle")
  /\ id' = [id EXCEPT ![p] = 0] /\ bus' = [bus EXCEPT ![p] = NoBus]
  /\ rem' = [rem EXCEPT ![p] = NoRemoval]
  /\ asked' = [asked EXCEPT ![p] = NoBus]

-----------------------------------------------------------------------------
\* bus/create and CreateUSBBus.

freeBusIDs == {i \in Ids : busses[i] = NoBus}

NextFreeBusID == CHOOSE i \in freeBusIDs : \A j \in freeBusIDs : i <= j

\* The bound counts the creations under way.
mayCreate ==
  made + Cardinality({q \in Callers : pc[q] = "picked"}) < MaxBus

newVirtualBus(p, i) ==
  /\ made' = made + 1
  /\ number' = [number EXCEPT ![made + 1] = i]
  /\ allocatedBusIds' = allocatedBusIds \cup {i}
  /\ id' = [id EXCEPT ![p] = i] /\ bus' = [bus EXCEPT ![p] = made + 1]
  /\ Goto(p, "adding")
  /\ UNCHANGED <<closed, devices, emptyCtx, addVars, rem, asked, serverVars>>

\* Variant: the number is handed out again.
NewWithBusIDUnchecked(p, i) == newVirtualBus(p, i)

\* An allocated number makes the call fail, which changes nothing.
NewWithBusID(p, i) == i \notin allocatedBusIds /\ newVirtualBus(p, i)

BusCreateWithID(p, i) ==
  /\ "id" \in Payloads
  /\ pc[p] = "idle" /\ mayCreate
  /\ NewWithBusID(p, i)

\* Without a number: NextFreeBusID under busesMu, then the bus.
BusCreatePick(p) ==
  /\ Payloads \cap {"zero", "none"} # {}
  /\ pc[p] = "idle" /\ mayCreate /\ freeBusIDs # {}
  /\ id' = [id EXCEPT ![p] = NextFreeBusID]
  /\ Goto(p, "picked")
  /\ UNCHANGED <<busVars, serverVars, bus, rem, asked>>

BusCreatePicked(p) ==
  /\ pc[p] = "picked"
  /\ \/ "none" \in Payloads /\ newVirtualBus(p, id[p])
     \/ "zero" \in Payloads /\ NewWithBusID(p, id[p])
     \/ /\ "zero" \in Payloads /\ id[p] \in allocatedBusIds
        /\ Return(p)
        /\ UNCHANGED <<busVars, serverVars>>

\* GetBusEmptyContext and the goroutine with the timer.  A new empty period
\* is named after the additions before it.
scheduleEmptyBusCleanup(b) ==
  IF b \notin closed /\ devices[b] = 0
  THEN /\ emptyCtx' = [emptyCtx EXCEPT ![b] = IF @ = 0 THEN adds + 1 ELSE @]
       /\ timers' = timers \cup {[bus |-> b, ctx |-> emptyCtx'[b]]}
  ELSE UNCHANGED <<emptyCtx, timers>>

\* Variant: no cleanup covers the initial empty period.
AddBusUnwatched(p) ==
  LET b == bus[p] i == number[bus[p]] IN
  /\ pc[p] = "adding"
  /\ IF ~serverClosing /\ b \notin closed /\ busses[i] = NoBus
     THEN busses' = [busses EXCEPT ![i] = b] /\ entered' = entered \cup {b}
     ELSE UNCHANGED <<busses, entered>>
  /\ Return(p)
  /\ UNCHANGED <<busVars, timers, busRemovals, serverClosing, done, started>>

\* With BusCleanupTimeout > 0, as the command line configures it.  A refused
\* bus is dropped by the handler.
AddBus(p) ==
  LET b == bus[p] i == number[bus[p]] IN
  /\ pc[p] = "adding"
  /\ IF ~serverClosing /\ b \notin closed /\ busses[i] = NoBus
     THEN /\ busses' = [busses EXCEPT ![i] = b]
          /\ entered' = entered \cup {b}
          /\ scheduleEmptyBusCleanup(b)
     ELSE UNCHANGED <<busses, entered, emptyCtx, timers>>
  /\ Return(p)
  /\ UNCHANGED <<poolVars, closed, devices, addVars,
                 busRemovals, serverClosing, done, started>>

-----------------------------------------------------------------------------
\* RemoveBus.

RemoveBus(p, i) ==
  /\ pc[p] = "idle"
  /\ asked' = [asked EXCEPT ![p] = busses[i]]
  /\ id' = [id EXCEPT ![p] = i]
  /\ \/ /\ busRemovals[i] # NoRemoval
        /\ rem' = [rem EXCEPT ![p] = busRemovals[i]]
        /\ Goto(p, "join")
        /\ UNCHANGED <<bus, busRemovals, started>>
     \/ /\ busRemovals[i] = NoRemoval /\ busses[i] # NoBus
        /\ started < MaxRemovals
        /\ started' = started + 1
        /\ busRemovals' = [busRemovals EXCEPT ![i] = started + 1]
        /\ rem' = [rem EXCEPT ![p] = started + 1]
        /\ bus' = [bus EXCEPT ![p] = busses[i]]
        /\ Goto(p, "close")
  /\ UNCHANGED <<busVars, busses, serverClosing, timers, done, entered>>

JoinedRemoval(p) ==
  /\ pc[p] = "join" /\ rem[p] \in done
  /\ Return(p)
  /\ UNCHANGED <<busVars, serverVars>>

\* CloseAndTakeRegistrations: fence admission; a bus the cleanup closed
\* first is already drained.
CloseAndTakeRegistrations(p) ==
  /\ pc[p] = "close"
  /\ IF bus[p] \in closed
     THEN Goto(p, "finish") /\ UNCHANGED <<closed, emptyCtx>>
     ELSE /\ closed' = closed \cup {bus[p]}
          /\ emptyCtx' = [emptyCtx EXCEPT ![bus[p]] = 0]
          /\ Goto(p, "drain")
  /\ UNCHANGED <<poolVars, devices, addVars, serverVars, id,
                 bus, rem, asked>>

\* The registrations are gone; the number returns to the pool.
CloseDrained(p) ==
  /\ pc[p] = "drain"
  /\ devices' = [devices EXCEPT ![bus[p]] = 0]
  /\ allocatedBusIds' = allocatedBusIds \ {number[bus[p]]}
  /\ Goto(p, "finish")
  /\ UNCHANGED <<made, number, closed, emptyCtx, addVars, serverVars, id, bus,
                 rem, asked>>

\* Variants: the entry of a successor is deleted too; the waiters are
\* forgotten.
RemoveBusAnyEntry(p) ==
  /\ pc[p] = "finish"
  /\ busses' = [busses EXCEPT ![id[p]] = NoBus]
  /\ done' = done \cup {rem[p]}
  /\ busRemovals' = [busRemovals EXCEPT ![id[p]] = NoRemoval]
  /\ Return(p)
  /\ UNCHANGED <<busVars, serverClosing, timers, started, entered>>

RemoveBusSilently(p) ==
  /\ pc[p] = "finish"
  /\ busses' = [busses EXCEPT ![id[p]] = IF @ = bus[p] THEN NoBus ELSE @]
  /\ busRemovals' = [busRemovals EXCEPT ![id[p]] = NoRemoval]
  /\ Return(p)
  /\ UNCHANGED <<busVars, done, serverClosing, timers, started, entered>>

RemoveBusCompletes(p) ==
  /\ pc[p] = "finish"
  /\ busses' = [busses EXCEPT ![id[p]] = IF @ = bus[p] THEN NoBus ELSE @]
  /\ done' = done \cup {rem[p]}
  /\ busRemovals' = [busRemovals EXCEPT ![id[p]] = NoRemoval]
  /\ Return(p)
  /\ UNCHANGED <<busVars, serverClosing, timers, started, entered>>

-----------------------------------------------------------------------------
\* bus/{id}/add and bus/{id}/remove look the bus up, then use it.

LookUp(p, i, label) ==
  /\ pc[p] = "idle" /\ busses[i] # NoBus
  /\ bus' = [bus EXCEPT ![p] = busses[i]]
  /\ Goto(p, label)
  /\ UNCHANGED <<busVars, serverVars, id, rem, asked>>

GetBus(p, i) == LookUp(p, i, "addDevice")

Add(p) ==
  /\ pc[p] = "addDevice"
  /\ IF bus[p] \notin closed /\ adds < MaxAdds
     THEN /\ devices' = [devices EXCEPT ![bus[p]] = @ + 1]
          /\ adds' = adds + 1
          /\ lastAdd' = [lastAdd EXCEPT ![bus[p]] = adds + 1]
          /\ emptyCtx' = [emptyCtx EXCEPT ![bus[p]] = 0]
     ELSE UNCHANGED <<devices, addVars, emptyCtx>>
  /\ Return(p)
  /\ UNCHANGED <<poolVars, closed, serverVars>>

RemoveDeviceByID(p, i) == LookUp(p, i, "removeDevice")

removersOf(b) == {q \in Callers : pc[q] = "removeDevice" /\ bus[q] = b}

\* Variant: a device is removed twice.
RemoveDeviceUnchecked(p) ==
  /\ pc[p] = "removeDevice"
  /\ bus[p] \notin closed
  /\ devices' = [devices EXCEPT ![bus[p]] = @ - 1]
  /\ Goto(p, "schedule")
  /\ UNCHANGED <<id, bus, rem, asked, poolVars, closed, emptyCtx, addVars,
                 serverVars>>

\* The registration leaves the list: this call marked it, or it joins the
\* removal that another remover or the closer of the bus has marked, like
\* every caller waiting for the same removalDone.  A call that names no
\* registration fails.
RemoveDeviceRegistration(p) ==
  /\ pc[p] = "removeDevice"
  /\ \/ /\ devices[bus[p]] > 0
        /\ devices' = [devices EXCEPT ![bus[p]] = @ - 1]
        /\ \E joined \in SUBSET removersOf(bus[p]) :
             pc' = [q \in Callers |-> IF q \in joined \cup {p} THEN "schedule"
                                     ELSE pc[q]]
        /\ UNCHANGED <<id, bus, rem, asked>>
     \/ Return(p) /\ UNCHANGED devices
  /\ UNCHANGED <<poolVars, closed, emptyCtx, addVars, serverVars>>

RemoveDeviceSchedules(p) ==
  /\ pc[p] = "schedule"
  /\ scheduleEmptyBusCleanup(bus[p])
  /\ Return(p)
  /\ UNCHANGED <<poolVars, closed, devices, addVars, busses,
                 busRemovals, serverClosing, done, started, entered>>

-----------------------------------------------------------------------------
\* Variants: the entry of the closed bus stays; any empty period of the bus
\* will do.
CleanupKeepsEntry(t) ==
  /\ t \in timers
  /\ timers' = timers \ {t}
  /\ IF /\ busses[number[t.bus]] = t.bus
        /\ t.bus \notin closed /\ devices[t.bus] = 0 /\ emptyCtx[t.bus] = t.ctx
     THEN /\ closed' = closed \cup {t.bus}
          /\ emptyCtx' = [emptyCtx EXCEPT ![t.bus] = 0]
          /\ allocatedBusIds' = allocatedBusIds \ {number[t.bus]}
     ELSE UNCHANGED <<closed, emptyCtx, allocatedBusIds>>
  /\ UNCHANGED <<made, number, devices, addVars, busses, busRemovals,
                 serverClosing, done, started, entered, callVars>>

CleanupAnyPeriod(t) ==
  /\ t \in timers
  /\ timers' = timers \ {t}
  /\ IF busses[number[t.bus]] = t.bus /\ t.bus \notin closed
     THEN /\ closed' = closed \cup {t.bus}
          /\ emptyCtx' = [emptyCtx EXCEPT ![t.bus] = 0]
          /\ allocatedBusIds' = allocatedBusIds \ {number[t.bus]}
          /\ busses' = [busses EXCEPT ![number[t.bus]] = NoBus]
     ELSE UNCHANGED <<closed, emptyCtx, allocatedBusIds, busses>>
  /\ UNCHANGED <<made, number, devices, addVars, busRemovals, serverClosing,
                 done, started, entered, callVars>>

\* The timer fires, or the period ended first.  busesMu is held across
\* CloseIfEmptyContext, so nobody registers a bus in between.
removeEmptyBusIncarnation(t) ==
  /\ t \in timers
  /\ timers' = timers \ {t}
  /\ IF /\ busses[number[t.bus]] = t.bus
        /\ t.bus \notin closed /\ devices[t.bus] = 0 /\ emptyCtx[t.bus] = t.ctx
     THEN /\ closed' = closed \cup {t.bus}
          /\ emptyCtx' = [emptyCtx EXCEPT ![t.bus] = 0]
          /\ allocatedBusIds' = allocatedBusIds \ {number[t.bus]}
          /\ busses' = [busses EXCEPT ![number[t.bus]] = NoBus]
     ELSE UNCHANGED <<closed, emptyCtx, allocatedBusIds, busses>>
  /\ UNCHANGED <<made, number, devices, addVars, busRemovals, serverClosing,
                 done, started, entered, callVars>>

\* Server.Close refuses later buses and leaves the registered ones alone.
Close ==
  /\ ~serverClosing
  /\ serverClosing' = TRUE
  /\ UNCHANGED <<busVars, busses, busRemovals, timers, done, started, entered,
                 callVars>>

-----------------------------------------------------------------------------
Call(p) ==
  \/ BusCreatePick(p)
  \/ \E i \in Ids : \/ BusCreateWithID(p, i) \/ RemoveBus(p, i)
                    \/ GetBus(p, i) \/ RemoveDeviceByID(p, i)

Step(p) ==
  \/ BusCreatePicked(p) \/ AddBus(p)
  \/ JoinedRemoval(p) \/ CloseAndTakeRegistrations(p) \/ CloseDrained(p)
  \/ RemoveBusCompletes(p)
  \/ Add(p) \/ RemoveDeviceRegistration(p) \/ RemoveDeviceSchedules(p)

Timers == [bus : Buses, ctx : 1..(MaxAdds + 1)]

Next ==
  \/ \E p \in Callers : Call(p) \/ Step(p)
  \/ \E t \in timers : removeEmptyBusIncarnation(t)
  \/ Close

\* A goroutine inside a call keeps running, and a timer fires.
Fairness ==
  /\ \A p \in Callers : WF_vars(Step(p))
  /\ \A t \in Timers : WF_vars(removeEmptyBusIncarnation(t))

Spec == Init /\ [][Next]_vars

FairSpec == Spec /\ Fairness

-----------------------------------------------------------------------------
\* Every variable keeps to its type.
TypeOK ==
  /\ busses \in [Ids -> Buses \cup {NoBus}]
  /\ busRemovals \in [Ids -> Removals \cup {NoRemoval}]
  /\ serverClosing \in BOOLEAN
  /\ allocatedBusIds \in SUBSET Ids
  /\ made \in 0..MaxBus /\ number \in [Buses -> 0..MaxId]
  /\ closed \in SUBSET Buses /\ devices \in [Buses -> 0..MaxAdds]
  /\ emptyCtx \in [Buses -> 0..(MaxAdds + 1)] /\ adds \in 0..MaxAdds
  /\ timers \in SUBSET Timers
  /\ done \in SUBSET Removals /\ started \in 0..MaxRemovals
  /\ pc \in [Callers -> Labels] /\ id \in [Callers -> 0..MaxId]
  /\ bus \in [Callers -> Buses \cup {NoBus}]
  /\ rem \in [Callers -> Removals \cup {NoRemoval}]
  /\ entered \in SUBSET Buses /\ lastAdd \in [Buses -> 0..MaxAdds]
  /\ asked \in [Callers -> Buses \cup {NoBus}]

registered(b) == \E i \in Ids : busses[i] = b

\* The topology forgets a bus only after its drain: a bus that was registered
\* and no longer is, is closed and has no device left, whichever of
\* RemoveBus and the cleanup took it out.
ForgottenMeansDrained ==
  \A b \in entered : ~registered(b) => b \in closed /\ devices[b] = 0

\* A closed bus stays in the topology only while a RemoveBus call is about to
\* take it out, so a closed bus never blocks its number for good.
ClosedMeansLeaving ==
  \A i \in Ids : busses[i] \in closed =>
    \E p \in Callers : /\ pc[p] \in {"drain", "finish"}
                       /\ bus[p] = busses[i] /\ busRemovals[i] = rem[p]

\* Under numbered creation a registered open bus holds its number in the
\* pool, so no second bus with that number can be made (NewWithBusID).
RegisteredHoldsNumber ==
  \A i \in Ids : busses[i] \notin closed \cup {NoBus} => i \in allocatedBusIds

\* The cleanup closes an empty bus only, and only if no device was added to
\* it since the cleanup was armed (removeEmptyBusIncarnation).
CleanupSparesUsedBus ==
  [][\A t \in timers \ timers' :
       t.bus \in closed' \ closed =>
         devices[t.bus] = 0 /\ t.ctx > lastAdd[t.bus]]_vars

\* No RemoveBus or creation call hangs, joined ones included.
EveryRequestReturns == \A p \in Callers : []<>(pc[p] = "idle")

\* With a cleanup timeout configured no empty bus stays registered for ever.
EmptyBusGoes ==
  \A b \in Buses : []<>~(registered(b) /\ devices[b] = 0)

\* What CreateUSBBus says of number 0: with no call in progress the next free
\* number can be allocated.
NextFreeIsAllocatable ==
  (/\ \A p \in Callers : pc[p] = "idle"
   /\ ~serverClosing /\ freeBusIDs # {})
    => NextFreeBusID \notin allocatedBusIds

\* What the comment on RemoveBus says: when a call returns, the bus it was
\* asked to remove is not registered.
RemovedWhenReturned ==
  [][\A p \in Callers :
       (pc[p] \in {"join", "finish"} /\ pc'[p] = "idle" /\ asked[p] # NoBus)
         => \A i \in Ids : busses'[i] # asked[p]]_vars
=============================================================================
