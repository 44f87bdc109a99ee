------------------------- MODULE VirtualBusProofs ---------------------------
(***************************************************************************)
(* Safety of the virtual bus for any number of goroutines, devices,        *)
(* addresses and registrations.                                            *)
(***************************************************************************)
EXTENDS VirtualBusFence

\* When the closer passes its last wait nothing is listed: each entry was its
\* own work, already done, or belonged to a remover that has signalled.
LEMMA DrainedAtClear ==
  ASSUME TypeOK, ListInv, TodoInv, CloseInv,
         NEW p \in Procs, pc[p] = "closeWait", waiting \subseteq removalDone
  PROVE  closed /\ devices = {}
<1>1. closer = p /\ closer # NoProc
  BY BusConstants DEF CloseInv
<1>2. todo[p] = {}
  BY DEF TodoInv, Finishing
<1> QED
  BY SMTT(30), <1>1, <1>2 DEF CloseInv, ListInv

\* The close protocol keeps its bookkeeping.
LEMMA CloseStep ==
  TypeOK /\ ListInv /\ TodoInv /\ CloseInv /\ [Next]_vars => CloseInv'
<1> SUFFICES ASSUME TypeOK, ListInv, TodoInv, CloseInv, [Next]_vars
             PROVE  CloseInv'
  OBVIOUS
<1> USE DEF CloseInv, Goto, regVars, listVars, flagVars, fenceVars, emptyVars,
            closeVars, procVars
<1>0. /\ pc \in [Procs -> Labels] /\ todo \in [Procs -> SUBSET Tokens]
      /\ closer \in Procs \cup {NoProc} /\ NoProc \notin Procs
  BY SMTT(30), BusConstants DEF TypeOK
<1> DEFINE Closing == {"closeWait", "closeFree", "closeSignal"}
<1>1. ASSUME NEW p \in Procs, NEW label, label \notin Closing,
             pc' = [pc EXCEPT ![p] = label],
             \A q \in Procs : todo[q] \cap devices \subseteq todo'[q],
             devices' \subseteq devices,
             UNCHANGED <<closed, closeDone, busIDAllocated, closer, waiting>>
      PROVE  CloseInv'
  BY SMTT(30), <1>0, <1>1
<1>2. ASSUME NEW p \in Procs, NEW t \in Tokens, pc[p] = "idle",
             RemoveUnchanged,
             markRegistrationRemovalLocked(p, t) \/ JoinRemoval(p, t)
      PROVE  CloseInv'
  <2>1. todo[p] = {}
    BY <1>2 DEF TodoInv, Finishing
  <2>2. \A q \in Procs : todo[q] \subseteq todo'[q]
    BY <1>0, <1>2, <2>1 DEF markRegistrationRemovalLocked, JoinRemoval
  <2>3. PICK label : label \notin Closing /\ pc' = [pc EXCEPT ![p] = label]
    BY <1>2 DEF markRegistrationRemovalLocked, JoinRemoval
  <2> QED
    BY Zenon, <1>1, <1>2, <2>2, <2>3 DEF RemoveUnchanged
<1>3. ASSUME NEW p \in Procs,
             \/ \E t \in Tokens : RemoveRegistrationIfPresent(p, t)
             \/ \E i \in DeviceIDs : RemoveDeviceByID(p, i)
             \/ \E d \in Devices : RemoveIfPresent(p, d)
      PROVE  CloseInv'
  <2>1. devices \subseteq Tokens
    BY SMTT(30) DEF TypeOK
  <2> HIDE DEF CloseInv
  <2> QED
    BY <1>2, <1>3, <2>1 DEF RemoveRegistrationIfPresent, RemoveDeviceByID,
       RemoveIfPresent
<1>4. ASSUME NEW p \in Procs,
             \/ AcquireRLock(p) \/ AcquireRecheck(p) \/ Release(p)
             \/ FinishAnnounce(p) \/ FinishRemove(p) \/ AwaitRemoval(p)
             \/ AwaitClose(p) \/ JoinClose(p)
             \/ \E t \in Tokens : AcquireCheck(p, t)
      PROVE  CloseInv'
  <2>1. /\ devices' \subseteq devices
        /\ UNCHANGED <<todo, closed, closeDone, busIDAllocated, closer, waiting>>
    BY ZenonT(30), <1>4 DEF AcquireRLock, AcquireRecheck, Release, FinishAnnounce,
       FinishRemove, AwaitRemoval, AwaitClose, JoinClose, AcquireCheck
  <2>2. PICK label : label \notin Closing /\ pc' = [pc EXCEPT ![p] = label]
    BY ZenonT(30), <1>4 DEF AcquireRLock, AcquireRecheck, Release, FinishAnnounce,
       FinishRemove, AwaitRemoval, AwaitClose, JoinClose, AcquireCheck
  <2> QED
    BY SMTT(30), <1>1, <2>1, <2>2
<1>5. ASSUME NEW p \in Procs, NEW d \in Devices, NEW publish \in BOOLEAN,
             NEW m \in Ceilings, NEW a \in Aliases \cup {NoAlias},
             addRegistration(p, d, publish, m, a)
      PROVE  CloseInv'
  BY ZenonT(30), <1>5 DEF addRegistration
<1>6. ASSUME NEW p \in Procs, GetBusEmptyContext(p)
                \/ \E t \in Tokens : PublishRegistration(p, t)
      PROVE  CloseInv'
  BY SMTT(30), <1>6 DEF GetBusEmptyContext, PublishRegistration
<1>7. ASSUME NEW p \in Procs, FinishSignal(p)
      PROVE  CloseInv'
  <2> DEFINE rest == todo[p] \ {tok[p]}
             label == IF rest # {} THEN "finLock"
                      ELSE IF closer = p THEN "closeWait" ELSE "idle"
  <2>1. /\ pc' = [pc EXCEPT ![p] = label] /\ todo' = [todo EXCEPT ![p] = rest]
        /\ label \in {"finLock", "closeWait", "idle"}
        /\ label = "closeWait" => closer = p
        /\ UNCHANGED <<devices, closed, closeDone, busIDAllocated, closer, waiting>>
    BY SMTT(30), <1>7 DEF FinishSignal
  <2>2. tok[p] \notin devices
    BY <1>7 DEF FinishSignal, TodoInv
  <2>3. \A q \in Procs : todo[q] \cap devices \subseteq todo'[q]
    BY <1>0, <2>1, <2>2
  <2> HIDE DEF label, rest
  <2> QED
    BY <1>0, <2>1, <2>3
<1>8. ASSUME NEW p \in Procs, CloseAndTakeRegistrations(p)
      PROVE  CloseInv'
  <2> DEFINE marked == devices \ removing
             label == IF marked # {} THEN "finLock" ELSE "closeWait"
  <2>1. /\ ~closed /\ closed' /\ closer' = p /\ waiting' = devices \cap removing
        /\ todo' = [todo EXCEPT ![p] = marked]
        /\ pc' = [pc EXCEPT ![p] = label] /\ label \in {"finLock", "closeWait"}
        /\ UNCHANGED <<devices, closeDone, busIDAllocated>>
    BY <1>8 DEF CloseAndTakeRegistrations
  <2>2. todo'[p] = marked
    BY <1>0, <2>1
  <2>3. devices' \subseteq waiting' \cup todo'[closer']
    BY <2>1, <2>2
  <2> HIDE DEF label
  <2>4. \A q \in Procs : q # p => pc'[q] \notin Closing
    BY <1>0, <2>1
  <2>5. pc'[p] \in {"finLock", "closeWait"}
    BY <1>0, <2>1
  <2> QED
    BY <2>1, <2>3, <2>4, <2>5
<1>9. ASSUME NEW p \in Procs, CloseClear(p)
      PROVE  CloseInv'
  <2>1. closed /\ devices = {}
    BY Zenon, <1>9, DrainedAtClear DEF CloseClear
  <2> QED
    BY SMTT(30), <1>0, <1>9, <2>1 DEF CloseClear
<1>10. ASSUME NEW p \in Procs, CloseFree(p)
       PROVE  CloseInv'
  BY <1>0, <1>10 DEF CloseFree
<1>11. ASSUME NEW p \in Procs, CloseSignal(p)
       PROVE  CloseInv'
  BY <1>0, <1>11 DEF CloseSignal
<1>12. ASSUME NEW p \in Procs, NEW e \in EmptyCtxs, CloseIfEmptyContext(p, e)
       PROVE  CloseInv'
  BY SMTT(30), <1>0, <1>12 DEF CloseIfEmptyContext
<1>13. CASE UNCHANGED vars
  BY <1>13 DEF vars
<1> HIDE DEF CloseInv
<1> QED
  BY <1>3, <1>4, <1>5, <1>6, <1>7, <1>8, <1>9, <1>10, <1>11, <1>12, <1>13
     DEF Next, Step, Call

-----------------------------------------------------------------------------
\* The current empty context stays stamped with the current token count.
LEMMA EmptyStep == TypeOK /\ EmptyInv /\ [Next]_vars => EmptyInv'
<1> SUFFICES ASSUME TypeOK, EmptyInv, [Next]_vars
             PROVE  EmptyInv'
  OBVIOUS
<1> USE DEF EmptyInv, regVars, listVars, flagVars, fenceVars, emptyVars,
            closeVars, procVars
<1>0. /\ emptyCtx \in Nat /\ closedBy \in Nat /\ nextEmpty \in Nat
      /\ emptySince \in [EmptyCtxs -> 0..MaxToken]
  BY BusConstants DEF TypeOK
<1>1. ASSUME NEW p \in Procs, NEW d \in Devices, NEW publish \in BOOLEAN,
             NEW m \in Ceilings, NEW a \in Aliases \cup {NoAlias},
             addRegistration(p, d, publish, m, a)
      PROVE  EmptyInv'
  BY <1>0, <1>1 DEF addRegistration, CancelEmpty
<1>2. ASSUME NEW p \in Procs, GetBusEmptyContext(p)
      PROVE  EmptyInv'
  <2>1. nextEmpty + 1 \in EmptyCtxs
    BY <1>0, <1>2, BusConstants DEF GetBusEmptyContext, EmptyCtxs
  <2> QED
    BY <1>0, <1>2, <2>1 DEF GetBusEmptyContext
<1>3. ASSUME NEW p \in Procs, CloseAndTakeRegistrations(p)
                \/ \E e \in EmptyCtxs : CloseIfEmptyContext(p, e)
      PROVE  EmptyInv'
  BY <1>0, <1>3 DEF CloseAndTakeRegistrations, CloseIfEmptyContext, CancelEmpty
<1>4. ASSUME UNCHANGED <<emptyVars, closed, nextRegistrationToken>>
      PROVE  EmptyInv'
  BY <1>4
<1>5. ASSUME NEW p \in Procs,
             \/ Step(p) \/ JoinClose(p)
             \/ \E t \in Tokens : \/ PublishRegistration(p, t) \/ AcquireCheck(p, t)
                                  \/ RemoveRegistrationIfPresent(p, t)
             \/ \E i \in DeviceIDs : RemoveDeviceByID(p, i)
             \/ \E d \in Devices : RemoveIfPresent(p, d)
      PROVE  EmptyInv'
  <2>1. UNCHANGED <<emptyVars, closed, nextRegistrationToken>>
    BY Zenon, <1>5 DEF Step, AcquireRLock, AcquireRecheck, Release, FinishAnnounce,
       FinishRemove, FinishSignal, AwaitRemoval, AwaitClose, CloseClear,
       CloseFree, CloseSignal, JoinClose, PublishRegistration, AcquireCheck,
       RemoveRegistrationIfPresent, RemoveDeviceByID, RemoveIfPresent,
       RemoveUnchanged
  <2> QED
    BY SMTT(30), <1>4, <2>1
<1>6. CASE UNCHANGED vars
  BY <1>6 DEF vars
<1> HIDE DEF EmptyInv
<1> QED
  BY <1>1, <1>2, <1>3, <1>5, <1>6 DEF Next, Call

\* The address map follows the list through every operation.
LEMMA AddressStep ==
  TypeOK /\ ListInv /\ TodoInv /\ CloseInv /\ AddressesMatchList /\ [Next]_vars
    => AddressesMatchList'
<1> SUFFICES ASSUME TypeOK, ListInv, TodoInv, CloseInv, AddressesMatchList,
                    [Next]_vars
             PROVE  AddressesMatchList'
  BY SMTT(30)
<1> USE DEF regVars, listVars, flagVars, fenceVars, emptyVars, closeVars,
            procVars
<1>1. ASSUME NEW p \in Procs, NEW d \in Devices, NEW publish \in BOOLEAN,
             NEW m \in Ceilings, NEW a \in Aliases \cup {NoAlias},
             addRegistration(p, d, publish, m, a)
      PROVE  AddressesMatchList'
  <2> DEFINE t == nextRegistrationToken + 1
  <2>1. PICK i \in nextAvailableDeviceIDLocked(m) :
          /\ info' = [info EXCEPT ![t] = [dev |-> d, devID |-> i, alias |-> a]]
          /\ allocatedDevIDs' = allocatedDevIDs \cup {i}
          /\ devices' = devices \cup {t}
    BY Zenon, <1>1 DEF addRegistration
  <2>2. i \notin allocatedDevIDs
    BY DEF nextAvailableDeviceIDLocked
  <2>3. t \in Tokens /\ t \notin devices
    BY <1>1, BusConstants DEF addRegistration, TypeOK, Tokens, ListInv, Issued
  <2>4. \A u \in devices : /\ info[u].dev # d
                           /\ a # NoAlias => info[u].alias # a
    BY <1>1 DEF addRegistration
  <2>5. /\ info'[t] = [dev |-> d, devID |-> i, alias |-> a]
        /\ \A u \in devices : info'[u] = info[u]
    BY <2>1, <2>3 DEF TypeOK
  <2>6. allocatedDevIDs' = {info'[u].devID : u \in devices'}
    BY SMTT(30), <2>1, <2>5 DEF AddressesMatchList
  <2>7. \A u \in devices : info[u].devID # i
    BY <2>2 DEF AddressesMatchList
  <2>8. \A u, v \in devices' : u # v =>
          /\ info'[u].dev # info'[v].dev
          /\ info'[u].devID # info'[v].devID
          /\ info'[u].alias # NoAlias => info'[u].alias # info'[v].alias
    <3>1. info'[t].dev = d /\ info'[t].devID = i /\ info'[t].alias = a
      BY SMTT(30), <2>5
    <3> SUFFICES ASSUME NEW u \in devices', NEW v \in devices', u # v
                 PROVE  /\ info'[u].dev # info'[v].dev
                        /\ info'[u].devID # info'[v].devID
                        /\ info'[u].alias # NoAlias
                             => info'[u].alias # info'[v].alias
      OBVIOUS
    <3>2. CASE u = t
      BY <2>1, <2>4, <2>5, <2>7, <3>1, <3>2
    <3>3. CASE v = t
      BY <2>1, <2>4, <2>5, <2>7, <3>1, <3>3
    <3>4. CASE u # t /\ v # t
      BY <2>1, <2>5, <3>4 DEF AddressesMatchList
    <3> QED
      BY SMTT(30), <3>2, <3>3, <3>4
  <2> QED
    BY <2>6, <2>8 DEF AddressesMatchList
<1>2. ASSUME NEW p \in Procs, FinishRemove(p)
      PROVE  AddressesMatchList'
  <2>1. tok[p] \in devices
    BY <1>2 DEF FinishRemove, TodoInv
  <2> DEFINE gone == devices \cap {tok[p]}
  <2>2. /\ devices' = devices \ gone /\ info' = info
        /\ allocatedDevIDs' = allocatedDevIDs \ {info[u].devID : u \in gone}
    BY Zenon, <1>2 DEF FinishRemove
  <2>3. gone = {tok[p]}
    BY Zenon, <2>1
  <2>4. {info[u].devID : u \in {tok[p]}} = {info[tok[p]].devID}
    OBVIOUS
  <2>5. /\ devices' = devices \ {tok[p]} /\ info' = info
        /\ allocatedDevIDs' = allocatedDevIDs \ {info[tok[p]].devID}
    BY Zenon, <2>2, <2>3, <2>4
  <2> HIDE DEF gone
  <2> QED
    BY SMTT(30), <2>1, <2>5 DEF AddressesMatchList
<1>3. ASSUME NEW p \in Procs, CloseClear(p)
      PROVE  AddressesMatchList'
  <2>1. devices = {}
    BY <1>3, DrainedAtClear DEF CloseClear
  <2> QED
    BY Zenon, <1>3, <2>1 DEF CloseClear, AddressesMatchList
<1>4. ASSUME UNCHANGED <<devices, info, allocatedDevIDs>>
      PROVE  AddressesMatchList'
  BY <1>4 DEF AddressesMatchList
<1>5. ASSUME NEW p \in Procs,
             \/ AcquireRLock(p) \/ AcquireRecheck(p) \/ Release(p)
             \/ FinishAnnounce(p) \/ FinishSignal(p) \/ AwaitRemoval(p)
             \/ AwaitClose(p) \/ CloseFree(p) \/ CloseSignal(p)
             \/ JoinClose(p) \/ GetBusEmptyContext(p)
             \/ CloseAndTakeRegistrations(p)
             \/ \E t \in Tokens : \/ PublishRegistration(p, t) \/ AcquireCheck(p, t)
                                  \/ RemoveRegistrationIfPresent(p, t)
             \/ \E i \in DeviceIDs : RemoveDeviceByID(p, i)
             \/ \E d \in Devices : RemoveIfPresent(p, d)
             \/ \E e \in EmptyCtxs : CloseIfEmptyContext(p, e)
      PROVE  AddressesMatchList'
  <2>1. UNCHANGED <<devices, info, allocatedDevIDs>>
    BY Zenon, <1>5 DEF AcquireRLock, AcquireRecheck, Release, FinishAnnounce,
       FinishSignal, AwaitRemoval, AwaitClose, CloseFree, CloseSignal,
       JoinClose, GetBusEmptyContext, CloseAndTakeRegistrations,
       PublishRegistration, AcquireCheck, RemoveRegistrationIfPresent,
       RemoveDeviceByID, RemoveIfPresent, RemoveUnchanged, CloseIfEmptyContext
  <2> QED
    BY SMTT(30), <1>4, <2>1
<1>6. CASE UNCHANGED vars
  BY <1>4, <1>6 DEF vars
<1> QED
  BY <1>1, <1>2, <1>3, <1>5, <1>6 DEF Next, Step, Call

-----------------------------------------------------------------------------
\* The inductive invariant holds in every reachable state of the bus.
THEOREM Invariance == Spec => []IInv
<1>1. IInv /\ [Next]_vars => IInv'
  BY TypeStep, ListStep, TodoStep, FenceStep, CloseStep, EmptyStep, AddressStep
     DEF IInv
<1> QED
  BY InitInv, <1>1, PTL DEF Spec

\* Every field keeps its type, whatever the goroutines do.
THEOREM TypeCorrect == Spec => []TypeOK
  BY Invariance, PTL DEF IInv

\* Addresses, devices and aliases of listed registrations never collide and
\* the address map is exact, for any number of devices and addresses.
THEOREM AddressesCorrect == Spec => []AddressesMatchList
  BY Invariance, PTL DEF IInv

\* The lease fence: an operation never runs on a removed incarnation.
THEOREM LeaseSafety == Spec => []LeaseFencesRemoval
<1>1. IInv => LeaseFencesRemoval
  BY DEF IInv, LeaseFencesRemoval, FenceInv, ListInv
<1> QED
  BY Invariance, <1>1, PTL

\* Every marked removal has exactly one finisher.
THEOREM OneRemover == Spec => []RemovalHasOneOwner
<1>1. IInv => RemovalHasOneOwner
  BY DEF IInv, RemovalHasOneOwner, TodoInv
<1> QED
  BY Invariance, <1>1, PTL

\* removalDone is closed only for incarnations that are gone, and contexts are
\* cancelled for exactly those.
THEOREM SignalSound == Spec => []SignalledMeansGone
<1>1. IInv => SignalledMeansGone
  BY DEF IInv, SignalledMeansGone, ListInv
<1> QED
  BY Invariance, <1>1, PTL

\* The bus number is given back only after the last registration and the last
\* operation are gone.
THEOREM CloseSound == Spec => []NumberFreedAfterDrain
<1>1. IInv => NumberFreedAfterDrain
  BY DEF IInv, NumberFreedAfterDrain, CloseInv, FenceInv
<1> QED
  BY Invariance, <1>1, PTL

\* A delayed empty-bus cleanup never closes a bus that was used since.
THEOREM CleanupSound == Spec => []StaleCleanupIsNoOp
<1>1. IInv => StaleCleanupIsNoOp
  BY DEF IInv, StaleCleanupIsNoOp, EmptyInv
<1> QED
  BY Invariance, <1>1, PTL
=============================================================================
