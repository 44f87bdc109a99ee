--------------------------- MODULE VirtualBusInv ----------------------------
(***************************************************************************)
(* The inductive invariant of the virtual bus, and the two parts all the   *)
(* others rest on: types, and the agreement of list, flags and contexts.   *)
(***************************************************************************)
EXTENDS VirtualBus, TLAPS

\* The list, the lifecycle flags and the contexts tell one story.
ListInv ==
  /\ devices \subseteq Issued /\ active = devices
  /\ cancelled = Issued \ devices
  /\ removing \subseteq Issued
  /\ Issued \ devices \subseteq removing
  /\ removalDone \subseteq removing /\ removalDone \cap devices = {}

Finishing == {"finLock", "finWait", "finSignal"}

\* Marked removals are partitioned among the goroutines that finish them.
TodoInv ==
  /\ \A p \in Procs : todo[p] \subseteq removing \ removalDone
  /\ \A p, q \in Procs : p # q => todo[p] \cap todo[q] = {}
  /\ \A t \in removing \ removalDone : \E p \in Procs : t \in todo[p]
  /\ \A p \in Procs : todo[p] # {} <=> pc[p] \in Finishing
  /\ \A p \in Procs : pc[p] \in {"finWait", "finSignal"} => tok[p] \in todo[p]
  /\ \A p \in Procs : \A t \in todo[p] :
       t \in devices <=> ~(pc[p] = "finSignal" /\ t = tok[p])

\* Read holders are exactly the goroutines inside the fence.
FenceInv ==
  /\ \A p \in Procs, t \in Tokens :
       p \in readers[t] <=> pc[p] \in {"acqRecheck", "leased"} /\ tok[p] = t
  /\ \A p \in Procs : pc[p] \in {"acqRLock", "acqRecheck", "leased", "waitDone"}
                        => tok[p] \in Issued
  /\ \A p \in Procs : pc[p] = "leased" => tok[p] \in devices

\* After close, what is still listed is the closer's work or awaited by it.
CloseInv ==
  /\ closer # NoProc => closed /\ devices \subseteq waiting \cup todo[closer]
  /\ \A p \in Procs : pc[p] = "closeWait" => closer = p
  /\ \A p \in Procs : pc[p] \in {"closeFree", "closeSignal"}
                        => closed /\ devices = {}
  /\ \A p \in Procs : pc[p] = "closeSignal" => ~busIDAllocated
  /\ ~busIDAllocated => closed /\ devices = {}
  /\ closeDone => ~busIDAllocated

\* The current empty context was made after the last Add.
EmptyInv ==
  /\ emptyCtx =< nextEmpty /\ closedBy =< nextEmpty
  /\ emptyCtx # 0 => emptySince[emptyCtx] = nextRegistrationToken
  /\ closedBy # 0 => closed /\ emptySince[closedBy] = nextRegistrationToken

IInv == TypeOK /\ ListInv /\ TodoInv /\ FenceInv /\ CloseInv /\ EmptyInv
        /\ AddressesMatchList
-----------------------------------------------------------------------------
\* The initial state of NewWithBusID satisfies the inductive invariant.
LEMMA InitInv == Init => IInv
<1> SUFFICES ASSUME Init PROVE IInv
  OBVIOUS
<1> USE BusConstants DEF Init, Issued, Tokens, DeviceIDs, EmptyCtxs
<1>1. TypeOK
  <2>1. info \in [Tokens -> Infos \cup {NoInfo}]
    OBVIOUS
  <2>2. emptySince \in [EmptyCtxs -> 0..MaxToken] /\ tok \in [Procs -> 0..MaxToken]
    OBVIOUS
  <2>3. pc \in [Procs -> Labels]
    BY DEF Labels
  <2>4. Issued = {}
    OBVIOUS
  <2>5. readers \in [Tokens -> SUBSET Procs] /\ todo \in [Procs -> SUBSET Tokens]
    OBVIOUS
  <2>6. writer \in [Tokens -> Procs \cup {NoProc}]
    OBVIOUS
  <2>7. nextRegistrationToken \in 0..MaxToken /\ emptyCtx \in 0..MaxEmpty
        /\ nextEmpty \in 0..MaxEmpty /\ closedBy \in 0..MaxEmpty
    OBVIOUS
  <2> QED
    BY <2>1, <2>2, <2>3, <2>4, <2>5, <2>6, <2>7, Zenon DEF TypeOK
<1>2. ListInv /\ FenceInv /\ CloseInv /\ EmptyInv
  BY DEF ListInv, FenceInv, CloseInv, EmptyInv
<1>3. TodoInv /\ AddressesMatchList
  BY DEF TodoInv, AddressesMatchList, Finishing
<1> QED
  BY <1>1, <1>2, <1>3 DEF IInv

\* Every step of every bus operation keeps the types.
LEMMA TypeStep == TypeOK /\ ListInv /\ TodoInv /\ FenceInv /\ [Next]_vars => TypeOK'
<1> SUFFICES ASSUME TypeOK, ListInv, TodoInv, FenceInv, [Next]_vars
             PROVE  TypeOK'
  OBVIOUS
<1> USE BusConstants DEF TypeOK, Tokens, DeviceIDs, EmptyCtxs, Issued, Labels,
        regVars, listVars, flagVars, fenceVars, emptyVars, closeVars, procVars,
        Goto, CancelEmpty
<1>1. CASE UNCHANGED vars
  BY <1>1 DEF vars
<1>2. ASSUME NEW p \in Procs, NEW d \in Devices, NEW publish \in BOOLEAN,
             NEW m \in Ceilings, NEW a \in Aliases \cup {NoAlias},
             addRegistration(p, d, publish, m, a)
      PROVE  TypeOK'
  <2>1. PICK i \in nextAvailableDeviceIDLocked(m) :
          LET t == nextRegistrationToken + 1 IN
          /\ nextRegistrationToken' = t
          /\ info' = [info EXCEPT ![t] = [dev |-> d, devID |-> i, alias |-> a]]
          /\ allocatedDevIDs' = allocatedDevIDs \cup {i}
          /\ devices' = devices \cup {t}
          /\ active' = active \cup {t}
          /\ published' = IF publish THEN published \cup {t} ELSE published
    BY Zenon, <1>2 DEF addRegistration
  <2>2. i \in DeviceIDs
    BY DEF nextAvailableDeviceIDLocked
  <2>3. nextRegistrationToken + 1 \in Tokens
    BY SMTT(30), <1>2 DEF addRegistration
  <2>4. [dev |-> d, devID |-> i, alias |-> a] \in Infos
    BY <2>2 DEF Infos
  <2>5. /\ info' \in [Tokens -> Infos \cup {NoInfo}]
        /\ \A t \in Issued' : info'[t] \in Infos
    BY <2>1, <2>3, <2>4
  <2> QED
    BY <1>2, <2>1, <2>2, <2>3, <2>5 DEF addRegistration
<1>3. ASSUME NEW p \in Procs, NEW t \in Tokens, PublishRegistration(p, t)
      PROVE  TypeOK'
  BY <1>3 DEF PublishRegistration
<1>4. ASSUME NEW p \in Procs, NEW t \in Tokens, AcquireCheck(p, t)
      PROVE  TypeOK'
  BY <1>4 DEF AcquireCheck
<1>5. ASSUME NEW p \in Procs, NEW t \in Tokens,
             JoinRemoval(p, t), RemoveUnchanged
      PROVE  TypeOK'
  BY SMTT(30), <1>5 DEF JoinRemoval, RemoveUnchanged
<1>6. ASSUME NEW p \in Procs, NEW t \in Tokens,
             markRegistrationRemovalLocked(p, t), RemoveUnchanged
      PROVE  TypeOK'
  BY <1>6 DEF markRegistrationRemovalLocked, RemoveUnchanged
<1>7. ASSUME NEW p \in Procs,
             \/ \E t \in Tokens : RemoveRegistrationIfPresent(p, t)
             \/ \E i \in DeviceIDs : RemoveDeviceByID(p, i)
             \/ \E d \in Devices : RemoveIfPresent(p, d)
      PROVE  TypeOK'
  BY Zenon, <1>5, <1>6, <1>7 DEF RemoveRegistrationIfPresent, RemoveDeviceByID,
     RemoveIfPresent
<1>8. ASSUME NEW p \in Procs, CloseAndTakeRegistrations(p)
      PROVE  TypeOK'
  BY <1>8 DEF CloseAndTakeRegistrations
<1>9. ASSUME NEW p \in Procs, JoinClose(p)
      PROVE  TypeOK'
  BY <1>9 DEF JoinClose
<1>22. ASSUME NEW p \in Procs, GetBusEmptyContext(p)
       PROVE  TypeOK'
  BY SMTT(30), <1>22 DEF GetBusEmptyContext
<1>10. ASSUME NEW p \in Procs, NEW e \in EmptyCtxs, CloseIfEmptyContext(p, e)
       PROVE  TypeOK'
  BY <1>10 DEF CloseIfEmptyContext
<1>11. ASSUME NEW p \in Procs, AcquireRLock(p)
       PROVE  TypeOK'
  <2>1. tok[p] \in Tokens
    BY <1>11 DEF AcquireRLock, FenceInv
  <2>2. readers' \in [Tokens -> SUBSET Procs]
    BY <1>11, <2>1 DEF AcquireRLock
  <2> QED
    BY <1>11, <2>2 DEF AcquireRLock
<1>12. ASSUME NEW p \in Procs, AcquireRecheck(p)
       PROVE  TypeOK'
  <2>1. CASE ~closed /\ authenticatesRegistrationLocked(tok[p])
    BY <1>12, <2>1 DEF AcquireRecheck
  <2>2. CASE ~(~closed /\ authenticatesRegistrationLocked(tok[p]))
    <3>1. tok[p] \in Tokens
      BY <1>12 DEF AcquireRecheck, FenceInv
    <3>2. readers' \in [Tokens -> SUBSET Procs]
      BY <1>12, <2>2, <3>1 DEF AcquireRecheck
    <3>3. pc' \in [Procs -> Labels]
      BY Zenon, <1>12, <2>2 DEF AcquireRecheck
    <3>5. tok' \in [Procs -> 0..MaxToken]
      BY <1>12, <2>2 DEF AcquireRecheck
    <3>4. UNCHANGED <<regVars, listVars, flagVars, writer, emptyVars,
                      closeVars, todo>>
      BY <1>12 DEF AcquireRecheck
    <3> QED
      BY <3>2, <3>3, <3>4, <3>5
  <2> QED
    BY Zenon, <2>1, <2>2
<1>13. ASSUME NEW p \in Procs, Release(p)
       PROVE  TypeOK'
  <2>1. tok[p] \in Tokens
    BY <1>13 DEF Release, FenceInv
  <2>2. readers' \in [Tokens -> SUBSET Procs]
    BY <1>13, <2>1 DEF Release
  <2> QED
    BY SMTT(30), <1>13, <2>2 DEF Release
<1>14. ASSUME NEW p \in Procs, FinishAnnounce(p)
       PROVE  TypeOK'
  <2>1. PICK t \in Tokens : /\ writer' = [writer EXCEPT ![t] = p]
                            /\ tok' = [tok EXCEPT ![p] = t]
    BY Zenon, <1>14 DEF FinishAnnounce
  <2> QED
    BY SMTT(30), <1>14, <2>1 DEF FinishAnnounce
<1>15. ASSUME NEW p \in Procs, FinishRemove(p)
       PROVE  TypeOK'
  BY Zenon, <1>15 DEF FinishRemove, TodoInv
<1>16. ASSUME NEW p \in Procs, FinishSignal(p)
       PROVE  TypeOK'
  <2>1. tok[p] \in Tokens
    BY <1>16 DEF FinishSignal, TodoInv
  <2>2. pc' \in [Procs -> Labels]
    BY <1>16 DEF FinishSignal
  <2>3. todo' \in [Procs -> SUBSET Tokens]
    BY <1>16 DEF FinishSignal
  <2>4. tok' \in [Procs -> 0..MaxToken]
    BY <1>16, <2>1 DEF FinishSignal
  <2>6. removalDone' \in SUBSET Tokens
    BY Zenon, <1>16, <2>1 DEF FinishSignal
  <2>5. UNCHANGED <<regVars, listVars, published, removing, fenceVars,
                    emptyVars, closeVars>>
    BY <1>16 DEF FinishSignal
  <2> QED
    BY SMTT(30), <2>2, <2>3, <2>4, <2>5, <2>6
<1>17. ASSUME NEW p \in Procs, AwaitRemoval(p)
       PROVE  TypeOK'
  BY <1>17 DEF AwaitRemoval
<1>18. ASSUME NEW p \in Procs, AwaitClose(p)
       PROVE  TypeOK'
  BY <1>18 DEF AwaitClose
<1>19. ASSUME NEW p \in Procs, CloseClear(p)
       PROVE  TypeOK'
  BY <1>19 DEF CloseClear
<1>20. ASSUME NEW p \in Procs, CloseFree(p)
       PROVE  TypeOK'
  BY Zenon, <1>20 DEF CloseFree
<1>21. ASSUME NEW p \in Procs, CloseSignal(p)
       PROVE  TypeOK'
  BY <1>21 DEF CloseSignal
<1> HIDE DEF TypeOK
<1> QED
  BY <1>1, <1>2, <1>3, <1>4, <1>7, <1>8, <1>9, <1>10, <1>11, <1>12, <1>13,
     <1>14, <1>15, <1>16, <1>17, <1>18, <1>19, <1>20, <1>21, <1>22
     DEF Next, Step, Call

-----------------------------------------------------------------------------
\* List, flags and contexts stay in step: an Add makes all of them at once, a
\* mark only adds to `removing', and the bus section of
\* finishMarkedRegistrationRemoval retires exactly the marked entry.
LEMMA ListStep ==
  TypeOK /\ ListInv /\ TodoInv /\ FenceInv /\ [Next]_vars => ListInv'
<1> SUFFICES ASSUME TypeOK, ListInv, TodoInv, FenceInv, [Next]_vars
             PROVE  ListInv'
  OBVIOUS
<1> USE DEF ListInv, regVars, listVars, flagVars, fenceVars, emptyVars,
            closeVars, procVars
<1>0. /\ nextRegistrationToken \in 0..MaxToken /\ MaxToken \in Nat
  BY BusConstants DEF TypeOK
<1>1. ASSUME UNCHANGED <<regVars, listVars, removing, removalDone>>
      PROVE  ListInv'
  BY <1>1 DEF Issued
<1>2. ASSUME NEW p \in Procs, NEW d \in Devices, NEW publish \in BOOLEAN,
             NEW m \in Ceilings, NEW a \in Aliases \cup {NoAlias},
             addRegistration(p, d, publish, m, a)
      PROVE  ListInv'
  <2> DEFINE t == nextRegistrationToken + 1
  <2>1. /\ nextRegistrationToken' = t /\ devices' = devices \cup {t}
        /\ active' = active \cup {t}
        /\ UNCHANGED <<cancelled, removing, removalDone>>
    BY <1>2 DEF addRegistration
  <2>2. Issued' = Issued \cup {t} /\ t \notin Issued
    BY <2>1, <1>0 DEF Issued
  <2> QED
    BY <2>1, <2>2
<1>3. ASSUME NEW p \in Procs, NEW t \in Tokens,
             markRegistrationRemovalLocked(p, t), t \in devices, RemoveUnchanged
      PROVE  ListInv'
  BY <1>3 DEF markRegistrationRemovalLocked, RemoveUnchanged, Issued
<1>4. ASSUME NEW p \in Procs,
             \/ \E t \in Tokens : RemoveRegistrationIfPresent(p, t)
             \/ \E i \in DeviceIDs : RemoveDeviceByID(p, i)
             \/ \E d \in Devices : RemoveIfPresent(p, d)
      PROVE  ListInv'
  <2>1. ASSUME NEW t \in Tokens, JoinRemoval(p, t), RemoveUnchanged
        PROVE  ListInv'
    BY <1>1, <2>1 DEF JoinRemoval, RemoveUnchanged
  <2>2. devices \subseteq Tokens
    BY DEF TypeOK
  <2> QED
    BY <1>3, <1>4, <2>1, <2>2 DEF RemoveRegistrationIfPresent,
       RemoveDeviceByID, RemoveIfPresent
<1>5. ASSUME NEW p \in Procs, CloseAndTakeRegistrations(p)
      PROVE  ListInv'
  BY <1>5 DEF CloseAndTakeRegistrations, Issued
<1>6. ASSUME NEW p \in Procs, FinishRemove(p)
      PROVE  ListInv'
  <2>1. tok[p] \in todo[p] /\ tok[p] \in devices /\ tok[p] \in removing
    BY <1>6 DEF FinishRemove, TodoInv
  <2>2. /\ devices' = devices \ {tok[p]} /\ active' = active \ {tok[p]}
        /\ cancelled' = cancelled \cup {tok[p]}
        /\ UNCHANGED <<nextRegistrationToken, removing, removalDone>>
    BY <1>6, <2>1 DEF FinishRemove
  <2> QED
    BY Zenon, <2>1, <2>2 DEF Issued
<1>7. ASSUME NEW p \in Procs, FinishSignal(p)
      PROVE  ListInv'
  <2>1. tok[p] \in todo[p] /\ tok[p] \notin devices /\ tok[p] \in removing
    BY <1>7 DEF FinishSignal, TodoInv
  <2> QED
    BY Zenon, <1>7, <2>1 DEF FinishSignal, Issued
<1>8. ASSUME NEW p \in Procs,
             \/ AcquireRLock(p) \/ AcquireRecheck(p) \/ Release(p)
             \/ FinishAnnounce(p) \/ AwaitRemoval(p) \/ AwaitClose(p)
             \/ CloseClear(p) \/ CloseFree(p) \/ CloseSignal(p)
             \/ JoinClose(p) \/ GetBusEmptyContext(p)
             \/ \E t \in Tokens : PublishRegistration(p, t) \/ AcquireCheck(p, t)
             \/ \E e \in EmptyCtxs : CloseIfEmptyContext(p, e)
      PROVE  ListInv'
  <2>1. UNCHANGED <<nextRegistrationToken, devices, active, cancelled, removing,
                    removalDone>>
    BY Zenon, <1>8 DEF AcquireRLock, AcquireRecheck, Release, FinishAnnounce,
       AwaitRemoval, AwaitClose, CloseClear, CloseFree, CloseSignal, JoinClose,
       GetBusEmptyContext, PublishRegistration, AcquireCheck,
       CloseIfEmptyContext
  <2> QED
    BY SMTT(30), <2>1 DEF Issued
<1>9. CASE UNCHANGED vars
  BY <1>9 DEF vars, Issued
<1> HIDE DEF ListInv
<1> QED
  BY <1>2, <1>4, <1>5, <1>6, <1>7, <1>8, <1>9 DEF Next, Step, Call

=============================================================================
