-------------------------- MODULE VirtualBusFence ---------------------------
(***************************************************************************)
(* Removal ownership and the operation fence are preserved by every step.  *)
(***************************************************************************)
EXTENDS VirtualBusInv

\* Removals stay partitioned: a mark gives a fresh incarnation to one idle
\* goroutine, close takes exactly the unmarked ones, and each finished one
\* leaves its owner when removalDone is closed.
LEMMA TodoStep ==
  TypeOK /\ ListInv /\ TodoInv /\ [Next]_vars => TodoInv'
<1> SUFFICES ASSUME TypeOK, ListInv, TodoInv, [Next]_vars
             PROVE  TodoInv'
  OBVIOUS
<1> USE DEF TodoInv, Finishing, Goto, regVars, listVars, flagVars, fenceVars,
            emptyVars, closeVars, procVars
<1>0. /\ pc \in [Procs -> Labels] /\ tok \in [Procs -> 0..MaxToken]
      /\ todo \in [Procs -> SUBSET Tokens]
  BY DEF TypeOK
<1>1. ASSUME NEW p \in Procs, NEW label, pc[p] \notin Finishing,
             label \notin Finishing, pc' = [pc EXCEPT ![p] = label],
             \A q \in Procs \ {p} : tok'[q] = tok[q],
             \A t \in removing : t \in devices' <=> t \in devices,
             UNCHANGED <<todo, removing, removalDone>>
      PROVE  TodoInv'
  BY <1>0, <1>1
<1>2. ASSUME NEW p \in Procs,
             \/ AcquireRLock(p) \/ AcquireRecheck(p) \/ Release(p)
             \/ AwaitRemoval(p) \/ AwaitClose(p) \/ CloseFree(p)
             \/ CloseSignal(p) \/ CloseClear(p) \/ JoinClose(p)
             \/ \E t \in Tokens : AcquireCheck(p, t)
             \/ \E e \in EmptyCtxs : CloseIfEmptyContext(p, e)
      PROVE  TodoInv'
  <2>1. pc[p] \notin Finishing /\ UNCHANGED <<todo, removing, removalDone, devices>>
    BY SMTT(30), <1>2 DEF AcquireRLock, AcquireRecheck, Release, AwaitRemoval, AwaitClose,
       CloseFree, CloseSignal, CloseClear, JoinClose, AcquireCheck,
       CloseIfEmptyContext
  <2>2. \A q \in Procs \ {p} : tok'[q] = tok[q]
    BY SMTT(30), <1>0, <1>2 DEF AcquireRLock, AcquireRecheck, Release, AwaitRemoval,
       AwaitClose, CloseFree, CloseSignal, CloseClear, JoinClose, AcquireCheck,
       CloseIfEmptyContext
  <2>3. PICK label : label \notin Finishing /\ pc' = [pc EXCEPT ![p] = label]
    BY Zenon, <1>2 DEF AcquireRLock, AcquireRecheck, Release, AwaitRemoval, AwaitClose,
       CloseFree, CloseSignal, CloseClear, JoinClose, AcquireCheck,
       CloseIfEmptyContext
  <2> QED
    BY SMTT(30), <1>1, <2>1, <2>2, <2>3
<1>3. ASSUME NEW p \in Procs, NEW d \in Devices, NEW publish \in BOOLEAN,
             NEW m \in Ceilings, NEW a \in Aliases \cup {NoAlias},
             addRegistration(p, d, publish, m, a)
      PROVE  TodoInv'
  <2>1. /\ devices' = devices \cup {nextRegistrationToken + 1}
        /\ UNCHANGED <<pc, tok, todo, removing, removalDone>>
    BY <1>3 DEF addRegistration
  <2>2. nextRegistrationToken + 1 \notin removing
    BY SMTT(30), BusConstants DEF ListInv, Issued, TypeOK
  <2> QED
    BY <2>1, <2>2
<1>4. ASSUME NEW p \in Procs, GetBusEmptyContext(p)
                \/ \E t \in Tokens : PublishRegistration(p, t)
      PROVE  TodoInv'
  BY <1>4 DEF GetBusEmptyContext, PublishRegistration
<1>5. ASSUME NEW p \in Procs, NEW t \in Tokens, pc[p] = "idle",
             markRegistrationRemovalLocked(p, t), t \in devices \ removing,
             RemoveUnchanged
      PROVE  TodoInv'
  <2>1. /\ removing' = removing \cup {t} /\ todo' = [todo EXCEPT ![p] = {t}]
        /\ pc' = [pc EXCEPT ![p] = "finLock"]
        /\ UNCHANGED <<tok, removalDone, devices>>
    BY <1>5 DEF markRegistrationRemovalLocked, RemoveUnchanged
  <2>2. t \notin removalDone /\ todo[p] = {} /\ \A q \in Procs : t \notin todo[q]
    BY <1>5 DEF ListInv
  <2> QED
    BY <1>0, <1>5, <2>1, <2>2
<1>6. ASSUME NEW p \in Procs,
             \/ \E t \in Tokens : RemoveRegistrationIfPresent(p, t)
             \/ \E i \in DeviceIDs : RemoveDeviceByID(p, i)
             \/ \E d \in Devices : RemoveIfPresent(p, d)
      PROVE  TodoInv'
  <2>1. ASSUME NEW t \in Tokens, pc[p] = "idle", JoinRemoval(p, t),
               RemoveUnchanged
        PROVE  TodoInv'
    <3>1. \A q \in Procs \ {p} : tok'[q] = tok[q]
      BY <1>0, <2>1 DEF JoinRemoval
    <3> QED
      BY <1>1, <2>1, <3>1 DEF JoinRemoval, RemoveUnchanged
  <2>2. devices \subseteq Tokens
    BY SMTT(30) DEF TypeOK
  <2> HIDE DEF TodoInv
  <2> QED
    BY SMTT(30), <1>5, <1>6, <2>1, <2>2 DEF RemoveRegistrationIfPresent, RemoveDeviceByID,
       RemoveIfPresent, registrationActiveLocked, authenticatesRegistrationLocked
<1>7. ASSUME NEW p \in Procs, CloseAndTakeRegistrations(p)
      PROVE  TodoInv'
  <2> DEFINE marked == devices \ removing
  <2>1. /\ pc[p] = "idle" /\ removing' = removing \cup marked
        /\ todo' = [todo EXCEPT ![p] = marked]
        /\ pc' = [pc EXCEPT ![p] = IF marked # {} THEN "finLock" ELSE "closeWait"]
        /\ UNCHANGED <<tok, removalDone, devices>>
    BY <1>7 DEF CloseAndTakeRegistrations
  <2>2. /\ todo[p] = {} /\ marked \cap removalDone = {} /\ marked \subseteq devices
        /\ \A q \in Procs : marked \cap todo[q] = {}
    BY <2>1 DEF ListInv
  <2>3. CASE marked = {}
    BY <1>0, <2>1, <2>2, <2>3
  <2>4. CASE marked # {}
    BY <1>0, <2>1, <2>2, <2>4
  <2> QED
    BY <2>3, <2>4
<1>8. ASSUME NEW p \in Procs, FinishAnnounce(p)
      PROVE  TodoInv'
  <2>1. PICK t \in todo[p] : tok' = [tok EXCEPT ![p] = t]
    BY ZenonT(30), <1>8 DEF FinishAnnounce, NextMarked
  <2> QED
    BY <1>0, <1>8, <2>1 DEF FinishAnnounce
<1>9. ASSUME NEW p \in Procs, FinishRemove(p)
      PROVE  TodoInv'
  <2>1. /\ pc[p] = "finWait" /\ devices' = devices \ {tok[p]}
        /\ pc' = [pc EXCEPT ![p] = "finSignal"]
        /\ UNCHANGED <<tok, todo, removing, removalDone>>
    BY <1>9 DEF FinishRemove
  <2> QED
    BY <1>0, <2>1
<1>10. ASSUME NEW p \in Procs, FinishSignal(p)
       PROVE  TodoInv'
  <2> DEFINE rest == todo[p] \ {tok[p]}
  <2>1. /\ pc[p] = "finSignal" /\ removalDone' = removalDone \cup {tok[p]}
        /\ todo' = [todo EXCEPT ![p] = rest]
        /\ tok' = [tok EXCEPT ![p] = 0]
        /\ UNCHANGED <<removing, devices>>
    BY Zenon, <1>10 DEF FinishSignal
  <2> DEFINE label == IF rest # {} THEN "finLock"
                      ELSE IF closer = p THEN "closeWait" ELSE "idle"
  <2>2. /\ pc' = [pc EXCEPT ![p] = label] /\ label # "finSignal"
        /\ label # "finWait" /\ (rest # {} <=> label \in Finishing)
    BY <1>10 DEF FinishSignal
  <2> HIDE DEF label
  <2>3. tok[p] \in todo[p]
    BY <2>1
  <2>4. \A q \in Procs : todo'[q] = todo[q] \ {tok[p]}
    <3>1. \A q \in Procs \ {p} : tok[p] \notin todo[q]
      BY <2>3
    <3>2. \A q \in Procs \ {p} : todo'[q] = todo[q]
      BY <1>0, <2>1
    <3>3. todo'[p] = rest
      BY <1>0, <2>1
    <3> QED
      BY <3>1, <3>2, <3>3
  <2>5. /\ \A q \in Procs : todo'[q] \subseteq removing' \ removalDone'
        /\ \A q, r \in Procs : q # r => todo'[q] \cap todo'[r] = {}
        /\ \A t \in removing' \ removalDone' : \E q \in Procs : t \in todo'[q]
    BY <1>0, <2>1, <2>4
  <2>6. \A q \in Procs \ {p} : todo'[q] = todo[q] /\ pc'[q] = pc[q] /\ tok'[q] = tok[q]
    BY <1>0, <2>1, <2>2
  <2>7. pc'[p] = label /\ todo'[p] = rest
    BY <1>0, <2>1, <2>2
  <2>8. \A q \in Procs : todo'[q] # {} <=> pc'[q] \in Finishing
    BY <2>2, <2>6, <2>7
  <2>9. \A q \in Procs : pc'[q] \in {"finWait", "finSignal"} => tok'[q] \in todo'[q]
    BY <2>2, <2>6, <2>7
  <2>10. \A q \in Procs : \A t \in todo'[q] :
           t \in devices' <=> ~(pc'[q] = "finSignal" /\ t = tok'[q])
    BY SMTT(30), <2>1, <2>2, <2>6, <2>7
  <2> QED
    BY Zenon, <2>5, <2>8, <2>9, <2>10
<1>11. CASE UNCHANGED vars
  BY <1>11 DEF vars
<1> HIDE DEF TodoInv
<1> QED
  BY <1>2, <1>3, <1>4, <1>6, <1>7, <1>8, <1>9, <1>10, <1>11 DEF Next, Step, Call

-----------------------------------------------------------------------------
\* Read holders stay exactly the goroutines inside the fence.  The entry of a
\* lease holder cannot leave the list because FinishRemove needs the read side
\* of its fence to be empty.
LEMMA FenceStep ==
  TypeOK /\ ListInv /\ TodoInv /\ FenceInv /\ [Next]_vars => FenceInv'
<1> SUFFICES ASSUME TypeOK, ListInv, TodoInv, FenceInv, [Next]_vars
             PROVE  FenceInv'
  OBVIOUS
<1> USE DEF FenceInv, Goto, regVars, listVars, flagVars, fenceVars, emptyVars,
            closeVars, procVars
<1>0. /\ pc \in [Procs -> Labels] /\ tok \in [Procs -> 0..MaxToken]
      /\ readers \in [Tokens -> SUBSET Procs]
      /\ nextRegistrationToken \in 0..MaxToken /\ MaxToken \in Nat
      /\ Issued \subseteq Tokens /\ devices \subseteq Tokens
  BY BusConstants DEF TypeOK, Issued, Tokens
<1>1. ASSUME NEW p \in Procs, NEW label, pc[p] \notin {"acqRecheck", "leased"},
             label \notin {"acqRecheck", "leased"},
             pc' = [pc EXCEPT ![p] = label],
             \A q \in Procs \ {p} : tok'[q] = tok[q],
             label \in {"acqRLock", "waitDone"} => tok'[p] \in Issued,
             UNCHANGED <<readers, devices, nextRegistrationToken>>
      PROVE  FenceInv'
  <2>1. Issued' = Issued
    BY <1>1 DEF Issued
  <2> QED
    BY <1>0, <1>1, <2>1
<1>2. ASSUME NEW p \in Procs,
             AwaitRemoval(p) \/ AwaitClose(p) \/ CloseFree(p) \/ CloseSignal(p)
             \/ CloseClear(p) \/ JoinClose(p)
             \/ \E e \in EmptyCtxs : CloseIfEmptyContext(p, e)
      PROVE  FenceInv'
  <2>1. /\ pc[p] \notin {"acqRecheck", "leased"}
        /\ UNCHANGED <<readers, devices, nextRegistrationToken>>
    BY <1>2 DEF AwaitRemoval, AwaitClose, CloseFree, CloseSignal, CloseClear,
       JoinClose, CloseIfEmptyContext
  <2>2. \A q \in Procs \ {p} : tok'[q] = tok[q]
    BY <1>0, <1>2 DEF AwaitRemoval, AwaitClose, CloseFree, CloseSignal,
       CloseClear, JoinClose, CloseIfEmptyContext
  <2>3. PICK label : /\ label \in {"idle", "closeFree", "closeSignal", "waitClose"}
                     /\ pc' = [pc EXCEPT ![p] = label]
    BY ZenonT(30), <1>2 DEF AwaitRemoval, AwaitClose, CloseFree, CloseSignal, CloseClear,
       JoinClose, CloseIfEmptyContext
  <2> HIDE DEF FenceInv
  <2> QED
    BY ZenonT(30), <1>1, <2>1, <2>2, <2>3
<1>3. ASSUME NEW p \in Procs, NEW t \in Tokens, AcquireCheck(p, t)
      PROVE  FenceInv'
  <2>1. t \in Issued /\ tok'[p] = t /\ \A q \in Procs \ {p} : tok'[q] = tok[q]
    BY <1>0, <1>3 DEF AcquireCheck, authenticatesRegistrationLocked
  <2> QED
    BY ZenonT(30), <1>1, <1>3, <2>1 DEF AcquireCheck
<1>4. ASSUME NEW p \in Procs, AcquireRLock(p)
      PROVE  FenceInv'
  <2>1. /\ tok[p] \in Tokens /\ pc' = [pc EXCEPT ![p] = "acqRecheck"]
        /\ readers' = [readers EXCEPT ![tok[p]] = @ \cup {p}]
        /\ UNCHANGED <<tok, devices, nextRegistrationToken>>
        /\ pc[p] = "acqRLock"
    BY <1>0, <1>4 DEF AcquireRLock
  <2> QED
    BY <1>0, <2>1 DEF Issued
<1>5. ASSUME NEW p \in Procs, NEW t \in Tokens, tok[p] = t, p \in readers[t],
             pc' = [pc EXCEPT ![p] = "idle"],
             readers' = [readers EXCEPT ![t] = @ \ {p}],
             tok' = [tok EXCEPT ![p] = 0],
             UNCHANGED <<devices, nextRegistrationToken>>
      PROVE  FenceInv'
  BY <1>0, <1>5 DEF Issued, Tokens
<1>6. ASSUME NEW p \in Procs, Release(p)
      PROVE  FenceInv'
  <2>1. tok[p] \in Tokens /\ p \in readers[tok[p]]
    BY <1>0, <1>6 DEF Release
  <2> QED
    BY Zenon, <1>5, <1>6, <2>1 DEF Release
<1>7. ASSUME NEW p \in Procs, AcquireRecheck(p)
      PROVE  FenceInv'
  <2>1. tok[p] \in Tokens /\ p \in readers[tok[p]]
    BY <1>0, <1>7 DEF AcquireRecheck
  <2>2. CASE ~closed /\ authenticatesRegistrationLocked(tok[p])
    <3>1. /\ pc' = [pc EXCEPT ![p] = "leased"] /\ pc[p] = "acqRecheck"
          /\ UNCHANGED <<tok, readers, devices, nextRegistrationToken>>
      BY <1>7, <2>2 DEF AcquireRecheck
    <3>2. tok[p] \in devices
      BY <2>2 DEF authenticatesRegistrationLocked, registrationActiveLocked,
         ListInv
    <3> QED
      BY <1>0, <3>1, <3>2 DEF Issued
  <2>3. CASE ~(~closed /\ authenticatesRegistrationLocked(tok[p]))
    <3>1. /\ pc' = [pc EXCEPT ![p] = "idle"]
          /\ readers' = [readers EXCEPT ![tok[p]] = @ \ {p}]
          /\ tok' = [tok EXCEPT ![p] = 0]
          /\ UNCHANGED <<devices, nextRegistrationToken>>
      BY <1>7, <2>3 DEF AcquireRecheck
    <3> QED
      BY Zenon, <1>5, <2>1, <3>1
  <2> QED
    BY <2>2, <2>3
<1>8. ASSUME NEW p \in Procs, NEW d \in Devices, NEW publish \in BOOLEAN,
             NEW m \in Ceilings, NEW a \in Aliases \cup {NoAlias},
             addRegistration(p, d, publish, m, a)
      PROVE  FenceInv'
  <2>1. /\ nextRegistrationToken' = nextRegistrationToken + 1
        /\ devices \subseteq devices' /\ UNCHANGED <<pc, tok, readers>>
    BY <1>8 DEF addRegistration
  <2>2. Issued \subseteq Issued'
    BY SMTT(30), <1>0, <2>1 DEF Issued
  <2> QED
    BY <2>1, <2>2
<1>9. ASSUME NEW p \in Procs, GetBusEmptyContext(p)
                \/ \E t \in Tokens : PublishRegistration(p, t)
      PROVE  FenceInv'
  BY Zenon, <1>9 DEF GetBusEmptyContext, PublishRegistration, Issued
<1>10. ASSUME NEW p \in Procs,
              \/ \E t \in Tokens : RemoveRegistrationIfPresent(p, t)
              \/ \E i \in DeviceIDs : RemoveDeviceByID(p, i)
              \/ \E d \in Devices : RemoveIfPresent(p, d)
       PROVE  FenceInv'
  <2>1. ASSUME NEW t \in Issued, pc[p] = "idle", JoinRemoval(p, t),
               RemoveUnchanged
        PROVE  FenceInv'
    <3>1. tok'[p] = t /\ \A q \in Procs \ {p} : tok'[q] = tok[q]
      BY <1>0, <2>1 DEF JoinRemoval
    <3> QED
      BY ZenonT(30), <1>1, <2>1, <3>1 DEF JoinRemoval, RemoveUnchanged
  <2>2. ASSUME NEW t \in Tokens, pc[p] = "idle",
               markRegistrationRemovalLocked(p, t), RemoveUnchanged
        PROVE  FenceInv'
    BY ZenonT(30), <1>1, <2>2 DEF markRegistrationRemovalLocked, RemoveUnchanged
  <2>3. removing \subseteq Issued
    BY DEF ListInv
  <2> HIDE DEF FenceInv
  <2> QED
    BY SMTT(30), <1>0, <1>10, <2>1, <2>2, <2>3 DEF RemoveRegistrationIfPresent,
       RemoveDeviceByID, RemoveIfPresent
<1>11. ASSUME NEW p \in Procs, CloseAndTakeRegistrations(p)
       PROVE  FenceInv'
  <2> DEFINE label == IF devices \ removing # {} THEN "finLock" ELSE "closeWait"
  <2>1. /\ pc[p] = "idle" /\ pc' = [pc EXCEPT ![p] = label]
        /\ label \in {"finLock", "closeWait"}
        /\ UNCHANGED <<tok, readers, devices, nextRegistrationToken>>
    BY Zenon, <1>11 DEF CloseAndTakeRegistrations
  <2> HIDE DEF label
  <2> QED
    BY ZenonT(30), <1>1, <2>1
<1>12. ASSUME NEW p \in Procs, FinishAnnounce(p)
       PROVE  FenceInv'
  <2>1. \A q \in Procs \ {p} : tok'[q] = tok[q]
    BY <1>0, <1>12 DEF FinishAnnounce
  <2> QED
    BY Zenon, <1>1, <1>12, <2>1 DEF FinishAnnounce
<1>13. ASSUME NEW p \in Procs, FinishRemove(p)
       PROVE  FenceInv'
  <2>1. /\ pc[p] = "finWait" /\ devices' = devices \ {tok[p]}
        /\ readers[tok[p]] = {} /\ pc' = [pc EXCEPT ![p] = "finSignal"]
        /\ UNCHANGED <<tok, readers, nextRegistrationToken>>
    BY Zenon, <1>13 DEF FinishRemove
  <2>2. \A q \in Procs : pc[q] = "leased" => tok[q] # tok[p]
    BY SMTT(30), <1>0, <2>1
  <2> QED
    BY SMTT(30), <1>0, <2>1, <2>2 DEF Issued
<1>14. ASSUME NEW p \in Procs, FinishSignal(p)
       PROVE  FenceInv'
  <2> DEFINE label == IF todo[p] \ {tok[p]} # {} THEN "finLock"
                      ELSE IF closer = p THEN "closeWait" ELSE "idle"
  <2>1. /\ pc[p] = "finSignal" /\ pc' = [pc EXCEPT ![p] = label]
        /\ label \in {"finLock", "closeWait", "idle"}
        /\ UNCHANGED <<readers, devices, nextRegistrationToken>>
    BY <1>14 DEF FinishSignal
  <2>2. \A q \in Procs \ {p} : tok'[q] = tok[q]
    BY <1>0, <1>14 DEF FinishSignal
  <2> HIDE DEF label
  <2> QED
    BY Zenon, <1>1, <2>1, <2>2
<1>15. CASE UNCHANGED vars
  BY <1>15 DEF vars, Issued
<1> HIDE DEF FenceInv
<1> QED
  BY <1>2, <1>3, <1>4, <1>6, <1>7, <1>8, <1>9, <1>10, <1>11, <1>12, <1>13,
     <1>14, <1>15 DEF Next, Step, Call

=============================================================================
