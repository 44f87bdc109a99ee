------------------------------ MODULE UrbStream ------------------------------
(***************************************************************************)
(* One imported USB/IP connection (internal/server/usb): the command       *)
(* reader handleUrbStream, one endpointWorker goroutine per endpoint, and  *)
(* the responseWriter whose send lock serialises both onto the socket.     *)
(*                                                                         *)
(* A critical section of an endpoint worker's mutex is one step.  Service  *)
(* deadlines are abstracted: a wait may end at any moment, so every order  *)
(* the clock could produce is explored.  The presentation source (the      *)
(* device's input scheduler) and the media device appear through the       *)
(* generation and claim tokens that the connection exchanges with them.    *)
(***************************************************************************)
EXTENDS Naturals, Sequences, FiniteSets, Functions

CONSTANTS
  Workers,      \* endpoint workers of the connection
  Devices,      \* the devices one of which is imported
  Slots,        \* job slots of a worker (endpointQueueCapacity of them)
  None,         \* no slot, no worker
  Packets,      \* packets of an ISO submission
  MaxSeq,       \* bound: URBs the host submits
  MaxUnlinks,   \* bound: CMD_UNLINK commands the host sends
  MaxResets,    \* bound: lifecycle control transfers the host sends
  MaxRejects    \* bound: claims the source revokes before admission

ASSUME StreamConstants ==
  /\ None \notin Slots \cup Workers
  /\ \A d \in Devices :
       /\ d \in [kind : [Workers -> {"interrupt", "generic", "isoIn", "isoOut"}],
                 owner : Workers \cup {None}, tokens : BOOLEAN]
       /\ d.owner # None => d.kind[d.owner] = "interrupt"
  /\ Packets \in Nat \ {0} /\ MaxSeq \in Nat /\ MaxUnlinks \in Nat
  /\ MaxResets \in Nat /\ MaxRejects \in Nat

Seqs == 1..MaxSeq
Generations == 1..(MaxResets + 2)

VARIABLES
  slots, order, free,         \* endpointWorker.slots, .order, .free
  inFlight,                   \* endpointWorker.inFlight, None for -1
  generation,                 \* endpointWorker.generation
  wake,                       \* a token lies in the one-place wake channel
  pc,                         \* where the worker goroutine is
  phase,                      \* phase the worker waits for
  attempt,                    \* attempt of processInterruptIn
  claim,                      \* generation of the claim held, 0 if none
  sendLock,                   \* worker that writes under responseWriter.mu
  ctxDone, conn,              \* schedulers.ctx is cancelled; socket is open
  rpc, rseq, rtodo, rset,     \* reader: place, URB, workers to visit, reset set
  ranswer,                    \* reader: the answer it is about to write
  ownGeneration,              \* endpointSchedulers.presentationGeneration
  srcGeneration, srcClaim,    \* the source: its generation, its live claim
  device,                     \* the imported device
  mediaGeneration,            \* its media generation, per endpoint
  nextSeq, unlinks, resets, rejects,
  endpoint,                   \* history: worker that a URB was submitted to
  log                         \* history: what happened to a URB, in order

workerVars == <<slots, order, free, inFlight, generation, wake>>
localVars == <<pc, phase, attempt, claim>>
readerVars == <<rpc, rseq, rtodo, rset, ranswer, ownGeneration>>
mediaVars == <<device, mediaGeneration>>
sourceVars == <<srcGeneration, srcClaim, mediaVars>>
boundVars == <<nextSeq, unlinks, resets, rejects>>
historyVars == <<endpoint, log>>
vars == <<workerVars, localVars, sendLock, ctxDone, conn, readerVars,
          sourceVars, boundVars, historyVars>>

Kind == device.kind            \* what serves an endpoint, by its transfer type
Owner == device.owner          \* the endpoint its presentation source owns
tokenDevice == device.tokens   \* it is an isoOutGenerationDevice

NoJob == [seq |-> 0, generation |-> 0, mediaGeneration |-> 0,
          cancelled |-> FALSE, responseStarted |-> FALSE,
          sideEffectStarted |-> FALSE]

Jobs == [seq : 0..MaxSeq, generation : 0..(MaxResets + 2),
         mediaGeneration : 0..(MaxResets + 2), cancelled : BOOLEAN,
         responseStarted : BOOLEAN, sideEffectStarted : BOOLEAN]

(* What can happen to a URB: RET_SUBMIT by its worker or by the reader,    *)
(* the device consumed its media payload, RET_UNLINK with -ECONNRESET or   *)
(* with 0, a device reset and the answer to that reset's control transfer. *)
Events == {"submit", "refused", "media", "unlinked", "tooLate",
           "deviceReset", "resetAnswered"}

Happened(s, e) == \E i \in DOMAIN log[s] : log[s][i] = e
Answered(s) == \E e \in {"submit", "refused", "unlinked"} : Happened(s, e)
Before(s, d, e) ==
  \E i, j \in DOMAIN log[s] : i < j /\ log[s][i] = d /\ log[s][j] = e

Init ==
  /\ slots = [w \in Workers |-> [i \in Slots |-> NoJob]]
  /\ order = [w \in Workers |-> <<>>]
  /\ free = [w \in Workers |-> Slots]
  /\ inFlight = [w \in Workers |-> None]
  /\ generation = [w \in Workers |-> 1]
  /\ wake = [w \in Workers |-> FALSE]
  /\ pc = [w \in Workers |-> "claim"]
  /\ phase = [w \in Workers |-> 0]
  /\ attempt = [w \in Workers |-> 0]
  /\ claim = [w \in Workers |-> 0]
  /\ sendLock = None
  /\ ctxDone = FALSE /\ conn = TRUE
  /\ rpc = "read" /\ rseq = 0 /\ rtodo = {} /\ rset = {} /\ ranswer = "refused"
  /\ ownGeneration = 1 /\ srcGeneration = 1 /\ srcClaim = 0
  /\ device \in Devices
  /\ mediaGeneration = [w \in Workers |-> 1]
  /\ nextSeq = 1 /\ unlinks = 0 /\ resets = 0 /\ rejects = 0
  /\ endpoint = [s \in Seqs |-> None]
  /\ log = [s \in Seqs |-> <<>>]
-----------------------------------------------------------------------------
(* The locked parts of an endpoint worker.                                 *)

Job(w) == slots[w][inFlight[w]]

currentActive(w) ==
  /\ inFlight[w] # None
  /\ ~Job(w).cancelled
  /\ Job(w).generation = generation[w]

signal(w) == wake' = [wake EXCEPT ![w] = TRUE]

release(w, freed) ==
  /\ slots' = [slots EXCEPT ![w] =
                 [i \in Slots |-> IF i \in freed THEN NoJob ELSE @[i]]]
  /\ free' = [free EXCEPT ![w] = @ \cup freed]

(* The token enqueueIsoOutBinding captures; 0 for anything else.           *)
IsoOutGeneration(w) ==
  IF tokenDevice /\ Kind[w] = "isoOut" THEN mediaGeneration[w] ELSE 0

(* Free slots differ in nothing but their index: one of them is taken.     *)
freeSlot(w) == CHOOSE i \in free[w] : TRUE

(* Mutant: enqueue forgets to signal the worker. *)
EnqueueSilently(w, s) ==
  LET i == freeSlot(w) IN
    /\ free[w] # {}
    /\ free' = [free EXCEPT ![w] = @ \ {i}]
    /\ slots' = [slots EXCEPT ![w][i] =
                   [NoJob EXCEPT !.seq = s, !.generation = generation[w],
                                 !.mediaGeneration = IsoOutGeneration(w)]]
    /\ order' = [order EXCEPT ![w] = Append(@, i)]
    /\ UNCHANGED <<inFlight, generation, wake>>

enqueueWithGeneration(w, s) ==
  LET i == freeSlot(w) IN
    /\ free[w] # {}
    /\ free' = [free EXCEPT ![w] = @ \ {i}]
    /\ slots' = [slots EXCEPT ![w][i] =
                   [NoJob EXCEPT !.seq = s, !.generation = generation[w],
                                 !.mediaGeneration = IsoOutGeneration(w)]]
    /\ order' = [order EXCEPT ![w] = Append(@, i)]
    /\ signal(w)
    /\ UNCHANGED <<inFlight, generation>>

(* Mutant: unlink cancels a job although its side effect has begun. *)
UnlinkDespiteEffect(w, s) ==
  /\ inFlight[w] # None
  /\ Job(w).seq = s
  /\ ~Job(w).responseStarted /\ ~Job(w).cancelled

unlinkFlying(w, s) ==
  /\ inFlight[w] # None
  /\ Job(w).seq = s
  /\ ~Job(w).responseStarted /\ ~Job(w).sideEffectStarted /\ ~Job(w).cancelled

queuedWith(w, s) == {i \in Range(order[w]) : slots[w][i].seq = s}

unlinkAt(w, s) ==
  IF unlinkFlying(w, s)
  THEN /\ slots' = [slots EXCEPT ![w][inFlight[w]].cancelled = TRUE]
       /\ signal(w)
       /\ UNCHANGED <<order, free, inFlight, generation>>
  ELSE IF queuedWith(w, s) # {}
  THEN /\ order' = [order EXCEPT ![w] =
                      SelectSeq(@, LAMBDA i : i \notin queuedWith(w, s))]
       /\ release(w, queuedWith(w, s))
       /\ signal(w)
       /\ UNCHANGED <<inFlight, generation>>
  ELSE UNCHANGED workerVars

cancelInFlight(w, jobs) ==
  IF inFlight[w] = None THEN jobs
  ELSE [jobs EXCEPT ![inFlight[w]].cancelled = TRUE]

(* Mutant: reset also frees the slot that is in flight. *)
ResetFreesInFlight(w) ==
  LET drained == Range(order[w]) \cup ({inFlight[w]} \ {None}) IN
  /\ generation' = [generation EXCEPT ![w] = @ + 1]
  /\ slots' = [slots EXCEPT ![w] =
                 [i \in Slots |-> IF i \in drained THEN NoJob ELSE @[i]]]
  /\ order' = [order EXCEPT ![w] = <<>>]
  /\ free' = [free EXCEPT ![w] = @ \cup drained]
  /\ signal(w)
  /\ UNCHANGED inFlight

(* Mutant: reset drains the queue and forgets the job in flight. *)
ResetForgetsInFlight(w) ==
  LET drained == Range(order[w]) IN
  /\ order' = [order EXCEPT ![w] = <<>>]
  /\ release(w, drained)
  /\ signal(w)
  /\ UNCHANGED <<inFlight, generation>>

reset(w) ==
  LET drained == Range(order[w]) IN
  /\ generation' = [generation EXCEPT ![w] = @ + 1]
  /\ slots' = [slots EXCEPT ![w] = cancelInFlight(w,
                 [i \in Slots |-> IF i \in drained THEN NoJob ELSE @[i]])]
  /\ order' = [order EXCEPT ![w] = <<>>]
  /\ free' = [free EXCEPT ![w] = @ \cup drained]
  /\ signal(w)
  /\ UNCHANGED inFlight
-----------------------------------------------------------------------------
(* The worker goroutine: run and the four process functions.               *)

WorkerExits(w) ==
  /\ pc[w] \in {"claim", "sleep"}
  /\ ctxDone
  /\ pc' = [pc EXCEPT ![w] = "done"]
  /\ UNCHANGED <<workerVars, phase, attempt, claim, sendLock, ctxDone, conn,
                 readerVars, sourceVars, boundVars, historyVars>>

claimNext(w) ==
  /\ pc[w] = "claim"
  /\ ~ctxDone
  /\ IF inFlight[w] = None /\ order[w] = <<>>
     THEN /\ pc' = [pc EXCEPT ![w] = "sleep"]
          /\ UNCHANGED <<inFlight, order>>
     ELSE /\ pc' = [pc EXCEPT ![w] =
                      IF Kind[w] = "generic" THEN "take" ELSE "wait"]
          /\ IF inFlight[w] # None
             THEN UNCHANGED <<inFlight, order>>
             ELSE /\ inFlight' = [inFlight EXCEPT ![w] = Head(order[w])]
                  /\ order' = [order EXCEPT ![w] = Tail(@)]
  /\ UNCHANGED <<slots, free, generation, wake, phase, attempt, claim, sendLock,
                 ctxDone, conn, readerVars, sourceVars, boundVars, historyVars>>

(* A receive from the wake channel, asleep or during waitForPhase.         *)
WakeUp(w) ==
  /\ pc[w] \in {"sleep", "wait"}
  /\ wake[w]
  /\ wake' = [wake EXCEPT ![w] = FALSE]
  /\ pc' = [pc EXCEPT ![w] = IF @ = "sleep" THEN "claim" ELSE @]
  /\ UNCHANGED <<slots, order, free, inFlight, generation, phase, attempt,
                 claim, sendLock, ctxDone, conn, readerVars, sourceVars,
                 boundVars, historyVars>>

waitForPhase(w) ==
  /\ pc[w] = "wait"
  /\ \/ /\ ~currentActive(w) \/ ctxDone
        /\ pc' = [pc EXCEPT ![w] = "drop"]
        /\ UNCHANGED phase
     \/ /\ currentActive(w)
        /\ pc' = [pc EXCEPT ![w] =
                    IF Kind[w] = "interrupt" THEN "take"
                    ELSE IF phase[w] = Packets THEN "admit"
                    ELSE IF Kind[w] = "isoIn" THEN "wait" ELSE "effect"]
        /\ phase' = [phase EXCEPT ![w] =
                       IF Kind[w] = "isoIn" /\ @ < Packets THEN @ + 1 ELSE @]
  /\ UNCHANGED <<workerVars, attempt, claim, sendLock, ctxDone, conn,
                 readerVars, sourceVars, boundVars, historyVars>>

beginSideEffect(w) ==
  /\ pc[w] = "effect"
  /\ IF currentActive(w)
     THEN /\ slots' = [slots EXCEPT ![w][inFlight[w]].sideEffectStarted = TRUE]
          /\ pc' = [pc EXCEPT ![w] = "media"]
     ELSE pc' = [pc EXCEPT ![w] = "drop"] /\ UNCHANGED slots
  /\ UNCHANGED <<order, free, inFlight, generation, wake, phase, attempt,
                 claim, sendLock, ctxDone, conn, readerVars, sourceVars,
                 boundVars, historyVars>>

happens(s, e) == log' = [log EXCEPT ![s] = Append(@, e)]

(* The payload is handed to the device; the worker then waits for the end  *)
(* of the packet window.                                                   *)
mediaHandedOver(w) ==
  /\ happens(Job(w).seq, "media")
  /\ phase' = [phase EXCEPT ![w] = Packets]
  /\ pc' = [pc EXCEPT ![w] = "wait"]

(* Mutant: the device takes media of any generation. *)
MediaOfAnyGeneration(w) == mediaHandedOver(w)

(* An isoOutGenerationDevice compares the token under its own lock.        *)
HandleIsoOutTransfer(w) ==
  \/ /\ Job(w).mediaGeneration = mediaGeneration[w]
     /\ mediaHandedOver(w)
  \/ /\ Job(w).mediaGeneration # mediaGeneration[w]
     /\ pc' = [pc EXCEPT ![w] = "drop"] /\ UNCHANGED <<log, phase>>

(* The callback of processIsoOut.  Any other device (DualShock 4) gets the *)
(* payload through HandleTransfer, whatever happened since                 *)
(* beginSideEffect.                                                        *)
processIsoOut(w) ==
  /\ pc[w] = "media"
  /\ \/ tokenDevice /\ HandleIsoOutTransfer(w)
     \/ ~tokenDevice /\ mediaHandedOver(w)
  /\ UNCHANGED <<workerVars, attempt, claim, sendLock, ctxDone, conn,
                 readerVars, sourceVars, boundVars, endpoint>>

(* The source gives out one claim at a time; its token is a generation.    *)
ClaimInputPresentation(w) ==
  IF srcClaim = 0
  THEN /\ claim' = [claim EXCEPT ![w] = srcGeneration]
       /\ srcClaim' = srcGeneration
  ELSE claim' = [claim EXCEPT ![w] = 0] /\ UNCHANGED srcClaim

ResolveInputPresentation(w) ==
  /\ srcClaim' = IF claim[w] # 0 /\ srcClaim = claim[w] THEN 0 ELSE srcClaim
  /\ claim' = [claim EXCEPT ![w] = 0]

(* The device produces the bytes of a response (Claim or HandleTransfer).  *)
TakeReport(w) ==
  /\ pc[w] = "take"
  /\ IF w = Owner
     THEN /\ ClaimInputPresentation(w)
          /\ pc' = [pc EXCEPT ![w] = "admit"]
     ELSE /\ pc' = [pc EXCEPT ![w] = IF ctxDone THEN "drop" ELSE "admit"]
          /\ UNCHANGED <<claim, srcClaim>>
  /\ UNCHANGED <<workerVars, phase, attempt, sendLock, ctxDone, conn,
                 readerVars, srcGeneration, mediaVars, boundVars,
                 historyVars>>

CanAdmitInputPresentation(w) == claim[w] = 0 \/ srcClaim = claim[w]

(* writeIfThen obtained the send lock and its claim callback said yes: the *)
(* response owns the stream from here on.                                  *)
markResponseStarted(w) ==
  /\ pc[w] = "admit" /\ sendLock = None
  /\ currentActive(w) /\ CanAdmitInputPresentation(w)
  /\ slots' = [slots EXCEPT ![w][inFlight[w]].responseStarted = TRUE]
  /\ sendLock' = w
  /\ pc' = [pc EXCEPT ![w] = "send"]
  /\ UNCHANGED <<order, free, inFlight, generation, wake, phase, attempt,
                 claim, ctxDone, conn, readerVars, sourceVars, boundVars,
                 historyVars>>

(* Mutant: a refused response does not give its claim back. *)
RefusedKeepsClaim(w) ==
  /\ pc[w] = "admit" /\ sendLock = None
  /\ \/ /\ ~currentActive(w) \/ ~CanAdmitInputPresentation(w)
        /\ UNCHANGED rejects
     \/ /\ claim[w] # 0 /\ rejects < MaxRejects
        /\ rejects' = rejects + 1
  /\ pc' = [pc EXCEPT ![w] = IF Kind[w] = "interrupt" THEN "check" ELSE "drop"]
  /\ UNCHANGED <<workerVars, phase, attempt, claim, sendLock, ctxDone, conn,
                 readerVars, sourceVars, nextSeq, unlinks, resets,
                 historyVars>>

(* The callback said no: the job is no longer active, or the source does   *)
(* not admit its claim any more (it may revoke one at any time).           *)
ResponseRefused(w) ==
  /\ pc[w] = "admit" /\ sendLock = None
  /\ \/ /\ ~currentActive(w) \/ ~CanAdmitInputPresentation(w)
        /\ UNCHANGED rejects
     \/ /\ claim[w] # 0 /\ rejects < MaxRejects
        /\ rejects' = rejects + 1
  /\ ResolveInputPresentation(w)
  /\ pc' = [pc EXCEPT ![w] = IF Kind[w] = "interrupt" THEN "check" ELSE "drop"]
  /\ UNCHANGED <<workerVars, phase, attempt, sendLock, ctxDone, conn,
                 readerVars, srcGeneration, mediaVars, nextSeq, unlinks,
                 resets, historyVars>>

(* Mutant: off by one in the loop over attempts. *)
RetryOnceMore(w) ==
  /\ pc[w] = "check"
  /\ pc' = [pc EXCEPT ![w] = IF ~currentActive(w) THEN "drop"
                             ELSE IF attempt[w] <= 1 THEN "take" ELSE "retain"]
  /\ attempt' = [attempt EXCEPT ![w] = @ + 1]
  /\ UNCHANGED <<workerVars, phase, claim, sendLock, ctxDone, conn, readerVars,
                 sourceVars, boundVars, historyVars>>

(* Mutant: a request refused twice is dropped instead of retained. *)
RetryThenDrop(w) ==
  /\ pc[w] = "check"
  /\ pc' = [pc EXCEPT ![w] = IF ~currentActive(w) \/ attempt[w] = 1 THEN "drop"
                             ELSE "take"]
  /\ attempt' = [attempt EXCEPT ![w] = 1]
  /\ UNCHANGED <<workerVars, phase, claim, sendLock, ctxDone, conn, readerVars,
                 sourceVars, boundVars, historyVars>>

RetryInterruptIn(w) ==
  /\ pc[w] = "check"
  /\ pc' = [pc EXCEPT ![w] = IF ~currentActive(w) THEN "drop"
                             ELSE IF attempt[w] = 0 THEN "take" ELSE "retain"]
  /\ attempt' = [attempt EXCEPT ![w] = 1]
  /\ UNCHANGED <<workerVars, phase, claim, sendLock, ctxDone, conn, readerVars,
                 sourceVars, boundVars, historyVars>>

(* The rest of writeIfThen: write, afterWrite, unlock; fail on an error.   *)
SendResponse(w) ==
  /\ pc[w] = "send"
  /\ ResolveInputPresentation(w)
  /\ sendLock' = None
  /\ IF conn
     THEN happens(Job(w).seq, "submit") /\ UNCHANGED <<ctxDone, conn>>
     ELSE ctxDone' = TRUE /\ UNCHANGED <<log, conn>>
  /\ pc' = [pc EXCEPT ![w] = "drop"]
  /\ UNCHANGED <<workerVars, phase, attempt, readerVars, srcGeneration,
                 mediaVars, boundVars, endpoint>>

(* process returns to run; its locals are gone.                            *)
serviceDone(w) ==
  /\ pc' = [pc EXCEPT ![w] = "claim"]
  /\ phase' = [phase EXCEPT ![w] = 0] /\ attempt' = [attempt EXCEPT ![w] = 0]

(* Mutant: a retained job goes to the back of the queue. *)
FinishRequeues(w) ==
  /\ pc[w] \in {"drop", "retain"}
  /\ IF pc[w] = "retain" /\ currentActive(w)
     THEN order' = [order EXCEPT ![w] = Append(@, inFlight[w])]
          /\ UNCHANGED <<slots, free>>
     ELSE release(w, {inFlight[w]}) /\ UNCHANGED order
  /\ inFlight' = [inFlight EXCEPT ![w] = None]
  /\ signal(w) /\ serviceDone(w)
  /\ UNCHANGED <<generation, claim, sendLock, ctxDone, conn, readerVars,
                 sourceVars, boundVars, historyVars>>

finishCurrentWithRetention(w) ==
  /\ pc[w] \in {"drop", "retain"}
  /\ IF pc[w] = "retain" /\ currentActive(w)
     THEN UNCHANGED <<slots, free, inFlight>>
     ELSE /\ release(w, {inFlight[w]})
          /\ inFlight' = [inFlight EXCEPT ![w] = None]
  /\ signal(w) /\ serviceDone(w)
  /\ UNCHANGED <<order, generation, claim, sendLock, ctxDone, conn, readerVars,
                 sourceVars, boundVars, historyVars>>
-----------------------------------------------------------------------------
(* The command reader.                                                     *)

readerOnly == <<localVars, sendLock, ctxDone, conn>>

ReadSubmit(w) ==
  /\ rpc = "read" /\ conn /\ nextSeq <= MaxSeq
  /\ nextSeq' = nextSeq + 1
  /\ endpoint' = [endpoint EXCEPT ![nextSeq] = w]
  /\ \/ /\ enqueueWithGeneration(w, nextSeq)
        /\ UNCHANGED <<rpc, rseq, ranswer>>
     \/ /\ free[w] = {} \/ resets > 0   \* -ENOSPC; -EPIPE after a new setting
        /\ rseq' = nextSeq /\ ranswer' = "refused" /\ rpc' = "answer"
        /\ UNCHANGED workerVars
  /\ UNCHANGED <<readerOnly, rtodo, rset, ownGeneration, sourceVars, unlinks,
                 resets, rejects, log>>

ReadUnlink(s) ==
  /\ rpc = "read" /\ conn /\ s < nextSeq /\ unlinks < MaxUnlinks
  /\ unlinks' = unlinks + 1
  /\ rseq' = s /\ rtodo' = Workers /\ ranswer' = "tooLate" /\ rpc' = "unlink"
  /\ UNCHANGED <<readerOnly, workerVars, rset, ownGeneration, sourceVars,
                 nextSeq, resets, rejects, historyVars>>

(* endpointSchedulers.unlink tries the workers until one has the URB.      *)
UnlinkNext(w) ==
  /\ rpc = "unlink" /\ w \in rtodo
  /\ unlinkAt(w, rseq)
  /\ LET removed == unlinkFlying(w, rseq) \/ queuedWith(w, rseq) # {} IN
     /\ ranswer' = IF removed THEN "unlinked" ELSE ranswer
     /\ rtodo' = IF removed THEN {} ELSE rtodo \ {w}
  /\ rpc' = IF rtodo' = {} THEN "answer" ELSE "unlink"
  /\ UNCHANGED <<readerOnly, rseq, rset, ownGeneration, sourceVars, boundVars,
                 historyVars>>

(* CLEAR_FEATURE(halt) or SET_INTERFACE resets some of the endpoints,      *)
(* SET_CONFIGURATION all of them.                                          *)
ReadLifecycle(ws) ==
  /\ rpc = "read" /\ conn /\ resets < MaxResets
  /\ resets' = resets + 1
  /\ rset' = ws /\ rtodo' = ws /\ rpc' = "reset"
  /\ UNCHANGED <<readerOnly, workerVars, rseq, ranswer, ownGeneration,
                 sourceVars, nextSeq, unlinks, rejects, historyVars>>

ResetNext(w) ==
  /\ rpc = "reset" /\ w \in rtodo
  /\ reset(w)
  /\ rtodo' = rtodo \ {w}
  /\ rpc' = IF rtodo' = {} THEN "rotate" ELSE "reset"
  /\ UNCHANGED <<readerOnly, rseq, rset, ranswer, ownGeneration, sourceVars,
                 boundVars, historyVars>>

(* RetireInputPresentationGeneration succeeds for the current generation;  *)
(* a device without a presentation source has nothing to retire.           *)
retirePresentationGeneration(adoptSuccessor) ==
  IF Owner # None /\ ownGeneration = srcGeneration
  THEN /\ srcGeneration' = srcGeneration + 1
       /\ srcClaim' = 0
       /\ ownGeneration' = IF adoptSuccessor THEN srcGeneration + 1
                           ELSE ownGeneration
  ELSE UNCHANGED <<srcGeneration, srcClaim, ownGeneration>>

RotateGeneration ==
  /\ rpc = "rotate"
  /\ IF Owner \in rset
     THEN retirePresentationGeneration(TRUE)
     ELSE UNCHANGED <<srcGeneration, srcClaim, ownGeneration>>
  /\ rpc' = "device"
  /\ UNCHANGED <<readerOnly, workerVars, rseq, rtodo, rset, ranswer,
                 mediaVars, boundVars, historyVars>>

(* Every URB submitted so far to one of the endpoints being reset, and not *)
(* answered yet.                                                           *)
happensToAll(ws, e) ==
  log' = [s \in Seqs |-> IF endpoint[s] \in ws /\ ~Answered(s)
                         THEN Append(log[s], e) ELSE log[s]]

ResetDevice ==
  /\ rpc = "device"
  /\ mediaGeneration' = [w \in Workers |->
       IF tokenDevice /\ w \in rset THEN mediaGeneration[w] + 1
       ELSE mediaGeneration[w]]
  /\ happensToAll(rset, "deviceReset")
  /\ ranswer' = "resetAnswered" /\ rpc' = "answer"
  /\ UNCHANGED <<readerOnly, workerVars, rseq, rtodo, rset, ownGeneration,
                 srcGeneration, srcClaim, device, boundVars, endpoint>>

(* The reader's variables live for one command.                            *)
commandDone == rseq' = 0 /\ rset' = {} /\ ranswer' = "refused"

(* Mutant: the reader writes without the send lock. *)
AnswerUnlocked ==
  /\ rpc = "answer"
  /\ IF conn
     THEN /\ rpc' = "read"
          /\ IF ranswer = "resetAnswered" THEN happensToAll(rset, ranswer)
             ELSE happens(rseq, ranswer)
     ELSE rpc' = "close" /\ UNCHANGED log
  /\ commandDone
  /\ UNCHANGED <<readerOnly, workerVars, rtodo, ownGeneration, sourceVars,
                 boundVars, endpoint>>

(* responses.write: the reader waits for the send lock like the workers.   *)
Answer ==
  /\ rpc = "answer" /\ sendLock = None
  /\ IF conn
     THEN /\ rpc' = "read"
          /\ IF ranswer = "resetAnswered" THEN happensToAll(rset, ranswer)
             ELSE happens(rseq, ranswer)
     ELSE rpc' = "close" /\ UNCHANGED log
  /\ commandDone
  /\ UNCHANGED <<readerOnly, workerVars, rtodo, ownGeneration, sourceVars,
                 boundVars, endpoint>>

(* The read fails, or the command is one the reader gives up on.           *)
ReadEnds ==
  /\ rpc = "read"
  /\ rpc' = "close"
  /\ UNCHANGED <<readerOnly, workerVars, rseq, rtodo, rset, ranswer,
                 ownGeneration, sourceVars, boundVars, historyVars>>

(* Mutant: close joins the workers without cancelling them. *)
CloseWithoutCancel ==
  /\ rpc = "close"
  /\ wake' = [w \in Workers |-> TRUE]
  /\ rpc' = "join"
  /\ UNCHANGED <<localVars, sendLock, ctxDone, conn, slots, order, free,
                 inFlight, generation, rseq, rtodo, rset, ranswer,
                 ownGeneration, sourceVars, boundVars, historyVars>>

CloseSchedulers ==
  /\ rpc = "close"
  /\ ctxDone' = TRUE
  /\ wake' = [w \in Workers |-> TRUE]
  /\ rpc' = "join"
  /\ UNCHANGED <<localVars, sendLock, conn, slots, order, free, inFlight,
                 generation, rseq, rtodo, rset, ranswer, ownGeneration,
                 sourceVars, boundVars, historyVars>>

JoinWorkers ==
  /\ rpc = "join"
  /\ \A w \in Workers : pc[w] = "done"
  /\ retirePresentationGeneration(FALSE)
  /\ rpc' = "done"
  /\ UNCHANGED <<readerOnly, workerVars, rseq, rtodo, rset, ranswer,
                 mediaVars, boundVars, historyVars>>

(* The bus cancels the device's context; the watcher closes the socket;    *)
(* the host goes away.                                                     *)
DeviceRemoved ==
  /\ ~ctxDone /\ rpc # "done"
  /\ ctxDone' = TRUE
  /\ UNCHANGED <<workerVars, localVars, sendLock, conn, readerVars,
                 sourceVars, boundVars, historyVars>>

CloseConn ==
  /\ conn /\ ctxDone
  /\ conn' = FALSE
  /\ UNCHANGED <<workerVars, localVars, sendLock, ctxDone, readerVars,
                 sourceVars, boundVars, historyVars>>

HostGone ==
  /\ conn /\ ~ctxDone
  /\ conn' = FALSE
  /\ UNCHANGED <<workerVars, localVars, sendLock, ctxDone, readerVars,
                 sourceVars, boundVars, historyVars>>

Worker(w) ==
  \/ WorkerExits(w) \/ claimNext(w) \/ WakeUp(w) \/ waitForPhase(w)
  \/ beginSideEffect(w) \/ processIsoOut(w) \/ TakeReport(w)
  \/ markResponseStarted(w) \/ ResponseRefused(w) \/ RetryInterruptIn(w)
  \/ SendResponse(w) \/ finishCurrentWithRetention(w)

ReadNext ==
  \/ \E w \in Workers : ReadSubmit(w)
  \/ \E s \in Seqs : ReadUnlink(s)
  \/ \E ws \in {{w} : w \in Workers} \cup {Workers} : ReadLifecycle(ws)
  \/ ReadEnds

ReaderWorks ==
  \/ \E w \in Workers : UnlinkNext(w) \/ ResetNext(w)
  \/ RotateGeneration \/ ResetDevice \/ Answer
  \/ CloseSchedulers \/ JoinWorkers

Next ==
  \/ \E w \in Workers : Worker(w)
  \/ ReadNext \/ ReaderWorks
  \/ DeviceRemoved \/ CloseConn \/ HostGone

Spec == Init /\ [][Next]_vars

(* Goroutines are scheduled, deadlines pass, the socket accepts writes or  *)
(* fails.  A generic device may leave a transfer unanswered for as long as *)
(* its context lives, and nobody owes the reader another command.          *)
Fairness ==
  /\ \A w \in Workers :
       WF_vars(Worker(w) /\ ~(Kind[w] = "generic" /\ pc[w] = "take" /\ ~ctxDone))
  /\ WF_vars(ReaderWorks \/ (ReadEnds /\ ~conn))
  /\ WF_vars(CloseConn)

FairSpec == Spec /\ Fairness
-----------------------------------------------------------------------------
(* The variables keep to their types.                                      *)
TypeOK ==
  /\ slots \in [Workers -> [Slots -> Jobs]]
  /\ \A w \in Workers : order[w] \in Seq(Slots)
  /\ free \in [Workers -> SUBSET Slots]
  /\ inFlight \in [Workers -> Slots \cup {None}]
  /\ generation \in [Workers -> Generations]
  /\ wake \in [Workers -> BOOLEAN]
  /\ pc \in [Workers -> {"claim", "sleep", "wait", "effect", "media", "take",
                         "admit", "send", "check", "drop", "retain", "done"}]
  /\ phase \in [Workers -> 0..Packets] /\ attempt \in [Workers -> 0..1]
  /\ claim \in [Workers -> 0..(MaxResets + 2)]
  /\ sendLock \in Workers \cup {None}
  /\ ctxDone \in BOOLEAN /\ conn \in BOOLEAN
  /\ rpc \in {"read", "unlink", "reset", "rotate", "device", "answer",
              "close", "join", "done"}
  /\ rseq \in 0..MaxSeq /\ rtodo \subseteq Workers /\ rset \subseteq Workers
  /\ ranswer \in Events
  /\ ownGeneration \in Generations /\ srcGeneration \in Generations
  /\ srcClaim \in 0..(MaxResets + 2)
  /\ device \in Devices /\ mediaGeneration \in [Workers -> Generations]
  /\ nextSeq \in 1..(MaxSeq + 1) /\ unlinks \in 0..MaxUnlinks
  /\ resets \in 0..MaxResets /\ rejects \in 0..MaxRejects
  /\ endpoint \in [Seqs -> Workers \cup {None}]
  /\ \A s \in Seqs : log[s] \in Seq(Events)

(* No job slot of an endpoint is lost or handed out twice: every slot is   *)
(* free, queued once, or in flight (enqueue, unlink, reset, claimNext and  *)
(* finishCurrentWithRetention move it).                                    *)
SlotsConserved ==
  \A w \in Workers :
    LET queued == Range(order[w])
        flying == {inFlight[w]} \ {None}
    IN  /\ Cardinality(queued) = Len(order[w])
        /\ free[w] \cup queued \cup flying = Slots
        /\ free[w] \cap queued = {} /\ free[w] \cap flying = {}
        /\ queued \cap flying = {}
        /\ \A i \in free[w] : slots[w][i] = NoJob

(* A URB gets at most one RET_SUBMIT, and once RET_UNLINK reported it as   *)
(* cancelled there was and will be neither a RET_SUBMIT nor a media        *)
(* callback for it (unlinkAt against markResponseStarted, beginSideEffect).*)
UnlinkIsExact ==
  \A s \in Seqs :
    /\ ~Before(s, "submit", "submit") /\ ~Before(s, "refused", "submit")
    /\ Happened(s, "unlinked") =>
         /\ ~Happened(s, "submit") /\ ~Happened(s, "media")
         /\ ~Happened(s, "refused")

(* Except for an ISO-OUT URB whose media callback has begun, RET_UNLINK    *)
(* with status 0 is never followed by the URB's RET_SUBMIT (writeIf's      *)
(* ownership of the stream before the answer to CMD_UNLINK).               *)
UnlinkFollowsResponse ==
  \A s \in Seqs :
    Before(s, "tooLate", "submit") => Before(s, "media", "submit")

(* After the control transfer that resets an endpoint is answered, no URB  *)
(* submitted before it is answered (reset's generation, the send lock).    *)
(* Once the device was reset, an isoOutGenerationDevice gets no media from *)
(* before the reset; another device gets at most that of the one URB whose *)
(* side effect had begun, per reset of the endpoint.                       *)
ResetIsABarrier ==
  /\ \A s \in Seqs : ~Before(s, "resetAnswered", "submit")
  /\ \A w \in Workers :
       Cardinality({s \in Seqs : /\ endpoint[s] = w
                                 /\ Before(s, "deviceReset", "media")})
         <= IF tokenDevice THEN 0 ELSE resets

(* What the reader's comment before applyControlLifecycleToSchedulers says *)
(* of every device: a due media callback "can then either finish before    *)
(* the device reset (and be drained by it) or observe the new device       *)
(* token; it cannot be admitted after the reset".                          *)
NoMediaAfterReset == \A s \in Seqs : ~Before(s, "deviceReset", "media")

(* The presentation source has a claim outstanding only while the worker   *)
(* of its endpoint is between claim and write: none leaks past a refused   *)
(* or failed response, a reset or the end of the connection.               *)
ClaimsSettled ==
  /\ srcClaim # 0 => /\ srcClaim = srcGeneration
                     /\ \E w \in Workers : /\ claim[w] = srcClaim
                                           /\ pc[w] \in {"admit", "send"}
  /\ rpc = "done" /\ Owner # None => srcClaim = 0 /\ ownGeneration < srcGeneration

(* The RET_SUBMITs of an endpoint leave in the order of its CMD_SUBMITs,   *)
(* also when a refused response retains its job for a later service point. *)
ResponsesInOrder ==
  [][\A s, t \in Seqs :
       (/\ endpoint[s] = endpoint[t] /\ Happened(s, "submit")
        /\ ~Happened(t, "submit") /\ Happened(t, "submit")') => s < t]_vars

(* What the comment of writeIf says of unlink ordering, for every URB:     *)
(* "either unlink cancels the logical response first, or the response owns *)
(* the stream first and RET_UNLINK necessarily follows it".                *)
RetUnlinkFollowsRetSubmit == \A s \in Seqs : ~Before(s, "tooLate", "submit")

(* While the connection lives, a URB on an endpoint that serves by time is *)
(* answered, unless it is unlinked or its endpoint reset: no wake-up of    *)
(* the one-place channel is lost and no retained job is forgotten.         *)
UrbsAnswered ==
  \A s \in Seqs :
    (endpoint[s] # None /\ Kind[endpoint[s]] # "generic") ~>
      (Answered(s) \/ Happened(s, "deviceReset") \/ ~conn)

(* Once the device is removed, the socket fails or a write fails, every    *)
(* worker exits and handleUrbStream returns (close joins the workers).     *)
StreamEnds == (ctxDone \/ ~conn) ~> (rpc = "done")
=============================================================================
