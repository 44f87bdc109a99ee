------------------------- MODULE FixedReportScheduler -------------------------
(***************************************************************************)
(* The controller input scheduler (internal/inputpresentation): a bounded  *)
(* journal of ordered transitions, one replaceable continuous state, one   *)
(* retry, one claim at a time, and the fail-closed history fault with its  *)
(* mandatory neutral report and resynchronisation.                         *)
(*                                                                         *)
(* Every method holds s.mu throughout, so a method is one step.  Clock     *)
(* readings are abstracted: under an age limit (Strict) any ordered work   *)
(* may be found too old, and a publication whose timestamp is refused      *)
(* changes nothing.  A report's bytes are named by the ordinal of the      *)
(* entry they encode, 0 after clear(); encoders keep to the report size    *)
(* that newFixedReportScheduler verified.                                  *)
(***************************************************************************)
EXTENDS Naturals, Sequences, FiniteSets

CONSTANTS
  States,           \* complete controller states
  Neutral,
  Transitions,      \* pairs the device's TransitionClassifier calls ordered
  Capacity,         \* FixedReportTransitionCapacity
  Strict,           \* maximumOrderedAge > 0
  FaultOnOverflow,  \* faultOnOverflow
  MaxOrdinal,       \* bound: entries made
  MaxToken,         \* bound: claims given out
  MaxGeneration     \* bound: presentation generations

ASSUME SchedulerConstants ==
  /\ Neutral \in States
  /\ Transitions \subseteq States \X States
  /\ Capacity \in Nat \ {0}
  /\ Strict \in BOOLEAN /\ FaultOnOverflow \in BOOLEAN
  /\ Strict => FaultOnOverflow
  /\ MaxOrdinal \in Nat /\ MaxToken \in Nat /\ MaxGeneration \in Nat

VARIABLES
  journal,                  \* s.journal from head on, a sequence of entries
  latest, hasLatest,
  retry, hasRetry, retryData,
  claimed, claimedData, claimToken, claimSource, claimGeneration,
  claimRequiresOrderedRecovery, claimAdmissionValidated, hasClaim,
  mandatoryNeutral, mandatoryNeutralEncoded, mandatoryNeutralPending,
  resynchronizationNeeded,
  previous, hasPrevious,
  last, lastData,
  nextOrdinal, nextToken, generation, producer,
  issued,                   \* history: generation of each claim given out
  encodes,                  \* history: how often each entry was encoded
  previousOrdinal,          \* history: ordinal of the state in previous
  floor                     \* history: ordinal of the last ordered entry

queueVars == <<journal, latest, hasLatest, retry, hasRetry, retryData>>
claimVars == <<claimed, claimedData, claimToken, claimSource, claimGeneration,
               claimRequiresOrderedRecovery, claimAdmissionValidated, hasClaim>>
faultVars == <<mandatoryNeutral, mandatoryNeutralEncoded,
               mandatoryNeutralPending, resynchronizationNeeded>>
baseVars == <<previous, hasPrevious, previousOrdinal, floor>>
lastVars == <<last, lastData>>
counterVars == <<nextOrdinal, nextToken, generation, producer>>
vars == <<queueVars, claimVars, faultVars, baseVars, lastVars, counterVars,
          issued, encodes>>

(* An entry also remembers, as history, the ordinal of the state it is a   *)
(* transition from (base, 0 for a continuous state) and the last ordered   *)
(* entry accepted before it (floor).                                       *)
NoEntry == [state |-> Neutral, ordinal |-> 0, producer |-> 0,
            ordered |-> FALSE, base |-> 0, floor |-> 0]

Entries == [state : States, ordinal : Nat, producer : Nat,
            ordered : BOOLEAN, base : Nat, floor : Nat]

Init ==
  /\ journal = <<>>
  /\ latest = NoEntry /\ hasLatest = FALSE
  /\ retry = NoEntry /\ hasRetry = FALSE /\ retryData = 0
  /\ claimed = NoEntry /\ claimedData = 0 /\ claimToken = 0
  /\ claimSource = "none" /\ claimGeneration = 0
  /\ claimRequiresOrderedRecovery = FALSE
  /\ claimAdmissionValidated = FALSE /\ hasClaim = FALSE
  /\ mandatoryNeutral = NoEntry /\ mandatoryNeutralEncoded = FALSE
  /\ mandatoryNeutralPending = FALSE /\ resynchronizationNeeded = FALSE
  /\ previous = Neutral /\ hasPrevious = TRUE
  /\ last = [NoEntry EXCEPT !.ordinal = 1, !.producer = 1] /\ lastData = 1
  /\ nextOrdinal = 1 /\ nextToken = 0 /\ generation = 1 /\ producer = 1
  /\ issued = <<>>
  /\ encodes = [o \in 1..MaxOrdinal |-> IF o = 1 THEN 1 ELSE 0]
  /\ previousOrdinal = 1 /\ floor = 1
-----------------------------------------------------------------------------
newEntry(state, epoch, ordered) ==
  [state |-> state, ordinal |-> nextOrdinal + 1, producer |-> epoch,
   ordered |-> ordered,
   base |-> IF ordered THEN previousOrdinal ELSE 0, floor |-> floor]

clearClaim ==
  /\ claimed' = NoEntry /\ claimedData' = 0 /\ claimToken' = 0
  /\ claimSource' = "none" /\ claimGeneration' = 0
  /\ claimRequiresOrderedRecovery' = FALSE
  /\ claimAdmissionValidated' = FALSE /\ hasClaim' = FALSE

clearRetry == retry' = NoEntry /\ hasRetry' = FALSE /\ retryData' = 0

(* Mutant: the retry survives a purge. *)
ClearButRetry ==
  /\ journal' = <<>>
  /\ latest' = NoEntry /\ hasLatest' = FALSE
  /\ UNCHANGED <<retry, hasRetry, retryData>>

clearNonActiveHistory ==
  /\ journal' = <<>>
  /\ latest' = NoEntry /\ hasLatest' = FALSE
  /\ clearRetry

claimMatches(token, gen) ==
  /\ hasClaim
  /\ token = claimToken
  /\ gen = claimGeneration /\ gen = generation
  /\ claimed.producer = producer

mandatoryNeutralEntry == [NoEntry EXCEPT !.ordinal = nextOrdinal + 1,
                            !.producer = producer + 1, !.ordered = TRUE]

(* The part of enterHistoryFault outside the claim: a new producer epoch   *)
(* that starts with a neutral report.                                      *)
faultHistory ==
  /\ nextOrdinal < MaxOrdinal
  /\ producer' = producer + 1
  /\ clearNonActiveHistory
  /\ previous' = Neutral /\ hasPrevious' = FALSE
  /\ mandatoryNeutral' = mandatoryNeutralEntry
  /\ mandatoryNeutralPending' = TRUE
  /\ resynchronizationNeeded' = FALSE
  /\ nextOrdinal' = nextOrdinal + 1
  /\ previousOrdinal' = nextOrdinal + 1 /\ floor' = nextOrdinal + 1
  /\ UNCHANGED <<lastVars, generation>>

(* Mutant: a fault leaves the claim that is out in place. *)
FaultKeepsClaim ==
  /\ faultHistory
  /\ mandatoryNeutralEncoded' = FALSE
  /\ UNCHANGED <<claimVars, nextToken, issued, encodes>>

enterHistoryFault ==
  /\ faultHistory
  /\ clearClaim
  /\ mandatoryNeutralEncoded' = FALSE
  /\ UNCHANGED <<nextToken, issued, encodes>>

(* Acceptance of an entry by publishLocked: a transition is journaled      *)
(* behind the promoted continuous state, a continuous state replaces the   *)
(* pending one.                                                            *)
acceptOrdered(entry) ==
  /\ claimRequiresOrderedRecovery' =
       IF ~hasLatest /\ hasClaim /\ claimSource = "latest" /\ ~claimed.ordered
       THEN TRUE ELSE claimRequiresOrderedRecovery
  /\ journal' =
       IF hasLatest
       THEN Append(Append(journal, [latest EXCEPT !.ordered = TRUE]), entry)
       ELSE Append(journal, entry)
  /\ latest' = NoEntry /\ hasLatest' = FALSE
  /\ floor' = entry.ordinal

acceptContinuous(entry) ==
  /\ latest' = entry /\ hasLatest' = TRUE
  /\ UNCHANGED <<claimRequiresOrderedRecovery, journal, floor>>

(* Mutant: no room is reserved for the promoted continuous state. *)
JournalNeedsOne == 1

journalNeeds == IF hasLatest THEN 2 ELSE 1

publishLocked(lease, state) ==
  LET ordered == hasPrevious /\ <<previous, state>> \in Transitions
      entry == newEntry(state, producer, ordered)
  IN
  /\ lease = producer
  /\ ~mandatoryNeutralPending /\ ~resynchronizationNeeded
  /\ nextOrdinal < MaxOrdinal
  /\ IF ordered /\ Capacity - Len(journal) < journalNeeds
     THEN FaultOnOverflow /\ enterHistoryFault
     ELSE /\ IF ordered THEN acceptOrdered(entry) ELSE acceptContinuous(entry)
          /\ previous' = state /\ hasPrevious' = TRUE
          /\ previousOrdinal' = entry.ordinal
          /\ nextOrdinal' = nextOrdinal + 1
          /\ UNCHANGED <<retry, hasRetry, retryData, claimed, claimedData,
                         claimToken, claimSource, claimGeneration,
                         claimAdmissionValidated, hasClaim, faultVars,
                         lastVars, nextToken, generation, producer, issued,
                         encodes>>

RetireProducerLease(lease) ==
  /\ lease = producer
  /\ enterHistoryFault

Resynchronize(lease, state) ==
  /\ lease = producer
  /\ ~mandatoryNeutralPending /\ resynchronizationNeeded
  /\ nextOrdinal < MaxOrdinal
  /\ latest' = newEntry(state, producer, FALSE) /\ hasLatest' = TRUE
  /\ previous' = state /\ hasPrevious' = TRUE
  /\ previousOrdinal' = nextOrdinal + 1
  /\ resynchronizationNeeded' = FALSE
  /\ nextOrdinal' = nextOrdinal + 1
  /\ UNCHANGED <<journal, retry, hasRetry, retryData, claimVars,
                 mandatoryNeutral, mandatoryNeutralEncoded,
                 mandatoryNeutralPending, floor, lastVars, nextToken,
                 generation, producer, issued, encodes>>
-----------------------------------------------------------------------------
(* Selection, in the order of ClaimInputPresentation's switch.             *)
select(source, entry, data) ==
  /\ claimSource' = source /\ claimed' = entry /\ claimedData' = data

encode(entry) == encodes' = [encodes EXCEPT ![entry.ordinal] = @ + 1]

selectNeutral ==
  /\ select("neutral", mandatoryNeutral, mandatoryNeutral.ordinal)
  /\ IF mandatoryNeutralEncoded THEN UNCHANGED encodes
     ELSE encode(mandatoryNeutral)
  /\ mandatoryNeutralEncoded' = TRUE
  /\ UNCHANGED queueVars

selectRetry ==
  /\ select("retry", retry, retryData)
  /\ clearRetry
  /\ UNCHANGED <<journal, latest, hasLatest, mandatoryNeutralEncoded, encodes>>

selectJournal ==
  /\ select("journal", Head(journal), Head(journal).ordinal)
  /\ encode(Head(journal))
  /\ journal' = Tail(journal)
  /\ UNCHANGED <<latest, hasLatest, retry, hasRetry, retryData,
                 mandatoryNeutralEncoded>>

selectLatest ==
  /\ select("latest", latest, latest.ordinal)
  /\ encode(latest)
  /\ latest' = NoEntry /\ hasLatest' = FALSE
  /\ UNCHANGED <<journal, retry, hasRetry, retryData, mandatoryNeutralEncoded>>

selectIdle ==
  /\ select("idle", [last EXCEPT !.ordered = FALSE], lastData)
  /\ UNCHANGED <<queueVars, mandatoryNeutralEncoded, encodes>>

giveOut ==
  /\ ~hasClaim
  /\ nextToken < MaxToken
  /\ nextToken' = nextToken + 1
  /\ claimToken' = nextToken + 1 /\ claimGeneration' = generation
  /\ claimRequiresOrderedRecovery' = FALSE
  /\ hasClaim' = TRUE
  /\ issued' = Append(issued, generation)
  /\ UNCHANGED claimAdmissionValidated

(* Mutant: the journal goes ahead of the retry. *)
ClaimJournalFirst ==
  /\ IF mandatoryNeutralPending THEN selectNeutral
     ELSE IF journal # <<>> THEN selectJournal
     ELSE IF hasRetry THEN selectRetry
     ELSE IF hasLatest THEN selectLatest
     ELSE selectIdle
  /\ giveOut
  /\ UNCHANGED <<mandatoryNeutral, mandatoryNeutralPending,
                 resynchronizationNeeded, baseVars, lastVars, nextOrdinal,
                 generation, producer>>

ClaimInputPresentation ==
  /\ IF mandatoryNeutralPending THEN selectNeutral
     ELSE IF hasRetry THEN selectRetry
     ELSE IF journal # <<>> THEN selectJournal
     ELSE IF hasLatest THEN selectLatest
     ELSE selectIdle
  /\ giveOut
  /\ UNCHANGED <<mandatoryNeutral, mandatoryNeutralPending,
                 resynchronizationNeeded, baseVars, lastVars, nextOrdinal,
                 generation, producer>>

(* ClaimInputPresentation when the pending work is too old or dated in the *)
(* future: it faults the history and selects the neutral in the same call. *)
ClaimFaultsHistory ==
  /\ Strict /\ ~mandatoryNeutralPending
  /\ hasRetry \/ journal # <<>> \/ hasLatest
  /\ faultHistory
  /\ select("neutral", mandatoryNeutralEntry, mandatoryNeutralEntry.ordinal)
  /\ encode(mandatoryNeutralEntry)
  /\ mandatoryNeutralEncoded' = TRUE
  /\ giveOut

claimOrderedAgeExceeded ==
  /\ Strict
  /\ claimSource # "neutral"
  /\ claimed.ordered \/ claimRequiresOrderedRecovery

CanAdmitInputPresentation(token) ==
  /\ claimMatches(token, issued[token]) /\ ~claimAdmissionValidated
  /\ \/ claimOrderedAgeExceeded /\ enterHistoryFault
     \/ /\ claimAdmissionValidated' = TRUE
        /\ UNCHANGED <<queueVars, claimed, claimedData, claimToken,
                       claimSource, claimGeneration,
                       claimRequiresOrderedRecovery, hasClaim, faultVars,
                       baseVars, lastVars, counterVars, issued, encodes>>

(* ResolveInputPresentation for the claim that is out.                     *)
Commit(token) ==
  /\ claimMatches(token, issued[token])
  /\ Strict => claimAdmissionValidated
  /\ last' = [claimed EXCEPT !.ordered = FALSE] /\ lastData' = claimedData
  /\ IF claimSource = "neutral"
     THEN /\ mandatoryNeutralPending' = FALSE
          /\ mandatoryNeutralEncoded' = FALSE
          /\ resynchronizationNeeded' = TRUE
     ELSE UNCHANGED <<mandatoryNeutralPending, mandatoryNeutralEncoded,
                      resynchronizationNeeded>>
  /\ clearClaim
  /\ UNCHANGED <<queueVars, mandatoryNeutral, baseVars, counterVars, issued,
                 encodes>>

nothingPending == journal = <<>> /\ ~hasLatest /\ ~hasRetry

mustRecover == claimed.ordered \/ claimRequiresOrderedRecovery

(* Mutant: a deferred continuous report becomes the latest state again. *)
DeferReencodes(token) ==
  /\ claimMatches(token, issued[token])
  /\ IF claimSource # "neutral" /\ mustRecover
     THEN /\ retry' = [claimed EXCEPT !.ordered = TRUE]
          /\ retryData' = claimedData /\ hasRetry' = TRUE
          /\ UNCHANGED <<latest, hasLatest>>
     ELSE /\ IF claimSource \in {"latest", "retry"} /\ nothingPending
             THEN latest' = claimed /\ hasLatest' = TRUE
             ELSE UNCHANGED <<latest, hasLatest>>
          /\ UNCHANGED <<retry, retryData, hasRetry>>
  /\ clearClaim
  /\ UNCHANGED <<journal, faultVars, baseVars, lastVars, counterVars, issued,
                 encodes>>

Defer(token) ==
  /\ claimMatches(token, issued[token])
  /\ IF /\ claimSource # "neutral"
        /\ \/ mustRecover
           \/ /\ claimSource # "idle"
              /\ nothingPending
     THEN /\ retry' = [claimed EXCEPT !.ordered = mustRecover]
          /\ retryData' = claimedData /\ hasRetry' = TRUE
     ELSE UNCHANGED <<retry, retryData, hasRetry>>
  /\ clearClaim
  /\ UNCHANGED <<journal, latest, hasLatest, faultVars, baseVars, lastVars,
                 counterVars, issued, encodes>>

ResolveTooOld(token) ==
  /\ claimMatches(token, issued[token])
  /\ claimOrderedAgeExceeded
  /\ enterHistoryFault

(* Retirement keeps the newest complete state, unordered, and nothing else.*)
(* Mutant: the successor's current state is not pending. *)
RetireToNothing(currentState) ==
  LET current == [NoEntry EXCEPT !.state = currentState,
                    !.ordinal = nextOrdinal + 1, !.producer = producer + 1,
                    !.floor = nextOrdinal + 1]
  IN
  /\ nextOrdinal < MaxOrdinal /\ generation < MaxGeneration
  /\ clearNonActiveHistory
  /\ clearClaim
  /\ mandatoryNeutral' = NoEntry /\ mandatoryNeutralEncoded' = FALSE
  /\ mandatoryNeutralPending' = FALSE /\ resynchronizationNeeded' = FALSE
  /\ generation' = generation + 1 /\ producer' = producer + 1
  /\ last' = current /\ lastData' = 0
  /\ previous' = currentState /\ hasPrevious' = TRUE
  /\ nextOrdinal' = nextOrdinal + 1
  /\ previousOrdinal' = nextOrdinal + 1 /\ floor' = nextOrdinal + 1
  /\ UNCHANGED <<nextToken, issued, encodes>>

retireCurrentGeneration(currentState) ==
  LET current == [NoEntry EXCEPT !.state = currentState,
                    !.ordinal = nextOrdinal + 1, !.producer = producer + 1,
                    !.floor = nextOrdinal + 1]
  IN
  /\ nextOrdinal < MaxOrdinal /\ generation < MaxGeneration
  /\ journal' = <<>> /\ clearRetry
  /\ clearClaim
  /\ mandatoryNeutral' = NoEntry /\ mandatoryNeutralEncoded' = FALSE
  /\ mandatoryNeutralPending' = FALSE /\ resynchronizationNeeded' = FALSE
  /\ generation' = generation + 1 /\ producer' = producer + 1
  /\ latest' = current /\ hasLatest' = TRUE
  /\ last' = current /\ lastData' = 0
  /\ previous' = currentState /\ hasPrevious' = TRUE
  /\ nextOrdinal' = nextOrdinal + 1
  /\ previousOrdinal' = nextOrdinal + 1 /\ floor' = nextOrdinal + 1
  /\ UNCHANGED <<nextToken, issued, encodes>>

Retire(token) ==
  /\ claimMatches(token, issued[token])
  /\ retireCurrentGeneration(IF hasPrevious THEN previous ELSE Neutral)

RetireInputPresentationGeneration(gen) ==
  /\ gen = generation
  /\ retireCurrentGeneration(IF hasPrevious THEN previous ELSE Neutral)

RetireInputPresentationGenerationWithBaseline(gen, baseline) ==
  /\ gen = generation
  /\ retireCurrentGeneration(baseline)

Epochs == 1..producer
Produce ==
  \E lease \in Epochs :
    \/ \E state \in States : \/ publishLocked(lease, state)
                             \/ Resynchronize(lease, state)
    \/ RetireProducerLease(lease)

Present ==
  \/ ClaimInputPresentation \/ ClaimFaultsHistory
  \/ \E token \in DOMAIN issued :
       \/ CanAdmitInputPresentation(token)
       \/ Commit(token) \/ Defer(token) \/ ResolveTooOld(token)
       \/ Retire(token)

Lifecycle ==
  \E gen \in 1..generation :
    \/ RetireInputPresentationGeneration(gen)
    \/ \E baseline \in States :
         RetireInputPresentationGenerationWithBaseline(gen, baseline)

Next == Produce \/ Present \/ Lifecycle

Spec == Init /\ [][Next]_vars
-----------------------------------------------------------------------------
FlagType ==
  /\ hasLatest \in BOOLEAN /\ hasRetry \in BOOLEAN /\ hasClaim \in BOOLEAN
  /\ claimRequiresOrderedRecovery \in BOOLEAN
  /\ claimAdmissionValidated \in BOOLEAN
  /\ mandatoryNeutralEncoded \in BOOLEAN
  /\ mandatoryNeutralPending \in BOOLEAN
  /\ resynchronizationNeeded \in BOOLEAN /\ hasPrevious \in BOOLEAN

QueueType ==
  /\ journal \in Seq(Entries) /\ Len(journal) <= Capacity
  /\ latest \in Entries /\ retry \in Entries /\ retryData \in Nat

ClaimType ==
  /\ claimed \in Entries /\ claimedData \in Nat /\ claimToken \in Nat
  /\ claimSource \in {"none", "neutral", "retry", "journal", "latest", "idle"}
  /\ claimGeneration \in Nat

BaseType ==
  /\ previous \in States /\ previousOrdinal \in Nat /\ floor \in Nat
  /\ last \in Entries /\ lastData \in Nat /\ mandatoryNeutral \in Entries

CounterType ==
  /\ nextOrdinal \in Nat /\ nextToken \in Nat
  /\ generation \in Nat /\ producer \in Nat
  /\ issued \in Seq(Nat) /\ encodes \in [1..MaxOrdinal -> Nat]

(* The variables keep to their types; the journal keeps to its capacity.   *)
TypeOK == FlagType /\ QueueType /\ ClaimType /\ BaseType /\ CounterType

(* The claim that is out can always be resolved: it matches its own token, *)
(* generation and producer epoch, whatever faults, retirements and idle    *)
(* selections came before, so the source is never wedged (claimMatches).   *)
NeverWedged ==
  hasClaim => /\ claimToken \in DOMAIN issued
              /\ claimMatches(claimToken, issued[claimToken])

(* Work of a revoked producer epoch is gone: everything pending was        *)
(* accepted in the current epoch, and while a neutral is owed nothing else *)
(* is pending (enterHistoryFault, RetireProducerLease, retirement).        *)
OnlyCurrentEpoch ==
  /\ \A i \in DOMAIN journal : journal[i].producer = producer
  /\ hasLatest => latest.producer = producer
  /\ hasRetry => retry.producer = producer
  /\ mandatoryNeutralPending =>
       nothingPending /\ mandatoryNeutral.producer = producer
  /\ resynchronizationNeeded => nothingPending /\ ~mandatoryNeutralPending

(* The bytes of a claim encode the state it claims: an idle claim never    *)
(* repeats the cleared image of a retired generation, and a retry carries  *)
(* the bytes of the entry that was deferred.                               *)
BytesMatch == hasClaim => claimedData = claimed.ordinal

(* An accepted state is encoded at most once however often its report is   *)
(* deferred, so that device counters in the bytes do not advance (retry).  *)
EncodedOnce == \A o \in 1..MaxOrdinal : encodes[o] <= 1

presents(e) == last'.ordinal = e /\ last.ordinal # e /\ claimed.ordinal = e

(* No accepted transition is skipped, replayed or overtaken: a report is   *)
(* presented only after the last ordered entry accepted before it (or the  *)
(* epoch's mandatory neutral) was, and never after a newer one.            *)
TransitionsKept ==
  [][\A e \in 1..MaxOrdinal : (presents(e) /\ generation' = generation) =>
       /\ claimed.floor <= last.ordinal
       /\ last.ordinal < e]_vars

(* What the comment on claimRequiresOrderedRecovery says: a continuous     *)
(* state that a later transition depends on is retried ahead of it.        *)
(* Hence a transition is presented right after the state it starts from.   *)
TransitionFollowsItsBase ==
  [][\A e \in 1..MaxOrdinal :
       (presents(e) /\ generation' = generation /\ claimed.base # 0)
         => last.ordinal = claimed.base]_vars
=============================================================================
