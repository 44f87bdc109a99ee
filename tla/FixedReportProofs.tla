-------------------------- MODULE FixedReportProofs --------------------------
(***************************************************************************)
(* Proofs about FixedReportScheduler, for every journal capacity, every    *)
(* transition relation and both overflow policies.                         *)
(***************************************************************************)
EXTENDS FixedReportScheduler, TLAPS

(* The claim that is out belongs to the current generation and epoch.      *)
ClaimInv ==
  /\ nextToken = Len(issued)
  /\ hasClaim => /\ claimToken \in DOMAIN issued
                 /\ issued[claimToken] = claimGeneration
                 /\ claimGeneration = generation
                 /\ claimed.producer = producer

(* An idle claim copies last, so last must be of the current epoch too     *)
(* once no neutral is owed.  While one is owed only the neutral is out,    *)
(* and until the resynchronisation only an idle report is.                 *)
EpochInv ==
  /\ OnlyCurrentEpoch
  /\ ~mandatoryNeutralPending => last.producer = producer
  /\ hasClaim => (claimSource = "neutral" <=> mandatoryNeutralPending)
  /\ hasClaim /\ resynchronizationNeeded =>
       claimSource = "idle" /\ ~mustRecover

(* While the idle image is cleared, something else goes first.             *)
BytesInv ==
  /\ BytesMatch
  /\ hasRetry => retryData = retry.ordinal
  /\ \/ lastData = last.ordinal
     \/ ~nothingPending \/ mandatoryNeutralPending
     \/ hasClaim /\ claimSource # "idle"

IInv == TypeOK /\ ClaimInv /\ EpochInv /\ BytesInv

LEMMA EntryType == NoEntry \in Entries
BY SchedulerConstants
    DEF NoEntry, Entries

LEMMA EntryOrdered ==
  ASSUME NEW e \in Entries, NEW b \in BOOLEAN
  PROVE  /\ [e EXCEPT !.ordered = b] \in Entries
         /\ [e EXCEPT !.ordered = b].producer = e.producer
         /\ [e EXCEPT !.ordered = b].ordinal = e.ordinal
BY DEF Entries

LEMMA NewEntryType ==
  ASSUME TypeOK, NEW state \in States, NEW ordered \in BOOLEAN
  PROVE  /\ newEntry(state, producer, ordered) \in Entries
         /\ newEntry(state, producer, ordered).producer = producer
         /\ newEntry(state, producer, ordered).ordinal \in Nat
         /\ mandatoryNeutralEntry \in Entries
         /\ mandatoryNeutralEntry.producer = producer + 1
<1>1. /\ nextOrdinal + 1 \in Nat /\ producer \in Nat /\ producer + 1 \in Nat
      /\ previousOrdinal \in Nat /\ floor \in Nat
  BY DEF TypeOK, BaseType, CounterType
<1>2. (IF ordered THEN previousOrdinal ELSE 0) \in Nat
  BY <1>1
<1>3. newEntry(state, producer, ordered) \in Entries
  BY <1>1, <1>2, Zenon DEF newEntry, Entries
<1>4. mandatoryNeutralEntry \in Entries
  BY Zenon, <1>1, SchedulerConstants DEF mandatoryNeutralEntry, NoEntry, Entries
<1> QED
  BY <1>1, <1>3, <1>4 DEF newEntry, mandatoryNeutralEntry, NoEntry, Entries

LEMMA InitIInv == Init => IInv
<1> SUFFICES ASSUME Init PROVE IInv
  OBVIOUS
<1>1. TypeOK
  <2>1. FlagType
    BY Zenon DEF Init, FlagType
  <2>2. QueueType
    BY SchedulerConstants, EntryType DEF Init, QueueType
  <2>3. ClaimType
    BY EntryType DEF Init, ClaimType
  <2>4. BaseType
    BY Zenon, SchedulerConstants, EntryType DEF Init, BaseType, NoEntry, Entries
  <2>5. CounterType
    BY DEF Init, CounterType
  <2> QED
    BY <2>1, <2>2, <2>3, <2>4, <2>5 DEF TypeOK
<1>2. ClaimInv
  BY DEF Init, ClaimInv
<1>3. EpochInv
  BY DEF Init, EpochInv, OnlyCurrentEpoch, nothingPending, NoEntry
<1>4. BytesInv
  BY DEF Init, BytesInv, BytesMatch, NoEntry
<1> QED
  BY <1>1, <1>2, <1>3, <1>4 DEF IInv

LEMMA FaultStep ==
  ASSUME IInv, enterHistoryFault PROVE IInv'
<1>1. TypeOK'
  <2>1. FlagType'
    BY Zenon
    DEF enterHistoryFault, faultHistory, clearNonActiveHistory, clearRetry,
        clearClaim, FlagType
  <2>2. QueueType'
    BY SchedulerConstants, EntryType
    DEF enterHistoryFault, faultHistory, clearNonActiveHistory, clearRetry,
        QueueType
  <2>3. ClaimType'
    BY EntryType DEF enterHistoryFault, clearClaim, ClaimType
  <2>4. BaseType'
    BY SchedulerConstants, NewEntryType
    DEF IInv, TypeOK, CounterType, BaseType, enterHistoryFault, faultHistory,
        lastVars
  <2>5. CounterType'
    BY DEF IInv, TypeOK, CounterType, enterHistoryFault, faultHistory
  <2> QED
    BY <2>1, <2>2, <2>3, <2>4, <2>5 DEF TypeOK
<1>2. ClaimInv'
  BY DEF IInv, ClaimInv, enterHistoryFault, clearClaim
<1>3. EpochInv'
  BY DEF IInv, EpochInv, OnlyCurrentEpoch, nothingPending, enterHistoryFault,
      faultHistory, clearNonActiveHistory, clearRetry, clearClaim,
      mandatoryNeutralEntry, NoEntry, lastVars
<1>4. BytesInv'
  BY DEF BytesInv, BytesMatch, enterHistoryFault, faultHistory, clearClaim,
      clearNonActiveHistory, clearRetry
<1> QED
  BY <1>1, <1>2, <1>3, <1>4 DEF IInv

LEMMA AppendEntry ==
  ASSUME NEW s \in Seq(Entries), NEW e \in Entries,
         \A i \in DOMAIN s : s[i].producer = e.producer
  PROVE  /\ Append(s, e) \in Seq(Entries)
         /\ Len(Append(s, e)) = Len(s) + 1
         /\ \A i \in DOMAIN Append(s, e) : Append(s, e)[i].producer = e.producer
OBVIOUS

LEMMA AcceptJournal ==
  ASSUME IInv, NEW entry \in Entries, entry.producer = producer,
         Capacity - Len(journal) >= journalNeeds, acceptOrdered(entry)
  PROVE  /\ journal' \in Seq(Entries) /\ Len(journal') <= Capacity
         /\ \A i \in DOMAIN journal' : journal'[i].producer = producer
         /\ journal' # <<>>
<1> DEFINE promoted == [latest EXCEPT !.ordered = TRUE]
<1>1. /\ journal \in Seq(Entries) /\ latest \in Entries /\ Capacity \in Nat
      /\ \A i \in DOMAIN journal : journal[i].producer = producer
      /\ hasLatest => latest.producer = producer
  BY SchedulerConstants
  DEF IInv, TypeOK, QueueType, EpochInv, OnlyCurrentEpoch
<1>2. /\ promoted \in Entries
      /\ promoted.producer = latest.producer
  BY Zenon, <1>1, EntryOrdered
<1> HIDE DEF promoted
<1>3. CASE ~hasLatest
  <2>1. journal' = Append(journal, entry)
    BY <1>3 DEF acceptOrdered
  <2>2. Len(journal) + 1 <= Capacity
    BY <1>1, <1>3 DEF journalNeeds
  <2> QED
    BY <1>1, <2>1, <2>2, AppendEntry
<1>4. CASE hasLatest
  <2>1. journal' = Append(Append(journal, promoted), entry)
    BY <1>4 DEF acceptOrdered, promoted
  <2>2. Len(journal) + 2 <= Capacity
    BY <1>1, <1>4 DEF journalNeeds
  <2>3. /\ Append(journal, promoted) \in Seq(Entries)
        /\ Len(Append(journal, promoted)) = Len(journal) + 1
        /\ \A i \in DOMAIN Append(journal, promoted) :
             Append(journal, promoted)[i].producer = producer
    BY <1>1, <1>2, <1>4, AppendEntry
  <2> QED
    BY <1>1, <2>1, <2>2, <2>3, AppendEntry
<1> QED
  BY <1>3, <1>4

LEMMA PublishStep ==
  ASSUME IInv, NEW lease, NEW state \in States, publishLocked(lease, state)
  PROVE  IInv'
<1> DEFINE ordered == hasPrevious /\ <<previous, state>> \in Transitions
           entry == newEntry(state, producer, ordered)
<1>1. CASE ordered /\ Capacity - Len(journal) < journalNeeds
  BY <1>1, FaultStep DEF publishLocked
<1>2. CASE ~(ordered /\ Capacity - Len(journal) < journalNeeds)
  <2>1. /\ IF ordered THEN acceptOrdered(entry) ELSE acceptContinuous(entry)
        /\ ~mandatoryNeutralPending /\ ~resynchronizationNeeded
        /\ previous' = state /\ hasPrevious' = TRUE
        /\ previousOrdinal' = entry.ordinal
        /\ nextOrdinal' = nextOrdinal + 1
    BY <1>2 DEF publishLocked
  <2>2. UNCHANGED <<retry, hasRetry, retryData, claimed, claimedData,
                    claimToken, claimSource, claimGeneration,
                    claimAdmissionValidated, hasClaim, faultVars, lastVars,
                    nextToken, generation, producer, issued, encodes>>
    BY <1>2 DEF publishLocked
  <2>3. /\ entry \in Entries /\ entry.producer = producer
        /\ entry.ordinal \in Nat
    BY NewEntryType, Zenon DEF IInv
  <2>4. /\ Capacity \in Nat /\ Len(journal) \in Nat /\ journalNeeds \in Nat
    BY SchedulerConstants DEF IInv, TypeOK, QueueType, journalNeeds
  <2>5. ordered => Capacity - Len(journal) >= journalNeeds
    BY <1>2, <2>4
  <2>6. ordered => acceptOrdered(entry)
    BY <2>1
  <2>7. ~ordered => acceptContinuous(entry)
    BY <2>1
  <2> HIDE DEF ordered, entry
  <2>8. /\ journal' \in Seq(Entries) /\ Len(journal') <= Capacity
        /\ \A i \in DOMAIN journal' : journal'[i].producer = producer
    BY <2>3, <2>5, <2>6, <2>7, AcceptJournal
    DEF acceptContinuous, IInv, TypeOK, QueueType, EpochInv, OnlyCurrentEpoch
  <2>9. journal' # <<>> \/ hasLatest' = TRUE
    BY <2>3, <2>5, <2>6, <2>7, AcceptJournal DEF acceptContinuous
  <2>10. /\ latest' \in Entries /\ floor' \in Nat
         /\ hasLatest' = TRUE => latest'.producer = producer
         /\ hasLatest' \in {TRUE, FALSE}
    BY Zenon, <2>3, <2>6, <2>7, EntryType
    DEF acceptOrdered, acceptContinuous, IInv, TypeOK, BaseType
  <2>11. claimRequiresOrderedRecovery' \in BOOLEAN
    <3>1. claimRequiresOrderedRecovery \in BOOLEAN
      BY DEF IInv, TypeOK, FlagType
    <3> QED
      BY <2>6, <2>7, <3>1, Zenon DEF acceptOrdered, acceptContinuous
  <2>12. TypeOK'
    <3>1. FlagType'
      BY <2>1, <2>2, <2>10, <2>11, Zenon
      DEF IInv, TypeOK, FlagType, faultVars
    <3>2. QueueType'
      BY <2>2, <2>8, <2>10 DEF IInv, TypeOK, QueueType
    <3>3. ClaimType'
      BY <2>2 DEF IInv, TypeOK, ClaimType
    <3>4. BaseType'
      BY <2>1, <2>2, <2>3, <2>10
      DEF IInv, TypeOK, BaseType, faultVars, lastVars
    <3>5. CounterType'
      BY <2>1, <2>2 DEF IInv, TypeOK, CounterType
    <3> QED
      BY <3>1, <3>2, <3>3, <3>4, <3>5 DEF TypeOK
  <2>13. ClaimInv'
    BY <2>2 DEF IInv, ClaimInv
  <2>14. EpochInv'
    BY <2>1, <2>2, <2>8, <2>10
    DEF IInv, EpochInv, OnlyCurrentEpoch, nothingPending, faultVars, lastVars
  <2>15. BytesInv'
    BY <2>2, <2>9, Zenon
    DEF IInv, BytesInv, BytesMatch, nothingPending, faultVars, lastVars
  <2> QED
    BY <2>12, <2>13, <2>14, <2>15 DEF IInv
<1> QED
  BY <1>1, <1>2

LEMMA ResynchronizeStep ==
  ASSUME IInv, NEW lease, NEW state \in States, Resynchronize(lease, state)
  PROVE  IInv'
<1>1. /\ latest' \in Entries /\ latest'.producer = producer
      /\ hasLatest' = TRUE
  BY Zenon, NewEntryType DEF IInv, Resynchronize
<1>2. TypeOK'
  <2>1. FlagType'
    BY Zenon DEF IInv, TypeOK, FlagType, Resynchronize, claimVars
  <2>2. QueueType'
    BY Zenon, <1>1 DEF IInv, TypeOK, QueueType, Resynchronize
  <2>3. ClaimType'
    BY DEF IInv, TypeOK, ClaimType, Resynchronize, claimVars
  <2>4. BaseType'
    BY DEF IInv, TypeOK, BaseType, CounterType, Resynchronize, lastVars
  <2>5. CounterType'
    BY DEF IInv, TypeOK, CounterType, Resynchronize
  <2> QED
    BY <2>1, <2>2, <2>3, <2>4, <2>5 DEF TypeOK
<1>3. ClaimInv'
  BY DEF IInv, ClaimInv, Resynchronize, claimVars
<1>4. EpochInv'
  BY Zenon, <1>1
  DEF IInv, EpochInv, OnlyCurrentEpoch, nothingPending, Resynchronize,
      claimVars, lastVars
<1>5. BytesInv'
  BY <1>1, Zenon
  DEF IInv, BytesInv, BytesMatch, nothingPending, Resynchronize, claimVars,
      lastVars
<1> QED
  BY <1>2, <1>3, <1>4, <1>5 DEF IInv

(* Whatever is selected is of the current epoch and carries its own bytes. *)
LEMMA SelectionSound ==
  ASSUME IInv, ~hasClaim,
         IF mandatoryNeutralPending THEN selectNeutral
         ELSE IF hasRetry THEN selectRetry
         ELSE IF journal # <<>> THEN selectJournal
         ELSE IF hasLatest THEN selectLatest
         ELSE selectIdle
  PROVE  /\ claimed' \in Entries /\ claimed'.producer = producer
         /\ claimedData' = claimed'.ordinal
         /\ claimSource' \in {"neutral", "retry", "journal", "latest", "idle"}
         /\ claimSource' = "idle" => lastData = last.ordinal
         /\ journal' \in Seq(Entries) /\ Len(journal') <= Capacity
         /\ latest' \in Entries /\ retry' \in Entries /\ retryData' \in Nat
         /\ hasLatest' \in BOOLEAN /\ hasRetry' \in BOOLEAN
         /\ mandatoryNeutralEncoded' \in BOOLEAN
         /\ encodes' \in [1..MaxOrdinal -> Nat]
         /\ \A i \in DOMAIN journal' : journal'[i].producer = producer
         /\ hasLatest' => hasLatest /\ latest' = latest
         /\ hasRetry' => hasRetry /\ retry' = retry /\ retryData' = retryData
         /\ nothingPending => nothingPending'
         /\ claimSource' = "neutral" <=> mandatoryNeutralPending
         /\ nothingPending /\ ~mandatoryNeutralPending =>
              claimSource' = "idle" /\ claimed'.ordered = FALSE
<1>1. /\ journal \in Seq(Entries) /\ Len(journal) <= Capacity
      /\ latest \in Entries /\ retry \in Entries /\ retryData \in Nat
      /\ last \in Entries /\ mandatoryNeutral \in Entries
      /\ encodes \in [1..MaxOrdinal -> Nat] /\ Capacity \in Nat
      /\ \A i \in DOMAIN journal : journal[i].producer = producer
  BY SchedulerConstants
  DEF IInv, TypeOK, QueueType, BaseType, CounterType, EpochInv,
      OnlyCurrentEpoch
<1>2. /\ hasLatest \in BOOLEAN /\ hasRetry \in BOOLEAN
      /\ mandatoryNeutralEncoded \in BOOLEAN
  BY DEF IInv, TypeOK, FlagType
<1>3. \A e \in Nat : [encodes EXCEPT ![e] = @ + 1] \in [1..MaxOrdinal -> Nat]
  <2> TAKE e \in Nat
  <2>1. \A x \in 1..MaxOrdinal : encodes[x] \in Nat /\ encodes[x] + 1 \in Nat
    BY <1>1
  <2> QED
    BY <1>1, <2>1, Zenon
<1>4. CASE mandatoryNeutralPending
  <2>1. mandatoryNeutral.producer = producer
    BY <1>4 DEF IInv, EpochInv, OnlyCurrentEpoch
  <2>2. selectNeutral
    BY <1>4
  <2>3. encodes' \in [1..MaxOrdinal -> Nat]
    BY <1>1, <1>3, <2>2 DEF selectNeutral, encode, Entries
  <2> QED
    BY <1>1, <1>2, <1>4, <2>1, <2>2, <2>3
    DEF selectNeutral, select, queueVars, nothingPending
<1>5. CASE ~mandatoryNeutralPending /\ hasRetry
  <2>1. /\ retry.producer = producer /\ retryData = retry.ordinal
    BY <1>5 DEF IInv, EpochInv, OnlyCurrentEpoch, BytesInv
  <2>2. selectRetry
    BY <1>5
  <2> QED
    BY Zenon, <1>1, <1>2, <1>5, <2>1, <2>2, EntryType
    DEF selectRetry, select, clearRetry, nothingPending
<1>6. CASE ~mandatoryNeutralPending /\ ~hasRetry /\ journal # <<>>
  <2>1. selectJournal
    BY <1>6
  <2>2. /\ Head(journal) \in Entries /\ Head(journal).producer = producer
        /\ Tail(journal) \in Seq(Entries) /\ Len(Tail(journal)) <= Capacity
        /\ \A i \in DOMAIN Tail(journal) : Tail(journal)[i].producer = producer
    BY <1>1, <1>6
  <2>3. encodes' \in [1..MaxOrdinal -> Nat]
    BY <1>3, <2>1, <2>2 DEF selectJournal, encode, Entries
  <2> QED
    BY <1>1, <1>2, <1>6, <2>1, <2>2, <2>3
    DEF selectJournal, select, nothingPending
<1>7. CASE /\ ~mandatoryNeutralPending /\ ~hasRetry /\ journal = <<>>
           /\ hasLatest
  <2>1. selectLatest
    BY <1>7
  <2>2. latest.producer = producer
    BY <1>7 DEF IInv, EpochInv, OnlyCurrentEpoch
  <2>3. encodes' \in [1..MaxOrdinal -> Nat]
    BY <1>1, <1>3, <2>1 DEF selectLatest, encode, Entries
  <2> QED
    BY Zenon, <1>1, <1>2, <1>7, <2>1, <2>2, <2>3, EntryType
    DEF selectLatest, select, nothingPending
<1>8. CASE /\ ~mandatoryNeutralPending /\ ~hasRetry /\ journal = <<>>
           /\ ~hasLatest
  <2>1. selectIdle
    BY <1>8
  <2>2. last.producer = producer /\ lastData = last.ordinal
    BY <1>8 DEF IInv, EpochInv, BytesInv, nothingPending
  <2>3. /\ [last EXCEPT !.ordered = FALSE] \in Entries
        /\ [last EXCEPT !.ordered = FALSE].producer = last.producer
        /\ [last EXCEPT !.ordered = FALSE].ordinal = last.ordinal
        /\ [last EXCEPT !.ordered = FALSE].ordered = FALSE
    BY Zenon, <1>1, EntryOrdered DEF Entries
  <2> QED
    BY <1>1, <1>2, <1>8, <2>1, <2>2, <2>3
    DEF selectIdle, select, queueVars, nothingPending
<1> QED
  BY Zenon, <1>4, <1>5, <1>6, <1>7, <1>8

LEMMA ClaimStep ==
  ASSUME IInv, ClaimInputPresentation PROVE IInv'
<1>1. /\ ~hasClaim
      /\ nextToken' = nextToken + 1 /\ claimToken' = nextToken + 1
      /\ claimGeneration' = generation
      /\ claimRequiresOrderedRecovery' = FALSE /\ hasClaim' = TRUE
      /\ issued' = Append(issued, generation)
      /\ claimAdmissionValidated' = claimAdmissionValidated
  BY DEF ClaimInputPresentation, giveOut
<1>2. UNCHANGED <<mandatoryNeutral, mandatoryNeutralPending,
                  resynchronizationNeeded, baseVars, lastVars, nextOrdinal,
                  generation, producer>>
  BY DEF ClaimInputPresentation
<1>3. IF mandatoryNeutralPending THEN selectNeutral
      ELSE IF hasRetry THEN selectRetry
      ELSE IF journal # <<>> THEN selectJournal
      ELSE IF hasLatest THEN selectLatest
      ELSE selectIdle
  BY DEF ClaimInputPresentation
<1>4. /\ claimed' \in Entries /\ claimed'.producer = producer
      /\ claimedData' = claimed'.ordinal
      /\ claimSource' \in {"neutral", "retry", "journal", "latest", "idle"}
      /\ claimSource' = "idle" => lastData = last.ordinal
      /\ journal' \in Seq(Entries) /\ Len(journal') <= Capacity
      /\ latest' \in Entries /\ retry' \in Entries /\ retryData' \in Nat
      /\ hasLatest' \in BOOLEAN /\ hasRetry' \in BOOLEAN
      /\ mandatoryNeutralEncoded' \in BOOLEAN
      /\ encodes' \in [1..MaxOrdinal -> Nat]
      /\ \A i \in DOMAIN journal' : journal'[i].producer = producer
      /\ hasLatest' => hasLatest /\ latest' = latest
      /\ hasRetry' => hasRetry /\ retry' = retry /\ retryData' = retryData
      /\ nothingPending => nothingPending'
      /\ claimSource' = "neutral" <=> mandatoryNeutralPending
      /\ nothingPending /\ ~mandatoryNeutralPending =>
           claimSource' = "idle" /\ claimed'.ordered = FALSE
  BY Zenon, <1>1, <1>3, SelectionSound
<1>5. TypeOK'
  <2>1. FlagType'
    BY <1>1, <1>2, <1>4, Zenon DEF IInv, TypeOK, FlagType, baseVars
  <2>2. QueueType'
    BY <1>4 DEF QueueType
  <2>3. ClaimType'
    <3>1. claimedData' \in Nat
      BY <1>4 DEF Entries
    <3>2. nextToken \in Nat /\ generation \in Nat
      BY DEF IInv, TypeOK, CounterType
    <3> QED
      BY <1>1, <1>4, <3>1, <3>2 DEF ClaimType
  <2>4. BaseType'
    BY <1>2 DEF IInv, TypeOK, BaseType, baseVars, lastVars
  <2>5. CounterType'
    BY <1>1, <1>2, <1>4 DEF IInv, TypeOK, CounterType
  <2> QED
    BY <2>1, <2>2, <2>3, <2>4, <2>5 DEF TypeOK
<1>6. ClaimInv'
  <2>1. /\ nextToken \in Nat /\ generation \in Nat /\ issued \in Seq(Nat)
        /\ nextToken = Len(issued)
    BY DEF IInv, TypeOK, CounterType, ClaimInv
  <2> QED
    BY <1>1, <1>2, <1>4, <2>1 DEF ClaimInv
<1>7. EpochInv'
  <2>1. OnlyCurrentEpoch'
    BY <1>2, <1>4 DEF IInv, EpochInv, OnlyCurrentEpoch
  <2>2. (~mandatoryNeutralPending => last.producer = producer)'
    BY <1>2 DEF IInv, EpochInv, lastVars
  <2>3. resynchronizationNeeded =>
          claimSource' = "idle" /\ claimed'.ordered = FALSE
    BY <1>4 DEF IInv, EpochInv, OnlyCurrentEpoch
  <2> QED
    BY <1>1, <1>2, <1>4, <2>1, <2>2, <2>3 DEF EpochInv, mustRecover
<1>8. BytesInv'
  BY <1>1, <1>2, <1>4 DEF IInv, BytesInv, BytesMatch, lastVars
<1> QED
  BY <1>5, <1>6, <1>7, <1>8 DEF IInv

LEMMA ClaimFaultStep ==
  ASSUME IInv, ClaimFaultsHistory PROVE IInv'
<1>1. /\ nextToken' = nextToken + 1 /\ claimToken' = nextToken + 1
      /\ claimGeneration' = generation
      /\ claimRequiresOrderedRecovery' = FALSE /\ hasClaim' = TRUE
      /\ issued' = Append(issued, generation)
      /\ claimAdmissionValidated' = claimAdmissionValidated
  BY DEF ClaimFaultsHistory, giveOut
<1>2. /\ claimSource' = "neutral" /\ claimed' = mandatoryNeutralEntry
      /\ claimedData' = mandatoryNeutralEntry.ordinal
      /\ mandatoryNeutralEncoded' = TRUE
      /\ encodes' = [encodes EXCEPT ![mandatoryNeutralEntry.ordinal] = @ + 1]
  BY DEF ClaimFaultsHistory, select, encode
<1>3. faultHistory
  BY DEF ClaimFaultsHistory
<1>4. /\ mandatoryNeutralEntry \in Entries
      /\ mandatoryNeutralEntry.producer = producer + 1
  BY SchedulerConstants, NewEntryType DEF IInv
<1>5. TypeOK'
  <2>1. FlagType'
    BY <1>1, <1>2, <1>3, Zenon
    DEF IInv, TypeOK, FlagType, faultHistory, clearNonActiveHistory, clearRetry
  <2>2. QueueType'
    BY <1>3, SchedulerConstants, EntryType
    DEF faultHistory, clearNonActiveHistory, clearRetry, QueueType
  <2>3. ClaimType'
    <3>1. claimedData' \in Nat
      BY <1>2, <1>4 DEF Entries
    <3>2. nextToken \in Nat /\ generation \in Nat
      BY DEF IInv, TypeOK, CounterType
    <3> QED
      BY <1>1, <1>2, <1>4, <3>1, <3>2 DEF ClaimType
  <2>4. BaseType'
    BY <1>3, <1>4, SchedulerConstants
    DEF IInv, TypeOK, CounterType, BaseType, faultHistory, lastVars
  <2>5. CounterType'
    <3>1. \A x \in 1..MaxOrdinal : encodes[x] \in Nat /\ encodes[x] + 1 \in Nat
      BY DEF IInv, TypeOK, CounterType
    <3>2. encodes' \in [1..MaxOrdinal -> Nat]
      BY <1>2, <3>1, Zenon DEF IInv, TypeOK, CounterType
    <3> QED
      BY <1>1, <1>3, <3>2 DEF IInv, TypeOK, CounterType, faultHistory
  <2> QED
    BY <2>1, <2>2, <2>3, <2>4, <2>5 DEF TypeOK
<1>6. ClaimInv'
  BY <1>1, <1>2, <1>3, <1>4
  DEF IInv, TypeOK, CounterType, ClaimInv, faultHistory
<1>7. EpochInv'
  BY <1>2, <1>3, <1>4
  DEF EpochInv, OnlyCurrentEpoch, nothingPending, faultHistory,
      clearNonActiveHistory, clearRetry, lastVars
<1>8. BytesInv'
  BY <1>2, <1>3
  DEF BytesInv, BytesMatch, faultHistory, clearNonActiveHistory, clearRetry
<1> QED
  BY <1>5, <1>6, <1>7, <1>8 DEF IInv

LEMMA AdmitStep ==
  ASSUME IInv, NEW token, CanAdmitInputPresentation(token) PROVE IInv'
<1>1. CASE enterHistoryFault
  BY <1>1, FaultStep
<1>2. CASE /\ claimAdmissionValidated' = TRUE
           /\ UNCHANGED <<queueVars, claimed, claimedData, claimToken,
                          claimSource, claimGeneration,
                          claimRequiresOrderedRecovery, hasClaim, faultVars,
                          baseVars, lastVars, counterVars, issued, encodes>>
  <2>1. TypeOK'
    <3>1. FlagType'
      BY <1>2, Zenon
      DEF IInv, TypeOK, FlagType, queueVars, faultVars, baseVars
    <3> QED
      BY <1>2, <3>1
      DEF IInv, TypeOK, QueueType, ClaimType, BaseType, CounterType, queueVars,
          faultVars, baseVars, lastVars, counterVars
  <2>2. ClaimInv'
    BY <1>2 DEF IInv, ClaimInv, counterVars
  <2>3. EpochInv'
    BY <1>2
    DEF IInv, EpochInv, OnlyCurrentEpoch, nothingPending, mustRecover,
        queueVars, faultVars, lastVars, counterVars
  <2>4. BytesInv'
    BY <1>2
    DEF IInv, BytesInv, BytesMatch, nothingPending, queueVars, faultVars,
        lastVars
  <2> QED
    BY <2>1, <2>2, <2>3, <2>4 DEF IInv
<1> QED
  BY Zenon, <1>1, <1>2 DEF CanAdmitInputPresentation

LEMMA CommitStep ==
  ASSUME IInv, NEW token, Commit(token) PROVE IInv'
<1>1. /\ hasClaim /\ claimed \in Entries /\ claimedData = claimed.ordinal
      /\ claimed.producer = producer /\ claimedData \in Nat
  BY DEF IInv, TypeOK, ClaimType, BytesInv, BytesMatch, ClaimInv, Commit,
         claimMatches
<1>2. /\ last' \in Entries /\ last'.producer = producer
      /\ lastData' = last'.ordinal /\ lastData' \in Nat
  BY Zenon, <1>1, EntryOrdered DEF Commit
<1>3. /\ mandatoryNeutralPending' \in BOOLEAN
      /\ mandatoryNeutralEncoded' \in BOOLEAN
      /\ resynchronizationNeeded' \in BOOLEAN
  BY Zenon DEF IInv, TypeOK, FlagType, Commit
<1>4. TypeOK'
  <2>1. FlagType'
    BY <1>3, Zenon
    DEF IInv, TypeOK, FlagType, Commit, clearClaim, queueVars, baseVars
  <2>2. ClaimType'
    BY EntryType DEF Commit, clearClaim, ClaimType
  <2>3. QueueType'
    BY DEF IInv, TypeOK, QueueType, Commit, queueVars
  <2>4. BaseType'
    BY <1>2 DEF IInv, TypeOK, BaseType, Commit, baseVars
  <2>5. CounterType'
    BY DEF IInv, TypeOK, CounterType, Commit, counterVars
  <2> QED
    BY <2>1, <2>2, <2>3, <2>4, <2>5 DEF TypeOK
<1>5. ClaimInv'
  BY DEF IInv, ClaimInv, Commit, clearClaim, counterVars
<1>6. EpochInv'
  <2>1. claimSource = "neutral" <=> mandatoryNeutralPending
    BY <1>1 DEF IInv, EpochInv
  <2>2. UNCHANGED <<queueVars, producer, mandatoryNeutral>> /\ hasClaim' = FALSE
    BY DEF Commit, counterVars, clearClaim
  <2>3. CASE claimSource = "neutral"
    <3>1. nothingPending /\ nothingPending'
      BY <2>1, <2>2, <2>3
      DEF IInv, EpochInv, OnlyCurrentEpoch, nothingPending, queueVars
    <3>2. /\ mandatoryNeutralPending' = FALSE
      BY <2>3 DEF Commit
    <3> QED
      BY <1>2, <2>2, <3>1, <3>2
      DEF IInv, EpochInv, OnlyCurrentEpoch, queueVars
  <2>4. CASE claimSource # "neutral"
    <3>1. UNCHANGED <<mandatoryNeutralPending, resynchronizationNeeded>>
      BY <2>4 DEF Commit
    <3> QED
      BY <1>2, <2>2, <3>1
      DEF IInv, EpochInv, OnlyCurrentEpoch, nothingPending, queueVars
  <2> QED
    BY <2>3, <2>4
<1>7. BytesInv'
  BY <1>2
  DEF IInv, BytesInv, BytesMatch, Commit, clearClaim, queueVars
<1> QED
  BY <1>4, <1>5, <1>6, <1>7 DEF IInv

LEMMA DeferStep ==
  ASSUME IInv, NEW token, Defer(token) PROVE IInv'
<1> DEFINE kept == /\ claimSource # "neutral"
                   /\ \/ mustRecover
                      \/ claimSource # "idle" /\ nothingPending
<1>1. /\ hasClaim /\ claimed \in Entries /\ claimedData = claimed.ordinal
      /\ claimed.producer = producer /\ claimedData \in Nat
  BY DEF IInv, TypeOK, ClaimType, BytesInv, BytesMatch, ClaimInv, Defer,
         claimMatches
<1>2. mustRecover \in BOOLEAN
  BY <1>1 DEF IInv, TypeOK, FlagType, mustRecover, Entries
<1>3. kept => /\ hasRetry' = TRUE /\ retry' \in Entries
              /\ retry'.producer = producer /\ retryData' = retry'.ordinal
              /\ retryData' \in Nat
  BY Zenon, <1>1, <1>2, EntryOrdered DEF Defer
<1>4. ~kept => UNCHANGED <<retry, retryData, hasRetry>>
  BY DEF Defer
<1>5. /\ hasClaim' = FALSE
      /\ UNCHANGED <<journal, latest, hasLatest, faultVars, baseVars, lastVars,
                     counterVars, issued, encodes>>
  BY DEF Defer, clearClaim
<1>6. mandatoryNeutralPending \/ resynchronizationNeeded => ~kept
  BY <1>1 DEF IInv, EpochInv
<1>7. claimSource # "idle" /\ nothingPending => kept \/ mandatoryNeutralPending
  BY <1>1 DEF IInv, EpochInv
<1> HIDE DEF kept
<1>8. TypeOK'
  <2>1. FlagType'
    <3>1. hasRetry' \in BOOLEAN
      BY Zenon, <1>3, <1>4 DEF IInv, TypeOK, FlagType
    <3> QED
      BY <3>1, <1>5, Zenon
      DEF IInv, TypeOK, FlagType, Defer, clearClaim, faultVars, baseVars
  <2>2. ClaimType'
    BY EntryType DEF Defer, clearClaim, ClaimType
  <2>3. QueueType'
    BY <1>3, <1>4, <1>5 DEF IInv, TypeOK, QueueType
  <2>4. BaseType'
    BY <1>5 DEF IInv, TypeOK, BaseType, baseVars, lastVars, faultVars
  <2>5. CounterType'
    BY <1>5 DEF IInv, TypeOK, CounterType, counterVars
  <2> QED
    BY <2>1, <2>2, <2>3, <2>4, <2>5 DEF TypeOK
<1>9. ClaimInv'
  BY <1>5 DEF IInv, ClaimInv, counterVars
<1>10. EpochInv'
  BY <1>3, <1>4, <1>5, <1>6
  DEF IInv, EpochInv, OnlyCurrentEpoch, nothingPending, faultVars, lastVars,
      counterVars
<1>11. BytesInv'
  <2>1. hasRetry' => retryData' = retry'.ordinal
    BY Zenon, <1>3, <1>4 DEF IInv, BytesInv
  <2>2. \/ lastData = last.ordinal
        \/ ~nothingPending \/ mandatoryNeutralPending \/ kept
    BY <1>7 DEF IInv, BytesInv
  <2>3. ~nothingPending \/ kept => ~nothingPending'
    BY <1>3, <1>4, <1>5 DEF nothingPending
  <2> QED
    BY <1>5, <2>1, <2>2, <2>3 DEF BytesInv, BytesMatch, lastVars, faultVars
<1> QED
  BY <1>8, <1>9, <1>10, <1>11 DEF IInv

LEMMA RetireStep ==
  ASSUME IInv, NEW state \in States, retireCurrentGeneration(state)
  PROVE  IInv'
<1> DEFINE current == [NoEntry EXCEPT !.state = state,
                         !.ordinal = nextOrdinal + 1,
                         !.producer = producer + 1, !.floor = nextOrdinal + 1]
<1>1. nextOrdinal + 1 \in Nat /\ producer + 1 \in Nat /\ generation + 1 \in Nat
  BY DEF IInv, TypeOK, CounterType
<1>2. current \in Entries /\ current.producer = producer + 1
  BY Zenon, <1>1 DEF NoEntry, Entries
<1>3. /\ latest' = current /\ last' = current /\ hasLatest' = TRUE
      /\ producer' = producer + 1
  BY DEF retireCurrentGeneration
<1> HIDE DEF current
<1>4. TypeOK'
  <2>1. FlagType'
    BY Zenon DEF retireCurrentGeneration, clearRetry, clearClaim, FlagType
  <2>2. QueueType'
    BY <1>2, <1>3, SchedulerConstants, EntryType
    DEF retireCurrentGeneration, clearRetry, QueueType
  <2>3. ClaimType'
    BY EntryType DEF retireCurrentGeneration, clearClaim, ClaimType
  <2>4. BaseType'
    BY <1>1, <1>2, <1>3, EntryType DEF retireCurrentGeneration, BaseType
  <2>5. CounterType'
    BY <1>1 DEF IInv, TypeOK, CounterType, retireCurrentGeneration
  <2> QED
    BY <2>1, <2>2, <2>3, <2>4, <2>5 DEF TypeOK
<1>5. ClaimInv'
  BY DEF IInv, ClaimInv, retireCurrentGeneration, clearClaim
<1>6. EpochInv'
  BY <1>2, <1>3
  DEF EpochInv, OnlyCurrentEpoch, retireCurrentGeneration, clearRetry,
      clearClaim
<1>7. BytesInv'
  BY <1>3
  DEF BytesInv, BytesMatch, nothingPending, retireCurrentGeneration,
      clearRetry, clearClaim
<1> QED
  BY <1>4, <1>5, <1>6, <1>7 DEF IInv

LEMMA StutterStep == ASSUME IInv, UNCHANGED vars PROVE IInv'
<1> USE DEF vars, queueVars, claimVars, faultVars, baseVars, lastVars, counterVars
<1>1. TypeOK'
  <2>1. FlagType'
    BY Zenon DEF IInv, TypeOK, FlagType
  <2> QED
    BY <2>1 DEF IInv, TypeOK, QueueType, ClaimType, BaseType, CounterType
<1>2. ClaimInv'
  BY DEF IInv, ClaimInv
<1>3. EpochInv'
  BY DEF IInv, EpochInv, OnlyCurrentEpoch, nothingPending, mustRecover
<1>4. BytesInv'
  BY DEF IInv, BytesInv, BytesMatch, nothingPending
<1> QED
  BY <1>1, <1>2, <1>3, <1>4 DEF IInv

LEMMA NextStep == ASSUME IInv, [Next]_vars PROVE IInv'
<1>1. CASE UNCHANGED vars
  BY <1>1, StutterStep
<1>2. CASE Produce
  BY <1>2, PublishStep, ResynchronizeStep, FaultStep
  DEF Produce, RetireProducerLease
<1>3. (IF hasPrevious THEN previous ELSE Neutral) \in States
  BY SchedulerConstants DEF IInv, TypeOK, BaseType
<1>4. CASE Present
  BY <1>3, <1>4, ClaimStep, ClaimFaultStep, AdmitStep, CommitStep, DeferStep,
     FaultStep, RetireStep
  DEF Present, ResolveTooOld, Retire
<1>5. CASE Lifecycle
  BY <1>3, <1>5, RetireStep
  DEF Lifecycle, RetireInputPresentationGeneration,
      RetireInputPresentationGenerationWithBaseline
<1> QED
  BY <1>1, <1>2, <1>4, <1>5 DEF Next

(* IInv holds in every reachable state of the scheduler: after every       *)
(* publication, claim, resolution, fault and retirement.                   *)
THEOREM SchedulerInvariance == Spec => []IInv
<1>1. Init => IInv
  BY InitIInv
<1>2. IInv /\ [Next]_vars => IInv'
  BY NextStep
<1> QED
  BY <1>1, <1>2, PTL DEF Spec

(* The scheduler keeps to its types, and publishLocked never overfills the *)
(* journal, promotion of the continuous state included.                    *)
THEOREM SchedulerTypeCorrect == Spec => []TypeOK
<1>1. IInv => TypeOK
  BY DEF IInv
<1> QED
  BY <1>1, SchedulerInvariance, PTL

(* A claim given out by ClaimInputPresentation always matches itself, so   *)
(* CanAdmitInputPresentation and ResolveInputPresentation can end it.      *)
THEOREM SourceNeverWedged == Spec => []NeverWedged
<1>1. IInv => NeverWedged
  BY DEF IInv, ClaimInv, NeverWedged, claimMatches
<1> QED
  BY <1>1, SchedulerInvariance, PTL

(* No work of a revoked producer lease survives a history fault or a       *)
(* retirement, and nothing is queued beside an owed neutral.               *)
THEOREM EpochsSeparated == Spec => []OnlyCurrentEpoch
<1>1. IInv => OnlyCurrentEpoch
  BY DEF IInv, EpochInv
<1> QED
  BY <1>1, SchedulerInvariance, PTL

(* The bytes given out with a claim are those of the state it claims; the  *)
(* image cleared by a retirement is never given out as an idle report.     *)
THEOREM ClaimBytesSound == Spec => []BytesMatch
<1>1. IInv => BytesMatch
  BY DEF IInv, BytesInv
<1> QED
  BY <1>1, SchedulerInvariance, PTL
=============================================================================
