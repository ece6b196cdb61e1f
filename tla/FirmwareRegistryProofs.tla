----------------------- MODULE FirmwareRegistryProofs -----------------------
(***************************************************************************)
(* The firmware registry, for any versions, devices and bounds: its types,  *)
(* how failures are counted, what becomes of an offer, and that the loop of *)
(* reconcile() and its closed form are one.                                 *)
(***************************************************************************)
EXTENDS ReconcileLoop, FiniteSetTheorems, WellFoundedInduction, TLAPS

(* A bounded set of naturals has a greatest element.                        *)
LEMMA Greatest ==
    ASSUME NEW S \in SUBSET Nat, S # {}, NEW n \in Nat, \A s \in S : s <= n
    PROVE  \E m \in S : \A s \in S : s <= m
<1> DEFINE T == {k \in Nat : \E s \in S : k = n - s}
<1>1. T # {}
    <2>1. PICK s \in S : TRUE
        OBVIOUS
    <2>2. n - s \in T
        BY <2>1
    <2> QED BY <2>2
<1>2. PICK k \in T : \A j \in T : ~(<<j, k>> \in OpToRel(<, Nat))
    <2>1. T \subseteq Nat
        OBVIOUS
    <2> HIDE DEF T
    <2> QED BY <1>1, <2>1, WFMin, NatLessThanWellFounded
<1>3. \A j \in T : k <= j
    <2>1. T \subseteq Nat
        OBVIOUS
    <2> HIDE DEF T
    <2> SUFFICES ASSUME NEW j \in T PROVE k <= j
        OBVIOUS
    <2>2. <<j, k>> \notin {ss \in Nat \X Nat : ss[1] < ss[2]}
        BY <1>2 DEF OpToRel
    <2>3. j \in Nat /\ k \in Nat
        BY <2>1, <1>2
    <2>4. ~(j < k)
        BY <2>2, <2>3
    <2> QED BY <2>3, <2>4
<1>4. PICK m \in S : k = n - m
    OBVIOUS
<1>5. ASSUME NEW s \in S PROVE s <= m
    <2>1. n - s \in T
        OBVIOUS
    <2>2. n - m <= n - s
        BY <1>3, <1>4, <2>1
    <2> QED BY <2>2
<1> QED BY <1>5

-----------------------------------------------------------------------------
(* Type correctness is not inductive alone: the newest event and the next   *)
(* number exist because the events are finitely many and numbered below     *)
(* next_seq.  A schedule always names a version that can be published, and  *)
(* failures are only counted while there is one.                            *)
RegInv ==
    /\ RegTypeOK
    /\ \A e \in events : e.seq <= nextSeq
    /\ schedule # NoSchedule => schedule.version \in Versions /\ schedule.id # 0
    /\ schedule = NoSchedule => tally = 0 /\ lost = 0

USE DEF NoVersion, NoSchedule, NoResult, NoOutcome, Reported, Counted, Tokens, Event

LEMMA NumbersBounded ==
    ASSUME RegInv
    PROVE  /\ HighestSeq \in Nat
           /\ nextSeq <= HighestSeq /\ reconciled <= HighestSeq
           /\ \A e \in events : e.seq <= HighestSeq
<1> DEFINE S == {nextSeq, reconciled} \cup {e.seq : e \in events}
<1>1. nextSeq \in Nat /\ reconciled \in Nat /\ \A e \in events : e.seq \in Nat
    BY DEF RegInv, RegTypeOK
<1>2. PICK m \in S : \A s \in S : s <= m
    <2>1. CASE nextSeq <= reconciled
        <3>1. \A s \in S : s <= reconciled
            BY <1>1, <2>1 DEF RegInv
        <3> QED BY <3>1
    <2>2. CASE reconciled <= nextSeq
        <3>1. \A s \in S : s <= nextSeq
            BY <1>1, <2>2 DEF RegInv
        <3> QED BY <3>1
    <2> QED BY <1>1, <2>1, <2>2
<1>3. HighestSeq \in S /\ \A s \in S : s <= HighestSeq
    BY <1>2 DEF HighestSeq
<1> QED BY <1>1, <1>3

LEMMA LatestIsThere ==
    ASSUME RegInv, NEW evs \in SUBSET events, evs # {}
    PROVE  Latest(evs) \in evs /\ \A f \in evs : f.seq <= Latest(evs).seq
<1> DEFINE S == {e.seq : e \in evs}
<1>1. S \in SUBSET Nat /\ S # {} /\ nextSeq \in Nat /\ \A s \in S : s <= nextSeq
    BY DEF RegInv, RegTypeOK
<1>2. PICK m \in S : \A s \in S : s <= m
    <2> HIDE DEF S
    <2> QED BY <1>1, Greatest
<1>3. \E e \in evs : \A f \in evs : f.seq <= e.seq
    BY <1>2
<1> QED BY <1>3 DEF Latest

LEMMA Countable ==
    ASSUME NEW evs, IsFiniteSet(evs), NEW sub \in SUBSET evs
    PROVE  IsFiniteSet(sub) /\ Cardinality(sub) \in Nat
BY FS_Subset, FS_CardinalityType

(* What a poll adds: numbered above everything so far, and no higher than   *)
(* what the report then says is used.                                       *)
LEMMA PollWrites ==
    ASSUME RegInv, NEW d \in Devices, NEW r \in Results, NEW offer \in BOOLEAN
    PROVE  /\ Told(d, r, offer) \subseteq Event /\ IsFiniteSet(Told(d, r, offer))
           /\ IsFiniteSet(Said(d, r))
           /\ LastSaid(r) \in Nat /\ nextSeq <= LastSaid(r)
           /\ \A e \in Told(d, r, offer) :
                 e.seq <= LastSaid(r) + IF offer THEN 1 ELSE 0
           /\ events # Told(d, r, offer) => r # NoResult \/ offer
<1>1. /\ HighestSeq \in Nat /\ nextSeq \in Nat /\ nextSeq <= HighestSeq
      /\ events \subseteq Event /\ IsFiniteSet(events)
      /\ \A e \in events : e.seq \in Nat /\ e.seq <= HighestSeq
    BY NumbersBounded DEF RegInv, RegTypeOK
<1>2. LastSaid(r) \in Nat /\ HighestSeq <= LastSaid(r)
    BY <1>1 DEF LastSaid
<1>3. r # NoResult => LastSaid(r) = HighestSeq + 1
    BY DEF LastSaid
<1>4. r # NoResult => ResultEvent(d, r) \in Event /\ ResultEvent(d, r).seq = HighestSeq + 1
    <2> SUFFICES ASSUME r # NoResult PROVE ResultEvent(d, r) \in Event /\ ResultEvent(d, r).seq = HighestSeq + 1
        OBVIOUS
    <2>1. r.token \in Tokens /\ r.version \in Versions
        BY TokensAssumption DEF Results
    <2>2. schedule.id \in Nat
        BY DEF RegInv, RegTypeOK
    <2> QED BY <1>1, <2>1, <2>2 DEF ResultEvent
<1>5. OfferEvent(d, LastSaid(r) + 1) \in Event /\ OfferEvent(d, LastSaid(r) + 1).seq = LastSaid(r) + 1
    <2>1. schedule.id \in Nat /\ schedule.version \in Reported
        BY DEF RegInv, RegTypeOK
    <2> QED BY <1>2, <2>1 DEF OfferEvent
<1>6. /\ Said(d, r) \subseteq Event /\ IsFiniteSet(Said(d, r))
      /\ \A e \in Said(d, r) : e.seq \in Nat /\ e.seq <= LastSaid(r)
    <2>1. CASE r = NoResult
        BY <1>1, <1>2, <2>1 DEF Said
    <2>2. CASE r # NoResult
        <3>1. Said(d, r) = events \cup {ResultEvent(d, r)}
            BY <2>2 DEF Said
        <3>2. IsFiniteSet(Said(d, r))
            BY <1>1, <3>1, FS_AddElement
        <3> QED BY <1>1, <1>2, <1>3, <1>4, <2>2, <3>1, <3>2
    <2> QED BY <2>1, <2>2
<1>7. CASE offer
    <2>1. Told(d, r, offer) = Said(d, r) \cup {OfferEvent(d, LastSaid(r) + 1)}
        BY <1>7 DEF Told
    <2>2. IsFiniteSet(Told(d, r, offer))
        BY <1>6, <2>1, FS_AddElement
    <2>3. \A e \in Told(d, r, offer) : e \in Event /\ e.seq <= LastSaid(r) + 1
        BY <1>2, <1>5, <1>6, <2>1
    <2>4. (IF offer THEN 1 ELSE 0) = 1
        BY <1>7
    <2>5. Told(d, r, offer) \subseteq Event
        BY <2>3
    <2>6. nextSeq <= LastSaid(r)
        BY <1>1, <1>2
    <2> HIDE DEF Event
    <2> QED BY <1>2, <1>6, <1>7, <2>2, <2>3, <2>4, <2>5, <2>6
<1>8. CASE ~offer
    <2>1. Told(d, r, offer) = Said(d, r)
        BY <1>8 DEF Told
    <2>2. events # Said(d, r) => r # NoResult
        BY DEF Said
    <2> QED BY <1>1, <1>2, <1>6, <1>8, <2>1, <2>2
<1> QED BY <1>7, <1>8

LEMMA RegInvInit == RegInit => RegInv
<1> SUFFICES ASSUME RegInit PROVE RegInv
    OBVIOUS
<1>1. IsFiniteSet(events)
    BY FS_EmptySet DEF RegInit
<1> QED BY <1>1 DEF RegInit, RegInv, RegTypeOK

LEMMA PollKeeps ==
    ASSUME RegInv, NEW d \in Devices, NEW f \in Reported, NEW r \in Results,
           NEW low \in BOOLEAN, NEW offer \in BOOLEAN, Poll(d, f, r, low, offer)
    PROVE  RegInv'
<1>1. /\ nextSeq' = Polled(d, f, r, offer).nextSeq
      /\ fw' = Polled(d, f, r, offer).fw
      /\ events' = Polled(d, f, r, offer).events
      /\ tally' = tally + Cardinality(Failures(Said(d, r)) \ Failures(events))
      /\ lost' = lost + Cardinality(Unreconciled(Failures(Said(d, r))) \ events')
      /\ UNCHANGED <<releases, schedule, reconciled, outcome, issued>>
    BY DEF Poll, registry
<1>2. nextSeq \in Nat /\ fw \in [Devices -> Reported] /\ tally \in Nat /\ lost \in Nat
    BY DEF RegInv, RegTypeOK
<1>3. fw' \in [Devices -> Reported]
    BY <1>1, <1>2 DEF Polled, Running
<1>4. events' \subseteq Told(d, r, offer)
    BY <1>1 DEF Polled, Newest
<1>5. events' \subseteq Event /\ IsFiniteSet(events')
    BY <1>4, PollWrites, FS_Subset
<1>6. nextSeq' \in Nat /\ \A e \in events' : e.seq <= nextSeq'
    <2>1. CASE f = NoVersion /\ r = NoResult /\ ~offer
        <3>1. nextSeq' = nextSeq
            BY <1>1, <2>1 DEF Polled
        <3>2. Told(d, r, offer) = events
            BY <2>1, PollWrites
        <3> QED BY <1>2, <1>4, <3>1, <3>2 DEF RegInv
    <2>2. CASE ~(f = NoVersion /\ r = NoResult /\ ~offer)
        <3>1. nextSeq' = LastSaid(r) + IF offer THEN 1 ELSE 0
            BY <1>1, <2>2 DEF Polled
        <3>2. (IF offer THEN 1 ELSE 0) \in Nat
            OBVIOUS
        <3>3. LastSaid(r) \in Nat
            BY PollWrites
        <3>4. \A e \in events' : e.seq <= nextSeq'
            BY <1>4, <3>1, PollWrites
        <3> QED BY <3>1, <3>2, <3>3, <3>4
    <2> QED BY <2>1, <2>2
<1>7. tally' \in Nat /\ lost' \in Nat
    <2>1. IsFiniteSet(Said(d, r))
        BY PollWrites
    <2>2. Cardinality(Failures(Said(d, r)) \ Failures(events)) \in Nat
        BY <2>1, Countable DEF Failures
    <2>3. Cardinality(Unreconciled(Failures(Said(d, r))) \ events') \in Nat
        BY <2>1, Countable DEF Failures, Unreconciled
    <2> QED BY <1>1, <1>2, <2>2, <2>3
<1>8. schedule = NoSchedule => tally' = 0 /\ lost' = 0
    <2> SUFFICES ASSUME schedule = NoSchedule PROVE tally' = 0 /\ lost' = 0
        OBVIOUS
    <2>1. Failures(Said(d, r)) \ Failures(events) = {}
          /\ Unreconciled(Failures(Said(d, r))) \ events' = {}
        BY DEF Failures, Unreconciled
    <2>2. Cardinality({}) = 0
        BY FS_EmptySet
    <2> HIDE DEF NoSchedule
    <2> QED BY <1>1, <1>2, <2>1, <2>2 DEF RegInv
<1> QED BY <1>1, <1>3, <1>5, <1>6, <1>7, <1>8 DEF RegInv, RegTypeOK

LEMMA LoseReportKeeps == RegInv /\ LoseReport => RegInv'
<1> SUFFICES ASSUME RegInv, LoseReport PROVE RegInv'
    OBVIOUS
<1>1. Cardinality(Unreconciled(Failures(events))) \in Nat
    BY Countable DEF RegInv, RegTypeOK, Unreconciled, Failures
<1>2. IsFiniteSet(events')
    BY FS_EmptySet DEF LoseReport
<1>3. schedule = NoSchedule => lost' = 0
    <2> SUFFICES ASSUME schedule = NoSchedule PROVE lost' = 0
        OBVIOUS
    <2>1. Unreconciled(Failures(events)) = {}
        BY DEF Failures, Unreconciled
    <2>2. Cardinality({}) = 0
        BY FS_EmptySet
    <2> HIDE DEF NoSchedule
    <2> QED BY <2>1, <2>2 DEF LoseReport, RegInv
<1> QED BY <1>1, <1>2, <1>3 DEF LoseReport, RegInv, RegTypeOK, registry

LEMMA ReconcileKeeps == RegInv /\ Reconcile => RegInv'
<1> SUFFICES ASSUME RegInv, Reconcile PROVE RegInv'
    OBVIOUS
<1>1. /\ reconciled' = Latest(events).seq /\ schedule' = ReconciledSchedule
      /\ outcome' = ReconciledOutcome /\ tally' \in {tally, 0} /\ lost' \in {lost, 0}
      /\ UNCHANGED <<releases, nextSeq, fw, events, issued>>
    BY DEF Reconcile, report
<1>2. RegTypeOK
    BY DEF RegInv
<1>3. reconciled' \in Nat
    <2>1. events # {}
        BY DEF Reconcile, Unreconciled
    <2>2. Latest(events) \in events
        BY <2>1, LatestIsThere
    <2> QED BY <1>1, <1>2, <2>2 DEF RegTypeOK
<1>4. outcome' \in [kind : {"none", "installed", "rollback", "failed"}, version : Reported]
    <2>1. CASE Telling = {}
        BY <1>1, <1>2, <2>1 DEF ReconciledOutcome, RegTypeOK
    <2>2. CASE Telling # {}
        <3>1. Latest(Telling) \in events
            BY <2>2, LatestIsThere DEF Telling, Pending, Unreconciled
        <3>2. Latest(Telling).version \in Reported
            BY <1>2, <3>1 DEF RegTypeOK
        <3>3. Verdict(Latest(Telling)) \in {"none", "installed", "rollback", "failed"}
            BY DEF Verdict
        <3> QED BY <1>1, <2>2, <3>2, <3>3 DEF ReconciledOutcome
    <2> QED BY <2>1, <2>2
<1>5. /\ schedule' = NoSchedule \/ (/\ schedule # NoSchedule
                                    /\ schedule' \in [id : {schedule.id}, version : {schedule.version},
                                                       state : {schedule.state, "failed"}, attempts : Nat])
    <2> DEFINE by == Cardinality({e \in Own : e.token \in Counted})
    <2>1. by \in Nat
        BY <1>2, Countable DEF Own, Pending, Unreconciled, RegTypeOK
    <2>2. schedule \in [id : Nat, version : Reported,
                        state : {"none", "scheduled", "failed"}, attempts : Nat]
        BY <1>2 DEF RegTypeOK
    <2> DEFINE n == schedule.attempts + by
    <2>3. n \in Nat
        BY <2>1, <2>2
    <2>4. schedule' = IF schedule = NoSchedule \/ Installs # {} THEN NoSchedule
                      ELSE [schedule EXCEPT !.attempts = n,
                              !.state = IF n > schedule.attempts /\ n >= MaxAttempts
                                          THEN "failed" ELSE @]
        BY <1>1 DEF ReconciledSchedule
    <2> HIDE DEF n
    <2> QED BY <2>2, <2>3, <2>4
<1>6. schedule' \in [id : Nat, version : Reported,
                     state : {"none", "scheduled", "failed"}, attempts : Nat]
      /\ schedule'.id <= issued' /\ (schedule'.state = "none" => schedule' = NoSchedule)
      /\ (schedule' # NoSchedule => schedule'.version \in Versions /\ schedule'.id # 0)
    BY <1>1, <1>2, <1>5 DEF RegTypeOK, RegInv
<1>7. tally' \in Nat /\ lost' \in Nat
    BY <1>1, <1>2 DEF RegTypeOK
<1>8. schedule' = NoSchedule => tally' = 0 /\ lost' = 0
    BY DEF Reconcile
<1> QED BY <1>1, <1>2, <1>3, <1>4, <1>6, <1>7, <1>8 DEF RegTypeOK, RegInv

LEMMA OperatorKeeps == RegInv /\ Operator => RegInv'
<1> SUFFICES ASSUME RegInv, Operator PROVE RegInv'
    OBVIOUS
<1>1. ASSUME NEW v \in Versions, NEW kind \in Kinds, Publish(v, kind) PROVE RegInv'
    <2>1. releases' \in [Versions -> {"absent", "ci", "bench"}]
        BY <1>1, LimitsAssumption DEF Publish, RegInv, RegTypeOK
    <2>2. UNCHANGED <<schedule, reconciled, outcome, nextSeq, fw, events, issued, tally, lost>>
        BY <1>1 DEF Publish, report, history
    <2> QED BY <2>1, <2>2 DEF RegInv, RegTypeOK
<1>2. ASSUME NEW v \in Versions, NEW running \in Reported, Schedule(v, running) PROVE RegInv'
    BY <1>2, VersionsAssumption DEF Schedule, RegInv, RegTypeOK, report
<1>3. CASE Cancel
    BY <1>3 DEF Cancel, RegInv, RegTypeOK, report
<1> QED BY <1>1, <1>2, <1>3 DEF Operator

LEMMA RegInvStep == RegInv /\ [RegNext]_regVars => RegInv'
<1> SUFFICES ASSUME RegInv, [RegNext]_regVars PROVE RegInv'
    OBVIOUS
<1>1. CASE RegNext
    BY <1>1, PollKeeps, LoseReportKeeps, ReconcileKeeps, OperatorKeeps DEF RegNext
<1>2. CASE UNCHANGED regVars
    BY <1>2 DEF RegInv, RegTypeOK, regVars, registry, report, history
<1> QED BY <1>1, <1>2

(* The registry's documents and the histories kept of them have their type  *)
(* in every reachable state (firmware_registry.py, byos_server.py).         *)
THEOREM RegTypeCorrect == RegSpec => []RegTypeOK
<1>1. RegInv => RegTypeOK
    BY DEF RegInv
<1> QED BY <1>1, RegInvInit, RegInvStep, PTL DEF RegSpec

(* An offer is of the schedule that stands, and the step that makes it      *)
(* leaves the schedule alone (_record_device_report_and_offer()).           *)
THEOREM OffersStand == RegSpec => OfferedIsScheduled
<1> DEFINE Standing == \A e \in events' \ events :
                          e.kind = "offered" => e.id = schedule.id /\ schedule' = schedule
<1>1. ASSUME NEW d \in Devices, NEW f \in Reported, NEW r \in Results,
             NEW low \in BOOLEAN, NEW offer \in BOOLEAN, Poll(d, f, r, low, offer)
      PROVE  Standing
    <2>1. events' \subseteq Told(d, r, offer) /\ schedule' = schedule
        BY <1>1 DEF Poll, Polled, Newest, registry
    <2>2. \A e \in Told(d, r, offer) \ events :
              e = ResultEvent(d, r) \/ e = OfferEvent(d, LastSaid(r) + 1)
        BY DEF Told, Said
    <2>3. ResultEvent(d, r).kind = "result" /\ \A n : OfferEvent(d, n).id = schedule.id
        BY DEF ResultEvent, OfferEvent
    <2> QED BY <2>1, <2>2, <2>3
<1>2. RegNext => Standing
    BY <1>1 DEF RegNext, Operator, Publish, Schedule, Cancel, LoseReport, Reconcile, report
<1>3. [RegNext]_regVars => [Standing]_regVars
    BY <1>2
<1> QED BY <1>3, PTL DEF RegSpec, OfferedIsScheduled
-----------------------------------------------------------------------------
(* Counting.  A schedule's number is new, so that no old event can be taken *)
(* for one of its failures; a recorded result is numbered above what is     *)
(* reconciled, so that it is counted, and reconciling counts all there are. *)

CountInv ==
    /\ RegInv
    /\ \A e \in events : e.id <= issued
    /\ EveryFailureCounts

LEMMA PartsAddUp ==
    ASSUME NEW S, NEW T, IsFiniteSet(S), IsFiniteSet(T), S \cap T = {}
    PROVE  Cardinality(S \cup T) = Cardinality(S) + Cardinality(T)
<1>1. Cardinality(S \cup T) = Cardinality(S) + Cardinality(T) - Cardinality({})
    BY FS_Union
<1> QED BY <1>1, FS_EmptySet, FS_CardinalityType

LEMMA IdsBounded ==
    RegInv /\ (\A e \in events : e.id <= issued) /\ RegNext => (\A e \in events : e.id <= issued)'
<1> SUFFICES ASSUME RegInv, \A e \in events : e.id <= issued, RegNext
             PROVE  \A e \in events' : e.id <= issued'
    OBVIOUS
<1>1. /\ schedule.id \in Nat /\ schedule.id <= issued /\ issued \in Nat
      /\ \A e \in events : e.id \in Nat
    BY DEF RegInv, RegTypeOK
<1>2. ASSUME NEW d \in Devices, NEW f \in Reported, NEW r \in Results,
             NEW low \in BOOLEAN, NEW offer \in BOOLEAN, Poll(d, f, r, low, offer)
      PROVE  \A e \in events' : e.id <= issued'
    <2>1. events' \subseteq Told(d, r, offer) /\ issued' = issued
        BY <1>2 DEF Poll, Polled, Newest
    <2>2. \A e \in Told(d, r, offer) :
              e \in events \/ e = ResultEvent(d, r) \/ e = OfferEvent(d, LastSaid(r) + 1)
        BY DEF Told, Said
    <2>3. ResultEvent(d, r).id <= issued /\ \A n : OfferEvent(d, n).id <= issued
        BY <1>1 DEF ResultEvent, OfferEvent
    <2> QED BY <2>1, <2>2, <2>3
<1>3. CASE Operator
    BY <1>1, <1>3 DEF Operator, Publish, Schedule, Cancel, report, history
<1>4. CASE LoseReport \/ Reconcile
    BY <1>4 DEF LoseReport, Reconcile, report
<1> QED BY <1>2, <1>3, <1>4 DEF RegNext

LEMMA PollCounts ==
    ASSUME RegInv, EveryFailureCounts, NEW d \in Devices, NEW f \in Reported, NEW r \in Results,
           NEW low \in BOOLEAN, NEW offer \in BOOLEAN, Poll(d, f, r, low, offer)
    PROVE  EveryFailureCounts'
<1> SUFFICES ASSUME schedule # NoSchedule
             PROVE  tally' = schedule.attempts
                      + Cardinality({e \in events' : /\ e.id = schedule.id /\ e.kind = "result"
                                                     /\ e.token \in Counted /\ e.seq > reconciled})
                      + lost'
    <2>1. schedule' = schedule /\ reconciled' = reconciled
        BY DEF Poll, registry
    <2> HIDE DEF Counted, NoSchedule
    <2> QED BY <2>1 DEF EveryFailureCounts, Failures, Unreconciled
<1> DEFINE said == Unreconciled(Failures(Said(d, r)))
           old == Unreconciled(Failures(events))
           new == Failures(Said(d, r)) \ Failures(events)
           kept == {e \in events' : /\ e.id = schedule.id /\ e.kind = "result"
                                    /\ e.token \in Counted /\ e.seq > reconciled}
           gone == said \ events'
<1>1. /\ tally' = tally + Cardinality(new) /\ lost' = lost + Cardinality(gone)
      /\ events' \subseteq Told(d, r, offer)
    BY DEF Poll, Polled, Newest
<1>2. IsFiniteSet(Said(d, r)) /\ IsFiniteSet(events)
    BY PollWrites DEF RegInv, RegTypeOK
<1>3. said = old \cup new /\ old \cap new = {}
    <2>1. \A e \in Said(d, r) \ events : e.seq > reconciled
        <3>1. HighestSeq \in Nat /\ reconciled \in Nat /\ reconciled <= HighestSeq
            BY NumbersBounded DEF RegInv, RegTypeOK
        <3>2. ResultEvent(d, r).seq = HighestSeq + 1
            BY DEF ResultEvent
        <3>3. \A e \in Said(d, r) \ events : e = ResultEvent(d, r)
            BY DEF Said
        <3> QED BY <3>1, <3>2, <3>3
    <2>2. events \subseteq Said(d, r)
        BY DEF Said
    <2> QED BY <2>1, <2>2 DEF Failures, Unreconciled
<1>4. said = kept \cup gone /\ kept \cap gone = {}
    <2>1. \A e \in Told(d, r, offer) \ Said(d, r) : e.kind = "offered"
        BY DEF Told, OfferEvent
    <2>2. kept \subseteq said
        BY <1>1, <2>1 DEF Failures, Unreconciled
    <2>3. said \cap events' \subseteq kept
        BY DEF Failures, Unreconciled
    <2> QED BY <2>2, <2>3
<1>5. IsFiniteSet(old) /\ IsFiniteSet(new) /\ IsFiniteSet(kept) /\ IsFiniteSet(gone)
    <2>1. IsFiniteSet(said)
        BY <1>2, Countable DEF Failures, Unreconciled
    <2>2. old \subseteq said /\ new \subseteq said /\ kept \subseteq said /\ gone \subseteq said
        BY <1>3, <1>4
    <2> HIDE DEF said, old, new, kept, gone
    <2> QED BY <2>1, <2>2, FS_Subset
<1>6. Cardinality(old) + Cardinality(new) = Cardinality(kept) + Cardinality(gone)
    <2> HIDE DEF said, old, new, kept, gone
    <2> QED BY <1>3, <1>4, <1>5, PartsAddUp
<1>7. /\ Cardinality(old) \in Nat /\ Cardinality(new) \in Nat
      /\ Cardinality(kept) \in Nat /\ Cardinality(gone) \in Nat
    <2> HIDE DEF old, new, kept, gone
    <2> QED BY <1>5, FS_CardinalityType
<1>8. /\ tally = schedule.attempts + Cardinality(old) + lost
      /\ schedule.attempts \in Nat /\ lost \in Nat
    BY DEF EveryFailureCounts, RegInv, RegTypeOK
<1> HIDE DEF old, new, kept, gone
<1>9. tally' = schedule.attempts + Cardinality(kept) + lost'
    BY <1>1, <1>6, <1>7, <1>8
<1> QED BY <1>9 DEF kept

LEMMA OthersCount ==
    RegInv /\ (\A e \in events : e.id <= issued) /\ EveryFailureCounts
        /\ (Operator \/ LoseReport \/ Reconcile) => EveryFailureCounts'
<1> SUFFICES ASSUME RegInv, \A e \in events : e.id <= issued, EveryFailureCounts,
                    Operator \/ LoseReport \/ Reconcile
             PROVE  EveryFailureCounts'
    OBVIOUS
<1>1. RegTypeOK /\ Cardinality({}) = 0
    BY FS_EmptySet DEF RegInv
<1>2. ASSUME NEW v \in Versions, NEW kind \in Kinds, Publish(v, kind)
      PROVE  EveryFailureCounts'
    BY <1>2 DEF Publish, EveryFailureCounts, Unreconciled, Failures, report, history
<1>3. ASSUME NEW v \in Versions, NEW running \in Reported, Schedule(v, running)
      PROVE  EveryFailureCounts'
    <2>1. schedule'.id = issued + 1 /\ schedule'.attempts = 0 /\ tally' = 0 /\ lost' = 0
          /\ events' = events
        BY <1>3 DEF Schedule, report
    <2>2. \A e \in events : e.id # issued + 1
        BY <1>1 DEF RegTypeOK
    <2>3. Unreconciled(Failures(events))' = {}
        BY <2>1, <2>2 DEF Unreconciled, Failures
    <2> QED BY <1>1, <2>1, <2>3 DEF EveryFailureCounts
<1>4. CASE Cancel
    BY <1>4 DEF Cancel, EveryFailureCounts
<1>5. CASE LoseReport
    <2>1. Unreconciled(Failures(events))' = {}
        BY <1>5 DEF LoseReport, Unreconciled, Failures
    <2>2. schedule' = schedule /\ tally' = tally
          /\ lost' = lost + Cardinality(Unreconciled(Failures(events)))
        BY <1>5 DEF LoseReport, registry
    <2>3. Cardinality(Unreconciled(Failures(events))) \in Nat
        BY <1>1, Countable DEF RegTypeOK, Unreconciled, Failures
    <2>4. schedule.attempts \in Nat /\ lost \in Nat
        BY <1>1 DEF RegTypeOK
    <2> HIDE DEF NoSchedule
    <2> QED BY <1>1, <2>1, <2>2, <2>3, <2>4 DEF EveryFailureCounts
<1>6. CASE Reconcile
    <2> SUFFICES ASSUME schedule' # NoSchedule
                 PROVE  tally' = schedule'.attempts + Cardinality(Unreconciled(Failures(events))') + lost'
        BY DEF EveryFailureCounts
    <2> DEFINE mine == {e \in Own : e.token \in Counted}
    <2>1. schedule' = ReconciledSchedule /\ reconciled' = Latest(events).seq /\ events' = events
          /\ tally' = tally /\ lost' = lost
        BY <1>6 DEF Reconcile, report
    <2>2. /\ schedule # NoSchedule
          /\ schedule'.attempts = schedule.attempts + Cardinality(mine)
        <3>1. schedule # NoSchedule /\ Installs = {}
            BY <2>1 DEF ReconciledSchedule
        <3>2. schedule \in [id : Nat, version : Reported,
                            state : {"none", "scheduled", "failed"}, attempts : Nat]
            BY <1>1 DEF RegTypeOK
        <3> DEFINE n == schedule.attempts + Cardinality(mine)
        <3>3. ReconciledSchedule =
                 [schedule EXCEPT !.attempts = n,
                     !.state = IF n > schedule.attempts /\ n >= MaxAttempts THEN "failed" ELSE @]
            BY <3>1 DEF ReconciledSchedule
        <3> HIDE DEF n, NoSchedule
        <3>4. schedule'.attempts = n
            BY <2>1, <3>2, <3>3
        <3> QED BY <3>1, <3>4 DEF n
    <2>3. mine = Unreconciled(Failures(events))
        BY <2>2 DEF Own, Pending, Unreconciled, Failures
    <2>4. events # {}
        BY <1>6 DEF Reconcile, Unreconciled
    <2>5. \A e \in events : e.seq <= Latest(events).seq /\ e.seq \in Nat /\ Latest(events).seq \in Nat
        BY <1>1, <2>4, LatestIsThere DEF RegTypeOK
    <2>6. Unreconciled(Failures(events))' = {}
        BY <2>1, <2>5 DEF Unreconciled, Failures
    <2>7. schedule.attempts \in Nat /\ lost \in Nat /\ Cardinality(mine) \in Nat
        BY <1>1, <2>3, Countable DEF RegTypeOK, Unreconciled, Failures
    <2>8. tally = schedule.attempts + Cardinality(mine) + lost
        BY <2>2, <2>3 DEF EveryFailureCounts
    <2> HIDE DEF mine, NoSchedule
    <2> QED BY <1>1, <2>1, <2>2, <2>6, <2>7, <2>8
<1> QED BY <1>2, <1>3, <1>4, <1>5, <1>6 DEF Operator

LEMMA CountInvStep == CountInv /\ [RegNext]_regVars => CountInv'
<1> SUFFICES ASSUME CountInv, [RegNext]_regVars PROVE CountInv'
    OBVIOUS
<1>1. RegInv'
    BY RegInvStep DEF CountInv
<1>2. CASE RegNext
    <2>1. (\A e \in events : e.id <= issued)'
        BY <1>2, IdsBounded DEF CountInv
    <2>2. EveryFailureCounts'
        BY <1>2, PollCounts, OthersCount DEF CountInv, RegNext
    <2> QED BY <1>1, <2>1, <2>2 DEF CountInv
<1>3. CASE UNCHANGED regVars
    BY <1>1, <1>3 DEF CountInv, EveryFailureCounts, Unreconciled, Failures,
                      regVars, registry, report, history
<1> QED BY <1>2, <1>3

LEMMA CountInvariant == RegSpec => []CountInv
<1>1. RegInit => CountInv
    BY RegInvInit DEF RegInit, CountInv, EveryFailureCounts
<1> QED BY <1>1, CountInvStep, PTL DEF RegSpec

(* Every recorded failure of the schedule is counted once, or lost with the *)
(* report that held it (_next_event_seq, reconcile()).                      *)
THEOREM FailuresCounted == RegSpec => []EveryFailureCounts
<1>1. CountInv => EveryFailureCounts
    BY DEF CountInv
<1> QED BY <1>1, CountInvariant, PTL
-----------------------------------------------------------------------------
(* Offers.  A poll that is answered with one has counted what it reports    *)
(* itself, so that the burst of polls between two reconciles cannot go past *)
(* the limit; and one frame's offer is the newest word on the schedule.     *)

LEMMA SaidFailures ==
    ASSUME RegInv, NEW d \in Devices, NEW r \in Results
    PROVE  /\ Cardinality(Unreconciled(Failures(Said(d, r)))) =
                Cardinality(Unreconciled(Failures(events)))
                  + Cardinality(Failures(Said(d, r)) \ Failures(events))
           /\ Cardinality(Unreconciled(Failures(events))) \in Nat
           /\ Cardinality(Failures(Said(d, r)) \ Failures(events)) \in Nat
<1> DEFINE said == Unreconciled(Failures(Said(d, r)))
           old == Unreconciled(Failures(events))
           new == Failures(Said(d, r)) \ Failures(events)
<1>1. said = old \cup new /\ old \cap new = {}
    <2>1. \A e \in Said(d, r) \ events : e.seq > reconciled
        <3>1. HighestSeq \in Nat /\ reconciled \in Nat /\ reconciled <= HighestSeq
            BY NumbersBounded DEF RegInv, RegTypeOK
        <3>2. \A e \in Said(d, r) \ events : e.seq = HighestSeq + 1
            BY DEF Said, ResultEvent
        <3> QED BY <3>1, <3>2
    <2>2. events \subseteq Said(d, r)
        BY DEF Said
    <2> QED BY <2>1, <2>2 DEF Failures, Unreconciled
<1>2. IsFiniteSet(old) /\ IsFiniteSet(new)
    <2>1. IsFiniteSet(Said(d, r))
        BY PollWrites
    <2>2. old \subseteq Said(d, r) /\ new \subseteq Said(d, r)
        BY DEF Failures, Unreconciled, Said
    <2> HIDE DEF old, new
    <2> QED BY <2>1, <2>2, FS_Subset
<1> HIDE DEF said, old, new
<1>3. Cardinality(said) = Cardinality(old) + Cardinality(new)
    BY <1>1, <1>2, PartsAddUp
<1>4. Cardinality(old) \in Nat /\ Cardinality(new) \in Nat
    BY <1>2, FS_CardinalityType
<1> QED BY <1>3, <1>4 DEF said, old, new

LEMMA OffersLeaveAttempts ==
    ASSUME CountInv, IsFiniteSet(Devices), Cardinality(Devices) = 1, lost = 0,
           NEW d \in Devices, NEW f \in Reported, NEW r \in Results,
           NEW low \in BOOLEAN, NEW offer \in BOOLEAN, Poll(d, f, r, low, offer),
           NEW e \in events' \ events, e.kind = "offered"
    PROVE  tally' < MaxAttempts
<1> DEFINE said == Unreconciled(Failures(Said(d, r)))
<1>1. offer
    <2>1. events' \subseteq Told(d, r, offer)
        BY DEF Poll, Polled, Newest
    <2>2. \A x \in Said(d, r) \ events : x.kind = "result"
        BY DEF Said, ResultEvent
    <2> QED BY <2>1, <2>2 DEF Told
<1>2. schedule # NoSchedule /\ schedule.attempts + Cardinality({x \in said : x.dev = d}) < MaxAttempts
    <2>1. Offered(d, Running(d, f), low, Said(d, r))
        BY <1>1 DEF Poll
    <2>2. schedule # NoSchedule
        BY <2>1 DEF Offered
    <2> QED BY <2>1, <2>2 DEF Offered
<1>3. {x \in said : x.dev = d} = said
    <2>1. PICK only : Devices = {only}
        BY FS_Singleton
    <2>2. Said(d, r) \subseteq Told(d, r, offer) /\ Told(d, r, offer) \subseteq Event
        BY PollWrites DEF CountInv, Told
    <2>3. \A x \in said : x.dev \in Devices
        BY <2>2 DEF Unreconciled, Failures
    <2> QED BY <2>1, <2>3
<1>4. tally' = tally + Cardinality(Failures(Said(d, r)) \ Failures(events))
    BY DEF Poll
<1>5. tally = schedule.attempts + Cardinality(Unreconciled(Failures(events))) + lost
    <2> HIDE DEF NoSchedule
    <2> QED BY <1>2 DEF CountInv, EveryFailureCounts
<1>6. tally' = schedule.attempts + Cardinality(said)
    <2>1. schedule.attempts \in Nat
        BY DEF CountInv, RegInv, RegTypeOK
    <2> QED BY <1>4, <1>5, <2>1, SaidFailures DEF CountInv
<1> HIDE DEF said
<1> QED BY <1>2, <1>3, <1>6

(* With one frame, no offer is made once the failures recorded reach the    *)
(* limit, whether they have been reconciled or not (compute_offer()).       *)
THEOREM OffersEnd ==
    ASSUME IsFiniteSet(Devices)
    PROVE  RegSpec => OffersStop
<1> DEFINE Within == \A e \in events' \ events :
                        e.kind = "offered" /\ lost = 0 /\ Cardinality(Devices) = 1
                            => tally' < MaxAttempts
<1>1. CountInv /\ RegNext => Within
    <2>1. Operator \/ LoseReport \/ Reconcile => events' \subseteq events
        BY DEF Operator, Publish, Schedule, Cancel, LoseReport, Reconcile, report
    <2>2. ASSUME CountInv, NEW d \in Devices, NEW f \in Reported, NEW r \in Results,
                 NEW low \in BOOLEAN, NEW offer \in BOOLEAN, Poll(d, f, r, low, offer)
          PROVE  Within
        BY <2>2, OffersLeaveAttempts
    <2> QED BY <2>1, <2>2 DEF RegNext
<1>2. CountInv /\ [RegNext]_regVars => [Within]_regVars
    BY <1>1
<1> QED BY <1>2, CountInvariant, PTL DEF RegSpec, OffersStop

LEMMA OfferAcknowledges ==
    ASSUME RegInv, \A d, e \in Devices : d = e, NEW d \in Devices,
           {e \in ForSchedule(schedule.id) : e.dev = d} # {},
           Latest({e \in ForSchedule(schedule.id) : e.dev = d}).kind = "offered"
    PROVE  Acknowledged
<1> DEFINE own == {e \in ForSchedule(schedule.id) : e.dev = d}
<1>1. own = ForSchedule(schedule.id) /\ own \in SUBSET events
    <2>1. \A e \in events : e.dev \in Devices
        BY DEF RegInv, RegTypeOK
    <2> QED BY <2>1 DEF ForSchedule
<1> HIDE DEF own
<1>2. Latest(own) \in own /\ \A e \in own : e.seq <= Latest(own).seq
    BY <1>1, LatestIsThere DEF own
<1> QED BY <1>1, <1>2 DEF Acknowledged, own

(* With one frame, the schedule a frame was offered stands until what the   *)
(* frame says of it is reconciled: "from that instant" the operator can no  *)
(* longer cancel or replace it (_record_device_report_and_offer()).         *)
THEOREM OffersAreKept ==
    ASSUME \A d, e \in Devices : d = e
    PROVE  RegSpec => OfferedIsKept
<1> DEFINE KeptNow == \A d \in Devices :
              LET own == {e \in ForSchedule(schedule.id) : e.dev = d}
              IN  schedule.state = "scheduled" /\ own # {} /\ Latest(own).kind = "offered"
                    /\ schedule' # schedule => reconciled' > reconciled
<1>1. ASSUME RegInv, RegNext, NEW d \in Devices, schedule.state = "scheduled",
             {e \in ForSchedule(schedule.id) : e.dev = d} # {},
             Latest({e \in ForSchedule(schedule.id) : e.dev = d}).kind = "offered",
             schedule' # schedule
      PROVE  reconciled' > reconciled
    <2>1. Acknowledged
        BY <1>1, OfferAcknowledges
    <2>2. ~Operator /\ ~LoseReport
        BY <1>1, <2>1 DEF Operator, Publish, Schedule, Cancel, LoseReport, registry
    <2>3. \A e \in Devices, f \in Reported, r \in Results, low \in BOOLEAN, offer \in BOOLEAN :
              ~Poll(e, f, r, low, offer)
        BY <1>1 DEF Poll, registry
    <2>4. Reconcile
        BY <1>1, <2>2, <2>3 DEF RegNext
    <2>5. PICK e \in events : e.seq > reconciled
        BY <2>4 DEF Reconcile, Unreconciled
    <2>6. Latest(events) \in events /\ e.seq <= Latest(events).seq
        BY <1>1, <2>5, LatestIsThere
    <2>7. reconciled \in Nat /\ \A x \in events : x.seq \in Nat
        BY <1>1 DEF RegInv, RegTypeOK
    <2>8. reconciled' = Latest(events).seq
        BY <2>4 DEF Reconcile
    <2> QED BY <2>5, <2>6, <2>7, <2>8
<1>2. RegInv /\ [RegNext]_regVars => [KeptNow]_regVars
    BY <1>1
<1>3. RegSpec => []RegInv
    BY RegInvInit, RegInvStep, PTL DEF RegSpec
<1> QED BY <1>2, <1>3, PTL DEF RegSpec, OfferedIsKept
-----------------------------------------------------------------------------
(* The loop.  What it has made of the document once every event numbered up *)
(* to n has had its turn is the closed form over those events; for this, a  *)
(* number names one event, and a result of the schedule its version.        *)

LoopInv ==
    /\ CountInv
    /\ \A e, f \in events : e.seq = f.seq => e = f
    /\ \A e \in events : schedule # NoSchedule /\ e.id = schedule.id /\ e.kind = "result"
                            => e.version = schedule.version

LEMMA PollNumbers ==
    ASSUME LoopInv, NEW d \in Devices, NEW f \in Reported, NEW r \in Results,
           NEW low \in BOOLEAN, NEW offer \in BOOLEAN, Poll(d, f, r, low, offer)
    PROVE  /\ \A e, g \in events' : e.seq = g.seq => e = g
           /\ \A e \in events' : schedule # NoSchedule /\ e.id = schedule.id /\ e.kind = "result"
                                    => e.version = schedule.version
<1>1. events' \subseteq Told(d, r, offer)
    BY DEF Poll, Polled, Newest
<1>2. /\ HighestSeq \in Nat /\ LastSaid(r) \in Nat
      /\ \A e \in events : e.seq \in Nat /\ e.seq <= HighestSeq
    BY NumbersBounded, PollWrites DEF LoopInv, CountInv, RegInv, RegTypeOK
<1>3. /\ r # NoResult => LastSaid(r) = HighestSeq + 1
      /\ r = NoResult => LastSaid(r) = HighestSeq
    BY <1>2 DEF LastSaid
<1>4. ResultEvent(d, r).seq = HighestSeq + 1
    BY DEF ResultEvent
<1>5. OfferEvent(d, LastSaid(r) + 1).seq = LastSaid(r) + 1
      /\ OfferEvent(d, LastSaid(r) + 1).kind = "offered"
    BY DEF OfferEvent
<1>6. \A e \in Told(d, r, offer) :
          \/ e \in events
          \/ r # NoResult /\ e = ResultEvent(d, r)
          \/ e = OfferEvent(d, LastSaid(r) + 1)
    BY DEF Told, Said
<1>7. schedule # NoSchedule /\ ResultEvent(d, r).id = schedule.id
        => ResultEvent(d, r).version = schedule.version
    BY DEF ResultEvent, LoopInv, CountInv, RegInv
<1>8. ASSUME NEW e \in events', NEW g \in events', e.seq = g.seq
      PROVE  e = g
    <2> HIDE DEF NoResult
    <2> QED BY <1>1, <1>2, <1>3, <1>4, <1>5, <1>6, <1>8 DEF LoopInv
<1>9. ASSUME NEW e \in events', schedule # NoSchedule, e.id = schedule.id, e.kind = "result"
      PROVE  e.version = schedule.version
    <2>1. e \in events \/ e = ResultEvent(d, r)
        BY <1>1, <1>5, <1>6, <1>9
    <2> HIDE DEF NoSchedule
    <2> QED BY <1>7, <1>9, <2>1 DEF LoopInv
<1> QED BY <1>8, <1>9

LEMMA LoopInvStep == LoopInv /\ [RegNext]_regVars => LoopInv'
<1> SUFFICES ASSUME LoopInv, [RegNext]_regVars PROVE LoopInv'
    OBVIOUS
<1>1. CountInv'
    BY CountInvStep DEF LoopInv
<1>2. ASSUME NEW d \in Devices, NEW f \in Reported, NEW r \in Results,
             NEW low \in BOOLEAN, NEW offer \in BOOLEAN, Poll(d, f, r, low, offer)
      PROVE  LoopInv'
    <2>1. schedule' = schedule
        BY <1>2 DEF Poll, registry
    <2> HIDE DEF NoSchedule
    <2> QED BY <1>1, <1>2, <2>1, PollNumbers DEF LoopInv
<1>3. ASSUME NEW v \in Versions, NEW running \in Reported, Schedule(v, running)
      PROVE  LoopInv'
    <2>1. schedule'.id = issued + 1 /\ events' = events
        BY <1>3 DEF Schedule, report
    <2>2. \A e \in events : e.id # issued + 1
        BY DEF LoopInv, CountInv, RegInv, RegTypeOK
    <2> QED BY <1>1, <2>1, <2>2 DEF LoopInv
<1>4. CASE Cancel \/ LoseReport
    BY <1>1, <1>4 DEF Cancel, LoseReport, LoopInv, report, registry
<1>5. ASSUME NEW v \in Versions, NEW kind \in Kinds, Publish(v, kind)
      PROVE  LoopInv'
    BY <1>1, <1>5 DEF Publish, LoopInv, report
<1>6. CASE Reconcile
    <2>1. events' = events /\ schedule' = ReconciledSchedule
        BY <1>6 DEF Reconcile, report
    <2>2. schedule' # NoSchedule => /\ schedule # NoSchedule
                                    /\ schedule'.id = schedule.id
                                    /\ schedule'.version = schedule.version
        <3>1. schedule \in [id : Nat, version : Reported,
                            state : {"none", "scheduled", "failed"}, attempts : Nat]
            BY DEF LoopInv, CountInv, RegInv, RegTypeOK
        <3> DEFINE n == schedule.attempts + Cardinality({e \in Own : e.token \in Counted})
        <3>2. ReconciledSchedule =
                IF schedule = NoSchedule \/ Installs # {} THEN NoSchedule
                ELSE [schedule EXCEPT !.attempts = n,
                         !.state = IF n > schedule.attempts /\ n >= MaxAttempts
                                     THEN "failed" ELSE @]
            BY DEF ReconciledSchedule
        <3> HIDE DEF n, NoSchedule
        <3> QED BY <2>1, <3>1, <3>2
    <2> HIDE DEF NoSchedule
    <2> QED BY <1>1, <2>1, <2>2 DEF LoopInv
<1>7. CASE UNCHANGED regVars
    BY <1>1, <1>7 DEF LoopInv, regVars, registry, report
<1> QED BY <1>2, <1>3, <1>4, <1>5, <1>6, <1>7 DEF RegNext, Operator

LEMMA LoopInvariant == RegSpec => []LoopInv
<1>1. RegInit => LoopInv
    BY RegInvInit DEF RegInit, LoopInv, CountInv, EveryFailureCounts
<1> QED BY <1>1, LoopInvStep, PTL DEF RegSpec

CountedTo(n) == {e \in Own : e.token \in Counted /\ e.seq <= n}
Tried(n) == schedule.attempts + Cardinality(CountedTo(n))
TellingTo(n) == {e \in Telling : e.seq <= n}

ScheduleAfter(n) ==
    IF schedule = NoSchedule \/ (\E f \in Installs : f.seq <= n)
      THEN NoSchedule
      ELSE [id |-> schedule.id, version |-> schedule.version,
            state |-> IF Tried(n) > schedule.attempts /\ Tried(n) >= MaxAttempts
                        THEN "failed" ELSE schedule.state,
            attempts |-> Tried(n)]
OutcomeAfter(n) ==
    IF TellingTo(n) = {} THEN outcome
    ELSE [kind |-> Verdict(Latest(TellingTo(n))), version |-> Latest(TellingTo(n)).version]
DocAfter(n) == [schedule |-> ScheduleAfter(n), outcome |-> OutcomeAfter(n)]

ScheduleShape == [id : Nat, version : Reported,
                  state : {"none", "scheduled", "failed"}, attempts : Nat]

(* The attempts move by one with a counted result, and with nothing else.   *)
LEMMA TriedOnce ==
    ASSUME LoopInv, NEW n \in Nat \ {0}
    PROVE  /\ Tried(n) \in Nat /\ Tried(n - 1) \in Nat /\ schedule.attempts \in Nat
           /\ Tried(n) >= schedule.attempts /\ Tried(n - 1) >= schedule.attempts
           /\ \A e \in Own : e.seq = n /\ e.token \in Counted
                 => Tried(n) = Tried(n - 1) + 1 /\ AttemptsBy(e) = Tried(n)
           /\ (\A e \in Own : e.seq = n => e.token \notin Counted) => Tried(n) = Tried(n - 1)
<1>1. /\ Own \subseteq events /\ IsFiniteSet(events) /\ schedule.attempts \in Nat
      /\ \A e \in Own : e.seq \in Nat
      /\ \A e, f \in Own : e.seq = f.seq => e = f
    BY DEF LoopInv, CountInv, RegInv, RegTypeOK, Own, Pending, Unreconciled
<1>2. \A m : IsFiniteSet(CountedTo(m)) /\ Cardinality(CountedTo(m)) \in Nat
    BY <1>1, Countable DEF CountedTo
<1>3. ASSUME NEW e \in Own, e.seq = n, e.token \in Counted
      PROVE  Tried(n) = Tried(n - 1) + 1 /\ AttemptsBy(e) = Tried(n)
    <2>1. CountedTo(n) = CountedTo(n - 1) \cup {e} /\ e \notin CountedTo(n - 1)
        BY <1>1, <1>3 DEF CountedTo
    <2>2. Cardinality(CountedTo(n)) = Cardinality(CountedTo(n - 1)) + 1
        BY <1>2, <2>1, FS_AddElement
    <2>3. AttemptsBy(e) = Tried(n)
        BY <1>3 DEF AttemptsBy, Tried, CountedTo
    <2> QED BY <1>1, <1>2, <2>2, <2>3 DEF Tried
<1>4. ASSUME \A e \in Own : e.seq = n => e.token \notin Counted
      PROVE  Tried(n) = Tried(n - 1)
    <2>1. CountedTo(n) = CountedTo(n - 1)
        BY <1>1, <1>4 DEF CountedTo
    <2> QED BY <2>1 DEF Tried
<1>5. \A m : Tried(m) \in Nat /\ Tried(m) >= schedule.attempts
    BY <1>1, <1>2 DEF Tried
<1> QED BY <1>1, <1>3, <1>4, <1>5

(* The last of the events that tell something is the one told.              *)
LEMMA ToldLast ==
    ASSUME LoopInv, NEW n \in Nat \ {0}
    PROVE  /\ \A e \in Telling : e.seq = n
                 => OutcomeAfter(n) = [kind |-> Verdict(e), version |-> e.version]
           /\ (\A e \in Telling : e.seq # n) => OutcomeAfter(n) = OutcomeAfter(n - 1)
<1>1. /\ Telling \subseteq events
      /\ \A e \in events : e.seq \in Nat
      /\ \A e, f \in events : e.seq = f.seq => e = f
    BY DEF LoopInv, CountInv, RegInv, RegTypeOK, Telling, Pending, Unreconciled
<1>2. ASSUME NEW e \in Telling, e.seq = n
      PROVE  OutcomeAfter(n) = [kind |-> Verdict(e), version |-> e.version]
    <2>1. TellingTo(n) \in SUBSET events /\ e \in TellingTo(n)
          /\ \A f \in TellingTo(n) : f.seq <= n
        BY <1>1, <1>2 DEF TellingTo
    <2>2. Latest(TellingTo(n)) \in TellingTo(n) /\ e.seq <= Latest(TellingTo(n)).seq
        BY <2>1, LatestIsThere DEF LoopInv, CountInv
    <2>3. Latest(TellingTo(n)) = e
        BY <1>1, <1>2, <2>1, <2>2
    <2> QED BY <2>1, <2>3 DEF OutcomeAfter
<1>3. ASSUME \A e \in Telling : e.seq # n
      PROVE  OutcomeAfter(n) = OutcomeAfter(n - 1)
    <2>1. TellingTo(n) = TellingTo(n - 1)
        BY <1>1, <1>3 DEF TellingTo
    <2> QED BY <2>1 DEF OutcomeAfter
<1> QED BY <1>2, <1>3

(* An event that is not a result of the schedule, or comes after the one    *)
(* that ended it.                                                           *)
LEMMA StaleTurn ==
    ASSUME LoopInv, NEW n \in Nat \ {0}, NEW e \in Pending, e.seq = n, ~Current(e)
    PROVE  StaleEvent(DocAfter(n - 1), e) = DocAfter(n)
<1>1. /\ \A f \in Own : f \in events /\ f.seq \in Nat
      /\ e \in events
      /\ \A f \in events : f.seq = n => f = e
    BY DEF LoopInv, CountInv, RegInv, RegTypeOK, Own, Pending, Unreconciled
<1>2. ScheduleAfter(n) = ScheduleAfter(n - 1)
    <2>1. CASE \E f \in Installs : f.seq < n
        <3>1. PICK f \in Installs : f.seq < n
            BY <2>1
        <3>2. f.seq <= n /\ f.seq <= n - 1
            BY <1>1, <3>1 DEF Installs
        <3> QED BY <3>2 DEF ScheduleAfter
    <2>2. CASE ~\E f \in Installs : f.seq < n
        <3>1. e \notin Own
            BY <2>2 DEF Current
        <3>2. \A f \in Own : f.seq # n
            BY <1>1, <3>1
        <3>3. Tried(n) = Tried(n - 1)
            BY <3>2, TriedOnce
        <3>4. (\E f \in Installs : f.seq <= n) <=> (\E f \in Installs : f.seq <= n - 1)
            BY <1>1, <3>2 DEF Installs
        <3> QED BY <3>3, <3>4 DEF ScheduleAfter
    <2> QED BY <2>1, <2>2
<1>3. Verdict(e) = IF e.token \in {"installed", "rollback"} THEN e.token ELSE "none"
    BY DEF Verdict
<1>4. CASE e.token \in {"installed", "rollback"}
    <2>1. e \in Telling
        BY <1>3, <1>4 DEF Telling
    <2>2. OutcomeAfter(n) = [kind |-> e.token, version |-> e.version]
        BY <1>3, <1>4, <2>1, ToldLast
    <2> QED BY <1>2, <1>4, <2>2 DEF StaleEvent, Tell, DocAfter
<1>5. CASE e.token \notin {"installed", "rollback"}
    <2>1. \A f \in Telling : f.seq # n
        BY <1>1, <1>3, <1>5 DEF Telling, Pending, Unreconciled
    <2>2. OutcomeAfter(n) = OutcomeAfter(n - 1)
        BY <2>1, ToldLast
    <2> QED BY <1>2, <1>5, <2>2 DEF StaleEvent, DocAfter
<1> QED BY <1>4, <1>5

(* The document with the schedule in state st after k attempts.             *)
Doc(st, k, out) ==
    [schedule |-> [id |-> schedule.id, version |-> schedule.version, state |-> st, attempts |-> k],
     outcome |-> out]
Outcome(kind) == [kind |-> kind, version |-> schedule.version]

(* What the branch makes of it.                                             *)
LEMMA OwnEventIs ==
    ASSUME NEW st, NEW k \in Nat, NEW out, NEW e
    PROVE  /\ e.token = "installed"
                => OwnEvent(Doc(st, k, out), e) = [schedule |-> NoSchedule, outcome |-> Outcome("installed")]
           /\ e.token \in Counted
                => OwnEvent(Doc(st, k, out), e) =
                      IF k + 1 >= MaxAttempts THEN Doc("failed", k + 1, Outcome("failed"))
                      ELSE Doc(st, k + 1, IF e.token = "rollback" THEN Outcome("rollback") ELSE out)
<1> DEFINE version == schedule.version
           doc == [schedule |-> [id |-> schedule.id, version |-> version,
                                 state |-> st, attempts |-> k], outcome |-> out]
<1> DEFINE counted == [doc EXCEPT !.schedule.attempts = k + 1]
           once == [id |-> schedule.id, version |-> version, state |-> st, attempts |-> k + 1]
<1>1. counted = [schedule |-> once, outcome |-> out]
    OBVIOUS
<1>2. doc.schedule.attempts = k /\ doc.schedule.version = version
    OBVIOUS
<1>3. ASSUME e.token = "installed"
      PROVE  OwnEvent(doc, e) = [schedule |-> NoSchedule,
                                 outcome |-> [kind |-> "installed", version |-> version]]
    <2>1. OwnEvent(doc, e) = Tell("installed", version, [doc EXCEPT !.schedule = NoSchedule])
        BY <1>2, <1>3 DEF OwnEvent
    <2> HIDE DEF NoSchedule
    <2> QED BY <2>1 DEF Tell
<1> DEFINE told == IF e.token = "rollback" THEN Tell("rollback", version, counted) ELSE counted
<1>4. ASSUME e.token \in Counted
      PROVE  OwnEvent(doc, e) =
                 IF k + 1 < MaxAttempts THEN told
                 ELSE Tell("failed", version, [told EXCEPT !.schedule.state = "failed"])
    <2> HIDE DEF counted
    <2>1. e.token # "installed"
        BY <1>4
    <2> QED BY <1>2, <1>4, <2>1 DEF OwnEvent, counted
<1>5. told = [schedule |-> once,
              outcome |-> IF e.token = "rollback" THEN [kind |-> "rollback", version |-> version]
                          ELSE out]
    <2> HIDE DEF counted
    <2> QED BY <1>1 DEF Tell
<1> HIDE DEF told
<1>6. ASSUME e.token \in Counted, k + 1 >= MaxAttempts
      PROVE  OwnEvent(doc, e) = [schedule |-> [id |-> schedule.id, version |-> version,
                                               state |-> "failed", attempts |-> k + 1],
                                 outcome |-> [kind |-> "failed", version |-> version]]
    <2>1. OwnEvent(doc, e) = Tell("failed", version, [told EXCEPT !.schedule.state = "failed"])
        BY <1>4, <1>6, LimitsAssumption
    <2> QED BY <1>5, <2>1 DEF Tell
<1>7. ASSUME e.token \in Counted, k + 1 < MaxAttempts
      PROVE  OwnEvent(doc, e) = told
    BY <1>4, <1>7
<1>8. Doc(st, k, out) = doc
    BY DEF Doc
<1>9. e.token = "installed"
        => OwnEvent(Doc(st, k, out), e) = [schedule |-> NoSchedule, outcome |-> Outcome("installed")]
    <2> HIDE DEF doc, NoSchedule
    <2> QED BY <1>3, <1>8 DEF Outcome
<1>10. ASSUME e.token \in Counted
       PROVE  OwnEvent(Doc(st, k, out), e) =
                 IF k + 1 >= MaxAttempts THEN Doc("failed", k + 1, Outcome("failed"))
                 ELSE Doc(st, k + 1, IF e.token = "rollback" THEN Outcome("rollback") ELSE out)
    <2> HIDE DEF doc
    <2>1. CASE k + 1 >= MaxAttempts
        BY <1>6, <1>8, <1>10, <2>1 DEF Doc, Outcome
    <2>2. CASE k + 1 < MaxAttempts
        BY <1>5, <1>7, <1>8, <1>10, <2>2, LimitsAssumption DEF Doc, Outcome
    <2> QED BY <2>1, <2>2, LimitsAssumption
<1> QED BY <1>9, <1>10

(* A result of the schedule as it stands.                                   *)
LEMMA OwnTurn ==
    ASSUME LoopInv, NEW n \in Nat \ {0}, NEW e \in Pending, e.seq = n, Current(e)
    PROVE  /\ ScheduleAfter(n - 1) # NoSchedule /\ ScheduleAfter(n - 1).id = schedule.id
           /\ OwnEvent(DocAfter(n - 1), e) = DocAfter(n)
<1> DEFINE before == [id |-> schedule.id, version |-> schedule.version,
                      state |-> IF Tried(n - 1) > schedule.attempts /\ Tried(n - 1) >= MaxAttempts
                                  THEN "failed" ELSE schedule.state,
                      attempts |-> Tried(n - 1)]
<1>1. /\ \A f \in Own : f \in events /\ f.seq \in Nat
      /\ e \in events /\ e \in Own /\ schedule # NoSchedule
      /\ \A f \in events : f.seq = n => f = e
      /\ e.version = schedule.version
      /\ schedule \in ScheduleShape /\ schedule.id # 0
    BY DEF LoopInv, CountInv, RegInv, RegTypeOK, Own, Pending, Unreconciled, Current, ScheduleShape
<1>2. ScheduleAfter(n - 1) = before
    <2>1. ~\E f \in Installs : f.seq <= n - 1
        BY <1>1 DEF Current, Installs
    <2> HIDE DEF NoSchedule
    <2> QED BY <1>1, <2>1 DEF ScheduleAfter
<1>3. before # NoSchedule /\ before.id = schedule.id
    BY <1>1
<1>4. DocAfter(n - 1) = [schedule |-> before, outcome |-> OutcomeAfter(n - 1)]
    BY <1>2 DEF DocAfter
<1> SUFFICES OwnEvent(DocAfter(n - 1), e) = DocAfter(n)
    <2> HIDE DEF NoSchedule, before
    <2> QED BY <1>2, <1>3
<1> DEFINE was == before.state
           now == Doc(was, Tried(n - 1), OutcomeAfter(n - 1))
<1>11. /\ Tried(n - 1) \in Nat
      /\ DocAfter(n - 1) = now
    BY <1>4, TriedOnce DEF Doc
<1>5. CASE e.token = "installed"
    <2>1. e \in Installs
        BY <1>1, <1>5 DEF Installs
    <2>2. ScheduleAfter(n) = NoSchedule
        BY <2>1 DEF ScheduleAfter
    <2>3. Verdict(e) = "installed" /\ e \in Telling
        BY <1>5 DEF Verdict, Telling
    <2>4. OutcomeAfter(n) = Outcome("installed")
        BY <1>1, <2>3, ToldLast DEF Outcome
    <2>5. OwnEvent(now, e) = [schedule |-> NoSchedule, outcome |-> Outcome("installed")]
        <3> HIDE DEF was, NoSchedule
        <3> QED BY <1>11, <1>5, OwnEventIs
    <2> HIDE DEF NoSchedule, was, now
    <2> QED BY <1>11, <2>2, <2>4, <2>5 DEF DocAfter
<1>6. CASE e.token # "installed"
    <2>1. ~\E f \in Installs : f.seq <= n
        BY <1>1, <1>6 DEF Current, Installs
    <2>2. ScheduleAfter(n) =
              [id |-> schedule.id, version |-> schedule.version,
               state |-> IF Tried(n) > schedule.attempts /\ Tried(n) >= MaxAttempts
                           THEN "failed" ELSE schedule.state,
               attempts |-> Tried(n)]
        <3> HIDE DEF NoSchedule
        <3> QED BY <1>1, <2>1 DEF ScheduleAfter
    <2>3. CASE e.token \in Counted
        <3>1. /\ Tried(n) = Tried(n - 1) + 1 /\ AttemptsBy(e) = Tried(n)
              /\ Tried(n) \in Nat /\ Tried(n - 1) \in Nat /\ schedule.attempts \in Nat
              /\ Tried(n - 1) >= schedule.attempts
            BY <1>1, <2>3, TriedOnce
        <3>4. OwnEvent(now, e) =
                 IF Tried(n - 1) + 1 >= MaxAttempts
                   THEN Doc("failed", Tried(n - 1) + 1, Outcome("failed"))
                   ELSE Doc(was, Tried(n - 1) + 1,
                            IF e.token = "rollback" THEN Outcome("rollback") ELSE OutcomeAfter(n - 1))
            <4> HIDE DEF was, Counted
            <4> QED BY <2>3, <3>1, OwnEventIs
        <3>2. CASE Tried(n) >= MaxAttempts
            <4>1. Verdict(e) = "failed" /\ e \in Telling
                BY <1>6, <2>3, <3>1, <3>2 DEF Verdict, Telling
            <4>2. OutcomeAfter(n) = Outcome("failed")
                BY <1>1, <4>1, ToldLast DEF Outcome
            <4>3. DocAfter(n) = Doc("failed", Tried(n - 1) + 1, OutcomeAfter(n))
                BY <2>2, <3>1, <3>2 DEF Doc, DocAfter
            <4>4. OwnEvent(now, e) = Doc("failed", Tried(n - 1) + 1, Outcome("failed"))
                BY <3>1, <3>2, <3>4
            <4> HIDE DEF NoSchedule, now
            <4> QED BY <1>11, <4>2, <4>3, <4>4
        <3>3. CASE ~(Tried(n) >= MaxAttempts)
            <4>1. DocAfter(n) = Doc(was, Tried(n - 1) + 1, OutcomeAfter(n))
                BY <2>2, <3>1, <3>3, LimitsAssumption DEF Doc, DocAfter
            <4>2. Tried(n - 1) + 1 < MaxAttempts
                BY <3>1, <3>3, LimitsAssumption
            <4>3. CASE e.token = "rollback"
                <5>1. Verdict(e) = "rollback" /\ e \in Telling
                    BY <3>1, <3>3, <4>3 DEF Verdict, Telling
                <5>2. OutcomeAfter(n) = Outcome("rollback")
                    BY <1>1, <5>1, ToldLast DEF Outcome
                <5> HIDE DEF was, now
                <5> QED BY <1>11, <3>1, <3>3, <3>4, <4>1, <4>3, <5>2
            <4>4. CASE e.token # "rollback"
                <5>1. Verdict(e) = "none"
                    BY <1>6, <3>1, <3>3, <4>4 DEF Verdict
                <5>2. \A f \in Telling : f.seq # n
                    BY <1>1, <5>1 DEF Telling, Pending, Unreconciled
                <5>3. OutcomeAfter(n) = OutcomeAfter(n - 1)
                    BY <5>2, ToldLast
                <5>4. OwnEvent(now, e) = Doc(was, Tried(n - 1) + 1, OutcomeAfter(n - 1))
                    <6> HIDE DEF was, now
                    <6> QED BY <3>1, <3>3, <3>4, <4>4
                <5> HIDE DEF was, now
                <5> QED BY <1>11, <4>1, <5>3, <5>4
            <4> QED BY <4>3, <4>4
        <3> QED BY <3>2, <3>3
    <2>4. CASE e.token \notin Counted
        <3>1. Tried(n) = Tried(n - 1)
            BY <1>1, <2>4, TriedOnce
        <3>2. Verdict(e) = "none"
            BY <1>6, <2>4 DEF Verdict
        <3>3. \A f \in Telling : f.seq # n
            BY <1>1, <3>2 DEF Telling, Pending, Unreconciled
        <3>4. OutcomeAfter(n) = OutcomeAfter(n - 1)
            BY <3>3, ToldLast
        <3>5. ScheduleAfter(n) = before
            BY <2>2, <3>1
        <3>6. OwnEvent(DocAfter(n - 1), e) = DocAfter(n - 1)
            BY <1>6, <2>4 DEF OwnEvent
        <3> QED BY <1>4, <3>4, <3>5, <3>6 DEF DocAfter
    <2> QED BY <2>3, <2>4
<1> QED BY <1>5, <1>6

(* One turn of the loop takes the closed form up to n - 1 to that up to n.  *)
LEMMA TurnIs ==
    ASSUME LoopInv, NEW n \in Nat \ {0}
    PROVE  /\ n > reconciled => Turn(DocAfter(n - 1), n) = DocAfter(n)
           /\ n <= reconciled => Turn(DocAfter(n - 1), n) = DocAfter(n - 1)
<1>1. /\ reconciled \in Nat
      /\ \A e \in events : e.seq \in Nat
      /\ \A e, f \in events : e.seq = f.seq => e = f
    BY DEF LoopInv, CountInv, RegInv, RegTypeOK
<1>2. CASE n <= reconciled
    <2>1. Collected(n) = {}
        BY <1>1, <1>2 DEF Collected, Unreconciled
    <2> QED BY <1>1, <1>2, <2>1 DEF Turn
<1>3. ASSUME n > reconciled, \A e \in Pending : e.seq # n
      PROVE  DocAfter(n) = DocAfter(n - 1)
    <2>1. \A e \in Own : e.seq # n /\ e.seq \in Nat
        BY <1>1, <1>3 DEF Own, Pending, Unreconciled
    <2>2. Tried(n) = Tried(n - 1)
        BY <2>1, TriedOnce
    <2>3. (\E f \in Installs : f.seq <= n) <=> (\E f \in Installs : f.seq <= n - 1)
        BY <2>1 DEF Installs
    <2>4. OutcomeAfter(n) = OutcomeAfter(n - 1)
        BY <1>3, ToldLast DEF Telling
    <2> QED BY <2>2, <2>3, <2>4 DEF DocAfter, ScheduleAfter
<1>4. CASE n > reconciled /\ Collected(n) = {}
    <2>1. \A e \in Pending : e.seq # n
        BY <1>4 DEF Collected, Pending
    <2>2. Turn(DocAfter(n - 1), n) = DocAfter(n - 1)
        BY <1>4 DEF Turn
    <2> QED BY <1>1, <1>3, <1>4, <2>1, <2>2
<1>5. CASE n > reconciled /\ Collected(n) # {}
    <2> DEFINE e == CHOOSE f \in Collected(n) : TRUE
    <2>1. e \in Collected(n) /\ Turn(DocAfter(n - 1), n) = Fold(DocAfter(n - 1), e)
        BY <1>5 DEF Turn
    <2>2. e \in events /\ e.seq = n /\ e \in Unreconciled(events)
        BY <2>1 DEF Collected, Unreconciled
    <2> HIDE DEF e
    <2>3. CASE e.kind # "result"
        <3>1. \A f \in Pending : f.seq # n
            BY <1>1, <2>2, <2>3 DEF Pending, Unreconciled
        <3>2. Fold(DocAfter(n - 1), e) = DocAfter(n - 1)
            BY <2>3 DEF Fold
        <3> QED BY <1>1, <1>3, <1>5, <2>1, <3>1, <3>2
    <2>4. CASE e.kind = "result"
        <3>1. e \in Pending
            BY <2>2, <2>4 DEF Pending
        <3>2. CASE Current(e)
            <4>1. ScheduleAfter(n - 1) # NoSchedule /\ ScheduleAfter(n - 1).id = schedule.id
                  /\ OwnEvent(DocAfter(n - 1), e) = DocAfter(n)
                BY <2>2, <3>1, <3>2, OwnTurn
            <4>2. e.id = schedule.id
                BY <3>2 DEF Current, Own
            <4>3. DocAfter(n - 1).schedule = ScheduleAfter(n - 1)
                BY DEF DocAfter
            <4>4. Fold(DocAfter(n - 1), e) = OwnEvent(DocAfter(n - 1), e)
                <5> HIDE DEF NoSchedule
                <5> QED BY <2>4, <4>1, <4>2, <4>3 DEF Fold
            <4> QED BY <1>1, <1>5, <2>1, <4>1, <4>4
        <3>3. CASE ~Current(e)
            <4>1. StaleEvent(DocAfter(n - 1), e) = DocAfter(n)
                BY <2>2, <3>1, <3>3, StaleTurn
            <4>2. DocAfter(n - 1).schedule = ScheduleAfter(n - 1)
                BY DEF DocAfter
            <4>3. ScheduleAfter(n - 1) = NoSchedule \/ e.id # ScheduleAfter(n - 1).id
                <5>1. CASE schedule # NoSchedule /\ e.id = schedule.id
                    <6>1. e \in Own
                        BY <3>1, <5>1 DEF Own
                    <6>2. PICK f \in Installs : f.seq < n
                        BY <2>2, <3>3, <6>1 DEF Current
                    <6>3. f.seq <= n - 1
                        BY <1>1, <6>2 DEF Installs, Own, Pending, Unreconciled
                    <6> QED BY <6>3 DEF ScheduleAfter
                <5>2. CASE schedule = NoSchedule
                    BY <5>2 DEF ScheduleAfter
                <5>3. CASE schedule # NoSchedule /\ e.id # schedule.id
                    <6> HIDE DEF NoSchedule
                    <6> QED BY <5>3 DEF ScheduleAfter
                <5> HIDE DEF NoSchedule
                <5> QED BY <5>1, <5>2, <5>3
            <4>4. Fold(DocAfter(n - 1), e) = StaleEvent(DocAfter(n - 1), e)
                <5> HIDE DEF NoSchedule
                <5> QED BY <2>4, <4>2, <4>3 DEF Fold
            <4> QED BY <1>1, <1>5, <2>1, <4>1, <4>4
        <3> QED BY <3>2, <3>3
    <2> QED BY <2>3, <2>4
<1> QED BY <1>1, <1>2, <1>4, <1>5

(* Loop is the function its equation defines: the closed form is one, which *)
(* is why there is one, and no other agrees with it at 0 and takes the same *)
(* turns.                                                                   *)
ClosedLoop == [n \in 0..HighestSeq |-> IF n <= reconciled THEN DocAfter(reconciled) ELSE DocAfter(n)]
FirstDoc == [schedule |-> schedule, outcome |-> outcome]
Turns(loop) ==
    loop = [n \in 0..HighestSeq |-> IF n = 0 THEN FirstDoc ELSE Turn(loop[n - 1], n)]

LEMMA StartsClosed ==
    ASSUME LoopInv
    PROVE  DocAfter(reconciled) = FirstDoc
<1>1. /\ reconciled \in Nat /\ schedule \in ScheduleShape
      /\ \A e \in Pending : e.seq \in Nat /\ e.seq > reconciled
    BY DEF LoopInv, CountInv, RegInv, RegTypeOK, ScheduleShape, Pending, Unreconciled
<1>2. CountedTo(reconciled) = {} /\ TellingTo(reconciled) = {}
      /\ ~\E f \in Installs : f.seq <= reconciled
    BY <1>1 DEF CountedTo, TellingTo, Telling, Installs, Own
<1>3. Tried(reconciled) = schedule.attempts
    BY <1>1, <1>2, FS_EmptySet DEF Tried, ScheduleShape
<1>4. ScheduleAfter(reconciled) = schedule
    <2>1. CASE schedule = NoSchedule
        BY <2>1 DEF ScheduleAfter
    <2>2. CASE schedule # NoSchedule
        <3>1. ScheduleAfter(reconciled) =
                 [id |-> schedule.id, version |-> schedule.version,
                  state |-> schedule.state, attempts |-> schedule.attempts]
            <4>1. ~(schedule.attempts > schedule.attempts)
                BY <1>1 DEF ScheduleShape
            <4> HIDE DEF NoSchedule
            <4> QED BY <1>2, <1>3, <2>2, <4>1 DEF ScheduleAfter
        <3> QED BY <1>1, <3>1 DEF ScheduleShape
    <2> QED BY <2>1, <2>2
<1> QED BY <1>2, <1>4 DEF DocAfter, OutcomeAfter, FirstDoc

LEMMA ClosedTurns ==
    ASSUME LoopInv
    PROVE  Turns(ClosedLoop)
<1>1. HighestSeq \in Nat /\ reconciled \in Nat /\ reconciled <= HighestSeq
    BY NumbersBounded DEF LoopInv, CountInv, RegInv, RegTypeOK
<1>2. ASSUME NEW n \in 0..HighestSeq
      PROVE  ClosedLoop[n] = IF n = 0 THEN FirstDoc ELSE Turn(ClosedLoop[n - 1], n)
    <2>1. CASE n = 0
        BY <1>1, <2>1, StartsClosed DEF ClosedLoop
    <2>2. CASE n # 0
        <3>1. n \in Nat \ {0} /\ n - 1 \in 0..HighestSeq
            BY <1>1, <2>2
        <3>2. CASE n > reconciled
            <4>1. ClosedLoop[n - 1] = DocAfter(n - 1)
                BY <1>1, <3>1, <3>2 DEF ClosedLoop
            <4>2. ClosedLoop[n] = DocAfter(n)
                BY <1>1, <3>1, <3>2 DEF ClosedLoop
            <4> QED BY <2>2, <3>1, <3>2, <4>1, <4>2, TurnIs
        <3>3. CASE n <= reconciled
            <4>1. ClosedLoop[n - 1] = DocAfter(reconciled) /\ ClosedLoop[n] = DocAfter(reconciled)
                BY <1>1, <3>1, <3>3 DEF ClosedLoop
            <4>2. Collected(n) = {}
                <5>1. \A e \in events : e.seq \in Nat
                    BY DEF LoopInv, CountInv, RegInv, RegTypeOK
                <5> QED BY <1>1, <3>1, <3>3, <5>1 DEF Collected, Unreconciled
            <4> QED BY <2>2, <4>1, <4>2 DEF Turn
        <3> QED BY <1>1, <3>1, <3>2, <3>3
    <2> QED BY <2>1, <2>2
<1> DEFINE turned == [n \in 0..HighestSeq |-> IF n = 0 THEN FirstDoc ELSE Turn(ClosedLoop[n - 1], n)]
<1>3. ClosedLoop = [n \in 0..HighestSeq |-> ClosedLoop[n]]
    BY DEF ClosedLoop
<1>4. ClosedLoop = turned
    BY <1>2, <1>3
<1> QED BY <1>4 DEF Turns

LEMMA LoopTurns ==
    ASSUME LoopInv
    PROVE  Turns(Loop)
<1>1. \E loop : Turns(loop)
    BY ClosedTurns
<1>2. Loop = CHOOSE loop : Turns(loop)
    BY DEF Loop, Turns, FirstDoc
<1> QED BY <1>1, <1>2

LEMMA LoopIsClosed ==
    ASSUME LoopInv
    PROVE  Loop = ClosedLoop
<1>1. HighestSeq \in Nat
    BY NumbersBounded DEF LoopInv, CountInv
<1> DEFINE Apart == {n \in 0..HighestSeq : Loop[n] # ClosedLoop[n]}
<1>2. \A n \in 0..HighestSeq :
          /\ Loop[n] = IF n = 0 THEN FirstDoc ELSE Turn(Loop[n - 1], n)
          /\ ClosedLoop[n] = IF n = 0 THEN FirstDoc ELSE Turn(ClosedLoop[n - 1], n)
    BY LoopTurns, ClosedTurns DEF Turns
<1>3. Apart = {}
    <2> SUFFICES ASSUME Apart # {} PROVE FALSE
        OBVIOUS
    <2>1. Apart \subseteq Nat
        BY <1>1
    <2>2. PICK n \in Apart : \A m \in Apart : ~(<<m, n>> \in OpToRel(<, Nat))
        <3> HIDE DEF Apart
        <3> QED BY <2>1, WFMin, NatLessThanWellFounded
    <2>3. n \in 0..HighestSeq /\ n # 0 /\ n - 1 \in 0..HighestSeq
        BY <1>1, <1>2
    <2>4. Loop[n - 1] # ClosedLoop[n - 1]
        BY <1>2, <2>3
    <2>5. n - 1 \in Apart
        BY <2>3, <2>4
    <2>6. <<n - 1, n>> \notin {ss \in Nat \X Nat : ss[1] < ss[2]}
        BY <2>2, <2>5 DEF OpToRel
    <2> QED BY <1>1, <2>3, <2>6
<1>4. Loop = [n \in 0..HighestSeq |-> Loop[n]] /\ ClosedLoop = [n \in 0..HighestSeq |-> ClosedLoop[n]]
    BY LoopTurns, ClosedTurns DEF Turns
<1> QED BY <1>3, <1>4

(* reconcile() walks the events one by one, and what it leaves is what the  *)
(* closed form says of them all at once, in whatever order failures and     *)
(* installs of the schedule and of earlier ones stand in the batch.         *)
THEOREM LoopReconciles == RegSpec => []LoopIsClosedForm
<1>1. LoopInv => LoopIsClosedForm
    <2> SUFFICES ASSUME LoopInv PROVE LoopIsClosedForm
        OBVIOUS
    <2>1. /\ HighestSeq \in Nat /\ reconciled \in Nat /\ reconciled <= HighestSeq
          /\ \A e \in Pending : e.seq <= HighestSeq
        BY NumbersBounded DEF LoopInv, CountInv, RegInv, RegTypeOK, Pending, Unreconciled
    <2>2. Reconciled = DocAfter(HighestSeq)
        BY <2>1, LoopIsClosed DEF Reconciled, ClosedLoop
    <2>3. TellingTo(HighestSeq) = Telling /\ CountedTo(HighestSeq) = {e \in Own : e.token \in Counted}
          /\ ((\E f \in Installs : f.seq <= HighestSeq) <=> Installs # {})
        BY <2>1 DEF TellingTo, CountedTo, Telling, Installs, Own
    <2>4. OutcomeAfter(HighestSeq) = ReconciledOutcome
        BY <2>3 DEF OutcomeAfter, ReconciledOutcome
    <2>5. ScheduleAfter(HighestSeq) = ReconciledSchedule
        <3>1. schedule \in ScheduleShape
            BY DEF LoopInv, CountInv, RegInv, RegTypeOK, ScheduleShape
        <3> DEFINE n == schedule.attempts + Cardinality({e \in Own : e.token \in Counted})
        <3>2. Tried(HighestSeq) = n
            BY <2>3 DEF Tried
        <3>3. ReconciledSchedule =
                IF schedule = NoSchedule \/ Installs # {} THEN NoSchedule
                ELSE [schedule EXCEPT !.attempts = n,
                         !.state = IF n > schedule.attempts /\ n >= MaxAttempts
                                     THEN "failed" ELSE @]
            BY DEF ReconciledSchedule
        <3>4. ScheduleAfter(HighestSeq) =
                IF schedule = NoSchedule \/ Installs # {} THEN NoSchedule
                ELSE [id |-> schedule.id, version |-> schedule.version,
                      state |-> IF n > schedule.attempts /\ n >= MaxAttempts
                                  THEN "failed" ELSE schedule.state,
                      attempts |-> n]
            <4> HIDE DEF NoSchedule, n
            <4> QED BY <2>3, <3>2 DEF ScheduleAfter
        <3> DEFINE over == n > schedule.attempts /\ n >= MaxAttempts
                   moved == [schedule EXCEPT !.attempts = n, !.state = IF over THEN "failed" ELSE @]
                   now == [id |-> schedule.id, version |-> schedule.version,
                           state |-> IF over THEN "failed" ELSE schedule.state, attempts |-> n]
        <3>5. moved = now
            <4> DEFINE st == IF over THEN "failed" ELSE schedule.state
            <4>1. moved = [schedule EXCEPT !.attempts = n, !.state = st]
                <5> HIDE DEF n
                <5> QED OBVIOUS
            <4>2. schedule \in [id : {schedule.id}, version : {schedule.version},
                                state : {schedule.state}, attempts : {schedule.attempts}]
                BY <3>1 DEF ScheduleShape
            <4>3. moved \in [id : {schedule.id}, version : {schedule.version}, state : {st}, attempts : {n}]
                <5> HIDE DEF st, moved, n
                <5> QED BY <4>1, <4>2
            <4>4. now = [id |-> schedule.id, version |-> schedule.version, state |-> st, attempts |-> n]
                OBVIOUS
            <4> HIDE DEF st, moved, n, now
            <4> QED BY <4>3, <4>4
        <3>6. /\ ReconciledSchedule = IF schedule = NoSchedule \/ Installs # {} THEN NoSchedule ELSE moved
              /\ ScheduleAfter(HighestSeq) = IF schedule = NoSchedule \/ Installs # {} THEN NoSchedule ELSE now
            BY <3>3, <3>4
        <3> HIDE DEF NoSchedule, moved, now
        <3> QED BY <3>5, <3>6
    <2> QED BY <2>2, <2>4, <2>5 DEF DocAfter, LoopIsClosedForm
<1> QED BY <1>1, LoopInvariant, PTL
=============================================================================
