------------------------ MODULE RegistryLockingProofs ------------------------
(***************************************************************************)
(* The registry's processes never decide on a stale document, and what they *)
(* do together is what the atomic registry does: for any number of          *)
(* processes, versions and devices, with deaths and busy locks anywhere.    *)
(***************************************************************************)
EXTENDS RegistryLocking, FirmwareRegistryProofs

(* p read what the documents still say.                                     *)
ReadsCurrent(p) ==
    /\ seen[p].schedule = schedule /\ seen[p].releases = releases
    /\ seen[p].reconciled = reconciled /\ seen[p].outcome = outcome
    /\ seen[p].nextSeq = nextSeq /\ seen[p].fw = fw /\ seen[p].events = events

-----------------------------------------------------------------------------
(* The operations over documents that are current are the operations of the *)
(* registry.                                                                *)

LEMMA SameVocabulary ==
    ASSUME NEW p \in Procs
    PROVE  /\ As(p)!NoVersion = NoVersion /\ As(p)!NoSchedule = NoSchedule
           /\ As(p)!NoResult = NoResult /\ As(p)!Counted = Counted
           /\ \A S : As(p)!Cardinality(S) = Cardinality(S)
<1>1. \A S : As(p)!Cardinality(S) = Cardinality(S)
    BY DEF As!Cardinality, Cardinality
<1>2. As(p)!NoVersion = NoVersion
    BY DEF As!NoVersion, NoVersion
<1>3. As(p)!NoSchedule = NoSchedule
    BY <1>2 DEF As!NoSchedule, NoSchedule
<1>4. As(p)!NoResult = NoResult /\ As(p)!Counted = Counted
    BY <1>2 DEF As!NoResult, NoResult, As!Counted, Counted
<1> QED BY <1>1, <1>2, <1>3, <1>4

LEMMA SameAcknowledged ==
    ASSUME NEW p \in Procs, ReadsCurrent(p)
    PROVE  As(p)!Acknowledged = Acknowledged
BY DEF ReadsCurrent, As!Acknowledged, Acknowledged, As!ForSchedule, ForSchedule

LEMMA SameUnreconciled ==
    ASSUME NEW p \in Procs, ReadsCurrent(p), NEW evs
    PROVE  As(p)!Unreconciled(evs) = Unreconciled(evs)
BY DEF ReadsCurrent, As!Unreconciled, Unreconciled

LEMMA SameFailures ==
    ASSUME NEW p \in Procs, ReadsCurrent(p), NEW evs
    PROVE  As(p)!Failures(evs) = Failures(evs)
<1> USE SameVocabulary
<1> QED BY DEF ReadsCurrent, As!Failures, Failures

LEMMA SamePoll ==
    ASSUME NEW p \in Procs, ReadsCurrent(p), NEW d, NEW f, NEW r, NEW low, NEW offer
    PROVE  /\ As(p)!HighestSeq = HighestSeq
           /\ As(p)!Said(d, r) = Said(d, r)
           /\ As(p)!Running(d, f) = Running(d, f)
           /\ As(p)!Offered(d, f, low, Said(d, r)) = Offered(d, f, low, Said(d, r))
           /\ As(p)!Polled(d, f, r, offer) = Polled(d, f, r, offer)
<1>1. As(p)!HighestSeq = HighestSeq
    BY DEF ReadsCurrent, As!HighestSeq, HighestSeq
<1>2. As(p)!ResultEvent(d, r) = ResultEvent(d, r)
    BY <1>1, SameVocabulary DEF ReadsCurrent, As!ResultEvent, ResultEvent
<1>3. As(p)!Said(d, r) = Said(d, r)
    BY <1>2, SameVocabulary DEF ReadsCurrent, As!Said, Said
<1>4. As(p)!Running(d, f) = Running(d, f)
    BY SameVocabulary DEF ReadsCurrent, As!Running, Running
<1>5. As(p)!LastSaid(r) = LastSaid(r)
    BY <1>1, SameVocabulary DEF As!LastSaid, LastSaid
<1>6. \A n : As(p)!OfferEvent(d, n) = OfferEvent(d, n)
    BY DEF ReadsCurrent, As!OfferEvent, OfferEvent
<1>7. As(p)!Told(d, r, offer) = Told(d, r, offer)
    BY <1>3, <1>5, <1>6 DEF As!Told, Told
<1>8. \A evs : As(p)!Newest(d, evs) = Newest(d, evs)
    BY SameVocabulary DEF As!Newest, Newest
<1>9. As(p)!Polled(d, f, r, offer) = Polled(d, f, r, offer)
    BY <1>4, <1>5, <1>7, <1>8, SameVocabulary DEF ReadsCurrent, As!Polled, Polled
<1>10. As(p)!Offered(d, f, low, Said(d, r)) = Offered(d, f, low, Said(d, r))
    BY SameVocabulary, SameUnreconciled, SameFailures DEF ReadsCurrent, As!Offered, Offered
<1> QED BY <1>1, <1>3, <1>4, <1>9, <1>10

LEMMA SameReconcile ==
    ASSUME NEW p \in Procs, ReadsCurrent(p)
    PROVE  /\ As(p)!ReconciledSchedule = ReconciledSchedule
           /\ As(p)!ReconciledOutcome = ReconciledOutcome
           /\ As(p)!Latest(seen[p].events) = Latest(events)
<1>1. As(p)!Pending = Pending
    BY SameUnreconciled DEF ReadsCurrent, As!Pending, Pending
<1>2. As(p)!Own = Own
    BY <1>1, SameVocabulary DEF ReadsCurrent, As!Own, Own
<1>3. As(p)!Installs = Installs
    BY <1>2 DEF As!Installs, Installs
<1>4. \A e : As(p)!Current(e) = Current(e)
    BY <1>2, <1>3 DEF As!Current, Current
<1>5. \A e : As(p)!AttemptsBy(e) = AttemptsBy(e)
    BY <1>2, SameVocabulary DEF ReadsCurrent, As!AttemptsBy, AttemptsBy
<1>6. \A e : As(p)!Verdict(e) = Verdict(e)
    BY <1>4, <1>5, SameVocabulary DEF As!Verdict, Verdict
<1>7. As(p)!Telling = Telling
    BY <1>1, <1>6 DEF As!Telling, Telling
<1>8. \A evs : As(p)!Latest(evs) = Latest(evs)
    BY DEF As!Latest, Latest
<1>9. As(p)!ReconciledOutcome = ReconciledOutcome
    BY <1>6, <1>7, <1>8 DEF ReadsCurrent, As!ReconciledOutcome, ReconciledOutcome
<1>10. As(p)!ReconciledSchedule = ReconciledSchedule
    BY <1>2, <1>3, SameVocabulary DEF ReadsCurrent, As!ReconciledSchedule, ReconciledSchedule
<1> QED BY <1>8, <1>9, <1>10 DEF ReadsCurrent
-----------------------------------------------------------------------------
(* SeenIsCurrent is kept because whoever has read holds the lock, and only  *)
(* a holder writes.                                                         *)

Holding == {"held", "reading", "decided", "written"}

Releases == [Versions -> {"absent", "ci", "bench"}]
Schedules == [id : Nat, version : Reported,
              state : {"none", "scheduled", "failed"}, attempts : Nat]
Outcomes == [kind : {"none", "installed", "rollback", "failed"}, version : Reported]
Document == [releases : Releases, schedule : Schedules, reconciled : Nat, outcome : Outcomes,
             nextSeq : Nat, fw : [Devices -> Reported], events : SUBSET Event]

LockTypes ==
    /\ lock \in Procs \cup {Nobody}
    /\ at \in [Procs -> Holding \cup {"idle", "waiting"}]
    /\ job \in [Procs -> Jobs \cup {NoJob}]
    /\ seen \in [Procs -> Document]
    /\ \A p \in Procs : at[p] # "idle" => job[p] \in Jobs

Exclusive == \A p \in Procs : at[p] \in Holding => lock = p

LockInv == RegInv /\ LockTypes /\ Exclusive /\ SeenIsCurrent

LEMMA ExclusiveStep == LockTypes /\ Exclusive /\ [Next]_vars => Exclusive'
<1> SUFFICES ASSUME LockTypes, Exclusive, [Next]_vars PROVE Exclusive'
    OBVIOUS
<1>1. ASSUME NEW p \in Procs, Begin(p) \/ Step(p) \/ Fail(p) PROVE Exclusive'
    <2>1. Nobody \notin Procs /\ at \in [Procs -> Holding \cup {"idle", "waiting"}]
        BY NobodyAssumption DEF LockTypes
    <2>2. CASE Begin(p) \/ GiveUp(p)
        BY <2>1, <2>2 DEF Begin, GiveUp, Stop, Exclusive, Holding
    <2>3. CASE Acquire(p)
        BY <2>1, <2>3 DEF Acquire, Exclusive, Holding
    <2>4. CASE ReadRegistry(p) \/ ReadReport(p)
        BY <2>1, <2>4 DEF ReadRegistry, ReadReport, Exclusive, Holding
    <2>5. CASE WriteRegistry(p) \/ WriteReport(p) \/ WriteNothing(p)
        BY <2>1, <2>5 DEF WriteRegistry, WriteReport, WriteNothing, Written, Exclusive, Holding
    <2>6. CASE End(p) \/ Fail(p)
        BY <2>1, <2>6 DEF End, Fail, Release, Stop, Exclusive, Holding
    <2> QED BY <1>1, <2>2, <2>3, <2>4, <2>5, <2>6 DEF Step
<1>2. CASE UNCHANGED vars
    BY <1>2 DEF vars, lockVars, Exclusive
<1> QED BY <1>1, <1>2 DEF Next

LEMMA SeenStep == RegInv /\ LockTypes /\ Exclusive /\ SeenIsCurrent /\ [Next]_vars => SeenIsCurrent'
<1> SUFFICES ASSUME RegInv, LockTypes, Exclusive, SeenIsCurrent, [Next]_vars PROVE SeenIsCurrent'
    OBVIOUS
<1> USE DEF LockTypes
<1>1. ASSUME NEW p \in Procs, Begin(p) \/ Step(p) \/ Fail(p) PROVE SeenIsCurrent'
    <2>1. CASE Begin(p) \/ Acquire(p)
        BY <2>1 DEF Begin, Acquire, SeenIsCurrent, Holding, regVars, registry, report
    <2>2. CASE GiveUp(p) \/ End(p) \/ Fail(p)
        BY <2>2 DEF GiveUp, End, Fail, Stop, SeenIsCurrent, Holding, regVars, registry, report
    <2>3. CASE ReadRegistry(p)
        <3>1. seen' = [seen EXCEPT ![p].releases = releases, ![p].schedule = schedule,
                            ![p].reconciled = reconciled, ![p].outcome = outcome]
              /\ at' = [at EXCEPT ![p] = "reading"]
              /\ UNCHANGED <<schedule, releases, reconciled, outcome, nextSeq, fw, events>>
            BY <2>3 DEF ReadRegistry, regVars, registry, report
        <3>2. \A q \in Procs \ {p} : seen'[q] = seen[q] /\ at'[q] = at[q]
            BY <3>1
        <3>3. /\ at'[p] = "reading"
              /\ seen'[p].schedule = schedule /\ seen'[p].releases = releases
              /\ seen'[p].reconciled = reconciled /\ seen'[p].outcome = outcome
            BY <3>1 DEF Document
        <3> QED BY <3>1, <3>2, <3>3 DEF SeenIsCurrent
    <2>4. CASE ReadReport(p)
        <3>1. seen' = [seen EXCEPT ![p].nextSeq = nextSeq, ![p].fw = fw, ![p].events = events]
              /\ at[p] = "reading" /\ at' = [at EXCEPT ![p] = "decided"]
              /\ UNCHANGED <<schedule, releases, reconciled, outcome, nextSeq, fw, events>>
            BY <2>4 DEF ReadReport, regVars, registry, report
        <3>2. \A q \in Procs \ {p} : seen'[q] = seen[q] /\ at'[q] = at[q]
            BY <3>1
        <3>3. /\ seen'[p].schedule = seen[p].schedule /\ seen'[p].releases = seen[p].releases
              /\ seen'[p].reconciled = seen[p].reconciled /\ seen'[p].outcome = seen[p].outcome
              /\ seen'[p].nextSeq = nextSeq /\ seen'[p].fw = fw /\ seen'[p].events = events
            BY <3>1 DEF Document
        <3> QED BY <3>1, <3>2, <3>3 DEF SeenIsCurrent
    <2>5. CASE WriteRegistry(p) \/ WriteReport(p) \/ WriteNothing(p)
        <3>1. at[p] = "decided" /\ at' = [at EXCEPT ![p] = "written"] /\ UNCHANGED seen
            BY <2>5 DEF WriteRegistry, WriteReport, WriteNothing, Written
        <3>2. \A q \in Procs \ {p} : at'[q] \notin {"reading", "decided"}
            BY <3>1 DEF Exclusive, Holding
        <3>3. at'[p] = "written"
            BY <3>1
        <3> QED BY <3>2, <3>3 DEF SeenIsCurrent
    <2> QED BY <1>1, <2>1, <2>2, <2>3, <2>4, <2>5 DEF Step
<1>2. CASE UNCHANGED vars
    BY <1>2 DEF vars, lockVars, regVars, registry, report, SeenIsCurrent
<1> QED BY <1>1, <1>2 DEF Next

LEMMA TypesInit == Init => LockTypes /\ Exclusive /\ SeenIsCurrent
<1> SUFFICES ASSUME Init PROVE LockTypes /\ Exclusive /\ SeenIsCurrent
    OBVIOUS
<1>1. Nothing \in Document
    BY DEF Nothing, Document, Releases, Schedules, Outcomes,
           NoSchedule, NoOutcome, NoVersion, Reported
<1>2. LockTypes
    BY <1>1 DEF Init, LockTypes
<1> QED BY <1>2 DEF Init, Exclusive, Holding, SeenIsCurrent

LEMMA TypesStep == RegInv /\ LockTypes /\ [Next]_vars => LockTypes'
<1> SUFFICES ASSUME RegInv, LockTypes, [Next]_vars PROVE LockTypes'
    OBVIOUS
<1> USE DEF LockTypes
<1>1. ASSUME NEW p \in Procs, Begin(p) \/ Step(p) \/ Fail(p) PROVE LockTypes'
    <2>0. /\ releases \in Releases /\ schedule \in Schedules /\ reconciled \in Nat
          /\ outcome \in Outcomes /\ nextSeq \in Nat /\ fw \in [Devices -> Reported]
          /\ events \in SUBSET Event
        BY DEF RegInv, RegTypeOK, Releases, Schedules, Outcomes
    <2>1. CASE Begin(p)
        <3>1. PICK j \in JobsOf(p) : job' = [job EXCEPT ![p] = j]
            BY <2>1 DEF Begin
        <3>2. j \in Jobs
            BY DEF JobsOf
        <3> HIDE DEF Jobs, Document
        <3> QED BY <2>1, <3>1, <3>2 DEF Begin, Holding
    <2>2. CASE Acquire(p)
        BY <2>2 DEF Acquire, Holding
    <2>3. CASE GiveUp(p) \/ End(p) \/ Fail(p)
        <3>1. Nothing \in Document
            BY DEF Nothing, Document, Releases, Schedules, Outcomes,
           NoSchedule, NoOutcome, NoVersion, Reported
        <3>2. Stop(p) /\ lock' \in {lock, Nobody}
            BY <2>3 DEF GiveUp, End, Fail, Release
        <3> QED BY <3>1, <3>2 DEF Stop, Holding
    <2>4. CASE ReadRegistry(p)
        <3>1. seen' = [seen EXCEPT ![p].releases = releases, ![p].schedule = schedule,
                            ![p].reconciled = reconciled, ![p].outcome = outcome]
            BY <2>4 DEF ReadRegistry
        <3>2. [seen[p] EXCEPT !.releases = releases, !.schedule = schedule,
                              !.reconciled = reconciled, !.outcome = outcome] \in Document
            BY <2>0 DEF Document
        <3>3. seen' \in [Procs -> Document]
            <4> HIDE DEF Document
            <4> QED BY <3>1, <3>2
        <3> QED BY <2>4, <3>3 DEF ReadRegistry, Holding
    <2>5. CASE ReadReport(p)
        <3>1. seen' = [seen EXCEPT ![p].nextSeq = nextSeq, ![p].fw = fw, ![p].events = events]
            BY <2>5 DEF ReadReport
        <3>2. [seen[p] EXCEPT !.nextSeq = nextSeq, !.fw = fw, !.events = events] \in Document
            BY <2>0 DEF Document
        <3>3. seen' \in [Procs -> Document]
            <4> HIDE DEF Document
            <4> QED BY <3>1, <3>2
        <3> QED BY <2>5, <3>3 DEF ReadReport, Holding
    <2>6. CASE WriteRegistry(p) \/ WriteReport(p) \/ WriteNothing(p)
        BY <2>6 DEF WriteRegistry, WriteReport, WriteNothing, Written, Holding
    <2> QED BY <1>1, <2>1, <2>2, <2>3, <2>4, <2>5, <2>6 DEF Step
<1>2. CASE UNCHANGED vars
    BY <1>2 DEF vars, lockVars
<1> QED BY <1>1, <1>2 DEF Next
-----------------------------------------------------------------------------
(* A write is the operation of the registry its job stands for: the process *)
(* decided on documents that are current, and writes them in one step.      *)

LEMMA DecidedIsCurrent ==
    ASSUME LockInv, NEW p \in Procs, at[p] = "decided"
    PROVE  ReadsCurrent(p) /\ job[p] \in Jobs /\ seen[p] \in Document
BY DEF LockInv, SeenIsCurrent, ReadsCurrent, LockTypes

LEMMA WriteReportIsPoll ==
    ASSUME LockInv, NEW p \in Procs, WriteReport(p)
    PROVE  RegNext
<1>1. ReadsCurrent(p) /\ job[p] \in Jobs
    BY DecidedIsCurrent DEF WriteReport
<1> DEFINE j == job[p]
<1>2. j.d \in Devices /\ j.f \in Reported /\ j.r \in Results /\ j.low \in BOOLEAN
    BY <1>1 DEF WriteReport, Jobs
<1> HIDE DEF j
<1> DEFINE offer == As(p)!Offered(j.d, As(p)!Running(j.d, j.f), j.low, As(p)!Said(j.d, j.r))
<1>3. offer = Offered(j.d, Running(j.d, j.f), j.low, Said(j.d, j.r))
    BY <1>1, SamePoll
<1>4. offer \in BOOLEAN
    BY <1>3 DEF Offered
<1>5. /\ As(p)!Polled(j.d, j.f, j.r, offer) = Polled(j.d, j.f, j.r, offer)
      /\ As(p)!Said(j.d, j.r) = Said(j.d, j.r)
      /\ As(p)!HighestSeq = HighestSeq
    <2> HIDE DEF offer
    <2> QED BY <1>1, SamePoll
<1>6. Writes(p) /\ j.op = "poll"
      /\ nextSeq' = As(p)!Polled(j.d, j.f, j.r, offer).nextSeq
      /\ fw' = As(p)!Polled(j.d, j.f, j.r, offer).fw
      /\ events' = As(p)!Polled(j.d, j.f, j.r, offer).events
      /\ tally' = tally + Cardinality(Failures(As(p)!Said(j.d, j.r)) \ Failures(events))
      /\ lost' = lost + Cardinality(Unreconciled(Failures(As(p)!Said(j.d, j.r))) \ events')
      /\ UNCHANGED <<registry, issued>>
    BY DEF WriteReport, j
<1>7. As(p)!HighestSeq + 2 <= MaxSeq /\ tally < MaxSeq
    BY <1>6 DEF Writes, j
<1> HIDE DEF offer
<1>8. Poll(j.d, j.f, j.r, j.low, offer)
    BY <1>3, <1>5, <1>6, <1>7 DEF Poll
<1> QED BY <1>2, <1>4, <1>8 DEF RegNext

LEMMA WriteRegistryIsOperation ==
    ASSUME LockInv, NEW p \in Procs, WriteRegistry(p)
    PROVE  RegNext
<1> DEFINE j == job[p]
<1>1. /\ ReadsCurrent(p) /\ j \in Jobs /\ seen[p] \in Document /\ j.op # "poll" /\ Writes(p)
      /\ releases' = NewRegistry(p).releases /\ schedule' = NewRegistry(p).schedule
      /\ reconciled' = NewRegistry(p).reconciled /\ outcome' = NewRegistry(p).outcome
      /\ issued' = IF j.op = "schedule" THEN issued + 1 ELSE issued
      /\ tally' = IF schedule'.id = schedule.id THEN tally ELSE 0
      /\ lost' = IF schedule'.id = schedule.id THEN lost ELSE 0
      /\ UNCHANGED report
    BY DecidedIsCurrent DEF WriteRegistry
<1>2. RegTypeOK
    BY DEF LockInv, RegInv
<1>3. CASE j.op = "publish"
    <2>1. j.v \in Versions /\ j.kind \in Kinds
        BY <1>1, <1>3 DEF Jobs
    <2>2. NewRegistry(p) = [seen[p] EXCEPT !.releases[j.v] = j.kind]
        BY <1>3 DEF NewRegistry
    <2>3. /\ releases' = [releases EXCEPT ![j.v] = j.kind]
          /\ UNCHANGED <<schedule, reconciled, outcome>>
        BY <1>1, <2>2 DEF ReadsCurrent, Document
    <2>4. releases[j.v] = "absent" /\ (j.kind = "ci" => \A w \in Versions : releases[w] = "ci" => w < j.v)
        BY <1>1, <1>3 DEF Writes, ReadsCurrent
    <2>5. Publish(j.v, j.kind)
        BY <1>1, <1>3, <2>3, <2>4 DEF Publish, history
    <2> QED BY <2>1, <2>5 DEF RegNext, Operator
<1>4. CASE j.op = "schedule"
    <2> DEFINE new == [id |-> issued + 1, version |-> j.v, state |-> "scheduled", attempts |-> 0]
    <2>1. j.v \in Versions /\ j.running \in Reported
        BY <1>1, <1>4 DEF Jobs
    <2>2. NewRegistry(p) = [seen[p] EXCEPT !.schedule = new]
        BY <1>4 DEF NewRegistry
    <2>3. schedule' = new /\ UNCHANGED <<releases, reconciled, outcome>>
        BY <1>1, <2>2 DEF ReadsCurrent, Document
    <2>4. /\ issued < MaxSchedules
          /\ releases[j.v] # "absent" /\ j.v >= Floor /\ j.v # j.running
          /\ ~(schedule.state = "scheduled" /\ Acknowledged)
        BY <1>1, <1>4, SameAcknowledged DEF Writes, ReadsCurrent
    <2>5. schedule'.id # schedule.id
        BY <1>2, <2>3 DEF RegTypeOK
    <2>6. Schedule(j.v, j.running)
        BY <1>1, <1>4, <2>3, <2>4, <2>5 DEF Schedule
    <2> QED BY <2>1, <2>6 DEF RegNext, Operator
<1>5. CASE j.op = "cancel"
    <2>1. NewRegistry(p) = [seen[p] EXCEPT !.schedule = NoSchedule]
        BY <1>5 DEF NewRegistry
    <2>2. schedule' = NoSchedule /\ UNCHANGED <<releases, reconciled, outcome>>
        BY <1>1, <2>1 DEF ReadsCurrent, Document
    <2>3. schedule # NoSchedule /\ ~Acknowledged
        BY <1>1, <1>5, SameAcknowledged DEF Writes, ReadsCurrent
    <2>4. schedule'.id # schedule.id
        BY <2>2, <2>3 DEF LockInv, RegInv, NoSchedule
    <2>5. Cancel
        BY <1>1, <1>5, <2>2, <2>3, <2>4 DEF Cancel
    <2> QED BY <2>5 DEF RegNext, Operator
<1>6. CASE j.op = "reconcile"
    <2>1. NewRegistry(p) = [seen[p] EXCEPT !.schedule = ReconciledSchedule,
                                           !.outcome = ReconciledOutcome,
                                           !.reconciled = Latest(events).seq]
        BY <1>1, <1>6, SameReconcile DEF NewRegistry
    <2>2. /\ schedule' = ReconciledSchedule /\ outcome' = ReconciledOutcome
          /\ reconciled' = Latest(events).seq /\ UNCHANGED releases
        BY <1>1, <2>1 DEF ReadsCurrent, Document
    <2>3. Unreconciled(events) # {}
        BY <1>1, <1>6, SameUnreconciled DEF Writes, ReadsCurrent
    <2>4. /\ tally' = IF ReconciledSchedule = NoSchedule THEN 0 ELSE tally
          /\ lost' = IF ReconciledSchedule = NoSchedule THEN 0 ELSE lost
        <3>1. CASE schedule = NoSchedule
            <4>1. ReconciledSchedule = NoSchedule
                BY <3>1 DEF ReconciledSchedule
            <4>2. tally = 0 /\ lost = 0
                BY <3>1 DEF LockInv, RegInv
            <4> QED BY <1>1, <2>2, <4>1, <4>2
        <3>2. CASE schedule # NoSchedule
            <4>1. schedule.id # 0 /\ NoSchedule.id = 0
                BY <3>2 DEF LockInv, RegInv, NoSchedule
            <4>2. ReconciledSchedule # NoSchedule => ReconciledSchedule.id = schedule.id
                BY <1>2, <3>2 DEF ReconciledSchedule, RegTypeOK
            <4> QED BY <1>1, <2>2, <4>1, <4>2
        <3> QED BY <3>1, <3>2
    <2>5. Reconcile
        BY <1>1, <1>6, <2>2, <2>3, <2>4 DEF Reconcile
    <2> QED BY <2>5 DEF RegNext
<1>7. j.op \in {"publish", "schedule", "cancel", "reconcile"}
    BY <1>1 DEF Jobs
<1> QED BY <1>3, <1>4, <1>5, <1>6, <1>7

LEMMA StepImplements == LockInv /\ [Next]_vars => [RegNext]_regVars
<1> SUFFICES ASSUME LockInv, [Next]_vars PROVE [RegNext]_regVars
    OBVIOUS
<1>1. ASSUME NEW p \in Procs, Begin(p) \/ Step(p) \/ Fail(p) PROVE [RegNext]_regVars
    <2>1. CASE WriteRegistry(p)
        BY <2>1, WriteRegistryIsOperation
    <2>2. CASE WriteReport(p)
        BY <2>2, WriteReportIsPoll
    <2>3. CASE UNCHANGED regVars
        BY <2>3
    <2> QED BY <1>1, <2>1, <2>2, <2>3
            DEF Step, Begin, Acquire, GiveUp, ReadRegistry, ReadReport, WriteNothing, End, Fail
<1>2. CASE UNCHANGED vars
    BY <1>2 DEF vars
<1> QED BY <1>1, <1>2 DEF Next

LEMMA LockInvInit == Init => LockInv
BY RegInvInit, TypesInit DEF Init, LockInv

LEMMA LockInvStep == LockInv /\ [Next]_vars => LockInv'
<1> SUFFICES ASSUME LockInv, [Next]_vars PROVE LockInv'
    OBVIOUS
<1>1. RegInv'
    BY StepImplements, RegInvStep DEF LockInv
<1>2. LockTypes' /\ Exclusive' /\ SeenIsCurrent'
    BY TypesStep, ExclusiveStep, SeenStep DEF LockInv
<1> QED BY <1>1, <1>2 DEF LockInv

(* No process decides on a document that another has replaced meanwhile     *)
(* (registry_lock around load, decide and save).                            *)
THEOREM NeverStale == Spec => []SeenIsCurrent
<1>1. LockInv => SeenIsCurrent
    BY DEF LockInv
<1> QED BY <1>1, LockInvInit, LockInvStep, PTL DEF Spec

(* Every request, cycle or import, whatever it interleaves with and         *)
(* wherever it dies, is one operation of the atomic registry or nothing.    *)
THEOREM LockingImplementsRegistry == Spec => RegSpec
<1>1. Init => RegInit
    BY DEF Init
<1> QED BY <1>1, LockInvInit, LockInvStep, StepImplements, PTL DEF Spec, RegSpec

(* What is proved of the atomic registry then holds of the four processes.  *)

(* However the companion, the polls and reconcile interleave, an offer is   *)
(* of the schedule that stands when it is recorded.                         *)
THEOREM OffersStandUnderLocks == Spec => OfferedIsScheduled
<1> QED BY LockingImplementsRegistry, OffersStand, PTL

(* No two processes count a failure twice between them, and none is skipped *)
(* where one of them dies.                                                  *)
THEOREM FailuresCountedUnderLocks == Spec => []EveryFailureCounts
<1> QED BY LockingImplementsRegistry, FailuresCounted, PTL
=============================================================================
