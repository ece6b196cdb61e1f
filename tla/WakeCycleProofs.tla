-------------------------- MODULE WakeCycleProofs --------------------------
(***************************************************************************)
(* For every value of the constants: type correctness of the wake cycle,    *)
(* the spacing of the refreshes, the agreement of hash and glass, the once  *)
(* per outage of the NO CONNECTION screen, and the backoff after a failure. *)
(***************************************************************************)
EXTENDS WakeCycle, TLAPS

USE DEF HazardKinds, NoAnswer, NoPlan, Hashes, Steps, CommSteps, PCs

(* What the backoff arithmetic promises: never under the base.              *)
LEMMA BackoffBound ==
    ASSUME NEW n \in Nat
    PROVE  Backoff(n) \in Nat /\ Backoff(n) >= BackoffBase
<1> USE TimesAssumption
<1>1. CASE n >= 7
    BY <1>1 DEF Backoff
<1>2. CASE n < 7
    <2>1. n + 1 \in 1..7
        BY <1>2
    <2>2. Doublings[n + 1] \in Nat /\ Doublings[n + 1] >= 1
        BY <2>1 DEF Doublings
    <2> DEFINE m == Doublings[n + 1]
    <2>3. BackoffBase * m \in Nat /\ BackoffBase * m >= BackoffBase
        <3> HIDE DEF m
        <3>1. m \in Nat /\ m >= 1
            BY <2>2 DEF m
        <3>2. PICK k \in Nat : m = k + 1
            BY <3>1
        <3>3. BackoffBase * m = BackoffBase * k + BackoffBase
            BY <3>2
        <3>4. BackoffBase * k \in Nat
            OBVIOUS
        <3> QED BY <3>1, <3>3, <3>4
    <2> HIDE DEF m
    <2>4. Backoff(n) = Least(BackoffBase * m, BackoffMax)
        BY <1>2 DEF Backoff, m
    <2> QED BY <2>3, <2>4 DEF Least
<1> QED BY <1>1, <1>2

LEMMA FailurePlanType ==
    ASSUME NEW n \in 0..CounterMax
    PROVE  /\ FailurePlan(n) \in [sleep : Nat, next : 0..CounterMax, failed : BOOLEAN]
           /\ FailurePlan(n).sleep >= BackoffBase
           /\ FailurePlan(n).next \in 0..CounterMax
BY BackoffBound, CountersAssumption DEF FailurePlan

LEMMA CreditType ==
    ASSUME NEW g \in 0..Spacing, NEW e \in Nat
    PROVE  Credit(g, e) \in 0..Spacing /\ Credit(g, e) >= g - e
BY TimesAssumption DEF Credit

LEMMA AgeType ==
    ASSUME NEW s \in 0..Spacing, NEW d \in Nat
    PROVE  /\ Age(s, d) \in 0..Spacing
           /\ Age(s, d) >= s
           /\ Age(s, d) >= s + d \/ Age(s, d) = Spacing
BY TimesAssumption DEF Age, Least

-----------------------------------------------------------------------------
(* Type correctness                                                        *)

(* Time passing takes no more off the guard than it adds to `since'.        *)
LEMMA ElapseKeepsCover ==
    ASSUME NEW s \in 0..Spacing, NEW g \in 0..Spacing,
           NEW d \in Nat, NEW e \in Nat, e <= d, s + g >= Spacing
    PROVE  Age(s, d) + Credit(g, e) >= Spacing
BY TimesAssumption DEF Age, Least, Credit

LEMMA ElapseType ==
    ASSUME TypeOK, Elapse
    PROVE  /\ guard' \in 0..Spacing /\ since' \in 0..Spacing
           /\ since + guard >= Spacing => since' + guard' >= Spacing
<1>1. PICK d \in Latency : /\ since' = Age(since, d)
                           /\ \E e \in {d - 1, d} \cap Nat : guard' = Credit(guard, e)
    BY DEF Elapse
<1>2. d \in Nat
    BY TimesAssumption
<1>3. PICK e \in Nat : e <= d /\ guard' = Credit(guard, e)
    BY <1>1, <1>2
<1>4. since \in 0..Spacing /\ guard \in 0..Spacing
    BY DEF TypeOK
<1> QED BY <1>1, <1>2, <1>3, <1>4, CreditType, AgeType, ElapseKeepsCover

LEMMA FailType ==
    ASSUME TypeOK, NEW s \in Steps, Fail(s)
    PROVE  /\ pc' \in PCs /\ step' \in Steps
           /\ plan' \in [sleep : Nat, next : 0..CounterMax, failed : BOOLEAN]
           /\ fails' \in 0..CounterMax
           /\ pc' = "failing" /\ step' = s /\ plan'.sleep >= BackoffBase
<1>1. CASE plan' = FailurePlan(fails) /\ fails' = plan'.next
    BY <1>1, FailurePlanType DEF TypeOK, Fail
<1>2. CASE plan' = FailurePlan(0) /\ UNCHANGED fails
    BY <1>2, FailurePlanType, CountersAssumption DEF TypeOK, Fail
<1> QED BY <1>1, <1>2 DEF Fail

LEMMA BlitType ==
    ASSUME TypeOK, NEW screen \in Hashes, Blit(screen)
    PROVE  /\ glass' \in Hashes /\ gap' \in 0..Spacing
           /\ since' \in 0..Spacing /\ guard' \in 0..Spacing
BY AgeType, TimesAssumption DEF TypeOK, Blit

LEMMA BlitFailsType ==
    ASSUME TypeOK, NEW screen \in Hashes, BlitFails(screen)
    PROVE  /\ glass' \in Hashes /\ gap' \in 0..Spacing
           /\ since' \in 0..Spacing /\ guard' \in 0..Spacing
           /\ torn' \in BOOLEAN
<1>1. Age(since, guard) \in 0..Spacing
    BY AgeType DEF TypeOK
<1>2. torn' \in BOOLEAN
    BY DEF TypeOK, BlitFails
<1> QED BY <1>1, <1>2, TimesAssumption DEF TypeOK, BlitFails

LEMMA TypeInit == Init => TypeOK
<1> SUFFICES ASSUME Init PROVE TypeOK
    OBVIOUS
<1>1. torn \in BOOLEAN /\ token \in BOOLEAN
    BY DEF Init
<1> QED BY <1>1, TimesAssumption, CountersAssumption DEF Init, TypeOK

LEMMA TypeNext == TypeOK /\ [Next]_vars => TypeOK'
<1> SUFFICES ASSUME TypeOK, [Next]_vars PROVE TypeOK'
    OBVIOUS
<1> USE TimesAssumption, CountersAssumption
<1>1. CASE TimerWake
    <2>1. guard' \in 0..Spacing /\ since' \in 0..Spacing
        BY <1>1, CreditType, AgeType DEF TypeOK, TimerWake
    <2> QED BY <1>1, <2>1 DEF TypeOK, TimerWake, Fresh
<1>2. CASE EarlyWake
    <2>1. since' \in 0..Spacing
        BY <1>2, AgeType DEF TypeOK, EarlyWake
    <2> QED BY <1>2, <2>1 DEF TypeOK, EarlyWake, Fresh
<1>3. CASE NvsUnusable
    BY <1>3, BackoffBound DEF TypeOK, NvsUnusable, NoElapse
<1>4. CASE AbnormalReset
    <2>1. Fail("reset")
        BY <1>4 DEF AbnormalReset
    <2> QED BY <1>4, <2>1, FailType DEF TypeOK, AbnormalReset, NoElapse
<1>5. CASE Connect
    BY <1>5, ElapseType DEF TypeOK, Connect, Radio
<1>6. CASE Enrol
    BY <1>6, ElapseType DEF TypeOK, Enrol, NoElapse
<1>7. CASE Answer
    BY <1>7, ElapseType DEF TypeOK, Answer
<1>8. CASE PollFails
    <2>1. PICK s \in Steps : Fail(s) /\ token' \in BOOLEAN
        BY <1>8 DEF TypeOK, PollFails
    <2> QED BY <1>8, <2>1, FailType, ElapseType DEF TypeOK, PollFails
<1>9. CASE Deadline
    <2>1. Fail("deadline")
        BY <1>9 DEF Deadline
    <2> QED BY <1>9, <2>1, FailType DEF TypeOK, Deadline, NoElapse
<1>10. CASE DrawUpdating
    <2>1. /\ glass' \in Hashes /\ gap' \in 0..Spacing /\ torn' \in BOOLEAN
          /\ since' \in 0..Spacing /\ guard' \in 0..Spacing
        BY <1>10, BlitType, BlitFailsType DEF TypeOK, DrawUpdating, NoElapse
    <2> QED BY <1>10, <2>1 DEF TypeOK, DrawUpdating
<1>11. CASE StoreUpdating
    <2>1. torn' \in BOOLEAN
        BY <1>11 DEF StoreUpdating
    <2> QED BY <1>11, <2>1 DEF TypeOK, StoreUpdating, NoElapse
<1>12. CASE Restart
    <2>1. since' \in 0..Spacing
        BY <1>12, AgeType DEF TypeOK, Restart
    <2> QED BY <1>12, <2>1 DEF TypeOK, Restart, Fresh
<1>13. CASE UpdateFails
    <2>1. \/ pc' = "decided" /\ UNCHANGED <<step, plan, fails>>
          \/ Fail("ota")
        BY <1>13 DEF UpdateFails
    <2>2. /\ pc' \in PCs /\ step' \in Steps /\ fails' \in 0..CounterMax
          /\ plan' \in [sleep : Nat, next : 0..CounterMax, failed : BOOLEAN]
        BY <2>1, FailType DEF TypeOK
    <2> QED BY <1>13, <2>2, ElapseType DEF TypeOK, UpdateFails
<1>14. CASE NoUpdate
    BY <1>14 DEF TypeOK, NoUpdate, NoElapse
<1>15. CASE HashSkip
    BY <1>15 DEF TypeOK, HashSkip, NoElapse
<1>16. CASE Download
    BY <1>16, ElapseType DEF TypeOK, Download
<1>17. CASE DownloadFails
    <2>1. PICK s \in Steps : Fail(s)
        BY <1>17 DEF DownloadFails
    <2> QED BY <1>17, <2>1, FailType, ElapseType DEF TypeOK, DownloadFails
<1>18. CASE DrawPicture
    <2>1. disp.hash \in Hashes
        BY DEF TypeOK
    <2> QED BY <1>18, <2>1, BlitType DEF TypeOK, DrawPicture
<1>19. CASE DrawFails
    <2>1. disp.hash \in Hashes /\ Fail("blit")
        BY <1>19 DEF TypeOK, DrawFails
    <2> QED BY <1>19, <2>1, BlitFailsType, FailType DEF TypeOK, DrawFails
<1>20. CASE Defer
    BY <1>20 DEF TypeOK, Defer, NoElapse
<1>21. CASE StoreHash
    <2>1. torn' \in BOOLEAN
        BY <1>21 DEF StoreHash
    <2> QED BY <1>21, <2>1 DEF TypeOK, StoreHash, NoElapse
<1>22. CASE PlanSleep
    <2>1. plan' \in [sleep : Nat, next : 0..CounterMax, failed : BOOLEAN]
        BY <1>22 DEF TypeOK, PlanSleep, HealthyPlan
    <2>2. fails' \in 0..CounterMax
        BY <1>22 DEF TypeOK, PlanSleep, HealthyPlan
    <2> QED BY <1>22, <2>1, <2>2 DEF TypeOK, PlanSleep, NoElapse
<1>23. CASE DrawFault
    BY <1>23, BlitType DEF TypeOK, DrawFault
<1>24. CASE StoreFault
    <2>1. torn' \in BOOLEAN
        BY <1>24 DEF StoreFault
    <2> QED BY <1>24, <2>1 DEF TypeOK, StoreFault, NoElapse
<1>25. CASE NoFault
    <2>1. /\ glass' \in Hashes /\ gap' \in 0..Spacing /\ torn' \in BOOLEAN
          /\ since' \in 0..Spacing /\ guard' \in 0..Spacing
        BY <1>25, BlitFailsType DEF TypeOK, NoFault, NoElapse
    <2> QED BY <1>25, <2>1 DEF TypeOK, NoFault
<1>26. CASE Sleep
    BY <1>26 DEF TypeOK, Sleep, NoElapse
<1>27. CASE Crash
    <2>1. torn' \in BOOLEAN
        BY <1>27 DEF TypeOK, Crash
    <2>2. Age(since, guard) \in 0..Spacing
        <3>1. since \in 0..Spacing /\ guard \in Nat
            BY DEF TypeOK
        <3> QED BY <3>1, AgeType
    <2>3. /\ glass' \in Hashes /\ gap' \in 0..Spacing
          /\ since' \in 0..Spacing
        BY <1>27, <2>2 DEF TypeOK, Crash
    <2> QED BY <1>27, <2>1, <2>3 DEF TypeOK, Crash, Fresh
<1>28. CASE PowerCycle
    BY <1>28 DEF TypeOK, PowerCycle, Fresh
<1>29. CASE Publish
    BY <1>29 DEF TypeOK, Publish, device
<1>30. CASE UNCHANGED vars
    BY <1>30 DEF TypeOK, vars, device
<1> QED
    BY <1>1, <1>2, <1>3, <1>4, <1>5, <1>6, <1>7, <1>8, <1>9, <1>10, <1>11,
       <1>12, <1>13, <1>14, <1>15, <1>16, <1>17, <1>18, <1>19, <1>20, <1>21,
       <1>22, <1>23, <1>24, <1>25, <1>26, <1>27, <1>28, <1>29, <1>30
    DEF Next, Device, Wake, Poll, Update, Picture, Finish

(* The types of the wake cycle's variables: what every definition of the    *)
(* firmware model relies on, the guard and the counter bounds included.     *)
THEOREM TypeCorrect == Spec => []TypeOK
<1>1. QED BY TypeInit, TypeNext, PTL DEF Spec

-----------------------------------------------------------------------------
(* The spacing of the refreshes                                            *)

(* The two cases the guard does not survive.  A refresh that fails after it *)
(* began does not arm the guard.  And an abnormal reset clears the guard,   *)
(* which the backoff sleep makes up for, unless something other than the    *)
(* timer ends that sleep early: no button is wired up in this hardware.     *)
GuardKept == "blitLate" \notin Hazards /\ ~({"crash", "button"} \subseteq Hazards)

Covered == since + guard >= Spacing

(* After an abnormal reset nothing is drawn before a sleep of at least the  *)
(* base backoff, which is no shorter than the spacing.                      *)
AfterReset ==
    /\ "crash" \in Hazards
    /\ \/ pc = "boot" /\ reset = "abnormal"
       \/ pc \in {"failing", "ready"} /\ step \in {"reset", "nvs"} /\ plan.sleep >= Spacing
       \/ pc = "asleep" /\ planned >= Spacing

SpacingInv == gap = Spacing /\ (Covered \/ AfterReset)

LEMMA CoveredDraw ==
    ASSUME TypeOK, Covered PROVE Age(since, guard) = Spacing
BY TimesAssumption DEF TypeOK, Covered, Age, Least

(* Actions that let no time pass and go nowhere near the panel.             *)
LEMMA QuietStep ==
    ASSUME SpacingInv, Covered, UNCHANGED <<since, guard, gap>>
    PROVE  SpacingInv'
BY DEF SpacingInv, Covered

LEMMA ElapsingStep ==
    ASSUME TypeOK, SpacingInv, Covered, Elapse, UNCHANGED gap
    PROVE  SpacingInv'
BY ElapseType DEF SpacingInv, Covered

LEMMA BlitStep ==
    ASSUME TypeOK, Covered, NEW screen, Blit(screen)
    PROVE  SpacingInv'
BY CoveredDraw, TimesAssumption DEF Blit, SpacingInv, Covered

LEMMA BlitFailsStep ==
    ASSUME GuardKept, TypeOK, SpacingInv, Covered, NEW screen, BlitFails(screen)
    PROVE  SpacingInv'
BY CoveredDraw, TimesAssumption DEF GuardKept, BlitFails, SpacingInv, Covered

LEMMA SpacingInit == Init => SpacingInv
BY TimesAssumption DEF Init, SpacingInv, Covered

LEMMA SpacingNext ==
    ASSUME GuardKept PROVE TypeOK /\ SpacingInv /\ [Next]_vars => SpacingInv'
<1> SUFFICES ASSUME TypeOK, SpacingInv, [Next]_vars PROVE SpacingInv'
    OBVIOUS
<1>1. CASE TimerWake
    <2>1. since \in Nat /\ guard \in Nat /\ planned \in Nat /\ Spacing \in Nat
        BY TimesAssumption DEF TypeOK
    <2>2. CASE Covered
        BY <1>1, <2>1, <2>2 DEF TimerWake, Covered, Age, Least, Credit, SpacingInv
    <2>3. CASE planned >= Spacing
        BY <1>1, <2>1, <2>3 DEF TimerWake, Covered, Age, Least, Credit, SpacingInv
    <2> QED BY <1>1, <2>2, <2>3 DEF SpacingInv, AfterReset, TimerWake
<1>2. CASE EarlyWake
    <2>1. Covered
        BY <1>2 DEF SpacingInv, AfterReset, GuardKept, EarlyWake
    <2>2. PICK d \in Nat : since' = Age(since, d)
        BY <1>2, TimesAssumption DEF EarlyWake
    <2>3. since' >= since /\ since' \in Nat /\ since \in Nat /\ guard \in Nat
        BY <2>2, AgeType, TimesAssumption DEF TypeOK
    <2> QED BY <1>2, <2>1, <2>3, TimesAssumption DEF EarlyWake, Covered, SpacingInv
<1>3. CASE NvsUnusable
    <2>1. Backoff(0) >= Spacing
        BY BackoffBound, SpacingAssumption, TimesAssumption
    <2>2. CASE Covered
        BY <1>3, <2>2, QuietStep DEF NvsUnusable, NoElapse
    <2>3. CASE AfterReset
        BY <1>3, <2>1, <2>3 DEF NvsUnusable, SpacingInv, AfterReset
    <2> QED BY <2>2, <2>3 DEF SpacingInv
<1>4. CASE AbnormalReset
    <2>1. Fail("reset")
        BY <1>4 DEF AbnormalReset
    <2>2. pc' = "failing" /\ step' = "reset" /\ plan'.sleep >= BackoffBase
        BY <2>1, FailType
    <2>3. plan'.sleep \in Nat
        BY <2>1, FailType
    <2>4. plan'.sleep >= Spacing
        BY <2>2, <2>3, SpacingAssumption, TimesAssumption
    <2>5. CASE Covered
        BY <1>4, <2>5, QuietStep DEF AbnormalReset, NoElapse
    <2>6. CASE AfterReset
        BY <1>4, <2>2, <2>4, <2>6 DEF AbnormalReset, SpacingInv, AfterReset
    <2> QED BY <2>5, <2>6 DEF SpacingInv
<1>5. CASE Connect
    BY <1>5, ElapsingStep DEF Connect, Radio, SpacingInv, AfterReset
<1>6. CASE Enrol
    BY <1>6, ElapsingStep, QuietStep DEF Enrol, NoElapse, SpacingInv, AfterReset
<1>7. CASE Answer
    BY <1>7, ElapsingStep DEF Answer, SpacingInv, AfterReset
<1>8. CASE PollFails
    BY <1>8, ElapsingStep DEF PollFails, Radio, SpacingInv, AfterReset
<1>9. CASE Deadline
    BY <1>9, QuietStep DEF Deadline, Radio, NoElapse, SpacingInv, AfterReset
<1>10. CASE DrawUpdating
    <2>1. Covered
        BY <1>10 DEF DrawUpdating, SpacingInv, AfterReset
    <2> QED BY <1>10, <2>1, BlitStep, BlitFailsStep, QuietStep DEF DrawUpdating, NoElapse
<1>11. CASE StoreUpdating
    BY <1>11, QuietStep DEF StoreUpdating, NoElapse, SpacingInv, AfterReset
<1>12. CASE Restart
    <2>1. Covered
        BY <1>12 DEF Restart, SpacingInv, AfterReset
    <2> QED BY <1>12, <2>1, CoveredDraw, TimesAssumption DEF Restart, SpacingInv, Covered
<1>13. CASE UpdateFails
    BY <1>13, ElapsingStep DEF UpdateFails, SpacingInv, AfterReset
<1>14. CASE NoUpdate
    BY <1>14, QuietStep DEF NoUpdate, NoElapse, SpacingInv, AfterReset
<1>15. CASE HashSkip
    BY <1>15, QuietStep DEF HashSkip, NoElapse, SpacingInv, AfterReset
<1>16. CASE Download
    BY <1>16, ElapsingStep DEF Download, SpacingInv, AfterReset
<1>17. CASE DownloadFails
    BY <1>17, ElapsingStep DEF DownloadFails, SpacingInv, AfterReset
<1>18. CASE DrawPicture
    BY <1>18, BlitStep DEF DrawPicture, SpacingInv, AfterReset
<1>19. CASE DrawFails
    BY <1>19, BlitFailsStep DEF DrawFails, SpacingInv, AfterReset
<1>20. CASE Defer
    BY <1>20, QuietStep DEF Defer, NoElapse, SpacingInv, AfterReset
<1>21. CASE StoreHash
    BY <1>21, QuietStep DEF StoreHash, NoElapse, SpacingInv, AfterReset
<1>22. CASE PlanSleep
    BY <1>22, QuietStep DEF PlanSleep, NoElapse, SpacingInv, AfterReset
<1>23. CASE DrawFault
    <2>1. Covered
        BY <1>23 DEF DrawFault, FaultWanted, ShouldDrawFault, SpacingInv, AfterReset
    <2> QED BY <1>23, <2>1, BlitStep DEF DrawFault
<1>24. CASE StoreFault
    BY <1>24, QuietStep DEF StoreFault, NoElapse, SpacingInv, AfterReset
<1>25. CASE NoFault
    <2>1. CASE Covered
        BY <1>25, <2>1, BlitFailsStep, QuietStep DEF NoFault, NoElapse
    <2>2. CASE AfterReset
        BY <1>25, <2>2
        DEF NoFault, NoElapse, FaultWanted, ShouldDrawFault, SpacingInv, AfterReset
    <2> QED BY <2>1, <2>2 DEF SpacingInv
<1>26. CASE Sleep
    <2>1. CASE Covered
        BY <1>26, <2>1, QuietStep DEF Sleep, NoElapse
    <2>2. CASE AfterReset
        BY <1>26, <2>2 DEF Sleep, SpacingInv, AfterReset
    <2> QED BY <2>1, <2>2 DEF SpacingInv
<1>27. CASE Crash
    BY <1>27 DEF Crash, Fresh, GuardKept, SpacingInv, AfterReset
<1>28. CASE PowerCycle
    BY <1>28, TimesAssumption DEF PowerCycle, SpacingInv, Covered
<1>29. CASE Publish
    BY <1>29 DEF Publish, device, SpacingInv, Covered, AfterReset
<1>30. CASE UNCHANGED vars
    BY <1>30 DEF vars, device, SpacingInv, Covered, AfterReset
<1> QED
    BY <1>1, <1>2, <1>3, <1>4, <1>5, <1>6, <1>7, <1>8, <1>9, <1>10, <1>11,
       <1>12, <1>13, <1>14, <1>15, <1>16, <1>17, <1>18, <1>19, <1>20, <1>21,
       <1>22, <1>23, <1>24, <1>25, <1>26, <1>27, <1>28, <1>29, <1>30
    DEF Next, Device, Wake, Poll, Update, Picture, Finish

(* Two refreshes of the panel are never closer than the configured spacing, *)
(* for every spacing up to the base backoff, every latency, every sleep the *)
(* server may answer and every order of wakes, failures, updates, abnormal  *)
(* resets and power cycles that GuardKept admits.                           *)
THEOREM RefreshesAreSpaced ==
    ASSUME GuardKept PROVE Spec => []RefreshesSpaced
<1>1. SpacingInv => RefreshesSpaced
    BY DEF SpacingInv, RefreshesSpaced
<1>2. TypeOK /\ SpacingInv /\ [Next]_vars => SpacingInv'
    BY SpacingNext
<1> QED BY TypeCorrect, SpacingInit, <1>1, <1>2, PTL DEF Spec
-----------------------------------------------------------------------------
(* The hash in NVS and the glass                                           *)

(* HashIsOnGlass is silent while a refresh waits for its hash; what is      *)
(* drawn then is the picture whose hash will be stored.                     *)
HashInv ==
    /\ HashIsOnGlass
    /\ pc = "drawn" => glass = disp.hash

(* Actions that leave glass, hash and torn alone and end in no draw.        *)
LEMMA StillGlass ==
    ASSUME HashInv, UNCHANGED <<glass, hash, torn>>,
           pc \notin {"drawn", "faultDrawn", "updatingDrawn"}, pc' # "drawn"
    PROVE  HashInv'
BY DEF HashInv, HashIsOnGlass

(* A reset anywhere: a refresh that waits for its hash is torn by it.       *)
LEMMA ResetGlass ==
    ASSUME HashInv, UNCHANGED <<glass, hash>>, pc' = "boot",
           torn' = (torn \/ pc \in {"drawn", "faultDrawn", "updatingDrawn"})
    PROVE  HashInv'
BY DEF HashInv, HashIsOnGlass

(* A blit that fails leaves the glass as it was, or torn.                   *)
LEMMA FailedGlass ==
    ASSUME HashInv, NEW screen, BlitFails(screen), UNCHANGED hash,
           pc \notin {"drawn", "faultDrawn", "updatingDrawn"}, pc' # "drawn"
    PROVE  HashInv'
BY DEF BlitFails, HashInv, HashIsOnGlass

LEMMA HashNext == HashInv /\ [Next]_vars => HashInv'
<1> SUFFICES ASSUME HashInv, [Next]_vars PROVE HashInv'
    OBVIOUS
<1>1. CASE Wake
    BY <1>1, StillGlass
    DEF Wake, TimerWake, EarlyWake, NvsUnusable, AbnormalReset, Fresh, Fail
<1>2. CASE Poll
    BY <1>2, StillGlass DEF Poll, Connect, Enrol, Answer, PollFails, Deadline, Radio, Fail
<1>3. CASE Update
    <2>1. CASE DrawUpdating
        BY <2>1 DEF DrawUpdating, HashInv, HashIsOnGlass
    <2>2. CASE StoreUpdating
        BY <2>2, ScreensAssumption DEF StoreUpdating, HashInv, HashIsOnGlass
    <2>3. CASE Restart \/ UpdateFails \/ NoUpdate
        BY <2>3, StillGlass DEF Restart, UpdateFails, NoUpdate, Fresh, Fail
    <2> QED BY <1>3, <2>1, <2>2, <2>3 DEF Update
<1>4. CASE Picture
    <2>1. CASE DrawPicture
        BY <2>1 DEF DrawPicture, Blit, HashInv, HashIsOnGlass
    <2>2. CASE DrawFails
        BY <2>2, FailedGlass DEF DrawFails, Fail
    <2>3. CASE StoreHash
        BY <2>3 DEF StoreHash, HashInv, HashIsOnGlass
    <2>4. CASE HashSkip \/ Download \/ DownloadFails \/ Defer
        BY <2>4, StillGlass DEF HashSkip, Download, DownloadFails, Defer, Fail
    <2> QED BY <1>4, <2>1, <2>2, <2>3, <2>4 DEF Picture
<1>5. CASE Finish
    <2>1. CASE DrawFault
        BY <2>1 DEF DrawFault, HashInv, HashIsOnGlass
    <2>2. CASE StoreFault
        BY <2>2, ScreensAssumption DEF StoreFault, HashInv, HashIsOnGlass
    <2>3. CASE NoFault
        BY <2>3, StillGlass, FailedGlass DEF NoFault
    <2>4. CASE PlanSleep \/ Sleep
        BY <2>4, StillGlass DEF PlanSleep, Sleep
    <2> QED BY <1>5, <2>1, <2>2, <2>3, <2>4 DEF Finish
<1>6. CASE Crash
    <2>1. CASE UNCHANGED glass /\ torn' = (torn \/ pc \in {"drawn", "faultDrawn", "updatingDrawn"})
        BY <1>6, <2>1, ResetGlass DEF Crash, Fresh
    <2>2. CASE torn' = TRUE
        BY <1>6, <2>2 DEF Crash, Fresh, HashInv, HashIsOnGlass
    <2> QED BY <1>6, <2>1, <2>2 DEF Crash
<1>7. CASE PowerCycle
    BY <1>7, ResetGlass DEF PowerCycle, Fresh
<1>8. CASE Publish
    BY <1>8 DEF Publish, device, HashInv, HashIsOnGlass
<1>9. CASE UNCHANGED vars
    BY <1>9 DEF vars, device, HashInv, HashIsOnGlass
<1> QED BY <1>1, <1>2, <1>3, <1>4, <1>5, <1>6, <1>7, <1>8, <1>9 DEF Next, Device

(* The hash-skip of fp_poll_once() is right: the stored hash is that of the *)
(* glass whatever is reset, cut short or fails, unless a refresh was torn.  *)
THEOREM HashTellsGlass == Spec => []HashIsOnGlass
<1>1. Init => HashInv
    BY ScreensAssumption DEF Init, HashInv, HashIsOnGlass
<1>2. HashInv => HashIsOnGlass
    BY DEF HashInv
<1> QED BY <1>1, <1>2, HashNext, PTL DEF Spec

-----------------------------------------------------------------------------
(* The sleep after a failure                                               *)

(* A plan made for a failure is kept until the next wake makes another, and *)
(* the frame sleeps what it planned.                                        *)
SleepInv ==
    /\ plan.failed => plan.sleep >= BackoffBase
    /\ pc = "asleep" => planned = plan.sleep

(* The failure exit plans at least the base backoff.                        *)
LEMMA FailPlans ==
    ASSUME TypeOK, NEW s, Fail(s)
    PROVE  pc' = "failing" /\ plan'.sleep >= BackoffBase
BY FailurePlanType, CountersAssumption DEF TypeOK, Fail

LEMMA SamePlan ==
    ASSUME SleepInv, UNCHANGED plan, pc' # "asleep"
    PROVE  SleepInv'
BY DEF SleepInv

LEMMA FailedPlan ==
    ASSUME TypeOK, SleepInv, NEW s, Fail(s)
    PROVE  SleepInv'
BY FailPlans DEF SleepInv

LEMMA SleepNext == TypeOK /\ SleepInv /\ [Next]_vars => SleepInv'
<1> SUFFICES ASSUME TypeOK, SleepInv, [Next]_vars PROVE SleepInv'
    OBVIOUS
<1>1. CASE Wake
    <2>1. CASE NvsUnusable
        BY <2>1, BackoffBound DEF NvsUnusable, SleepInv
    <2>2. CASE AbnormalReset
        BY <2>2, FailedPlan DEF AbnormalReset
    <2>3. CASE TimerWake \/ EarlyWake
        BY <2>3, SamePlan DEF TimerWake, EarlyWake, Fresh
    <2> QED BY <1>1, <2>1, <2>2, <2>3 DEF Wake
<1>2. CASE Poll
    BY <1>2, SamePlan, FailedPlan DEF Poll, Connect, Enrol, Answer, PollFails, Deadline
<1>3. CASE Update
    BY <1>3, SamePlan, FailedPlan
    DEF Update, DrawUpdating, StoreUpdating, Restart, Fresh, UpdateFails, NoUpdate
<1>4. CASE Picture
    BY <1>4, SamePlan, FailedPlan
    DEF Picture, HashSkip, Download, DownloadFails, DrawPicture, DrawFails, Defer, StoreHash
<1>5. CASE Finish
    <2>1. CASE PlanSleep
        BY <2>1 DEF PlanSleep, HealthyPlan, SleepInv
    <2>2. CASE Sleep
        BY <2>2 DEF Sleep, SleepInv
    <2>3. CASE DrawFault \/ StoreFault \/ NoFault
        BY <2>3, SamePlan DEF DrawFault, StoreFault, NoFault
    <2> QED BY <1>5, <2>1, <2>2, <2>3 DEF Finish
<1>6. CASE Crash \/ PowerCycle
    BY <1>6, SamePlan DEF Crash, PowerCycle, Fresh
<1>7. CASE Publish
    BY <1>7 DEF Publish, device, SleepInv
<1>8. CASE UNCHANGED vars
    BY <1>8 DEF vars, device, SleepInv
<1> QED BY <1>1, <1>2, <1>3, <1>4, <1>5, <1>6, <1>7, <1>8 DEF Next, Device

(* No failure loops on the radio: after any failed wake the frame sleeps at *)
(* least the base backoff, with NVS unusable, after resets, at any counter. *)
THEOREM FailuresBackOff == Spec => []FailureBacksOff
<1>1. Init => SleepInv
    BY DEF Init, SleepInv
<1>2. SleepInv => FailureBacksOff
    BY DEF SleepInv, FailureBacksOff
<1> QED BY <1>1, <1>2, SleepNext, TypeCorrect, PTL DEF Spec

-----------------------------------------------------------------------------
(* The NO CONNECTION screen                                                *)

(* A sentinel remembers every NO CONNECTION screen: while one is on the     *)
(* glass and nothing was torn, NVS holds its sentinel, or that of an update *)
(* which started since.  No server's picture is taken for it.               *)
Pending == {"drawn", "faultDrawn", "updatingDrawn"}
FaultInv ==
    /\ disp.hash # FaultScreen
    /\ ~torn /\ pc \notin Pending /\ glass = FaultScreen
         => hash \in {FaultScreen, UpdatingScreen}

LEMMA StillFault ==
    ASSUME FaultInv, UNCHANGED <<glass, hash, torn>>, pc \notin Pending,
           disp' = disp \/ disp'.hash # FaultScreen
    PROVE  FaultInv'
BY DEF FaultInv

LEMMA ResetFault ==
    ASSUME FaultInv, UNCHANGED <<glass, hash>>, disp' = NoAnswer,
           torn' = (torn \/ pc \in Pending)
    PROVE  FaultInv'
BY ScreensAssumption DEF FaultInv, NoAnswer

LEMMA FailedFault ==
    ASSUME FaultInv, NEW screen, BlitFails(screen), UNCHANGED <<hash, disp>>, pc \notin Pending
    PROVE  FaultInv'
BY DEF BlitFails, FaultInv

LEMMA FaultNext == TypeOK /\ HashInv /\ FaultInv /\ [Next]_vars => FaultInv'
<1> SUFFICES ASSUME TypeOK, HashInv, FaultInv, [Next]_vars PROVE FaultInv'
    OBVIOUS
<1>0. NoAnswer.hash # FaultScreen /\ served # FaultScreen /\ UpdatingScreen # FaultScreen
    BY ScreensAssumption DEF NoAnswer, TypeOK
<1>1. CASE Wake
    BY <1>0, <1>1, StillFault
    DEF Wake, TimerWake, EarlyWake, NvsUnusable, AbnormalReset, Fresh, Fail, Pending
<1>2. CASE Poll
    <2>1. CASE Answer
        <3>1. disp'.hash = served
            BY <2>1 DEF Answer
        <3> QED BY <1>0, <2>1, <3>1, StillFault DEF Answer, Pending
    <2>2. CASE Connect \/ Enrol \/ PollFails \/ Deadline
        BY <2>2, StillFault DEF Connect, Enrol, PollFails, Deadline, Radio, Fail, Pending
    <2> QED BY <1>2, <2>1, <2>2 DEF Poll
<1>3. CASE Update
    <2>1. CASE DrawUpdating
        BY <2>1 DEF DrawUpdating, FaultInv, Pending
    <2>2. CASE StoreUpdating
        BY <2>2 DEF StoreUpdating, FaultInv
    <2>3. CASE Restart \/ UpdateFails \/ NoUpdate
        BY <1>0, <2>3, StillFault DEF Restart, UpdateFails, NoUpdate, Fresh, Fail, Pending
    <2> QED BY <1>3, <2>1, <2>2, <2>3 DEF Update
<1>4. CASE Picture
    <2>1. CASE DrawPicture
        BY <2>1 DEF DrawPicture, FaultInv, Pending
    <2>2. CASE DrawFails
        BY <2>2, FailedFault DEF DrawFails, Pending
    <2>3. CASE StoreHash
        BY <2>3 DEF StoreHash, HashInv, FaultInv
    <2>4. CASE HashSkip \/ Download \/ DownloadFails \/ Defer
        BY <2>4, StillFault DEF HashSkip, Download, DownloadFails, Defer, Fail, Pending
    <2> QED BY <1>4, <2>1, <2>2, <2>3, <2>4 DEF Picture
<1>5. CASE Finish
    <2>1. CASE DrawFault
        BY <2>1 DEF DrawFault, FaultInv, Pending
    <2>2. CASE StoreFault
        BY <2>2 DEF StoreFault, FaultInv
    <2>3. CASE NoFault
        BY <2>3, StillFault, FailedFault DEF NoFault, Pending
    <2>4. CASE PlanSleep \/ Sleep
        BY <2>4, StillFault DEF PlanSleep, Sleep, Pending
    <2> QED BY <1>5, <2>1, <2>2, <2>3, <2>4 DEF Finish
<1>6. CASE Crash
    <2>1. CASE UNCHANGED glass /\ torn' = (torn \/ pc \in Pending)
        BY <1>6, <2>1, ResetFault DEF Crash, Fresh
    <2>2. CASE torn' = TRUE
        BY <1>0, <1>6, <2>2 DEF Crash, Fresh, FaultInv
    <2> QED BY <1>6, <2>1, <2>2 DEF Crash, Pending
<1>7. CASE PowerCycle
    BY <1>7, ResetFault DEF PowerCycle, Fresh, Pending
<1>8. CASE Publish
    BY <1>8 DEF Publish, device, FaultInv
<1>9. CASE UNCHANGED vars
    BY <1>9 DEF vars, device, FaultInv
<1> QED BY <1>1, <1>2, <1>3, <1>4, <1>5, <1>6, <1>7, <1>8, <1>9 DEF Next, Device

(* NO CONNECTION is drawn once per outage, through any number of failed     *)
(* wakes, resets, lost NVS and updates that fail in between; only the       *)
(* failing stage of a wake draws it (maybe_draw_fault_screen).              *)
THEOREM FaultScreensAreNotRepeated == Spec => FaultScreenNotRedrawn
<1> DEFINE Once == pc = "failing" /\ pc' = "faultDrawn" /\ ~torn /\ hash # UpdatingScreen
                     => glass # FaultScreen
<1>1. Init => FaultInv
    BY ScreensAssumption DEF Init, FaultInv, NoAnswer
<1>2. FaultInv /\ [Next]_vars => [Once]_vars
    <2> SUFFICES ASSUME FaultInv, Next, pc = "failing", pc' = "faultDrawn",
                        ~torn, hash # UpdatingScreen, glass = FaultScreen
                 PROVE  FALSE
        OBVIOUS
    <2>1. hash = FaultScreen
        BY DEF FaultInv, Pending
    <2>2. ~DrawFault
        BY <2>1 DEF DrawFault, FaultWanted, ShouldDrawFault
    <2>3. ~Wake /\ ~Poll
        BY DEF Wake, TimerWake, EarlyWake, NvsUnusable, AbnormalReset, Poll, Connect, Enrol,
               Answer, PollFails, Deadline, Radio, Fail
    <2>4. ~Update /\ ~Picture
        BY DEF Update, DrawUpdating, StoreUpdating, Restart, UpdateFails, NoUpdate, Picture,
               HashSkip, Download, DownloadFails, DrawPicture, DrawFails, Defer, StoreHash
    <2>5. ~(PlanSleep \/ StoreFault \/ NoFault \/ Sleep)
        BY DEF PlanSleep, StoreFault, NoFault, Sleep
    <2>6. ~(Crash \/ PowerCycle \/ Publish)
        BY DEF Crash, PowerCycle, Publish, Fresh, device
    <2> QED BY <2>2, <2>3, <2>4, <2>5, <2>6 DEF Next, Device, Finish
<1>3. Init => HashInv
    BY ScreensAssumption DEF Init, HashInv, HashIsOnGlass
<1>4. Spec => [](TypeOK /\ HashInv)
    BY <1>3, TypeCorrect, HashNext, PTL DEF Spec
<1> QED BY <1>1, <1>2, <1>4, FaultNext, PTL DEF Spec, FaultScreenNotRedrawn
=============================================================================
