--------------------------- MODULE OtaUpdateProofs ---------------------------
(***************************************************************************)
(* For any versions, any number of schedules, and with a reset anywhere:    *)
(* the frame and its polls implement the registry; the frame always has an  *)
(* image to boot that has polled once; what it installed is reported; and   *)
(* what it tries is what is scheduled.                                      *)
(***************************************************************************)
EXTENDS OtaUpdate, FirmwareRegistryProofs

(* The inductive invariant.  What keeps a frame bootable is where it        *)
(* stands: it writes a slot only while it runs a confirmed image from       *)
(* another one, it selects a slot only from there, and it confirms an image *)
(* only after that image polled.  Run from the factory image, no OTA slot   *)
(* holds a confirmed one that the bootloader could prefer to it.            *)
Sure == Versions \ Broken
PollingPCs == {"asked", "polled", "updating", "writing", "attempted", "healthy",
               "confirmed", "recorded"}
UpdatingPCs == {"updating", "writing", "attempted"}

SlotTypes ==
    /\ pc \in {"off", "booting", "classified", "up"} \cup PollingPCs
    /\ slots \in [Slots -> [version : Reported,
                            state : {"undefined", "new", "pending", "valid", "aborted"}]]
    /\ boot \in Slots /\ running \in Slots
    /\ reply = NoOffer \/ reply.version \in Versions

Standing ==
    /\ slots["factory"].state = "valid" /\ slots["factory"].version \in Sure
    /\ boot = "factory" => \A s \in OtaSlots : slots[s].state # "valid"
    /\ pc # "off" => running = boot /\ slots[running].state \in {"valid", "pending"}
    /\ pc \in PollingPCs => RunningVersion \in Sure
    /\ pc \in UpdatingPCs => slots[running].state = "valid" /\ reply.version \in Versions
    /\ slots[boot].state \in {"new", "pending"} => slots[boot].version \in Versions

SlotInv == SlotTypes /\ Standing /\ NeverBricked

USE DEF Slots, OtaSlots, Sure, PollingPCs, UpdatingPCs, NoOffer

LEMMA SlotInvInit == Init => SlotInv
<1> SUFFICES ASSUME Init PROVE SlotInv
    OBVIOUS
<1>1. /\ pc = "off" /\ running = boot /\ reply = NoOffer
      /\ Factory \in Sure /\ Sure \subseteq Versions /\ NoVersion \in Reported
    BY FrameAssumption DEF Init, Reported
<1>2. CASE /\ slots = [s \in Slots |-> IF s = "factory" THEN Good(Factory) ELSE Empty]
           /\ boot = "factory"
    BY <1>1, <1>2 DEF SlotInv, SlotTypes, Standing, NeverBricked, Empty, Good, Reported,
        Fallback, Target
<1>3. CASE /\ \E v \in Versions \ (Broken \cup {Factory}) :
                slots = [factory |-> Good(Factory), ota_0 |-> Good(v), ota_1 |-> Good(Factory)]
           /\ boot = "ota_1"
    <2>1. PICK v \in Sure :
            slots = [factory |-> Good(Factory), ota_0 |-> Good(v), ota_1 |-> Good(Factory)]
        BY <1>3
    <2>2. slots["factory"] = Good(Factory) /\ slots["ota_0"] = Good(v) /\ slots["ota_1"] = Good(Factory)
        BY <2>1
    <2>3. slots \in [Slots -> [version : Reported,
                            state : {"undefined", "new", "pending", "valid", "aborted"}]]
        <3>1. Good(v) \in [version : Reported, state : {"valid"}]
              /\ Good(Factory) \in [version : Reported, state : {"valid"}]
            BY <1>1 DEF Good, Reported
        <3>2. slots = [s \in Slots |-> IF s = "ota_0" THEN Good(v) ELSE Good(Factory)]
            BY <2>1
        <3> QED BY <3>1, <3>2
    <2> QED BY <1>1, <1>3, <2>2, <2>3 DEF SlotInv, SlotTypes, Standing, NeverBricked, Good
<1> QED BY <1>2, <1>3 DEF Init

LEMMA BootKeeps == SlotInv /\ Boot => SlotInv'
<1> SUFFICES ASSUME SlotInv, Boot PROVE SlotInv'
    OBVIOUS
<1>1. /\ pc = "off" /\ pc' = "booting" /\ UNCHANGED reply /\ SlotTypes /\ Standing
      /\ slots[boot].state \in {"valid", "new", "pending"}
    BY DEF Boot, SlotInv, NeverBricked
<1>2. CASE slots[boot].state = "new"
    <2>1. slots' = [slots EXCEPT ![boot].state = "pending"] /\ running' = boot /\ boot' = boot
        BY <1>2 DEF Boot
    <2>2. SlotTypes'
        BY <1>1, <2>1 DEF SlotTypes
    <2>3. Fallback(boot)' = Fallback(boot) /\ Fallback(boot) # boot /\ boot \in OtaSlots
        BY <1>1, <1>2, <2>1 DEF Fallback, Target, SlotTypes, Standing
    <2> QED BY <1>1, <1>2, <2>1, <2>2, <2>3 DEF SlotInv, SlotTypes, Standing, NeverBricked
<1>3. CASE slots[boot].state = "pending"
    <2>1. /\ slots' = [slots EXCEPT ![boot].state = "aborted"]
          /\ running' = Fallback(boot) /\ boot' = Fallback(boot)
        BY <1>3 DEF Boot
    <2>2. Fallback(boot) \in Slots /\ Fallback(boot) # boot /\ boot \in OtaSlots
          /\ slots[Fallback(boot)].state = "valid" /\ slots[Fallback(boot)].version \in Sure
        BY <1>1, <1>3 DEF Fallback, Target, SlotTypes, Standing, SlotInv, NeverBricked
    <2>3. SlotTypes'
        BY <1>1, <2>1, <2>2 DEF SlotTypes
    <2>4. Fallback(boot) = "factory" => slots[Target(boot)].state # "valid"
        BY <2>2 DEF Fallback, Target
    <2>5. \A s \in OtaSlots : s = boot \/ s = Target(boot)
        BY <2>2 DEF Target
    <2>6. boot' = "factory" => \A s \in OtaSlots : slots'[s].state # "valid"
        BY <1>1, <2>1, <2>2, <2>4, <2>5 DEF SlotTypes
    <2> QED BY <1>1, <2>1, <2>2, <2>3, <2>6 DEF SlotInv, SlotTypes, Standing, NeverBricked
<1>4. CASE slots[boot].state = "valid"
    <2>1. running' = boot /\ UNCHANGED <<slots, boot>>
        BY <1>4 DEF Boot
    <2> QED BY <1>1, <1>4, <2>1 DEF SlotInv, SlotTypes, Standing, NeverBricked
<1> QED BY <1>1, <1>2, <1>3, <1>4

LEMMA RequestKeeps ==
    ASSUME RegInv, SlotInv, NEW low \in BOOLEAN, Request(low)
    PROVE  SlotInv'
<1>1. /\ pc = "up" /\ pc' = "asked" /\ RunningVersion \notin Broken
      /\ UNCHANGED <<slots, boot, running>>
    BY DEF Request
<1>2. reply' = NoOffer \/ reply'.version \in Versions
    <2>1. PICK offer \in BOOLEAN :
             /\ Poll(Frame, RunningVersion, result, low, offer)
             /\ reply' = IF offer THEN [version |-> schedule.version, id |-> schedule.id]
                                  ELSE NoOffer
        BY DEF Request
    <2>2. CASE offer
        <3>1. schedule.state = "scheduled"
            BY <2>1, <2>2 DEF Poll, Offered
        <3>2. schedule.version \in Versions
            BY <3>1 DEF RegInv, NoSchedule
        <3> QED BY <2>1, <2>2, <3>2
    <2>3. CASE ~offer
        BY <2>1, <2>3
    <2> QED BY <2>2, <2>3
<1>3. RunningVersion \in Versions
    BY <1>1 DEF SlotInv, Standing, NeverBricked, RunningVersion
<1> QED BY <1>1, <1>2, <1>3
        DEF SlotInv, SlotTypes, Standing, NeverBricked, RunningVersion, Fallback, Target

(* The steps that touch no slot: only where the frame stands moves.         *)
LEMMA QuietKeeps ==
    ASSUME SlotInv, UNCHANGED <<slots, boot, running>>,
           reply' \in {reply, NoOffer},
           \/ pc' = "off"
           \/ pc # "off" /\ pc' \in {"booting", "classified", "up"}
           \/ pc \in PollingPCs /\ pc' \in PollingPCs \ UpdatingPCs
           \/ pc = "up" /\ RunningVersion \in Sure /\ pc' = "asked"
           \/ pc \in PollingPCs /\ pc' \in UpdatingPCs /\ reply' = reply
              /\ reply.version \in Versions /\ slots[running].state = "valid"
    PROVE  SlotInv'
BY DEF SlotInv, SlotTypes, Standing, NeverBricked, RunningVersion, Fallback, Target

LEMMA QuietSteps ==
    ASSUME SlotInv,
           \/ BootCheck \/ BootErase \/ RequestUnrecorded \/ Receive \/ Lose \/ WakeFails
           \/ Decline \/ Refuse \/ ApplyFails \/ ApplyErase
           \/ ConfirmRecord \/ ConfirmErase \/ Sleep \/ Crash
    PROVE  SlotInv'
<1>1. UNCHANGED <<slots, boot, running>> /\ reply' \in {reply, NoOffer}
    BY DEF BootCheck, BootErase, RequestUnrecorded, Receive, Lose, WakeFails, Decline, Refuse,
           ApplyFails, ApplyErase, ConfirmRecord, ConfirmErase, Sleep, Crash
<1>2. CASE BootCheck \/ BootErase
    BY <1>1, <1>2, QuietKeeps DEF BootCheck, BootErase
<1>3. CASE RequestUnrecorded
    <2>1. RunningVersion \in Sure
        BY <1>3 DEF RequestUnrecorded, SlotInv, Standing, NeverBricked, RunningVersion
    <2> QED BY <1>1, <1>3, <2>1, QuietKeeps DEF RequestUnrecorded
<1>4. CASE Lose \/ WakeFails \/ Crash \/ ConfirmErase \/ Sleep
    BY <1>1, <1>4, QuietKeeps DEF Lose, WakeFails, Crash, ConfirmErase, Sleep
<1>5. CASE Receive \/ Decline \/ Refuse \/ ApplyErase \/ ConfirmRecord
    BY <1>1, <1>5, QuietKeeps DEF Receive, Decline, Refuse, ApplyErase, ConfirmRecord
<1>6. CASE ApplyFails
    <2>1. /\ pc \in UpdatingPCs /\ pc' = "attempted" /\ reply' = reply
          /\ slots[running].state = "valid" /\ reply.version \in Versions
        BY <1>6 DEF ApplyFails, SlotInv, Standing
    <2> QED BY <1>1, <2>1, QuietKeeps
<1> QED BY <1>2, <1>3, <1>4, <1>5, <1>6

(* An update starts only from an image that is confirmed.                   *)
LEMMA StartKeeps == SlotInv /\ Start => SlotInv'
<1> SUFFICES ASSUME SlotInv, Start PROVE SlotInv'
    OBVIOUS
<1>1. /\ pc = "polled" /\ pc' = "updating" /\ ~Skip
      /\ UNCHANGED <<slots, boot, running, reply>>
    BY DEF Start
<1>2. reply.version \in Versions /\ slots[running].state = "valid"
    BY <1>1 DEF Skip, TrialPending, SlotInv, SlotTypes, Standing
<1> QED BY <1>1, <1>2, QuietKeeps

LEMMA WriteKeeps == SlotInv /\ Write => SlotInv'
<1> SUFFICES ASSUME SlotInv, Write PROVE SlotInv'
    OBVIOUS
<1>1. /\ pc = "updating" /\ pc' = "writing" /\ UNCHANGED <<boot, running, reply>>
      /\ SlotTypes /\ Standing /\ NeverBricked
    BY DEF Write, SlotInv
<1>2. PICK v \in {NoVersion, reply.version}, st \in {"undefined", slots[Target(running)].state} :
         slots' = [slots EXCEPT ![Target(running)] = [version |-> v, state |-> st]]
    BY DEF Write
<1>3. /\ running = boot /\ slots[boot].state = "valid" /\ reply.version \in Versions
      /\ slots[boot].version \in Sure
    BY <1>1 DEF Standing, NeverBricked
<1>4. Target(running) \in OtaSlots /\ Target(running) # running
    BY DEF Target
<1>5. slots' \in [Slots -> [version : Reported,
                            state : {"undefined", "new", "pending", "valid", "aborted"}]]
    BY <1>1, <1>2, <1>3, <1>4 DEF SlotTypes, Reported
<1>6. slots'[boot] = slots[boot] /\ slots'["factory"] = slots["factory"]
    BY <1>1, <1>2, <1>3, <1>4 DEF SlotTypes
<1>7. boot = "factory" => \A s \in OtaSlots : slots'[s].state # "valid"
    BY <1>1, <1>2, <1>4 DEF SlotTypes, Standing
<1> QED BY <1>1, <1>3, <1>5, <1>6, <1>7
        DEF SlotInv, SlotTypes, Standing, NeverBricked, RunningVersion

LEMMA SwitchKeeps == SlotInv /\ Switch => SlotInv'
<1> SUFFICES ASSUME SlotInv, Switch PROVE SlotInv'
    OBVIOUS
<1>1. /\ pc = "writing" /\ pc' = "off" /\ reply' = NoOffer /\ running' = running
      /\ boot' = Target(running)
      /\ slots' = [slots EXCEPT ![Target(running)] = [version |-> reply.version, state |-> "new"]]
      /\ SlotTypes /\ Standing /\ NeverBricked
    BY DEF Switch, SlotInv
<1>2. /\ running = boot /\ slots[boot].state = "valid" /\ reply.version \in Versions
      /\ slots[boot].version \in Sure
    BY <1>1 DEF Standing, NeverBricked
<1>3. Target(running) \in OtaSlots /\ Target(running) # running
      /\ (running # "factory" => Target(Target(running)) = running)
    BY <1>1 DEF Target, SlotTypes
<1>4. slots' \in [Slots -> [version : Reported,
                            state : {"undefined", "new", "pending", "valid", "aborted"}]]
    BY <1>1, <1>2, <1>3 DEF SlotTypes, Reported
<1>5. slots'[running] = slots[running] /\ slots'["factory"] = slots["factory"]
      /\ slots'[Target(running)] = [version |-> reply.version, state |-> "new"]
    BY <1>1, <1>2, <1>3 DEF SlotTypes
<1>6. Fallback(boot)' = running
    <2>1. CASE running = "factory"
        <3>1. slots'[Target(Target(running))].state # "valid"
            BY <1>1, <1>2, <1>3, <2>1 DEF SlotTypes, Standing, Target
        <3> QED BY <1>1, <1>3, <2>1, <3>1 DEF Fallback
    <2>2. CASE running # "factory"
        BY <1>1, <1>2, <1>3, <1>5, <2>2 DEF Fallback
    <2> QED BY <2>1, <2>2
<1>7. NeverBricked'
    BY <1>1, <1>2, <1>5, <1>6 DEF NeverBricked
<1>8. Standing'
    BY <1>1, <1>2, <1>3, <1>5 DEF Standing
<1>9. SlotTypes'
    BY <1>1, <1>3, <1>4 DEF SlotTypes
<1> QED BY <1>7, <1>8, <1>9 DEF SlotInv

(* What is confirmed has just polled, and a broken image cannot.            *)
LEMMA ConfirmKeeps == SlotInv /\ Confirm => SlotInv'
<1> SUFFICES ASSUME SlotInv, Confirm PROVE SlotInv'
    OBVIOUS
<1>1. /\ pc = "healthy" /\ pc' = "confirmed" /\ UNCHANGED <<boot, running, reply>>
      /\ slots' = [slots EXCEPT ![running].state = "valid"]
      /\ slots[running].state = "pending"
      /\ SlotTypes /\ Standing
    BY DEF Confirm, SlotInv, TrialPending
<1>2. running = boot /\ boot \in OtaSlots /\ slots[boot].version \in Sure
    BY <1>1 DEF Standing, SlotTypes, RunningVersion
<1>3. SlotTypes'
    BY <1>1 DEF SlotTypes
<1>4. slots'[boot].state = "valid" /\ slots'[boot].version = slots[boot].version
      /\ slots'["factory"] = slots["factory"]
    BY <1>1, <1>2 DEF SlotTypes
<1> QED BY <1>1, <1>2, <1>3, <1>4 DEF SlotInv, Standing, NeverBricked, RunningVersion

LEMMA SlotInvStep == RegInv /\ SlotInv /\ [Next]_vars => SlotInv'
<1> SUFFICES ASSUME RegInv, SlotInv, [Next]_vars PROVE SlotInv'
    OBVIOUS
<1>1. CASE Wake
    BY <1>1, BootKeeps, QuietSteps DEF Wake
<1>2. CASE Polling
    BY <1>2, RequestKeeps, QuietSteps DEF Polling
<1>3. CASE Updating
    BY <1>3, QuietSteps, StartKeeps, WriteKeeps, SwitchKeeps DEF Updating
<1>4. CASE Finish
    BY <1>4, QuietSteps, ConfirmKeeps DEF Finish
<1>5. CASE Crash
    BY <1>5, QuietSteps
<1>6. CASE UNCHANGED deviceVars
    BY <1>6 DEF deviceVars, SlotInv, SlotTypes, Standing, NeverBricked, RunningVersion,
                Fallback, Target
<1> QED BY <1>1, <1>2, <1>3, <1>4, <1>5, <1>6 DEF Next, Server, vars
-----------------------------------------------------------------------------
(* The frame as one of the registry's devices                              *)

(* What the frame remembers names a version it was offered.                 *)
NvsTypes == result \in Results /\ try \in Reported

LEMMA NvsTypesInit == Init => NvsTypes
BY DEF Init, NvsTypes, Results, Reported

LEMMA NvsTypesStep == SlotInv /\ NvsTypes /\ [Next]_vars => NvsTypes'
<1> SUFFICES ASSUME SlotInv, NvsTypes, [Next]_vars PROVE NvsTypes'
    OBVIOUS
<1>a. /\ Results = [token : Tokens, version : Versions] \cup {NoResult}
      /\ Tokens = {"rollback", "fail", "trial", "installed", "deferred-battery"}
      /\ Reported = Versions \cup {NoVersion}
    BY FrameAssumption DEF Results, Reported, Tokens, Counted
<1>1. CASE UNCHANGED <<try, result>>
    BY <1>1 DEF NvsTypes
<1>2. CASE UNCHANGED result /\ try' = NoVersion
    BY <1>a, <1>2 DEF NvsTypes
<1>3. CASE BootCheck
    <2>1. Classify = "none" \/ (try \in Versions /\ Classify \in Tokens)
        BY <1>a DEF Classify, NvsTypes
    <2> QED BY <1>a, <1>3, <2>1 DEF BootCheck, NvsTypes
<1>4. CASE Receive
    BY <1>a, <1>4 DEF Receive, NvsTypes
<1>5. CASE Refuse
    <2>1. reply.version \in Versions
        BY <1>5 DEF Refuse, Skip, SlotInv, SlotTypes
    <2> QED BY <1>a, <1>5, <2>1 DEF Refuse, NvsTypes
<1>6. CASE Start
    <2>1. reply.version \in Versions
        BY <1>6 DEF Start, Skip, SlotInv, SlotTypes
    <2> QED BY <1>a, <1>6, <2>1 DEF Start, NvsTypes
<1>7. CASE ApplyFails
    <2>1. reply.version \in Versions
        BY <1>7 DEF ApplyFails, SlotInv, Standing
    <2> QED BY <1>a, <1>7, <2>1 DEF ApplyFails, NvsTypes
<1>8. CASE ConfirmRecord
    <2>1. RunningVersion \in Versions
        BY <1>8 DEF ConfirmRecord, SlotInv, Standing
    <2> QED BY <1>a, <1>8, <2>1 DEF ConfirmRecord, NvsTypes
<1> QED BY <1>1, <1>2, <1>3, <1>4, <1>5, <1>6, <1>7, <1>8
        DEF Next, Wake, Polling, Updating, Finish, Server, vars, deviceVars, Boot, BootErase,
            Request, RequestUnrecorded, Lose, WakeFails, Decline, Write, ApplyErase, Switch,
            Confirm, ConfirmErase, Sleep, Crash

LEMMA StepsAreRegistrySteps ==
    SlotInv /\ NvsTypes /\ [Next]_vars => [RegNext]_regVars
<1> SUFFICES ASSUME SlotInv, NvsTypes, [Next]_vars PROVE [RegNext]_regVars
    OBVIOUS
<1>1. CASE UNCHANGED regVars
    BY <1>1
<1>2. ASSUME NEW low \in BOOLEAN, Request(low) PROVE RegNext
    <2>1. RunningVersion \in Reported
        BY <1>2 DEF Request, SlotInv, Standing, NeverBricked, RunningVersion, Reported
    <2> QED BY <1>2, <2>1, FrameAssumption DEF Request, NvsTypes, RegNext
<1>3. CASE Server
    BY <1>3 DEF Server, RegNext
<1> QED BY <1>1, <1>2, <1>3
        DEF Next, Wake, Polling, Updating, Finish, vars, Boot, BootCheck, BootErase,
            RequestUnrecorded, Receive, Lose, WakeFails, Decline, Refuse, Start, Write,
            ApplyFails, ApplyErase, Switch, Confirm, ConfirmRecord, ConfirmErase, Sleep, Crash

DeviceInv == RegInv /\ SlotInv /\ NvsTypes

LEMMA DeviceInvariant == Spec => []DeviceInv
<1>1. Init => DeviceInv
    BY RegInvInit, SlotInvInit, NvsTypesInit DEF Init, DeviceInv
<1>2. DeviceInv /\ [Next]_vars => DeviceInv'
    BY RegInvStep, SlotInvStep, NvsTypesStep, StepsAreRegistrySteps DEF DeviceInv
<1> QED BY <1>1, <1>2, PTL DEF Spec

(* The registry behaves towards a real frame as FirmwareRegistry says it    *)
(* does towards any: what the frame sends and when it sends it is among     *)
(* what that module allows, so that whatever it proves holds here.          *)
THEOREM ImplementsRegistry == Spec => RegSpec
<1>1. Init => RegInit
    BY DEF Init
<1>2. DeviceInv /\ [Next]_vars => [RegNext]_regVars
    BY StepsAreRegistrySteps DEF DeviceInv
<1> QED BY <1>1, <1>2, DeviceInvariant, PTL DEF Spec, RegSpec

(* A frame that is alone of its type is never offered an update whose       *)
(* attempts are used up, and what it was offered stands until it has said   *)
(* what became of it, through lost answers, resets and reports restored.    *)
THEOREM FrameOffersStandAndEnd ==
    ASSUME Devices = {Frame}
    PROVE  Spec => OffersStop /\ OfferedIsKept
<1>1. IsFiniteSet(Devices)
    BY FS_Singleton
<1>2. \A d, e \in Devices : d = e
    OBVIOUS
<1>3. RegSpec => OffersStop
    BY <1>1, OffersEnd
<1>4. RegSpec => OfferedIsKept
    BY <1>2, OffersAreKept
<1> QED BY <1>3, <1>4, ImplementsRegistry, PTL

(* Whatever is offered, and wherever a download, a restart or a reset stops *)
(* it, otadata selects an image that can be booted, and behind an image on  *)
(* trial stands one that has polled (ota.c).                                *)
THEOREM BootableAlways == Spec => []NeverBricked
<1>1. DeviceInv => NeverBricked
    BY DEF DeviceInv, SlotInv
<1> QED BY <1>1, DeviceInvariant, PTL
-----------------------------------------------------------------------------
(* An install is reported                                                  *)

Inst(v) == [token |-> "installed", version |-> v]

(* A version waits to be heard of only while it runs, confirmed; until its  *)
(* result is kept the marker stands for it.                                 *)
Waiting ==
    /\ running = boot /\ slots[boot] = Good(unheard)
    /\ try = unheard \/ (try = NoVersion /\ result = Inst(unheard))
    /\ pc \notin {"off", "booting", "confirmed"} => result = Inst(unheard)

ReportInv ==
    /\ unheard # NoVersion => Waiting
    /\ pc \in PollingPCs \ {"confirmed", "recorded"} => unheard = NoVersion
    /\ slots[boot].state \in {"new", "pending"} => try = slots[boot].version
    /\ pc \in {"updating", "writing"} => try = reply.version
    /\ pc \in {"classified", "confirmed", "recorded"} => slots[boot].state = "valid"

LEMMA ReportInvInit == Init => ReportInv
BY DEF Init, ReportInv, Good

LEMMA ReportBoot == SlotInv /\ ReportInv /\ Boot => ReportInv'
<1> SUFFICES ASSUME SlotInv, ReportInv, Boot PROVE ReportInv'
    OBVIOUS
<1>1. /\ pc = "off" /\ pc' = "booting" /\ UNCHANGED <<try, result, reply, unheard>>
      /\ SlotTypes
    BY DEF Boot, SlotInv
<1>2. CASE slots[boot].state = "new"
    <2>1. slots' = [slots EXCEPT ![boot].state = "pending"] /\ boot' = boot
        BY <1>2 DEF Boot
    <2>2. slots'[boot].version = slots[boot].version
        BY <1>1, <2>1 DEF SlotTypes
    <2>3. unheard = NoVersion
        BY <1>2 DEF ReportInv, Waiting, Good
    <2> QED BY <1>1, <1>2, <2>1, <2>2, <2>3 DEF ReportInv
<1>3. CASE slots[boot].state = "pending"
    <2>1. slots'[boot'].state = "valid"
        <3>1. /\ slots' = [slots EXCEPT ![boot].state = "aborted"] /\ boot' = Fallback(boot)
            BY <1>3 DEF Boot
        <3>2. Fallback(boot) # boot /\ slots[Fallback(boot)].state = "valid" /\ Fallback(boot) \in Slots
            BY <1>1, <1>3 DEF Fallback, Target, SlotTypes, Standing, SlotInv
        <3> QED BY <1>1, <3>1, <3>2 DEF SlotTypes
    <2>2. unheard = NoVersion
        BY <1>3 DEF ReportInv, Waiting, Good
    <2> QED BY <1>1, <2>1, <2>2 DEF ReportInv
<1>4. CASE slots[boot].state = "valid"
    <2>1. running' = boot /\ UNCHANGED <<slots, boot>>
        BY <1>4 DEF Boot
    <2> QED BY <1>1, <1>4, <2>1 DEF ReportInv, Waiting
<1> QED BY <1>2, <1>3, <1>4 DEF SlotInv, NeverBricked

LEMMA ReportBootCheck == SlotInv /\ ReportInv /\ BootCheck => ReportInv'
<1> SUFFICES ASSUME SlotInv, ReportInv, BootCheck PROVE ReportInv'
    OBVIOUS
<1>1. /\ pc = "booting" /\ running = boot /\ slots[boot].state \in {"valid", "pending"}
      /\ UNCHANGED <<slots, boot, running, try, reply, unheard>>
      /\ pc' = IF Classify \in {"none", "trial"} THEN "up" ELSE "classified"
      /\ result' = IF Classify = "none" THEN result
                   ELSE [token |-> Classify, version |-> try]
    BY DEF BootCheck, SlotInv, Standing
<1>2. slots[boot].state = "pending" => Classify \in {"none", "trial"}
    BY <1>1 DEF Classify, ReportInv, RunningVersion, TrialPending
<1>3. unheard # NoVersion => Waiting'
    <2> SUFFICES ASSUME unheard # NoVersion PROVE Waiting'
        OBVIOUS
    <2>1. /\ slots[running].state = "valid" /\ RunningVersion = unheard
          /\ (try = unheard \/ (try = NoVersion /\ result = Inst(unheard)))
          /\ slots[boot] = Good(unheard)
        BY <1>1 DEF ReportInv, Waiting, Good, RunningVersion
    <2>2. CASE try = unheard
        <3>1. Classify = "installed"
            BY <2>1, <2>2 DEF Classify, TrialPending
        <3> QED BY <1>1, <2>1, <2>2, <3>1 DEF Waiting, Inst
    <2>3. CASE try = NoVersion /\ result = Inst(unheard)
        <3>1. Classify = "none"
            BY <2>3 DEF Classify
        <3> QED BY <1>1, <2>1, <2>3, <3>1 DEF Waiting, Inst
    <2> QED BY <2>1, <2>2, <2>3
<1> QED BY <1>1, <1>2, <1>3 DEF ReportInv

(* What a step before or after the poll may do to the report.               *)
LEMMA ReportQuiet ==
    ASSUME SlotInv, ReportInv, UNCHANGED <<slots, boot, running, unheard>>,
           \/ BootErase \/ Receive \/ Lose \/ WakeFails \/ Crash \/ Decline \/ Refuse \/ Start
           \/ ApplyFails \/ ApplyErase \/ ConfirmRecord \/ ConfirmErase \/ Sleep
    PROVE  ReportInv'
<1>1. CASE BootErase
    BY <1>1 DEF BootErase, ReportInv, Waiting
<1>2. CASE Receive
    BY <1>2 DEF Receive, ReportInv, Waiting
<1>3. CASE Lose \/ WakeFails \/ Crash \/ Sleep
    BY <1>3 DEF Lose, WakeFails, Crash, Sleep, ReportInv, Waiting
<1>4. CASE Decline \/ Refuse
    BY <1>4 DEF Decline, Refuse, ReportInv
<1>5. CASE Start
    <2>1. slots[boot].state = "valid"
        BY <1>5 DEF Start, Skip, TrialPending, SlotInv, Standing
    <2> QED BY <1>5, <2>1 DEF Start, ReportInv
<1>6. CASE ApplyFails \/ ApplyErase
    <2>1. slots[boot].state = "valid"
        BY <1>6 DEF ApplyFails, ApplyErase, SlotInv, Standing
    <2> QED BY <1>6, <2>1 DEF ApplyFails, ApplyErase, ReportInv, Waiting
<1>7. CASE ConfirmRecord
    <2>1. unheard # NoVersion => RunningVersion = unheard
        BY <1>7 DEF ReportInv, Waiting, RunningVersion, Good
    <2> QED BY <1>7, <2>1 DEF ConfirmRecord, ReportInv, Waiting, Inst
<1>8. CASE ConfirmErase
    BY <1>8 DEF ConfirmErase, ReportInv, Waiting
<1> QED BY <1>1, <1>2, <1>3, <1>4, <1>5, <1>6, <1>7, <1>8

LEMMA ReportRequest ==
    ASSUME SlotInv, ReportInv, NEW low \in BOOLEAN, Request(low) \/ RequestUnrecorded
    PROVE  ReportInv'
<1>1. /\ pc = "up" /\ pc' = "asked" /\ UNCHANGED <<slots, boot, running, try, result>>
      /\ unheard' = IF result.token = "installed" THEN NoVersion ELSE unheard
    BY DEF Request, RequestUnrecorded
<1>2. unheard' = NoVersion
    BY <1>1 DEF ReportInv, Waiting, Inst
<1> QED BY <1>1, <1>2 DEF ReportInv

LEMMA ReportWrite == SlotInv /\ ReportInv /\ (Write \/ Switch) => ReportInv'
<1> SUFFICES ASSUME SlotInv, ReportInv, Write \/ Switch PROVE ReportInv'
    OBVIOUS
<1>1. /\ running = boot /\ slots[boot].state = "valid" /\ unheard = NoVersion
      /\ try = reply.version /\ SlotTypes
      /\ UNCHANGED <<try, result, unheard, running>>
    BY DEF Write, Switch, SlotInv, Standing, ReportInv
<1>2. Target(running) \in Slots /\ Target(running) # running
    BY DEF Target
<1>3. CASE Write
    <2>1. slots'[boot] = slots[boot]
        BY <1>1, <1>2, <1>3 DEF Write, SlotTypes
    <2> QED BY <1>1, <1>3, <2>1 DEF Write, ReportInv
<1>4. CASE Switch
    <2>1. slots'[boot'] = [version |-> reply.version, state |-> "new"] /\ pc' = "off"
        BY <1>1, <1>2, <1>4 DEF Switch, SlotTypes
    <2> QED BY <1>1, <2>1 DEF ReportInv
<1> QED BY <1>3, <1>4

LEMMA ReportConfirm == SlotInv /\ ReportInv /\ Confirm => ReportInv'
<1> SUFFICES ASSUME SlotInv, ReportInv, Confirm PROVE ReportInv'
    OBVIOUS
<1>1. /\ pc = "healthy" /\ pc' = "confirmed" /\ running = boot /\ SlotTypes
      /\ slots' = [slots EXCEPT ![running].state = "valid"]
      /\ slots[boot].state = "pending" /\ unheard' = slots[boot].version
      /\ UNCHANGED <<boot, running, try, result, reply>>
    BY DEF Confirm, SlotInv, Standing, TrialPending, RunningVersion
<1>2. slots'[boot] = Good(slots[boot].version)
    BY <1>1 DEF SlotTypes, Good
<1>3. try = slots[boot].version
    BY <1>1 DEF ReportInv
<1> QED BY <1>1, <1>2, <1>3 DEF ReportInv, Waiting, Good

LEMMA ReportInvStep ==
    ASSUME SlotInv, ReportInv, [Next]_vars
    PROVE  ReportInv'
<1>1. CASE Wake
    BY <1>1, ReportBoot, ReportBootCheck, ReportQuiet DEF Wake, BootErase
<1>2. CASE Polling
    BY <1>2, ReportRequest, ReportQuiet
       DEF Polling, Receive, Lose, WakeFails
<1>3. CASE Updating
    BY <1>3, ReportWrite, ReportQuiet
       DEF Updating, Decline, Refuse, Start, ApplyFails, ApplyErase
<1>4. CASE Finish
    BY <1>4, ReportConfirm, ReportQuiet DEF Finish, ConfirmRecord, ConfirmErase, Sleep
<1>5. CASE Crash
    BY <1>5, ReportQuiet DEF Crash
<1>6. CASE UNCHANGED <<deviceVars, unheard>>
    BY <1>6 DEF deviceVars, ReportInv, Waiting
<1> QED BY <1>1, <1>2, <1>3, <1>4, <1>5, <1>6 DEF Next, Server, vars

(* No install is forgotten on the way to a server that can record it: not   *)
(* by a reset between two writes of NVS, nor by an answer that is lost, nor *)
(* by a later update (nvs_schema.h, ota.c).                                 *)
THEOREM InstallReported == Spec => []InstallIsReported
<1>1. DeviceInv /\ ReportInv /\ [Next]_vars => ReportInv'
    BY ReportInvStep DEF DeviceInv
<1>2. ReportInv => InstallIsReported
    BY DEF ReportInv, Waiting, InstallIsReported, Good, Inst, RunningVersion, TrialPending
<1> QED BY <1>1, <1>2, ReportInvInit, DeviceInvariant, PTL DEF Spec
-----------------------------------------------------------------------------
(* Types.                                                                  *)

(* The histories name versions and count; an offer has a number.            *)
HistoryTypes ==
    /\ unheard \in Reported /\ starts \in [1..MaxSchedules -> Nat]
    /\ reply \in [version : Reported, id : Nat]

LEMMA HistoryTypesInit == Init => HistoryTypes
BY DEF Init, HistoryTypes, NoVersion, Reported

LEMMA HistoryTypesStep ==
    ASSUME DeviceInv, HistoryTypes, [Next]_vars
    PROVE  HistoryTypes'
<1>1. NoOffer \in [version : Reported, id : Nat] /\ NoVersion \in Reported
    BY DEF NoVersion, Reported
<1>2. CASE UNCHANGED <<unheard, starts>> /\ reply' \in {reply, NoOffer}
    BY <1>1, <1>2 DEF HistoryTypes
<1>3. ASSUME NEW low \in BOOLEAN, Request(low) PROVE HistoryTypes'
    <2>1. PICK offer \in BOOLEAN :
             reply' = IF offer THEN [version |-> schedule.version, id |-> schedule.id] ELSE NoOffer
        BY <1>3 DEF Request
    <2>2. schedule.version \in Reported /\ schedule.id \in Nat
        BY DEF DeviceInv, RegInv, RegTypeOK
    <2>3. reply' \in [version : Reported, id : Nat]
        BY <1>1, <2>1, <2>2
    <2> QED BY <1>1, <1>3, <2>3 DEF Request, HistoryTypes
<1>4. CASE RequestUnrecorded
    <2>1. starts' \in [1..MaxSchedules -> Nat]
        <3>1. starts \in [1..MaxSchedules -> Nat]
            BY DEF HistoryTypes
        <3>2. CASE starts' = starts
            BY <3>1, <3>2
        <3>3. CASE starts[schedule.id] > 0 /\ starts' = [starts EXCEPT ![schedule.id] = starts[schedule.id] - 1]
            <4>1. ASSUME NEW n \in 1..MaxSchedules PROVE starts'[n] \in Nat
                BY <3>1, <3>3
            <4> QED BY <3>1, <3>3, <4>1
        <3> QED BY <1>4, <3>2, <3>3 DEF RequestUnrecorded
    <2> QED BY <1>1, <1>4, <2>1 DEF RequestUnrecorded, HistoryTypes
<1>5. CASE Start
    <2>1. starts' \in [1..MaxSchedules -> Nat]
        <3>1. /\ starts \in [1..MaxSchedules -> Nat]
              /\ starts' = [starts EXCEPT ![reply.id] = starts[reply.id] + 1]
            BY <1>5 DEF Start, HistoryTypes
        <3>2. ASSUME NEW n \in 1..MaxSchedules PROVE starts'[n] \in Nat
            BY <3>1
        <3> QED BY <3>1, <3>2
    <2> QED BY <1>5, <2>1 DEF Start, HistoryTypes
<1>6. CASE Confirm
    <2>1. RunningVersion \in Reported
        BY <1>6 DEF Confirm, DeviceInv, SlotInv, Standing, Reported
    <2> QED BY <1>6, <2>1 DEF Confirm, HistoryTypes
<1> QED BY <1>2, <1>3, <1>4, <1>5, <1>6
        DEF Next, Wake, Polling, Updating, Finish, Server, vars, deviceVars, Boot, BootCheck,
            BootErase, Receive, Lose, WakeFails, Decline, Refuse, Write, ApplyFails, ApplyErase,
            Switch, ConfirmRecord, ConfirmErase, Sleep, Crash

(* The frame's memories and the server's documents keep their types.        *)
THEOREM UpdateTypeCorrect == Spec => []TypeOK
<1>1. DeviceInv /\ HistoryTypes => TypeOK
    BY FrameAssumption DEF DeviceInv, RegInv, SlotInv, SlotTypes, NvsTypes, Results, HistoryTypes, TypeOK
<1>2. DeviceInv /\ HistoryTypes /\ [Next]_vars => HistoryTypes'
    BY HistoryTypesStep
<1> QED BY <1>1, <1>2, HistoryTypesInit, DeviceInvariant, PTL DEF Spec
-----------------------------------------------------------------------------
(* What the frame tries is what is scheduled.                              *)

(* A schedule somebody is on: it cannot be withdrawn, no report of it as    *)
(* installed waits to be reconciled, and what has failed leaves an attempt. *)
Bound(v) ==
    /\ schedule.state = "scheduled" /\ schedule.version = v
    /\ Acknowledged /\ Installs = {}
    /\ schedule.attempts + Cardinality(Unreconciled(Failures(events))) < MaxAttempts

(* Only this frame polls; an install it reports is of the image it runs.    *)
Heard ==
    /\ \A e \in events : e.dev = Frame /\ e.id <= issued
    /\ result.token = "installed" => slots[boot] = Good(result.version)
    /\ Installs # {} => slots[boot] = Good(schedule.version)
    /\ pc \in PollingPCs \ {"asked", "recorded"} => result.token # "installed"

(* From the offer to the marker, from the marker to its end.                *)
Engaged ==
    /\ try # NoVersion => Bound(try)
    /\ pc \in {"asked", "polled"} /\ reply # NoOffer => Bound(reply.version)
    /\ pc = "up" /\ try # NoVersion => result = [token |-> "trial", version |-> try]

TryInv == Heard /\ Engaged

LEMMA TryInvInit == Init => TryInv
BY DEF Init, RegInit, TryInv, Heard, Engaged, Installs, Own, NoResult, NoSchedule, Unreconciled, Pending

(* What the frame says last stays in the report.                            *)
LEMMA LastStays ==
    ASSUME RegInv, NEW d \in Devices, NEW r \in Results, NEW offer \in BOOLEAN,
           NEW e \in Told(d, r, offer), \A f \in Told(d, r, offer) : f.seq <= e.seq
    PROVE  e \in Newest(d, Told(d, r, offer))
<1>1. \A f \in Told(d, r, offer) : f.seq \in Nat
    BY PollWrites DEF Event
<1>2. {f \in Told(d, r, offer) : f.dev = d /\ f.seq > e.seq} = {}
    BY <1>1
<1>3. Cardinality({}) = 0 /\ 0 < Keep
    BY FS_EmptySet, LimitsAssumption
<1> QED BY <1>2, <1>3 DEF Newest

(* The newest of what a poll leaves of the schedule, if it is an offer or a *)
(* result other than a deferral.                                            *)
LEMMA LastAcknowledges ==
    ASSUME RegInv, NEW d \in Devices, NEW r \in Results, NEW offer \in BOOLEAN,
           events' = Newest(d, Told(d, r, offer)), schedule' = schedule,
           NEW e \in Told(d, r, offer), \A f \in Told(d, r, offer) : f.seq <= e.seq,
           e.id = schedule.id, e.kind = "offered" \/ e.token # "deferred-battery"
    PROVE  Acknowledged'
<1>1. e \in events' /\ events' \subseteq Told(d, r, offer)
    BY LastStays DEF Newest
<1> QED BY <1>1 DEF Acknowledged, ForSchedule

LEMMA SaidLast ==
    ASSUME RegInv, NEW d \in Devices, NEW r \in Results, NEW offer \in BOOLEAN
    PROVE  /\ offer => OfferEvent(d, LastSaid(r) + 1) \in Told(d, r, offer)
                       /\ \A f \in Told(d, r, offer) : f.seq <= OfferEvent(d, LastSaid(r) + 1).seq
           /\ ~offer /\ r # NoResult =>
                 /\ ResultEvent(d, r) \in Told(d, r, offer)
                 /\ \A f \in Told(d, r, offer) : f.seq <= ResultEvent(d, r).seq
<1>1. \A f \in Told(d, r, offer) : f.seq <= LastSaid(r) + IF offer THEN 1 ELSE 0
    BY PollWrites
<1>2. LastSaid(r) \in Nat /\ HighestSeq \in Nat
    BY PollWrites, NumbersBounded
<1>3. CASE offer
    BY <1>1, <1>3 DEF OfferEvent, Told
<1>4. CASE ~offer /\ r # NoResult
    <2>1. ResultEvent(d, r).seq = LastSaid(r) /\ ResultEvent(d, r) \in Told(d, r, offer)
        BY <1>4 DEF ResultEvent, LastSaid, Told, Said
    <2>2. \A f \in Told(d, r, offer) : f.seq <= LastSaid(r) + 0
        BY <1>1, <1>4
    <2> QED BY <1>2, <1>4, <2>1, <2>2
<1> QED BY <1>3, <1>4

LEMMA Fewer ==
    ASSUME NEW S, IsFiniteSet(S), NEW T \in SUBSET S, NEW n \in Nat, n + Cardinality(S) < MaxAttempts
    PROVE  n + Cardinality(T) < MaxAttempts
<1>1. Cardinality(T) <= Cardinality(S) /\ IsFiniteSet(T)
    BY FS_Subset
<1>2. Cardinality(S) \in Nat /\ Cardinality(T) \in Nat
    BY <1>1, FS_CardinalityType
<1> QED BY <1>1, <1>2, LimitsAssumption

(* A poll as the frame makes it.                                            *)
LEMMA PollByFrame ==
    ASSUME DeviceInv, TryInv, NEW low \in BOOLEAN, NEW offer \in BOOLEAN,
           pc = "up", RunningVersion \notin Broken,
           Poll(Frame, RunningVersion, result, low, offer)
    PROVE  /\ schedule' = schedule /\ reconciled' = reconciled /\ issued' = issued
           /\ events' = Newest(Frame, Told(Frame, result, offer))
           /\ \A e \in events' : e.dev = Frame
           /\ RunningVersion \in Versions /\ running = boot
           /\ Unreconciled(Failures(events))' \subseteq Unreconciled(Failures(Said(Frame, result)))
           /\ IsFiniteSet(Unreconciled(Failures(Said(Frame, result))))
           /\ \A e \in Installs' : e \in Installs \/ (e = ResultEvent(Frame, result) /\ result.token = "installed")
<1>1. RegInv /\ Frame \in Devices /\ result \in Results
    BY FrameAssumption DEF DeviceInv, NvsTypes
<1>2. /\ schedule' = schedule /\ reconciled' = reconciled /\ issued' = issued
      /\ events' = Newest(Frame, Told(Frame, result, offer))
    BY DEF Poll, Polled, registry
<1>3. RunningVersion \in Versions /\ running = boot
    BY DEF DeviceInv, SlotInv, Standing, NeverBricked, RunningVersion
<1>4. \A e \in events' : e \in events \/ e = ResultEvent(Frame, result)
                             \/ e = OfferEvent(Frame, LastSaid(result) + 1)
    BY <1>2 DEF Newest, Told, Said
<1>5. \A e \in events' : e.dev = Frame
    BY <1>4 DEF ResultEvent, OfferEvent, TryInv, Heard
<1>6. \A e \in events' : e \in Said(Frame, result) \/ e.kind = "offered"
    BY <1>2 DEF Newest, Told, OfferEvent
<1>7. Unreconciled(Failures(events))' \subseteq Unreconciled(Failures(Said(Frame, result)))
    BY <1>2, <1>6 DEF Unreconciled, Failures
<1>8. IsFiniteSet(Unreconciled(Failures(Said(Frame, result))))
    <2>1. IsFiniteSet(Said(Frame, result))
        BY <1>1, PollWrites
    <2> QED BY <2>1, FS_Subset DEF Unreconciled, Failures
<1>9. \A e \in Installs' : e \in Installs \/ (e = ResultEvent(Frame, result) /\ result.token = "installed")
    <2> SUFFICES ASSUME NEW e \in Installs'
                 PROVE  e \in Installs \/ (e = ResultEvent(Frame, result) /\ result.token = "installed")
        OBVIOUS
    <2>1. /\ e \in events' /\ e.kind = "result" /\ e.token = "installed" /\ e.seq > reconciled
          /\ schedule # NoSchedule /\ e.id = schedule.id
        BY <1>2 DEF Installs, Own, Pending, Unreconciled
    <2>2. e \in events \/ e = ResultEvent(Frame, result)
        BY <1>6, <2>1 DEF Said
    <2>3. e \in events => e \in Installs
        BY <2>1 DEF Installs, Own, Pending, Unreconciled
    <2>4. e = ResultEvent(Frame, result) => result.token = "installed"
        BY <2>1 DEF ResultEvent
    <2> QED BY <2>2, <2>3, <2>4
<1> QED BY <1>2, <1>3, <1>5, <1>7, <1>8, <1>9

(* An offer is made by what has not failed too often, to a frame that does  *)
(* not run it.                                                              *)
LEMMA OfferBinds ==
    ASSUME DeviceInv, TryInv, NEW low \in BOOLEAN, pc = "up", RunningVersion \notin Broken,
           Poll(Frame, RunningVersion, result, low, TRUE)
    PROVE  Bound(schedule.version)'
<1> DEFINE failed == Unreconciled(Failures(Said(Frame, result)))
<1>1. RegInv /\ Frame \in Devices /\ result \in Results /\ schedule' = schedule
      /\ events' = Newest(Frame, Told(Frame, result, TRUE))
    BY PollByFrame, FrameAssumption DEF DeviceInv, NvsTypes
<1>2. /\ schedule.state = "scheduled" /\ schedule.version # RunningVersion
      /\ schedule.attempts + Cardinality({e \in failed : e.dev = Frame}) < MaxAttempts
    <2>1. RunningVersion # NoVersion
        BY PollByFrame, VersionsAssumption DEF NoVersion
    <2>2. Offered(Frame, RunningVersion, low, Said(Frame, result))
        BY <2>1 DEF Poll, Running
    <2> QED BY <2>2 DEF Offered
<1>3. {e \in failed : e.dev = Frame} = failed
    <2>1. \A e \in Said(Frame, result) : e.dev = Frame
        BY DEF Said, ResultEvent, TryInv, Heard
    <2> QED BY <2>1 DEF Unreconciled, Failures
<1>4. schedule.attempts + Cardinality(Unreconciled(Failures(events))') < MaxAttempts
    <2>1. Unreconciled(Failures(events))' \in SUBSET failed /\ IsFiniteSet(failed)
        BY PollByFrame
    <2>2. schedule.attempts \in Nat
        BY <1>1 DEF RegInv, RegTypeOK
    <2>3. schedule.attempts + Cardinality(failed) < MaxAttempts
        BY <1>2, <1>3
    <2> HIDE DEF failed
    <2> QED BY <2>1, <2>2, <2>3, Fewer
<1>5. Installs' = {}
    <2> SUFFICES ASSUME NEW e \in Installs' PROVE FALSE
        OBVIOUS
    <2>1. CASE e \in Installs
        <3>1. slots[boot] = Good(schedule.version) /\ running = boot
            BY <2>1, PollByFrame DEF TryInv, Heard
        <3> QED BY <1>2, <3>1 DEF Good, RunningVersion
    <2>2. CASE e = ResultEvent(Frame, result) /\ result.token = "installed"
        <3>1. e.id = schedule.id /\ schedule # NoSchedule
            BY <1>1 DEF Installs, Own
        <3>2. schedule.id # 0
            BY <1>1, <3>1 DEF RegInv
        <3>3. result.version = schedule.version
            BY <2>2, <3>1, <3>2 DEF ResultEvent
        <3>4. slots[boot] = Good(result.version) /\ running = boot
            BY <2>2, PollByFrame DEF TryInv, Heard
        <3> QED BY <1>2, <3>3, <3>4 DEF Good, RunningVersion
    <2> QED BY <2>1, <2>2, PollByFrame
<1>6. Acknowledged'
    <2> DEFINE e == OfferEvent(Frame, LastSaid(result) + 1)
    <2>1. e \in Told(Frame, result, TRUE) /\ \A f \in Told(Frame, result, TRUE) : f.seq <= e.seq
        BY <1>1, SaidLast
    <2>2. e.id = schedule.id /\ e.kind = "offered"
        BY DEF OfferEvent
    <2> HIDE DEF e
    <2> QED BY <1>1, <2>1, <2>2, LastAcknowledges
<1> QED BY <1>1, <1>2, <1>4, <1>5, <1>6 DEF Bound

(* While the frame is on trial, it says so and nothing else.                *)
LEMMA TrialBinds ==
    ASSUME DeviceInv, TryInv, NEW low \in BOOLEAN, NEW offer \in BOOLEAN,
           pc = "up", RunningVersion \notin Broken, try # NoVersion, try' = try,
           Poll(Frame, RunningVersion, result, low, offer)
    PROVE  Bound(try)'
<1> DEFINE failed == Unreconciled(Failures(events))
           e == IF offer THEN OfferEvent(Frame, LastSaid(result) + 1) ELSE ResultEvent(Frame, result)
<1>1. /\ RegInv /\ Frame \in Devices /\ result \in Results
      /\ schedule' = schedule /\ reconciled' = reconciled
      /\ events' = Newest(Frame, Told(Frame, result, offer))
    BY PollByFrame, FrameAssumption DEF DeviceInv, NvsTypes
<1>2. Bound(try) /\ result = [token |-> "trial", version |-> try]
    BY DEF TryInv, Engaged
<1>3. /\ result # NoResult /\ result.token = "trial" /\ result.version = schedule.version
      /\ schedule # NoSchedule
    BY <1>2 DEF NoResult, Bound, NoSchedule
<1>4. ResultEvent(Frame, result).id = schedule.id /\ ResultEvent(Frame, result).token = "trial"
    BY <1>3 DEF ResultEvent
<1>5. /\ e \in Told(Frame, result, offer) /\ \A f \in Told(Frame, result, offer) : f.seq <= e.seq
      /\ e.id = schedule.id /\ (e.kind = "offered" \/ e.token # "deferred-battery")
    <2>1. CASE offer
        BY <1>1, <2>1, SaidLast DEF OfferEvent
    <2>2. CASE ~offer
        BY <1>1, <1>3, <1>4, <2>2, SaidLast
    <2> QED BY <2>1, <2>2
<1>6. Acknowledged'
    <2> HIDE DEF e
    <2> QED BY <1>1, <1>5, LastAcknowledges
<1>7. Unreconciled(Failures(Said(Frame, result))) = failed
    BY <1>3, <1>4 DEF Said, Unreconciled, Failures, Counted
<1>8. schedule.attempts + Cardinality(Unreconciled(Failures(events))') < MaxAttempts
    <2>1. Unreconciled(Failures(events))' \in SUBSET failed /\ IsFiniteSet(failed)
        BY <1>7, PollByFrame
    <2>2. schedule.attempts \in Nat /\ schedule.attempts + Cardinality(failed) < MaxAttempts
        BY <1>1, <1>2 DEF RegInv, RegTypeOK, Bound
    <2> HIDE DEF failed
    <2> QED BY <2>1, <2>2, Fewer
<1>9. Installs' = {}
    BY <1>2, <1>3, PollByFrame DEF Bound
<1> QED BY <1>1, <1>2, <1>6, <1>8, <1>9 DEF Bound

LEMMA RequestEngages ==
    ASSUME DeviceInv, TryInv, NEW low \in BOOLEAN, Request(low)
    PROVE  TryInv'
<1>1. /\ pc = "up" /\ pc' = "asked" /\ RunningVersion \notin Broken
      /\ UNCHANGED <<slots, boot, running, try, result>>
    BY DEF Request
<1>2. PICK offer \in BOOLEAN :
         /\ Poll(Frame, RunningVersion, result, low, offer)
         /\ reply' = IF offer THEN [version |-> schedule.version, id |-> schedule.id] ELSE NoOffer
    BY DEF Request
<1>3. /\ schedule' = schedule /\ issued' = issued /\ running = boot
      /\ \A e \in events' : e.dev = Frame
      /\ \A e \in Installs' : e \in Installs \/ (e = ResultEvent(Frame, result) /\ result.token = "installed")
    BY <1>1, <1>2, PollByFrame
<1>4. \A e \in events' : e.id <= issued'
    <2>1. RunningVersion \in Reported /\ result \in Results /\ Frame \in Devices
        BY <1>1, <1>2, PollByFrame, FrameAssumption DEF DeviceInv, NvsTypes, Reported
    <2>2. RegNext
        BY <1>2, <2>1 DEF RegNext
    <2> QED BY <2>2, IdsBounded DEF DeviceInv, TryInv, Heard
<1>5. Installs' # {} => slots[boot] = Good(schedule.version)
    <2> SUFFICES ASSUME NEW e \in Installs' PROVE slots[boot] = Good(schedule.version)
        OBVIOUS
    <2>1. CASE e \in Installs
        BY <2>1 DEF TryInv, Heard
    <2>2. CASE e = ResultEvent(Frame, result) /\ result.token = "installed"
        <3>1. e.id = schedule.id /\ schedule # NoSchedule
            BY <1>3 DEF Installs, Own
        <3>2. schedule.id # 0
            BY <3>1 DEF DeviceInv, RegInv
        <3>3. result.version = schedule.version
            BY <2>2, <3>1, <3>2 DEF ResultEvent
        <3> QED BY <2>2, <3>3 DEF TryInv, Heard
    <2> QED BY <1>3, <2>1, <2>2
<1>6. Heard'
    BY <1>1, <1>3, <1>4, <1>5 DEF TryInv, Heard
<1>7. reply' # NoOffer => Bound(reply.version)'
    <2> SUFFICES ASSUME reply' # NoOffer PROVE Bound(reply.version)'
        OBVIOUS
    <2>1. offer = TRUE /\ reply'.version = schedule'.version
        BY <1>2, <1>3
    <2>2. Bound(schedule.version)'
        BY <1>1, <1>2, <2>1, OfferBinds
    <2> QED BY <2>1, <2>2 DEF Bound
<1>8. try # NoVersion => Bound(try)'
    BY <1>1, <1>2, TrialBinds
<1>9. Engaged'
    BY <1>1, <1>7, <1>8 DEF Engaged
<1> QED BY <1>6, <1>9 DEF TryInv

(* The server's side of it: nothing it does frees a schedule somebody is on.*)
LEMMA ReconcileSettles ==
    ASSUME RegInv, Reconcile
    PROVE  Installs' = {} /\ Unreconciled(Failures(events))' = {} /\ events' = events /\ issued' = issued
<1>1. reconciled' = Latest(events).seq /\ events' = events /\ issued' = issued /\ events # {}
    BY DEF Reconcile, report, Unreconciled
<1>2. \A e \in events : e.seq <= Latest(events).seq /\ e.seq \in Nat /\ Latest(events).seq \in Nat
    BY <1>1, LatestIsThere DEF RegInv, RegTypeOK, Event
<1>3. \A e \in events' : ~(e.seq > reconciled')
    BY <1>1, <1>2
<1> QED BY <1>1, <1>3 DEF Installs, Own, Pending, Unreconciled, Failures

LEMMA ReconcileBinds ==
    ASSUME RegInv, Reconcile, NEW v, Bound(v)
    PROVE  /\ schedule'.state = "scheduled" /\ schedule'.version = v /\ Acknowledged' /\ Installs' = {}
           /\ schedule'.attempts + Cardinality(Unreconciled(Failures(events))') < MaxAttempts
<1> DEFINE mine == {e \in Own : e.token \in Counted}
           n == schedule.attempts + Cardinality(mine)
<1>1. schedule # NoSchedule /\ schedule.state = "scheduled" /\ schedule.version = v /\ Acknowledged /\ Installs = {}
    BY DEF Bound, NoSchedule
<1>2. mine = Unreconciled(Failures(events))
    BY <1>1 DEF Own, Pending, Unreconciled, Failures
<1>3. n < MaxAttempts /\ n \in Nat
    <2>1. schedule.attempts \in Nat /\ IsFiniteSet(events)
        BY DEF RegInv, RegTypeOK
    <2>2. Cardinality(mine) \in Nat
        BY <1>2, <2>1, Countable DEF Unreconciled, Failures
    <2>3. schedule.attempts + Cardinality(mine) < MaxAttempts
        BY <1>2 DEF Bound
    <2> HIDE DEF mine
    <2> QED BY <2>1, <2>2, <2>3
<1>4. schedule \in [id : Nat, version : Reported,
                    state : {"none", "scheduled", "failed"}, attempts : Nat]
    BY DEF RegInv, RegTypeOK
<1>5. schedule' = [schedule EXCEPT !.attempts = n,
                      !.state = IF n > schedule.attempts /\ n >= MaxAttempts THEN "failed" ELSE @]
    BY <1>1 DEF Reconcile, ReconciledSchedule
<1>6. /\ schedule'.id = schedule.id /\ schedule'.version = schedule.version
      /\ schedule'.attempts = n /\ schedule'.state = "scheduled"
    <2> HIDE DEF n
    <2> QED BY <1>1, <1>3, <1>4, <1>5, LimitsAssumption
<1>7. Acknowledged'
    BY <1>1, <1>6, ReconcileSettles DEF Acknowledged, ForSchedule
<1>8. n + Cardinality({}) < MaxAttempts
    <2> HIDE DEF n
    <2> QED BY <1>3, FS_EmptySet
<1> HIDE DEF n
<1> QED BY <1>1, <1>6, <1>7, <1>8, ReconcileSettles

LEMMA OperatorWaits ==
    ASSUME RegInv, Heard, Operator, UNCHANGED <<deviceVars, starts, unheard>>
    PROVE  /\ Heard'
           /\ \A v : Bound(v) => UNCHANGED <<schedule, reconciled, events>>
<1>1. UNCHANGED <<pc, slots, boot, result, reconciled, events>>
    BY DEF Operator, Publish, Schedule, Cancel, deviceVars, report
<1>2. ASSUME NEW v \in Versions, NEW kind \in Kinds, Publish(v, kind)
      PROVE  UNCHANGED <<schedule, issued>>
    BY <1>2 DEF Publish, history
<1>3. ASSUME NEW v \in Versions, NEW now \in Reported, Schedule(v, now)
      PROVE  /\ issued' = issued + 1 /\ schedule'.id = issued + 1
             /\ ~(schedule.state = "scheduled" /\ Acknowledged)
    BY <1>3 DEF Schedule
<1>4. issued \in Nat /\ \A e \in events : e.id \in Nat /\ e.id <= issued /\ e.dev = Frame
    <2>1. issued \in Nat /\ events \subseteq Event
        BY DEF RegInv, RegTypeOK
    <2>2. \A e \in Event : e.id \in Nat
        BY DEF Event
    <2> QED BY <2>1, <2>2 DEF Heard
<1>5. CASE UNCHANGED <<schedule, issued>>
    <2>1. Installs' = Installs
        BY <1>1, <1>5 DEF Installs, Own, Pending, Unreconciled
    <2> QED BY <1>1, <1>5, <2>1 DEF Heard
<1>6. CASE \E v \in Versions, now \in Reported : Schedule(v, now)
    <2>1. \A e \in events : e.id # schedule'.id /\ e.id <= issued'
        BY <1>3, <1>4, <1>6
    <2>2. Installs' = {}
        BY <1>1, <2>1 DEF Installs, Own, Pending, Unreconciled
    <2>3. \A v : ~Bound(v)
        BY <1>3, <1>6 DEF Bound
    <2> QED BY <1>1, <1>4, <2>1, <2>2, <2>3 DEF Heard
<1>7. CASE Cancel
    <2>1. Installs' = {} /\ issued' = issued
        BY <1>7 DEF Cancel, Installs, Own
    <2>2. \A v : ~Bound(v)
        BY <1>7 DEF Cancel, Bound
    <2> QED BY <1>1, <1>4, <2>1, <2>2 DEF Heard
<1> QED BY <1>2, <1>5, <1>6, <1>7 DEF Operator

LEMMA ServerEngages ==
    ASSUME DeviceInv, TryInv, Server
    PROVE  TryInv'
<1>1. UNCHANGED <<pc, slots, boot, running, try, result, reply>>
    BY DEF Server, deviceVars
<1>2. CASE Reconcile
    <2>1. Heard'
        BY <1>1, <1>2, ReconcileSettles DEF DeviceInv, TryInv, Heard
    <2>2. ASSUME NEW v, Bound(v)
          PROVE  /\ schedule'.state = "scheduled" /\ schedule'.version = v /\ Acknowledged' /\ Installs' = {}
                 /\ schedule'.attempts + Cardinality(Unreconciled(Failures(events))') < MaxAttempts
        BY <1>2, <2>2, ReconcileBinds DEF DeviceInv
    <2>3. try # NoVersion => Bound(try)'
        BY <1>1, <2>2 DEF TryInv, Engaged, Bound
    <2>4. pc \in {"asked", "polled"} /\ reply # NoOffer => Bound(reply.version)'
        BY <1>1, <2>2 DEF TryInv, Engaged, Bound
    <2> QED BY <1>1, <2>1, <2>3, <2>4 DEF TryInv, Engaged
<1>3. CASE Operator
    <2>1. Heard' /\ \A v : Bound(v) => UNCHANGED <<schedule, reconciled, events>>
        BY <1>3, OperatorWaits DEF DeviceInv, TryInv, Server
    <2>2. ASSUME NEW v, Bound(v), UNCHANGED <<schedule, reconciled, events>>
          PROVE  /\ schedule'.state = "scheduled" /\ schedule'.version = v /\ Acknowledged' /\ Installs' = {}
                 /\ schedule'.attempts + Cardinality(Unreconciled(Failures(events))') < MaxAttempts
        BY <2>2 DEF Bound, Acknowledged, ForSchedule, Installs, Own, Pending, Unreconciled, Failures
    <2>3. try # NoVersion => Bound(try)'
        BY <1>1, <2>1, <2>2 DEF TryInv, Engaged, Bound
    <2>4. pc \in {"asked", "polled"} /\ reply # NoOffer => Bound(reply.version)'
        BY <1>1, <2>1, <2>2 DEF TryInv, Engaged, Bound
    <2> QED BY <1>1, <2>1, <2>3, <2>4 DEF TryInv, Engaged
<1> QED BY <1>2, <1>3 DEF Server

(* The frame's own steps leave the registry alone.                          *)
LEMMA BoundStays ==
    ASSUME UNCHANGED regVars, NEW v, Bound(v)
    PROVE  /\ schedule'.state = "scheduled" /\ schedule'.version = v /\ Acknowledged' /\ Installs' = {}
           /\ schedule'.attempts + Cardinality(Unreconciled(Failures(events))') < MaxAttempts
BY DEF Bound, Acknowledged, ForSchedule, Installs, Own, Pending, Unreconciled, Failures,
       regVars, registry, report, history

LEMMA Undisturbed ==
    ASSUME UNCHANGED regVars
    PROVE  UNCHANGED <<schedule, issued, events>> /\ Installs' = Installs
BY DEF Installs, Own, Pending, Unreconciled, regVars, registry, report, history

LEMMA EngagedStays ==
    ASSUME TryInv, UNCHANGED regVars,
           try' \in {try, NoVersion} \/ (pc = "polled" /\ reply # NoOffer /\ try' = reply.version),
           pc' \in {"asked", "polled"} => reply' = NoOffer \/ (reply' = reply /\ pc \in {"asked", "polled"}),
           pc' = "up" /\ try' # NoVersion => result' = [token |-> "trial", version |-> try']
    PROVE  Engaged'
<1>1. try' # NoVersion => Bound(try)'
    <2>1. CASE try' \in {try, NoVersion}
        BY <2>1, BoundStays DEF TryInv, Engaged, Bound
    <2>2. CASE pc = "polled" /\ reply # NoOffer /\ try' = reply.version
        BY <2>2, BoundStays DEF TryInv, Engaged, Bound
    <2> QED BY <2>1, <2>2
<1>2. pc' \in {"asked", "polled"} /\ reply' # NoOffer => Bound(reply.version)'
    BY BoundStays DEF TryInv, Engaged, Bound
<1> QED BY <1>1, <1>2 DEF Engaged

LEMMA HeardStays ==
    ASSUME TryInv, UNCHANGED regVars,
           result'.token = "installed" => slots'[boot'] = Good(result'.version),
           Installs # {} => slots'[boot'] = Good(schedule.version),
           pc' \in PollingPCs \ {"asked", "recorded"} => result'.token # "installed"
    PROVE  Heard'
BY Undisturbed DEF TryInv, Heard

(* An image on trial says nothing of an install, and a confirmed one is the *)
(* one that runs.                                                           *)
LEMMA BootEngages == DeviceInv /\ TryInv /\ Boot => TryInv'
<1> SUFFICES ASSUME DeviceInv, TryInv, Boot PROVE TryInv'
    OBVIOUS
<1>1. /\ UNCHANGED regVars /\ UNCHANGED <<try, result, reply>> /\ pc = "off" /\ pc' = "booting"
    BY DEF Boot
<1>2. slots[boot].state = "valid" => UNCHANGED <<slots, boot>>
    BY DEF Boot
<1>3. Engaged'
    BY <1>1, EngagedStays
<1>4. Heard'
    BY <1>1, <1>2, HeardStays DEF TryInv, Heard, Good
<1> QED BY <1>3, <1>4 DEF TryInv

LEMMA BootCheckEngages == DeviceInv /\ TryInv /\ (BootCheck \/ BootErase) => TryInv'
<1> SUFFICES ASSUME DeviceInv, TryInv, BootCheck \/ BootErase PROVE TryInv'
    OBVIOUS
<1>1. UNCHANGED regVars /\ UNCHANGED <<slots, boot, running, reply>>
    BY DEF BootCheck, BootErase
<1>2. CASE BootErase
    <2>1. pc' = "up" /\ try' = NoVersion /\ result' = result
        BY <1>2 DEF BootErase
    <2>2. Engaged'
        BY <1>1, <2>1, EngagedStays
    <2>3. Heard'
        BY <1>1, <2>1, HeardStays DEF TryInv, Heard
    <2> QED BY <2>2, <2>3 DEF TryInv
<1>3. CASE BootCheck
    <2>1. /\ pc = "booting" /\ try' = try
          /\ pc' = IF Classify \in {"none", "trial"} THEN "up" ELSE "classified"
          /\ result' = IF Classify = "none" THEN result ELSE [token |-> Classify, version |-> try]
        BY <1>3 DEF BootCheck
    <2>2. running = boot /\ slots[boot].state \in {"valid", "pending"} /\ SlotTypes
        BY <2>1 DEF DeviceInv, SlotInv, Standing
    <2>3. Classify = "installed" => slots[boot] = Good(try)
        BY <2>2 DEF Classify, RunningVersion, TrialPending, Good, SlotTypes
    <2>4. Classify = "none" => try = NoVersion
        BY DEF Classify
    <2>5. Engaged'
        BY <1>1, <2>1, <2>4, EngagedStays
    <2>6. Heard'
        BY <1>1, <2>1, <2>3, HeardStays DEF TryInv, Heard
    <2> QED BY <2>5, <2>6 DEF TryInv
<1> QED BY <1>2, <1>3

LEMMA AwakeEngages ==
    ASSUME DeviceInv, TryInv,
           \/ RequestUnrecorded \/ Receive \/ Lose \/ WakeFails \/ Crash
           \/ Decline \/ Refuse \/ Start \/ ApplyFails \/ ApplyErase \/ ConfirmErase \/ Sleep
    PROVE  TryInv'
<1>1. UNCHANGED regVars /\ UNCHANGED <<slots, boot, running>>
    BY DEF RequestUnrecorded, Receive, Lose, WakeFails, Crash, Decline, Refuse, Start, ApplyFails,
           ApplyErase, ConfirmErase, Sleep
<1>2. CASE Start
    <2>1. pc = "polled" /\ pc' = "updating" /\ reply # NoOffer /\ try' = reply.version /\ result' = result
        BY <1>2 DEF Start, Skip
    <2>2. Engaged'
        BY <1>1, <2>1, EngagedStays
    <2>3. Heard'
        BY <1>1, <2>1, HeardStays DEF TryInv, Heard
    <2> QED BY <2>2, <2>3 DEF TryInv
<1>3. CASE \/ RequestUnrecorded \/ Receive \/ Lose \/ WakeFails \/ Crash
           \/ Decline \/ Refuse \/ ApplyFails \/ ApplyErase \/ ConfirmErase \/ Sleep
    <2>1. /\ try' \in {try, NoVersion} /\ pc' # "up"
          /\ pc' \in {"asked", "polled"} => reply' = NoOffer \/ (reply' = reply /\ pc \in {"asked", "polled"})
        BY <1>3 DEF RequestUnrecorded, Receive, Lose, WakeFails, Crash, Decline, Refuse, ApplyFails,
                    ApplyErase, ConfirmErase, Sleep
    <2>2. Engaged'
        BY <1>1, <2>1, EngagedStays
    <2>3. result' = result \/ result'.token # "installed"
        BY <1>3 DEF RequestUnrecorded, Receive, Lose, WakeFails, Crash, Decline, Refuse, ApplyFails,
                    ApplyErase, ConfirmErase, Sleep, NoResult
    <2>4. pc' \in PollingPCs \ {"asked", "recorded"} =>
             result'.token # "installed" \/ (result' = result /\ pc \in PollingPCs \ {"asked", "recorded"})
        BY <1>3 DEF RequestUnrecorded, Receive, Lose, WakeFails, Crash, Decline, Refuse, ApplyFails,
                    ApplyErase, ConfirmErase, Sleep, NoResult
    <2>5. Heard'
        BY <1>1, <2>3, <2>4, HeardStays DEF TryInv, Heard
    <2> QED BY <2>2, <2>5 DEF TryInv
<1> QED BY <1>2, <1>3

(* The slots change only under a schedule no install of which is awaited.   *)
LEMMA SlotsEngage ==
    ASSUME DeviceInv, ReportInv, TryInv, Write \/ Switch \/ Confirm \/ ConfirmRecord
    PROVE  TryInv'
<1>1. UNCHANGED regVars /\ try' = try /\ pc' \notin {"asked", "polled", "up"} /\ running = boot
    BY DEF Write, Switch, Confirm, ConfirmRecord, DeviceInv, SlotInv, Standing
<1>2. Engaged'
    BY <1>1, EngagedStays
<1>3. CASE Write
    <2>1. /\ pc = "updating" /\ pc' = "writing" /\ UNCHANGED <<boot, result>>
          /\ \E v, st : slots' = [slots EXCEPT ![Target(running)] = [version |-> v, state |-> st]]
        BY <1>3 DEF Write
    <2>2. slots'[boot] = slots[boot]
        BY <1>1, <2>1 DEF Target, DeviceInv, SlotInv, SlotTypes
    <2>3. Heard'
        BY <1>1, <2>1, <2>2, HeardStays DEF TryInv, Heard
    <2> QED BY <1>2, <2>3 DEF TryInv
<1>4. CASE Switch
    <2>1. pc = "writing" /\ pc' = "off" /\ result' = result /\ try = reply.version /\ reply.version # NoVersion
        BY <1>4, VersionsAssumption DEF Switch, ReportInv, DeviceInv, SlotInv, Standing, NoVersion
    <2>2. result.token # "installed" /\ Installs = {}
        BY <2>1 DEF TryInv, Heard, Engaged, Bound
    <2>3. Heard'
        BY <1>1, <2>1, <2>2, HeardStays
    <2> QED BY <1>2, <2>3 DEF TryInv
<1>5. CASE Confirm
    <2>1. pc = "healthy" /\ pc' = "confirmed" /\ result' = result /\ slots[boot].state = "pending"
        BY <1>1, <1>5 DEF Confirm, TrialPending
    <2>2. result.token # "installed" /\ Installs = {}
        BY <2>1 DEF TryInv, Heard, Good
    <2>3. Heard'
        BY <1>1, <2>1, <2>2, HeardStays
    <2> QED BY <1>2, <2>3 DEF TryInv
<1>6. CASE ConfirmRecord
    <2>1. /\ pc = "confirmed" /\ pc' = "recorded" /\ UNCHANGED <<slots, boot, running>>
          /\ result' = [token |-> "installed", version |-> slots[boot].version]
        BY <1>1, <1>6 DEF ConfirmRecord, RunningVersion
    <2>2. slots[boot] = Good(slots[boot].version)
        BY <2>1 DEF ReportInv, DeviceInv, SlotInv, SlotTypes, Good
    <2>3. Heard'
        BY <1>1, <2>1, <2>2, HeardStays DEF TryInv, Heard
    <2> QED BY <1>2, <2>3 DEF TryInv
<1> QED BY <1>3, <1>4, <1>5, <1>6

LEMMA TryInvStep ==
    ASSUME DeviceInv, ReportInv, TryInv, [Next]_vars
    PROVE  TryInv'
<1>1. CASE Wake
    BY <1>1, BootEngages, BootCheckEngages DEF Wake
<1>2. CASE Polling
    BY <1>2, RequestEngages, AwakeEngages DEF Polling
<1>3. CASE Updating
    BY <1>3, AwakeEngages, SlotsEngage DEF Updating
<1>4. CASE Finish
    BY <1>4, AwakeEngages, SlotsEngage DEF Finish
<1>5. CASE Crash
    BY <1>5, AwakeEngages
<1>6. CASE Server
    BY <1>6, ServerEngages
<1>7. CASE UNCHANGED vars
    <2>1. UNCHANGED regVars /\ UNCHANGED <<pc, slots, boot, running, try, result, reply>>
        BY <1>7 DEF vars, deviceVars
    <2>2. Engaged'
        BY <2>1, EngagedStays DEF TryInv, Engaged
    <2>3. Heard'
        BY <2>1, HeardStays DEF TryInv, Heard
    <2> QED BY <2>2, <2>3 DEF TryInv
<1> QED BY <1>1, <1>2, <1>3, <1>4, <1>5, <1>6, <1>7 DEF Next

(* From the moment the frame marks an update until what became of it is     *)
(* kept, the schedule is that update: it is neither cancelled nor replaced, *)
(* and no report of an earlier try ends it (acknowledged(), reconcile()).   *)
THEOREM TriesAreScheduled == Spec => []TryIsScheduled
<1>1. DeviceInv /\ ReportInv /\ [Next]_vars => ReportInv'
    BY ReportInvStep DEF DeviceInv
<1>2. DeviceInv /\ ReportInv /\ TryInv /\ [Next]_vars => TryInv'
    BY TryInvStep
<1>3. TryInv => TryIsScheduled
    BY DEF TryInv, Engaged, Bound, TryIsScheduled
<1> QED BY <1>1, <1>2, <1>3, ReportInvInit, TryInvInit, DeviceInvariant, PTL DEF Spec
-----------------------------------------------------------------------------
(* No image is tried for ever.                                             *)

(* A start that is not in the tally: it is under way, it installed what is  *)
(* scheduled, or it failed and the next poll is to say so.                  *)
Owed ==
    \/ try # NoVersion
    \/ slots[boot] = Good(schedule.version)
    \/ pc # "asked" /\ FailureHeld

(* What a marker stands for, and what is kept before it is erased.          *)
Places ==
    /\ pc = "polled" => result = NoResult
    /\ pc \in {"up", "asked", "polled"} /\ try # NoVersion => TrialPending
    /\ pc = "attempted" => result = [token |-> "fail", version |-> try]
    /\ pc = "classified" =>
          slots[boot] = Good(try) \/ (result.token \in Counted /\ result.version = try)
    /\ pc \in {"confirmed", "recorded"} => try = slots[boot].version

(* An offer on its way is of the schedule that stands; a schedule not yet   *)
(* made has no starts.                                                      *)
Numbered ==
    /\ issued <= MaxSchedules
    /\ \A n \in 1..MaxSchedules : n > issued => starts[n] = 0
    /\ schedule # NoSchedule => schedule.id \in 1..issued
    /\ pc \in {"asked", "polled"} /\ reply # NoOffer => reply.id = schedule.id

StartsCount ==
    schedule # NoSchedule =>
        /\ starts[schedule.id] <= tally + IF Owed THEN 1 ELSE 0
        /\ starts[schedule.id] <= MaxAttempts + lost

StartInv == Places /\ Numbered /\ StartsCount

LEMMA StartInvInit == Init => StartInv
BY LimitsAssumption DEF Init, RegInit, StartInv, Places, Numbered, StartsCount, NoOffer

LEMMA PlacesStep ==
    ASSUME DeviceInv, ReportInv, Places, [Next]_vars
    PROVE  Places'
<1>1. CASE UNCHANGED <<pc, slots, boot, running, try, result>>
    BY <1>1 DEF Places, TrialPending
<1>2. CASE Boot \/ BootErase \/ Lose \/ WakeFails \/ Crash \/ Decline \/ Refuse \/ Start
           \/ Write \/ ApplyErase \/ Switch \/ ConfirmErase \/ Sleep \/ RequestUnrecorded
    <2>1. pc' \notin {"polled", "attempted", "classified", "confirmed", "recorded"}
        BY <1>2 DEF Boot, BootErase, Lose, WakeFails, Crash, Decline, Refuse, Start, Write, ApplyErase,
                    Switch, ConfirmErase, Sleep, RequestUnrecorded
    <2>2. pc' \in {"up", "asked", "polled"} =>
             try' = NoVersion \/ (pc = "up" /\ UNCHANGED <<slots, running, try>>)
        BY <1>2 DEF Boot, BootErase, Lose, WakeFails, Crash, Decline, Refuse, Start, Write, ApplyErase,
                    Switch, ConfirmErase, Sleep, RequestUnrecorded
    <2> QED BY <2>1, <2>2 DEF Places, TrialPending
<1>3. CASE BootCheck
    <2>1. /\ pc = "booting" /\ UNCHANGED <<slots, boot, running, try>>
          /\ pc' = IF Classify \in {"none", "trial"} THEN "up" ELSE "classified"
          /\ result' = IF Classify = "none" THEN result ELSE [token |-> Classify, version |-> try]
        BY <1>3 DEF BootCheck
    <2>2. running = boot /\ slots[boot].state \in {"valid", "pending"} /\ SlotTypes
        BY <2>1 DEF DeviceInv, SlotInv, Standing
    <2>3. Classify = "installed" => slots[boot] = Good(try)
        BY <2>2 DEF Classify, RunningVersion, TrialPending, Good, SlotTypes
    <2>4. /\ Classify = "none" => try = NoVersion
          /\ Classify = "trial" => TrialPending
          /\ Classify \in {"none", "trial", "installed", "rollback", "fail"}
        BY DEF Classify
    <2>5. TrialPending' = TrialPending
        BY <2>1 DEF TrialPending
    <2>6. CASE Classify \in {"none", "trial"}
        BY <2>1, <2>4, <2>5, <2>6 DEF Places
    <2>7. CASE Classify \notin {"none", "trial"}
        <3>1. /\ pc' = "classified"
              /\ result'.token = Classify /\ result'.version = try'
              /\ Classify = "installed" \/ Classify \in Counted
            BY <2>1, <2>4, <2>7 DEF Counted
        <3> QED BY <2>1, <2>3, <3>1 DEF Places, Good
    <2> QED BY <2>6, <2>7
<1>4. ASSUME NEW low \in BOOLEAN, Request(low) PROVE Places'
    BY <1>4 DEF Request, Places, TrialPending
<1>5. CASE Receive
    BY <1>5 DEF Receive, Places, TrialPending
<1>6. CASE ApplyFails
    <2>1. try = reply.version
        BY <1>6 DEF ApplyFails, ReportInv
    <2> QED BY <1>6, <2>1 DEF ApplyFails, Places
<1>7. CASE Confirm
    <2>1. running = boot /\ SlotTypes /\ slots[boot].state = "pending" /\ try = slots[boot].version
        BY <1>7 DEF Confirm, TrialPending, DeviceInv, SlotInv, Standing, ReportInv
    <2>2. slots'[boot'].version = slots[boot].version
        BY <1>7, <2>1 DEF Confirm, SlotTypes
    <2> QED BY <1>7, <2>1, <2>2 DEF Confirm, Places
<1>8. CASE ConfirmRecord
    BY <1>8 DEF ConfirmRecord, Places
<1> QED BY <1>1, <1>2, <1>3, <1>4, <1>5, <1>6, <1>7, <1>8
        DEF Next, Wake, Polling, Updating, Finish, Server, vars, deviceVars

(* What the registry does with the schedule: it makes a new one, or drops   *)
(* the one there is, or keeps its number, version and tally.                *)
LEMMA ServerCounts ==
    ASSUME RegInv, Operator \/ Reconcile
    PROVE  /\ issued' \in {issued, issued + 1} /\ (issued' = issued + 1 => issued < MaxSchedules)
           /\ \/ schedule' = NoSchedule /\ issued' = issued
              \/ /\ schedule # NoSchedule /\ issued' = issued /\ tally' = tally /\ lost' = lost
                 /\ schedule'.id = schedule.id /\ schedule'.version = schedule.version
              \/ schedule'.id = issued + 1 /\ issued' = issued + 1 /\ tally' = 0 /\ lost' = 0
<1>1. ASSUME NEW v \in Versions, NEW kind \in Kinds, Publish(v, kind)
      PROVE  UNCHANGED <<schedule, issued, tally, lost>>
    BY <1>1 DEF Publish, history
<1>a. issued \in Nat
    BY DEF RegInv, RegTypeOK
<1>2. ASSUME NEW v \in Versions, NEW now \in Reported, Schedule(v, now)
      PROVE  /\ issued < MaxSchedules
             /\ schedule'.id = issued + 1 /\ issued' = issued + 1 /\ tally' = 0 /\ lost' = 0
    BY <1>2 DEF Schedule
<1>3. CASE Cancel
    BY <1>a, <1>3 DEF Cancel
<1>4. CASE Reconcile
    <2>1. /\ schedule' = ReconciledSchedule /\ issued' = issued
          /\ ReconciledSchedule # NoSchedule => tally' = tally /\ lost' = lost
        BY <1>4 DEF Reconcile
    <2>2. ReconciledSchedule = NoSchedule
             \/ /\ schedule # NoSchedule
                /\ ReconciledSchedule.id = schedule.id /\ ReconciledSchedule.version = schedule.version
        <3>1. schedule \in [id : Nat, version : Reported,
                            state : {"none", "scheduled", "failed"}, attempts : Nat]
            BY DEF RegInv, RegTypeOK
        <3> HIDE DEF NoSchedule
        <3> QED BY <3>1 DEF ReconciledSchedule
    <2> QED BY <1>a, <2>1, <2>2
<1>5. CASE Operator /\ ~Cancel
    BY <1>a, <1>1, <1>2, <1>5 DEF Operator
<1> QED BY <1>3, <1>4, <1>5

LEMMA NumberedStep ==
    ASSUME DeviceInv, HistoryTypes, TryInv, TryInv', Numbered, [Next]_vars
    PROVE  Numbered'
<1>1. issued \in Nat /\ MaxSchedules \in Nat /\ starts \in [1..MaxSchedules -> Nat]
    BY LimitsAssumption DEF DeviceInv, RegInv, RegTypeOK, HistoryTypes
<1>2. CASE Server
    <2>1. UNCHANGED <<pc, reply, starts>>
        BY <1>2 DEF Server, deviceVars
    <2>2. /\ issued' \in {issued, issued + 1} /\ (issued' = issued + 1 => issued < MaxSchedules)
          /\ \/ schedule' = NoSchedule /\ issued' = issued
             \/ schedule # NoSchedule /\ issued' = issued /\ schedule'.id = schedule.id
             \/ schedule'.id = issued + 1 /\ issued' = issued + 1
        BY <1>2, ServerCounts DEF Server, DeviceInv
    <2>3. pc' \in {"asked", "polled"} /\ reply' # NoOffer => reply'.id = schedule'.id
        <3> SUFFICES ASSUME pc \in {"asked", "polled"}, reply # NoOffer
                     PROVE  reply.id = schedule'.id
            BY <2>1
        <3>1. Bound(reply.version) /\ Bound(reply.version)'
            BY <2>1 DEF TryInv, Engaged
        <3>2. schedule' # NoSchedule /\ schedule.state = "scheduled" /\ Acknowledged
            BY <3>1 DEF Bound, NoSchedule
        <3>3. ~(\E v \in Versions, now \in Reported : Schedule(v, now)) /\ ~Cancel
            BY <3>2 DEF Schedule, Cancel
        <3>4. issued' = issued
            BY <1>2, <3>3 DEF Server, Operator, Publish, Reconcile, history
        <3>5. schedule'.id = schedule.id
            BY <1>1, <2>2, <3>2, <3>4
        <3> QED BY <2>1, <3>5 DEF Numbered
    <2> QED BY <1>1, <2>1, <2>2, <2>3 DEF Numbered
<1>3. CASE UNCHANGED <<schedule, issued, starts>>
            /\ (pc' \in {"asked", "polled"} => reply' = NoOffer \/ (reply' = reply /\ pc \in {"asked", "polled"}))
    BY <1>3 DEF Numbered
<1>4. ASSUME NEW low \in BOOLEAN, Request(low) PROVE Numbered'
    <2>1. UNCHANGED <<schedule, issued, starts>>
        BY <1>4 DEF Request, Poll, registry
    <2>2. reply' = NoOffer \/ reply'.id = schedule.id
        BY <1>4 DEF Request
    <2> QED BY <2>1, <2>2 DEF Numbered
<1>5. ASSUME UNCHANGED <<schedule, issued>>, pc' \in {"asked", "polled"} => reply' = NoOffer,
             schedule # NoSchedule,
             NEW k \in Nat, starts' = [starts EXCEPT ![schedule.id] = k]
      PROVE  Numbered'
    <2>1. \A n \in 1..MaxSchedules : n > issued => starts'[n] = starts[n]
        BY <1>1, <1>5 DEF Numbered
    <2> QED BY <1>5, <2>1 DEF Numbered
<1>6. CASE RequestUnrecorded
    <2>1. UNCHANGED <<schedule, issued>> /\ reply' = NoOffer
        BY <1>6 DEF RequestUnrecorded, regVars, registry, history
    <2>2. CASE starts' = starts
        BY <1>3, <2>1, <2>2
    <2>3. CASE FailureHeld /\ starts[schedule.id] > 0
                /\ starts' = [starts EXCEPT ![schedule.id] = starts[schedule.id] - 1]
        <3>1. schedule # NoSchedule /\ schedule.id \in 1..MaxSchedules
            BY <1>1, <2>3 DEF FailureHeld, Numbered
        <3>2. starts[schedule.id] - 1 \in Nat
            BY <1>1, <2>3, <3>1
        <3> QED BY <1>5, <2>1, <2>3, <3>1, <3>2
    <2> QED BY <1>6, <2>2, <2>3 DEF RequestUnrecorded
<1>7. CASE Start
    <2>1. pc = "polled" /\ pc' = "updating" /\ reply # NoOffer
          /\ starts' = [starts EXCEPT ![reply.id] = starts[reply.id] + 1]
          /\ UNCHANGED <<schedule, issued>>
        BY <1>7 DEF Start, Skip, regVars, registry, history
    <2>2. reply.id = schedule.id /\ Bound(reply.version)
        BY <2>1 DEF Numbered, TryInv, Engaged
    <2>3. schedule # NoSchedule
        BY <2>2 DEF Bound, NoSchedule
    <2>4. schedule.id \in 1..MaxSchedules
        BY <1>1, <2>3 DEF Numbered
    <2>5. starts[reply.id] + 1 \in Nat
        BY <1>1, <2>2, <2>4
    <2> QED BY <1>5, <2>1, <2>2, <2>3, <2>5
<1> QED BY <1>2, <1>3, <1>4, <1>6, <1>7
        DEF Next, Wake, Polling, Updating, Finish, vars, deviceVars, regVars, registry, history, Boot,
            BootCheck, BootErase, Receive, Lose, WakeFails, Crash, Decline, Refuse, Write, ApplyFails,
            ApplyErase, Switch, Confirm, ConfirmRecord, ConfirmErase, Sleep

LEMMA Wider ==
    ASSUME NEW a \in Nat, NEW m \in Nat, NEW n \in Nat, NEW k \in Nat, a <= m + n, k >= n
    PROVE  a <= m + k
OBVIOUS

(* A failure the poll reports of what is scheduled is one more in the tally.*)
LEMMA PollTallies ==
    ASSUME RegInv, NEW d \in Devices, NEW f \in Reported, result \in Results,
           NEW low \in BOOLEAN, NEW offer \in BOOLEAN, Poll(d, f, result, low, offer)
    PROVE  tally' >= tally /\ (FailureHeld => tally' >= tally + 1) /\ lost' >= lost
<1> DEFINE new == Failures(Said(d, result)) \ Failures(events)
           gone == Unreconciled(Failures(Said(d, result))) \ events'
<1>1. tally' = tally + Cardinality(new) /\ lost' = lost + Cardinality(gone)
    BY DEF Poll
<1>2. IsFiniteSet(Said(d, result))
    BY PollWrites
<1>3. /\ IsFiniteSet(new) /\ Cardinality(new) \in Nat
      /\ Cardinality(gone) \in Nat
    BY <1>2, Countable DEF Failures, Unreconciled
<1>4. FailureHeld => new # {}
    <2> SUFFICES ASSUME FailureHeld PROVE ResultEvent(d, result) \in new
        OBVIOUS
    <2>1. result # NoResult
        BY DEF FailureHeld, NoResult, Counted
    <2>2. ResultEvent(d, result) \in Said(d, result)
        BY <2>1 DEF Said
    <2>3. ResultEvent(d, result) \in Failures(Said(d, result))
        BY <2>2 DEF Failures, ResultEvent, FailureHeld
    <2>4. ResultEvent(d, result).seq = HighestSeq + 1
        BY DEF ResultEvent
    <2>5. ResultEvent(d, result) \notin events
        BY <2>4, NumbersBounded
    <2> QED BY <2>3, <2>5 DEF Failures
<1>5. new # {} => Cardinality(new) >= 1
    <2> HIDE DEF new
    <2> QED BY <1>3, FS_EmptySet
<1>6. tally \in Nat /\ lost \in Nat
    BY DEF RegInv, RegTypeOK
<1> HIDE DEF new, gone
<1> QED BY <1>1, <1>3, <1>4, <1>5, <1>6

(* What is owed stays owed while the frame goes on with it.                 *)
LEMMA OwedStays ==
    ASSUME StartsCount, UNCHANGED <<schedule, starts, tally, lost>>, Owed => Owed',
           tally \in Nat, schedule # NoSchedule => starts[schedule.id] \in Nat
    PROVE  StartsCount'
BY DEF StartsCount

LEMMA CountedTypes ==
    ASSUME DeviceInv, HistoryTypes, Numbered
    PROVE  /\ issued \in Nat /\ tally \in Nat /\ lost \in Nat /\ MaxSchedules \in Nat /\ MaxAttempts \in Nat
           /\ starts \in [1..MaxSchedules -> Nat]
           /\ schedule # NoSchedule => schedule.id \in 1..MaxSchedules /\ starts[schedule.id] \in Nat
<1>1. /\ issued \in Nat /\ tally \in Nat /\ lost \in Nat /\ MaxSchedules \in Nat /\ MaxAttempts \in Nat
      /\ starts \in [1..MaxSchedules -> Nat]
    BY LimitsAssumption DEF DeviceInv, RegInv, RegTypeOK, HistoryTypes
<1>2. schedule # NoSchedule => schedule.id \in 1..MaxSchedules
    BY <1>1 DEF Numbered
<1> QED BY <1>1, <1>2

(* A marker is erased after what became of it is kept.                      *)
LEMMA ErasedIsOwed ==
    ASSUME DeviceInv, ReportInv, TryInv, Places, Owed, BootErase \/ ApplyErase \/ ConfirmErase
    PROVE  Owed'
<1>1. UNCHANGED <<schedule, slots, boot, result>> /\ pc' # "asked"
    BY DEF BootErase, ApplyErase, ConfirmErase, regVars, registry
<1>2. CASE try = NoVersion
    <2>1. slots[boot] = Good(schedule.version) \/ FailureHeld
        BY <1>2 DEF Owed
    <2> QED BY <1>1, <2>1 DEF Owed, FailureHeld
<1>3. CASE try # NoVersion
    <2>1. schedule # NoSchedule /\ schedule.version = try
        BY <1>3 DEF TryInv, Engaged, Bound, NoSchedule
    <2>2. CASE slots[boot] = Good(try)
        BY <1>1, <2>1, <2>2 DEF Owed
    <2>3. CASE result.token \in Counted /\ result.version = try
        BY <1>1, <2>1, <2>3 DEF Owed, FailureHeld
    <2>4. pc = "attempted" => result.token \in Counted /\ result.version = try
        BY DEF Places, Counted
    <2>5. pc = "recorded" => slots[boot] = Good(try)
        BY DEF Places, ReportInv, DeviceInv, SlotInv, SlotTypes, Good
    <2> QED BY <2>2, <2>3, <2>4, <2>5 DEF BootErase, ApplyErase, ConfirmErase, Places
<1> QED BY <1>2, <1>3

LEMMA StartsCountStep ==
    ASSUME DeviceInv, ReportInv, HistoryTypes, TryInv, EveryFailureCounts,
           Places, Numbered, StartsCount, [Next]_vars
    PROVE  StartsCount'
<1>1. /\ issued \in Nat /\ tally \in Nat /\ lost \in Nat /\ MaxSchedules \in Nat /\ MaxAttempts \in Nat
      /\ starts \in [1..MaxSchedules -> Nat]
      /\ schedule # NoSchedule => schedule.id \in 1..MaxSchedules /\ starts[schedule.id] \in Nat
    BY CountedTypes
<1>2. CASE Server
    <2>1. UNCHANGED <<pc, slots, boot, try, result, starts>>
        BY <1>2 DEF Server, deviceVars
    <2>2. \/ schedule' = NoSchedule
          \/ /\ schedule # NoSchedule /\ tally' = tally /\ lost' = lost
             /\ schedule'.id = schedule.id /\ schedule'.version = schedule.version
          \/ /\ schedule'.id = issued + 1 /\ issued < MaxSchedules /\ tally' = 0 /\ lost' = 0
        BY <1>1, <1>2, ServerCounts DEF Server, DeviceInv
    <2>3. CASE schedule' = NoSchedule
        BY <2>3 DEF StartsCount
    <2>4. CASE /\ schedule' # NoSchedule
               /\ schedule # NoSchedule /\ tally' = tally /\ lost' = lost
               /\ schedule'.id = schedule.id /\ schedule'.version = schedule.version
        <3>1. Owed' = Owed
            BY <2>1, <2>4 DEF Owed, FailureHeld
        <3> QED BY <1>1, <2>1, <2>4, <3>1 DEF StartsCount
    <2>5. CASE schedule'.id = issued + 1 /\ issued < MaxSchedules /\ tally' = 0 /\ lost' = 0
        <3>1. schedule'.id \in 1..MaxSchedules /\ schedule'.id > issued
            BY <1>1, <2>5
        <3>2. starts'[schedule'.id] = 0
            BY <2>1, <3>1 DEF Numbered
        <3> QED BY <1>1, <2>5, <3>2 DEF StartsCount
    <2> QED BY <2>2, <2>3, <2>4, <2>5
<1>3. CASE UNCHANGED regVars /\ UNCHANGED <<pc, slots, boot, try, result, starts>>
    <2>1. UNCHANGED <<schedule, starts, tally, lost>> /\ Owed' = Owed
        BY <1>3 DEF Owed, FailureHeld, regVars, registry, history
    <2> QED BY <1>1, <2>1, OwedStays
<1>4. CASE Boot
    <2>1. UNCHANGED <<schedule, starts, tally, lost, try, result>> /\ pc' # "asked"
        BY <1>4 DEF Boot, regVars, registry, history
    <2>2. slots[boot].state = "valid" => UNCHANGED <<slots, boot>>
        BY <1>4 DEF Boot
    <2>3. Owed => Owed'
        BY <2>1, <2>2 DEF Owed, FailureHeld, Good
    <2> QED BY <1>1, <2>1, <2>3, OwedStays
<1>5. CASE BootCheck
    <2>1. /\ UNCHANGED <<schedule, starts, tally, lost, try, slots, boot>> /\ pc' # "asked"
          /\ Classify = "none" => result' = result
        BY <1>5 DEF BootCheck, regVars, registry, history
    <2>2. Classify # "none" => try # NoVersion
        BY DEF Classify
    <2>3. Owed => Owed'
        BY <2>1, <2>2 DEF Owed, FailureHeld
    <2> QED BY <1>1, <2>1, <2>3, OwedStays
<1>6. CASE BootErase \/ ApplyErase \/ ConfirmErase
    <2>1. UNCHANGED <<schedule, starts, tally, lost>>
        BY <1>6 DEF BootErase, ApplyErase, ConfirmErase, regVars, registry, history
    <2> QED BY <1>1, <1>6, <2>1, ErasedIsOwed, OwedStays
<1>7. CASE Lose \/ Receive \/ WakeFails \/ Crash \/ Decline \/ Sleep
    <2>1. UNCHANGED <<schedule, starts, tally, lost, try, slots, boot>> /\ pc' # "asked"
        BY <1>7 DEF Lose, Receive, WakeFails, Crash, Decline, Sleep, regVars, registry, history
    <2>2. result' = result \/ pc = "asked"
        BY <1>7 DEF Lose, Receive, WakeFails, Crash, Decline, Sleep
    <2>3. Owed => Owed'
        BY <2>1, <2>2 DEF Owed, FailureHeld
    <2> QED BY <1>1, <2>1, <2>3, OwedStays
<1>8. CASE Refuse \/ ApplyFails \/ Write \/ Switch
    <2>1. UNCHANGED <<schedule, starts, tally, lost, try>>
        BY <1>8 DEF Refuse, ApplyFails, Write, Switch, regVars, registry, history
    <2>2. CASE Refuse
        <3>1. ~FailureHeld /\ UNCHANGED <<slots, boot>>
            BY <2>2 DEF Refuse, Places, FailureHeld, NoResult, Counted
        <3>2. Owed => Owed'
            BY <2>1, <3>1 DEF Owed
        <3> QED BY <1>1, <2>1, <3>2, OwedStays
    <2>3. CASE ApplyFails \/ Write \/ Switch
        <3>1. pc \in {"updating", "writing"} /\ reply.version \in Versions
            BY <2>3 DEF ApplyFails, Write, Switch, DeviceInv, SlotInv, Standing
        <3>2. try # NoVersion
            BY <3>1, VersionsAssumption DEF ReportInv, NoVersion
        <3>3. Owed'
            BY <2>1, <3>2 DEF Owed
        <3> QED BY <1>1, <2>1, <3>3, OwedStays
    <2> QED BY <1>8, <2>2, <2>3
<1>9. CASE Confirm \/ ConfirmRecord
    <2>1. UNCHANGED <<schedule, starts, tally, lost, try>>
        BY <1>9 DEF Confirm, ConfirmRecord, regVars, registry, history
    <2>2. try = slots[boot].version
        BY <1>9 DEF Confirm, ConfirmRecord, Places, ReportInv, TrialPending, DeviceInv, SlotInv, Standing
    <2>3. slots[boot].version # NoVersion
        BY <1>9, VersionsAssumption
           DEF Confirm, ConfirmRecord, DeviceInv, SlotInv, Standing, NeverBricked, RunningVersion, NoVersion
    <2>4. Owed'
        BY <2>1, <2>2, <2>3 DEF Owed
    <2> QED BY <1>1, <2>1, <2>4, OwedStays
<1>10. ASSUME NEW low \in BOOLEAN, Request(low) PROVE StartsCount'
    <2>1. pc = "up" /\ UNCHANGED <<slots, boot, try, result, starts>>
        BY <1>10 DEF Request
    <2>2. PICK offer \in BOOLEAN : Poll(Frame, RunningVersion, result, low, offer)
        BY <1>10 DEF Request
    <2>3. schedule' = schedule
        BY <2>2 DEF Poll, registry
    <2>4. RunningVersion \in Reported /\ result \in Results /\ Frame \in Devices
        BY <2>1, FrameAssumption DEF DeviceInv, NvsTypes, SlotInv, Standing, SlotTypes, NeverBricked,
                                     RunningVersion, Reported
    <2>5. tally' >= tally /\ (FailureHeld => tally' >= tally + 1) /\ lost' >= lost
        BY <2>2, <2>4, PollTallies DEF DeviceInv
    <2>6. tally' \in Nat /\ lost' \in Nat
        BY <2>2, <2>4, PollKeeps DEF DeviceInv, RegInv, RegTypeOK
    <2>7. Owed => Owed' \/ FailureHeld
        BY <2>1, <2>3 DEF Owed
    <2>8. SUFFICES ASSUME schedule # NoSchedule
                   PROVE  /\ starts[schedule.id] <= tally' + (IF Owed' THEN 1 ELSE 0)
                          /\ starts[schedule.id] <= MaxAttempts + lost'
        BY <2>1, <2>3 DEF StartsCount
    <2>9. /\ starts[schedule.id] <= tally + 1 /\ (~Owed => starts[schedule.id] <= tally)
          /\ starts[schedule.id] <= MaxAttempts + lost /\ starts[schedule.id] \in Nat
        BY <1>1, <2>8 DEF StartsCount
    <2>10. starts[schedule.id] <= MaxAttempts + lost'
        BY <1>1, <2>5, <2>6, <2>9, Wider
    <2>11. CASE FailureHeld
        <3>1. starts[schedule.id] <= tally'
            BY <1>1, <2>5, <2>6, <2>9, <2>11
        <3> QED BY <2>6, <2>9, <2>10, <3>1
    <2>12. CASE Owed'
        <3>1. starts[schedule.id] <= tally' + 1
            BY <1>1, <2>5, <2>6, <2>9
        <3> QED BY <2>10, <2>12, <3>1
    <2>13. CASE ~FailureHeld /\ ~Owed
        <3>1. starts[schedule.id] <= tally'
            BY <1>1, <2>5, <2>6, <2>9, <2>13
        <3> QED BY <2>6, <2>9, <2>10, <3>1
    <2> QED BY <2>7, <2>11, <2>12, <2>13
<1>11. CASE RequestUnrecorded
    <2>1. pc = "up" /\ UNCHANGED <<schedule, tally, lost, slots, boot, try, result>>
        BY <1>11 DEF RequestUnrecorded, regVars, registry, history
    <2>2. SUFFICES ASSUME schedule # NoSchedule
                   PROVE  /\ starts'[schedule.id] <= tally + (IF Owed' THEN 1 ELSE 0)
                          /\ starts'[schedule.id] <= MaxAttempts + lost
        BY <2>1 DEF StartsCount
    <2>3. /\ starts[schedule.id] <= tally + (IF Owed THEN 1 ELSE 0)
          /\ starts[schedule.id] <= MaxAttempts + lost
          /\ starts[schedule.id] \in Nat /\ schedule.id \in 1..MaxSchedules
        BY <1>1, <2>2 DEF StartsCount
    <2>4. CASE FailureHeld
        <3>1. starts'[schedule.id] = IF starts[schedule.id] > 0 THEN starts[schedule.id] - 1 ELSE starts[schedule.id]
            BY <1>1, <1>11, <2>3, <2>4 DEF RequestUnrecorded
        <3> QED BY <1>1, <2>3, <3>1
    <2>5. CASE ~FailureHeld
        <3>1. starts' = starts
            BY <1>11, <2>5 DEF RequestUnrecorded
        <3>2. Owed => Owed'
            BY <2>1, <2>5 DEF Owed
        <3> QED BY <1>1, <2>3, <3>1, <3>2
    <2> QED BY <2>4, <2>5
<1>12. CASE Start
    <2>1. /\ pc = "polled" /\ reply # NoOffer /\ try' = reply.version
          /\ reply.version # RunningVersion /\ ~TrialPending
          /\ starts' = [starts EXCEPT ![reply.id] = starts[reply.id] + 1]
          /\ UNCHANGED <<schedule, tally, lost>>
        BY <1>12 DEF Start, Skip, regVars, registry, history
    <2>2. Bound(reply.version) /\ reply.id = schedule.id
        BY <2>1 DEF TryInv, Engaged, Numbered
    <2>3. schedule # NoSchedule /\ schedule.version = reply.version
        BY <2>2 DEF Bound, NoSchedule
    <2>4. ~Owed
        <3>1. try = NoVersion /\ result = NoResult
            BY <2>1 DEF Places
        <3>2. running = boot
            BY <2>1 DEF DeviceInv, SlotInv, Standing
        <3>3. slots[boot] # Good(schedule.version)
            BY <2>1, <2>3, <3>2 DEF RunningVersion, Good
        <3> QED BY <3>1, <3>3 DEF Owed, FailureHeld, NoResult, Counted
    <2>5. starts[schedule.id] <= tally
        BY <1>1, <2>3, <2>4 DEF StartsCount
    <2>6. tally < MaxAttempts + lost
        <3> DEFINE n == Cardinality(Unreconciled(Failures(events)))
        <3>1. schedule.attempts + n < MaxAttempts
            BY <2>2 DEF Bound
        <3>2. tally = schedule.attempts + n + lost
            BY <2>3 DEF EveryFailureCounts
        <3>3. n \in Nat /\ schedule.attempts \in Nat
            BY Countable DEF DeviceInv, RegInv, RegTypeOK, Unreconciled, Failures
        <3> HIDE DEF n
        <3> QED BY <1>1, <3>1, <3>2, <3>3
    <2>7. starts'[schedule.id] = starts[schedule.id] + 1
        BY <1>1, <2>1, <2>2, <2>3
    <2>8. Owed'
        <3>1. reply.version # NoVersion
            BY <2>1, VersionsAssumption DEF DeviceInv, SlotInv, SlotTypes, NoVersion
        <3> QED BY <2>1, <3>1 DEF Owed
    <2>9. starts[schedule.id] + 1 <= tally + 1 /\ starts[schedule.id] + 1 <= MaxAttempts + lost
        BY <1>1, <2>3, <2>5, <2>6
    <2>10. schedule' = schedule /\ tally' = tally /\ lost' = lost
        BY <2>1
    <2> QED BY <2>7, <2>8, <2>9, <2>10 DEF StartsCount
<1> QED BY <1>2, <1>3, <1>4, <1>5, <1>6, <1>7, <1>8, <1>9, <1>10, <1>11, <1>12
        DEF Next, Wake, Polling, Updating, Finish, vars, deviceVars

LEMMA StartInvStep ==
    ASSUME DeviceInv, ReportInv, HistoryTypes, TryInv, TryInv', EveryFailureCounts, StartInv, [Next]_vars
    PROVE  StartInv'
BY PlacesStep, NumberedStep, StartsCountStep DEF StartInv

(* A bad image is given up: while a schedule stands the frame starts no     *)
(* more updates under it than MAX_ATTEMPTS, and one more for each failure   *)
(* the server forgot before it was reconciled (compute_offer(), ota.c).     *)
THEOREM TriesStop == Spec => []StartsBounded
<1>1. DeviceInv /\ ReportInv /\ [Next]_vars => ReportInv'
    BY ReportInvStep DEF DeviceInv
<1>2. DeviceInv /\ HistoryTypes /\ [Next]_vars => HistoryTypes'
    BY HistoryTypesStep
<1>3. DeviceInv /\ ReportInv /\ TryInv /\ [Next]_vars => TryInv'
    BY TryInvStep
<1>4. DeviceInv /\ CountInv /\ [Next]_vars => CountInv'
    BY StepsAreRegistrySteps, CountInvStep DEF DeviceInv
<1>5. Init => CountInv
    BY RegInvInit DEF Init, RegInit, CountInv, EveryFailureCounts
<1>6. DeviceInv /\ ReportInv /\ HistoryTypes /\ TryInv /\ TryInv' /\ CountInv /\ StartInv /\ [Next]_vars
         => StartInv'
    BY StartInvStep DEF CountInv
<1>7. StartInv => StartsBounded
    BY DEF StartInv, StartsCount, StartsBounded
<1> QED BY <1>1, <1>2, <1>3, <1>4, <1>5, <1>6, <1>7, ReportInvInit, HistoryTypesInit, TryInvInit,
           StartInvInit, DeviceInvariant, PTL DEF Spec
=============================================================================
