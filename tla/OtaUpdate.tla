----------------------------- MODULE OtaUpdate -----------------------------
(***************************************************************************)
(* A firmware update end to end: the registry of FirmwareRegistry and one   *)
(* frame that polls it, tries what it is offered in an OTA slot it does not *)
(* run from, and reports what became of it.  NVS keeps ota_try and          *)
(* ota_result across everything; each write of one of them is a step, and a *)
(* reset may come between any two.  The bootloader and the otadata states   *)
(* of the slots are ESP-IDF's, modelled from what ota.c relies on.          *)
(***************************************************************************)
EXTENDS FirmwareRegistry

CONSTANTS
    Frame,        \* the device
    Factory,      \* the version it runs at first
    DeviceFloor,  \* CONFIG_SKYPANE_OTA_FLOOR_VERSION
    Broken,       \* versions that boot but never complete a poll
    Hazards       \* "crash", "lost" (an answer), "unrecorded" (see below)

ASSUME FrameAssumption ==
    /\ Frame \in Devices
    /\ Factory \in Versions \ Broken
    /\ DeviceFloor \in Nat
    /\ Hazards \subseteq {"crash", "lost", "unrecorded"}
    /\ ReportTokens = Tokens

VARIABLES
    pc,       \* where the frame stands; "off" until the next boot
    slots,    \* the app partitions: version and otadata state
    boot,     \* the slot otadata selects
    running,  \* the slot the frame runs from
    try,      \* NVS ota_try
    result,   \* NVS ota_result
    reply,    \* the offer in the answer on its way, or just received
    starts,   \* history: updates started under each schedule, as far as counted
    unheard   \* history: a confirmed version the server has not heard of

deviceVars == <<pc, slots, boot, running, try, result, reply>>
vars == <<regVars, deviceVars, starts, unheard>>

OtaSlots == {"ota_0", "ota_1"}
Slots == OtaSlots \cup {"factory"}

\* esp_ota_get_next_update_partition
Target(s) == IF s = "ota_0" THEN "ota_1" ELSE "ota_0"

\* What the bootloader runs when the image in s is aborted.
Fallback(s) ==
    IF s # "factory" /\ slots[Target(s)].state = "valid" THEN Target(s) ELSE "factory"

RunningVersion == slots[running].version
TrialPending == slots[running].state = "pending"
NoOffer == [version |-> NoVersion, id |-> 0]
Empty == [version |-> NoVersion, state |-> "undefined"]
Good(v) == [version |-> v, state |-> "valid"]

(* A frame as it was flashed, or one updated twice since.                   *)
Init ==
    /\ RegInit
    /\ pc = "off"
    /\ \/ slots = [s \in Slots |-> IF s = "factory" THEN Good(Factory) ELSE Empty]
          /\ boot = "factory"
       \/ \E v \in Versions \ (Broken \cup {Factory}) :
             slots = [factory |-> Good(Factory), ota_0 |-> Good(v), ota_1 |-> Good(Factory)]
          /\ boot = "ota_1"
    /\ running = boot
    /\ try = NoVersion /\ result = NoResult /\ reply = NoOffer
    /\ starts = [n \in 1..MaxSchedules |-> 0]
    /\ unheard = NoVersion
-----------------------------------------------------------------------------
(* Booting                                                                 *)

\* The bootloader: a new image boots once, pending; booted again before it is
\* confirmed it is aborted, and an image that was confirmed runs.
Boot ==
    /\ pc = "off"
    /\ CASE slots[boot].state = "new" ->
              /\ slots' = [slots EXCEPT ![boot].state = "pending"]
              /\ running' = boot /\ UNCHANGED boot
         [] slots[boot].state = "pending" ->
              /\ slots' = [slots EXCEPT ![boot].state = "aborted"]
              /\ running' = Fallback(boot) /\ boot' = Fallback(boot)
         [] slots[boot].state = "valid" ->
              /\ running' = boot /\ UNCHANGED <<slots, boot>>
    /\ pc' = "booting"
    /\ UNCHANGED <<regVars, try, result, reply, starts, unheard>>

\* esp_ota_get_last_invalid_partition and its description.
LastInvalid(v) == \E s \in OtaSlots : slots[s] = [version |-> v, state |-> "aborted"]

\* fp_ota_boot_classify
Classify ==
    IF try = NoVersion THEN "none"
    ELSE IF try = RunningVersion THEN (IF TrialPending THEN "trial" ELSE "installed")
    ELSE IF LastInvalid(try) THEN "rollback"
    ELSE "fail"

\* mutant: a restart with neither a confirm nor a rollback is not reported.
BootCheck_silent ==
    /\ pc = "booting"
    /\ IF Classify \in {"none", "fail"}
         THEN UNCHANGED result
         ELSE result' = [token |-> Classify, version |-> try]
    /\ pc' = IF Classify \in {"none", "trial"} THEN "up" ELSE "classified"
    /\ UNCHANGED <<regVars, slots, boot, running, try, reply, starts, unheard>>

\* fp_ota_boot_check: record, then erase the marker unless a trial needs it.
BootCheck ==
    /\ pc = "booting"
    /\ result' = IF Classify = "none" THEN result
                 ELSE [token |-> Classify, version |-> try]
    /\ pc' = IF Classify \in {"none", "trial"} THEN "up" ELSE "classified"
    /\ UNCHANGED <<regVars, slots, boot, running, try, reply, starts, unheard>>

BootErase ==
    /\ pc = "classified"
    /\ try' = NoVersion
    /\ pc' = "up"
    /\ UNCHANGED <<regVars, slots, boot, running, result, reply, starts, unheard>>
-----------------------------------------------------------------------------
(* The poll                                                                *)

\* byos records what the request carries and answers with or without an offer.
Request(low) ==
    /\ pc = "up" /\ RunningVersion \notin Broken
    /\ \E offer \in BOOLEAN :
         /\ Poll(Frame, RunningVersion, result, low, offer)
         /\ reply' = IF offer
                       THEN [version |-> schedule.version, id |-> schedule.id]
                       ELSE NoOffer
    /\ unheard' = IF result.token = "installed" THEN NoVersion ELSE unheard
    /\ pc' = "asked"
    /\ UNCHANGED <<slots, boot, running, try, result, starts>>

\* The frame holds a failure of what is scheduled for its next poll.
FailureHeld ==
    /\ schedule # NoSchedule
    /\ result.token \in Counted /\ result.version = schedule.version

\* Recording raised an OSError (a full disk, a busy lock): 200, no offer.
RequestUnrecorded ==
    /\ "unrecorded" \in Hazards
    /\ pc = "up" /\ RunningVersion \notin Broken
    /\ reply' = NoOffer
    /\ unheard' = IF result.token = "installed" THEN NoVersion ELSE unheard
    /\ starts' = IF FailureHeld /\ starts[schedule.id] > 0
                    THEN [starts EXCEPT ![schedule.id] = @ - 1]
                    ELSE starts
    /\ pc' = "asked"
    /\ UNCHANGED <<regVars, slots, boot, running, try, result>>

\* The answer does not arrive: a failed wake, the result is kept.
Lose ==
    /\ "lost" \in Hazards
    /\ pc = "asked"
    /\ reply' = NoOffer
    /\ pc' = "off"
    /\ UNCHANGED <<regVars, slots, boot, running, try, result, starts, unheard>>

\* fp_api_get_display on a 200 that parses.
Receive ==
    /\ pc = "asked"
    /\ result' = NoResult
    /\ pc' = "polled"
    /\ UNCHANGED <<regVars, slots, boot, running, try, reply, starts, unheard>>

\* Any exit that fails the wake, its deadline in a download included; nothing
\* is confirmed.
WakeFails ==
    /\ pc \in {"up", "healthy", "updating", "writing"}
    /\ pc' = "off" /\ reply' = NoOffer
    /\ UNCHANGED <<regVars, slots, boot, running, try, result, starts, unheard>>

\* A reset, anywhere.
Crash ==
    /\ "crash" \in Hazards
    /\ pc # "off"
    /\ pc' = "off" /\ reply' = NoOffer
    /\ UNCHANGED <<regVars, slots, boot, running, try, result, starts, unheard>>
-----------------------------------------------------------------------------
(* The update                                                              *)

\* fp_ota_decide, each refusal in its order.
Skip == reply = NoOffer \/ reply.version = RunningVersion \/ TrialPending

Decline ==
    /\ pc = "polled" /\ Skip
    /\ pc' = "healthy"
    /\ UNCHANGED <<regVars, slots, boot, running, try, result, reply, starts, unheard>>

Refuse ==
    /\ pc = "polled" /\ ~Skip
    /\ \/ result' = [token |-> "deferred-battery", version |-> reply.version]
       \/ reply.version < DeviceFloor
          /\ result' = [token |-> "fail", version |-> reply.version]
    /\ pc' = "healthy"
    /\ UNCHANGED <<regVars, slots, boot, running, try, reply, starts, unheard>>

\* fp_ota_mark_try; the UPDATING screen changes nothing here.
Start ==
    /\ pc = "polled" /\ ~Skip /\ reply.version >= DeviceFloor
    /\ try' = reply.version
    /\ starts' = [starts EXCEPT ![reply.id] = @ + 1]
    /\ pc' = "updating"
    /\ UNCHANGED <<regVars, slots, boot, running, result, reply, unheard>>

\* esp_https_ota_begin and perform: the next slot is erased and rewritten;
\* otadata may go on calling it what it was.
Write ==
    /\ pc = "updating"
    /\ \E v \in {NoVersion, reply.version},
          st \in {"undefined", slots[Target(running)].state} :
           slots' = [slots EXCEPT ![Target(running)] = [version |-> v, state |-> st]]
    /\ pc' = "writing"
    /\ UNCHANGED <<regVars, boot, running, try, result, reply, starts, unheard>>

\* fp_ota_apply fails, or the radio did not come back for it.
ApplyFails ==
    /\ pc \in {"updating", "writing"}
    /\ result' = [token |-> "fail", version |-> reply.version]
    /\ pc' = "attempted"
    /\ UNCHANGED <<regVars, slots, boot, running, try, reply, starts, unheard>>

\* The marker is erased once the result is kept; the poll goes on, or the wake
\* fails for want of the radio.
ApplyErase ==
    /\ pc = "attempted"
    /\ try' = NoVersion
    /\ pc' \in {"healthy", "off"}
    /\ UNCHANGED <<regVars, slots, boot, running, result, reply, starts, unheard>>

\* esp_https_ota_finish: the boot slot is switched; then the restart.
Switch ==
    /\ pc = "writing"
    /\ slots' = [slots EXCEPT ![Target(running)] =
                    [version |-> reply.version, state |-> "new"]]
    /\ boot' = Target(running)
    /\ pc' = "off" /\ reply' = NoOffer
    /\ UNCHANGED <<regVars, running, try, result, starts, unheard>>
-----------------------------------------------------------------------------
(* The end of a wake whose poll succeeded: fp_ota_confirm_if_pending.       *)

\* mutant: an image that booted is as good as one that polled.
Confirm_booted ==
    /\ pc \in {"up", "healthy"} /\ TrialPending
    /\ slots' = [slots EXCEPT ![running].state = "valid"]
    /\ unheard' = RunningVersion
    /\ pc' = "confirmed"
    /\ UNCHANGED <<regVars, boot, running, try, result, reply, starts>>

Confirm ==
    /\ pc = "healthy" /\ TrialPending
    /\ slots' = [slots EXCEPT ![running].state = "valid"]
    /\ unheard' = RunningVersion
    /\ pc' = "confirmed"
    /\ UNCHANGED <<regVars, boot, running, try, result, reply, starts>>

\* mutant: the marker goes before the result is kept.
ConfirmRecord_erased ==
    /\ pc = "confirmed"
    /\ try' = NoVersion
    /\ pc' = "recorded"
    /\ UNCHANGED <<regVars, slots, boot, running, result, reply, starts, unheard>>

ConfirmRecord ==
    /\ pc = "confirmed"
    /\ result' = [token |-> "installed", version |-> RunningVersion]
    /\ pc' = "recorded"
    /\ UNCHANGED <<regVars, slots, boot, running, try, reply, starts, unheard>>

ConfirmErase ==
    /\ pc = "recorded"
    /\ try' = NoVersion
    /\ pc' = "off" /\ reply' = NoOffer
    /\ UNCHANGED <<regVars, slots, boot, running, result, starts, unheard>>

Sleep ==
    /\ pc = "healthy" /\ ~TrialPending
    /\ pc' = "off" /\ reply' = NoOffer
    /\ UNCHANGED <<regVars, slots, boot, running, try, result, starts, unheard>>
-----------------------------------------------------------------------------
Wake == Boot \/ BootCheck \/ BootErase
Polling == (\E low \in BOOLEAN : Request(low)) \/ RequestUnrecorded \/ Receive \/ Lose \/ WakeFails
Updating == Decline \/ Refuse \/ Start \/ Write \/ ApplyFails \/ ApplyErase \/ Switch
Finish == Confirm \/ ConfirmRecord \/ ConfirmErase \/ Sleep

Server == (Operator \/ Reconcile) /\ UNCHANGED <<deviceVars, starts, unheard>>

Next == Wake \/ Polling \/ Updating \/ Finish \/ Crash \/ Server

Spec == Init /\ [][Next]_vars

(* The frame wakes at every end of its sleep and goes on; the poll loop     *)
(* reconciles; what is tried at every wake, an answer that arrives and a    *)
(* poll while the battery is not low, succeeds in the end.                  *)
LiveSpec ==
    /\ Spec
    /\ WF_vars(Wake \/ Polling \/ Updating \/ Finish)
    /\ WF_vars(Reconcile /\ UNCHANGED <<deviceVars, starts, unheard>>)
    /\ SF_vars(Request(FALSE)) /\ SF_vars(Receive)
-----------------------------------------------------------------------------
TypeOK ==
    /\ RegTypeOK
    /\ pc \in {"off", "booting", "classified", "up", "asked", "polled", "updating",
               "writing", "attempted", "healthy", "confirmed", "recorded"}
    /\ slots \in [Slots -> [version : Reported,
                            state : {"undefined", "new", "pending", "valid", "aborted"}]]
    /\ boot \in Slots /\ running \in Slots
    /\ try \in Reported /\ unheard \in Reported
    /\ result \in [token : Tokens, version : Versions] \cup {NoResult}
    /\ reply \in [version : Reported, id : Nat]
    /\ starts \in [1..MaxSchedules -> Nat]

(* The frame always has an image to boot that has polled once: the slot     *)
(* otadata selects is bootable, and what runs after it, if it is on trial,  *)
(* is an image that was confirmed and not written over since (ota.c,        *)
(* ota_policy.c).                                                           *)
NeverBricked ==
    /\ slots[boot].state \in {"valid", "new", "pending"}
    /\ LET sure == IF slots[boot].state = "valid" THEN boot ELSE Fallback(boot)
       IN  slots[sure].version \in Versions \ Broken

(* A version confirmed by the frame but not yet reported is remembered, in  *)
(* ota_result or in ota_try, until a poll that carries it reached the       *)
(* server: nvs_schema.h promises that a result is never silently dropped.   *)
(* (A server that could not record it answers all the same, and that drops  *)
(* it: "unrecorded" ends what the frame has to answer for.)                 *)
InstallIsReported ==
    unheard # NoVersion =>
        \/ result = [token |-> "installed", version |-> unheard]
        \/ try = unheard /\ RunningVersion = unheard /\ ~TrialPending

(* A bad image is not tried at every wake for ever: under one schedule the  *)
(* frame starts at most MAX_ATTEMPTS updates, through lost answers, repeated *)
(* reports, resets at any write and polls that outrun the poll loop; only a *)
(* failure the server forgets before the poll loop reads it (trimmed from   *)
(* the report, or never recorded: "unrecorded" takes its start off the      *)
(* count) gives one more.                                                   *)
StartsBounded ==
    schedule # NoSchedule => starts[schedule.id] <= MaxAttempts + lost

(* While the frame is at work on an update, from the moment it marks it     *)
(* until the server has heard what became of it, that update is the one     *)
(* scheduled: the operator can neither cancel nor replace it.               *)
TryIsScheduled ==
    try # NoVersion => schedule.state = "scheduled" /\ schedule.version = try

Exhausted == HighestSeq + 2 > MaxSeq \/ tally >= MaxSeq

(* A schedule the operator cannot withdraw is on its way: the frame         *)
(* installs it, gives it back, or uses up its attempts.                     *)
BusyEnds ==
    (schedule.state = "scheduled" /\ Acknowledged)
        ~> (~(schedule.state = "scheduled" /\ Acknowledged) \/ Exhausted)
=============================================================================
