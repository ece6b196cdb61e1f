----------------------------- MODULE WakeCycle -----------------------------
(***************************************************************************)
(* One frame's wake cycle: app_main() and fp_poll_once() of the firmware,   *)
(* with the panel's refresh guard, the failure backoff, the hash-skip and   *)
(* the two on-device hold screens (NO CONNECTION and UPDATING).             *)
(*                                                                         *)
(* NVS (hash, fails, token) survives everything; RTC memory (guard,         *)
(* planned) survives deep sleep only; the rest is one wake's RAM.  Time is  *)
(* counted in seconds, and only as far as the refresh spacing: `since' is   *)
(* the real time since the last refresh of the panel, capped at Spacing.    *)
(***************************************************************************)
EXTENDS Integers

CONSTANTS
    Pictures,        \* digests of the pictures a server may serve
    FaultScreen,     \* FP_FAULT_SCREEN_HASH, and the screen it stands for
    UpdatingScreen,  \* FP_UPDATING_SCREEN_HASH, likewise
    Scrambled,       \* glass left by an interrupted refresh; also "no hash"
    Spacing,         \* CONFIG_FP_MIN_REFRESH_SPACING_S
    MaxGuardWait,    \* CONFIG_FP_MAX_GUARD_WAIT_S
    ServerSleeps,    \* values of sleep_s the server answers
    Latency,         \* how many seconds one awake stage may take
    BackoffBase,     \* BACKOFF_BASE_S
    BackoffMax,      \* BACKOFF_MAX_S
    CounterMax,      \* UINT8_MAX, the ceiling of the failure counter
    Hazards          \* which of HazardKinds this instance includes

\* "crash"     an abnormal reset (panic, watchdog, brownout) while awake
\* "power"     power removed and restored, awake or asleep
\* "button"    a wake that is not the timer's, before the sleep is over
\* "nvs"       NVS unusable at boot, or not writable at a sleep decision
\* "blitEarly" a blit that fails before the panel starts to refresh
\* "blitLate"  a blit that fails after it (busy timeout of DRF or POF)
HazardKinds == {"crash", "power", "button", "nvs", "blitEarly", "blitLate"}

ASSUME ScreensAssumption ==
    /\ FaultScreen \notin Pictures
    /\ UpdatingScreen \notin Pictures \cup {FaultScreen}
    /\ Scrambled \notin Pictures \cup {FaultScreen, UpdatingScreen}

ASSUME TimesAssumption ==
    /\ Spacing \in Nat \ {0}
    /\ MaxGuardWait \in Nat
    /\ ServerSleeps \subseteq Nat \ {0}    \* fp_sleep_s_parse refuses 0
    /\ Latency \subseteq Nat
    /\ BackoffBase \in Nat \ {0}
    /\ BackoffMax \in Nat
    /\ BackoffBase <= BackoffMax

\* wake_guard.c asserts Spacing <= 90 at build time; the backoff starts at 300.
ASSUME SpacingAssumption == Spacing <= BackoffBase

ASSUME CountersAssumption == CounterMax \in Nat \ {0, 1}

ASSUME HazardsAssumption == Hazards \subseteq HazardKinds

VARIABLES
    pc,       \* where the wake stands, "asleep" between two wakes
    reset,    \* what started this wake
    step,     \* the failing step's token, "none" while nothing failed
    disp,     \* the parsed /display answer
    outcome,  \* "unchanged", "refreshed" or "deferred" once the poll is done
    plan,     \* the sleep decision of this wake
    hash,     \* NVS image_hash
    fails,    \* NVS backoff_n
    token,    \* NVS dev_token present
    guard,    \* RTC s_guard_remaining_s
    planned,  \* RTC s_planned_sleep_s
    glass,    \* what the panel shows
    served,   \* what the server has to show
    since,    \* history: seconds since the last refresh, at most Spacing
    gap,      \* history: what `since' was when the last refresh began
    torn      \* history: a refresh changed the glass and NVS missed it

device == <<pc, reset, step, disp, outcome, plan, hash, fails, token, guard, planned>>
vars == <<device, glass, served, since, gap, torn>>

Hashes == Pictures \cup {FaultScreen, UpdatingScreen, Scrambled}
CommSteps == {"wifi", "http", "status", "json", "auth", "enrol", "secret",
              "config", "download", "verify"}
Steps == CommSteps \cup {"none", "reset", "deadline", "blit", "ota", "nvs"}
PCs == {"asleep", "boot", "online", "enrolled", "answered", "updatingDrawn",
        "updating", "decided", "fetched", "drawn", "healthy", "failing",
        "faultDrawn", "ready"}
NoAnswer == [hash |-> Scrambled, sleep |-> 0, offer |-> FALSE]
NoPlan == [sleep |-> 0, next |-> 0, failed |-> FALSE]
-----------------------------------------------------------------------------
(* Arithmetic                                                              *)

Least(a, b) == IF a <= b THEN a ELSE b

\* fp_backoff_seconds: BACKOFF_BASE_S << n, saturated.
Doublings == <<1, 2, 4, 8, 16, 32, 64>>
Backoff(n) ==
    IF n >= 7 THEN BackoffMax ELSE Least(BackoffBase * Doublings[n + 1], BackoffMax)

\* mutant: no saturation, the unsigned subtraction wraps.
Credit_wraps(g, elapsed) == (g - elapsed) % 2^16

\* fp_panel_guard_after_awake and the timer branch of fp_panel_guard_after_sleep.
Credit(g, elapsed) == IF elapsed >= g THEN 0 ELSE g - elapsed

\* Real time passing, as the history variable `since' counts it.
Age(s, elapsed) == Least(s + elapsed, Spacing)

\* fp_sleep_decide
FailurePlan(n) ==
    [sleep |-> Backoff(n),
     next |-> IF n < CounterMax THEN n + 1 ELSE CounterMax,
     failed |-> TRUE]

HealthyPlan(serverSleep, deferred, wait) ==
    [sleep |-> IF deferred /\ wait # 0 /\ wait < serverSleep
                 THEN wait + 5
                 ELSE serverSleep,
     next |-> 0,
     failed |-> FALSE]

\* mutant: the screen already shown is not asked about.
ShouldDrawFault_again(s, next, shown) == next >= 2 /\ s \in CommSteps

\* fp_fault_screen_should_draw
ShouldDrawFault(s, next, shown) == ~shown /\ next >= 2 /\ s \in CommSteps
-----------------------------------------------------------------------------
Init ==
    /\ pc = "boot" /\ reset = "power-on" /\ step = "none"
    /\ disp = NoAnswer /\ outcome = "none" /\ plan = NoPlan
    /\ hash = Scrambled /\ fails = 0 /\ token = FALSE
    /\ guard = 0 /\ planned = 0
    /\ glass = Scrambled
    /\ served \in Pictures
    /\ since = Spacing /\ gap = Spacing
    /\ torn = FALSE

(* Time spent awake: account_awake_time() credits whole seconds, so an      *)
(* accounting may lose the fraction it truncates.                           *)
Elapse ==
    \E d \in Latency :
        /\ since' = Age(since, d)
        /\ \E e \in {d - 1, d} \cap Nat : guard' = Credit(guard, e)

NoElapse == UNCHANGED <<since, guard>>

(* The failure exit's decision: fail_and_sleep() up to the fault screen.    *)
(* When NVS cannot be opened the plan is that of counter 0 and nothing is   *)
(* persisted.                                                               *)
Fail(s) ==
    /\ pc' = "failing"
    /\ step' = s
    /\ \/ plan' = FailurePlan(fails) /\ fails' = plan'.next
       \/ "nvs" \in Hazards /\ plan' = FailurePlan(0) /\ UNCHANGED fails
-----------------------------------------------------------------------------
(* Waking up                                                               *)

Fresh(cause) ==
    /\ pc' = "boot" /\ reset' = cause /\ step' = "none"
    /\ disp' = NoAnswer /\ outcome' = "none"

\* fp_panel_on_boot after the planned deep sleep.
TimerWake ==
    /\ pc = "asleep"
    /\ Fresh("timer")
    /\ guard' = Credit(guard, planned)
    /\ planned' = 0
    /\ since' = Age(since, planned)
    /\ UNCHANGED <<plan, hash, fails, token, glass, served, gap, torn>>

\* A wake by another source claims none of the planned interval.
EarlyWake ==
    /\ "button" \in Hazards
    /\ pc = "asleep"
    /\ Fresh("button")
    /\ planned' = 0
    /\ \E d \in Latency : d < planned /\ since' = Age(since, d)
    /\ UNCHANGED <<plan, hash, fails, token, guard, glass, served, gap, torn>>

\* An abnormal reset reinitialises RTC memory.  It may cut a refresh short.
Crash ==
    /\ "crash" \in Hazards
    /\ pc # "asleep"
    /\ Fresh("abnormal")
    /\ guard' = 0 /\ planned' = 0
    /\ \/ UNCHANGED <<glass, since, gap>>
          /\ torn' = (torn \/ pc \in {"drawn", "faultDrawn", "updatingDrawn"})
       \/ /\ "blitLate" \in Hazards
          /\ pc \in {"answered", "fetched", "failing"}
          /\ glass' = Scrambled /\ torn' = TRUE
          /\ since' = 0 /\ gap' = Age(since, guard)
    /\ UNCHANGED <<plan, hash, fails, token, served>>

\* Power removed and restored: the spacing is only promised within one
\* power session, so its history starts afresh.
PowerCycle ==
    /\ "power" \in Hazards
    /\ Fresh("power-on")
    /\ guard' = 0 /\ planned' = 0 /\ since' = Spacing
    /\ torn' = (torn \/ pc \in {"drawn", "faultDrawn", "updatingDrawn"})
    /\ UNCHANGED <<plan, hash, fails, token, glass, served, gap>>

\* mutant: the sleep of the answer that never came.
NvsUnusable_answered ==
    /\ "nvs" \in Hazards
    /\ pc = "boot"
    /\ pc' = "ready" /\ step' = "nvs"
    /\ plan' = [sleep |-> disp.sleep, next |-> 0, failed |-> TRUE]
    /\ NoElapse
    /\ UNCHANGED <<reset, disp, outcome, hash, fails, token, planned, glass,
                   served, gap, torn>>

\* nvs_fail_and_sleep: a fixed sleep, no counter, no fault screen.
NvsUnusable ==
    /\ "nvs" \in Hazards
    /\ pc = "boot"
    /\ pc' = "ready" /\ step' = "nvs"
    /\ plan' = [sleep |-> Backoff(0), next |-> 0, failed |-> TRUE]
    /\ NoElapse
    /\ UNCHANGED <<reset, disp, outcome, hash, fails, token, planned, glass,
                   served, gap, torn>>

\* The previous wake never reached its sleep: no radio before the backoff.
AbnormalReset ==
    /\ pc = "boot" /\ reset = "abnormal"
    /\ Fail("reset")
    /\ NoElapse
    /\ UNCHANGED <<reset, disp, outcome, hash, token, planned, glass, served, gap, torn>>
-----------------------------------------------------------------------------
(* The poll                                                                *)

Radio == pc = "boot" /\ reset # "abnormal"

Connect ==
    /\ Radio
    /\ pc' = "online"
    /\ Elapse
    /\ UNCHANGED <<reset, step, disp, outcome, plan, hash, fails, token, planned,
                   glass, served, gap, torn>>

Enrol ==
    /\ pc = "online"
    /\ pc' = "enrolled"
    /\ token' = TRUE
    /\ IF token THEN NoElapse ELSE Elapse
    /\ UNCHANGED <<reset, step, disp, outcome, plan, hash, fails, planned, glass,
                   served, gap, torn>>

\* A 200 answer that parses.  An offer is only acted on when no trial is
\* pending, that is not right after the restart into a new image.
Answer ==
    /\ pc = "enrolled"
    /\ \E s \in ServerSleeps, o \in BOOLEAN :
           disp' = [hash |-> served, sleep |-> s, offer |-> o /\ reset # "restart"]
    /\ pc' = "answered"
    /\ Elapse
    /\ UNCHANGED <<reset, step, outcome, plan, hash, fails, token, planned, glass,
                   served, gap, torn>>

\* The ways a poll fails before the picture, each with its step token.  A
\* refused token is erased, so that the next wake enrols again.
PollFails ==
    /\ \/ Radio /\ \E s \in {"wifi", "config"} : Fail(s) /\ UNCHANGED token
       \/ /\ pc = "online" /\ ~token /\ UNCHANGED token
          /\ \E s \in {"secret", "enrol", "http", "status", "json"} : Fail(s)
       \/ /\ pc = "enrolled"
          /\ \E s \in {"auth", "http", "status", "json"} :
                 Fail(s) /\ token' = (token /\ s # "auth")
    /\ Elapse
    /\ UNCHANGED <<reset, disp, outcome, hash, planned, glass, served, gap, torn>>

\* fp_wake_checkpoint with the whole-wake budget spent.
Deadline ==
    /\ pc \in {"boot", "online", "enrolled", "answered", "updating", "decided", "fetched"}
    /\ pc = "boot" => Radio
    /\ Fail("deadline")
    /\ NoElapse
    /\ UNCHANGED <<reset, disp, outcome, hash, token, planned, glass, served, gap, torn>>
-----------------------------------------------------------------------------
(* The panel                                                               *)

\* fp_panel_draw waits the guard out unless that is over the awake budget.
CanDraw == guard <= MaxGuardWait

\* The blit succeeds: the guard is armed.
Blit(screen) ==
    /\ glass' = screen
    /\ gap' = Age(since, guard)
    /\ since' = 0
    /\ guard' = Spacing

\* The blit returns an error: the guard has been waited out and is not armed,
\* and the glass is what the panel made of it.
BlitFails(screen) ==
    \/ /\ "blitEarly" \in Hazards
       /\ since' = Age(since, guard) /\ guard' = 0
       /\ UNCHANGED <<glass, gap, torn>>
    \/ /\ "blitLate" \in Hazards
       /\ glass' \in {screen, Scrambled} /\ torn' = TRUE
       /\ gap' = Age(since, guard) /\ since' = 0 /\ guard' = 0

\* draw_updating_screen of an update that starts.
DrawUpdating ==
    /\ pc = "answered" /\ disp.offer
    /\ \/ CanDraw /\ Blit(UpdatingScreen) /\ UNCHANGED torn
       \/ CanDraw /\ BlitFails(UpdatingScreen)
       \/ ~CanDraw /\ NoElapse /\ UNCHANGED <<glass, gap, torn>>
    /\ pc' = "updatingDrawn"
    /\ UNCHANGED <<reset, step, disp, outcome, plan, hash, fails, token, planned, served>>

\* mutant: the hash is left alone, as before the UPDATING screen existed.
StoreUpdating_keeps ==
    /\ pc = "updatingDrawn"
    /\ torn' = FALSE
    /\ pc' = "updating"
    /\ NoElapse
    /\ UNCHANGED <<reset, step, disp, outcome, plan, hash, fails, token, planned,
                   glass, served, gap>>

\* ... whose sentinel is written whatever became of the draw.
StoreUpdating ==
    /\ pc = "updatingDrawn"
    /\ hash' = UpdatingScreen
    /\ torn' = FALSE
    /\ pc' = "updating"
    /\ NoElapse
    /\ UNCHANGED <<reset, step, disp, outcome, plan, fails, token, planned, glass,
                   served, gap>>

\* mutant: restarts without waiting the guard out.
Restart_hasty ==
    /\ pc = "updating"
    /\ Fresh("restart")
    /\ guard' = 0 /\ planned' = 0
    /\ UNCHANGED <<plan, hash, fails, token, glass, served, since, gap, torn>>

\* A switched update waits the guard out and restarts: RTC memory is lost.
Restart ==
    /\ pc = "updating"
    /\ Fresh("restart")
    /\ since' = Age(since, guard)
    /\ guard' = 0 /\ planned' = 0
    /\ UNCHANGED <<plan, hash, fails, token, glass, served, gap, torn>>

\* A failed update continues the poll if the radio can be had back.
UpdateFails ==
    /\ pc = "updating"
    /\ \/ /\ pc' = "decided"
          /\ UNCHANGED <<step, plan, fails>>
       \/ Fail("ota")
    /\ Elapse
    /\ UNCHANGED <<reset, disp, outcome, hash, token, planned, glass, served, gap, torn>>

\* No offer, or one fp_ota_decide does not start.
NoUpdate ==
    /\ pc = "answered"
    /\ pc' = "decided"
    /\ NoElapse
    /\ UNCHANGED <<reset, step, disp, outcome, plan, hash, fails, token, planned,
                   glass, served, gap, torn>>

HashSkip ==
    /\ pc = "decided" /\ hash = disp.hash
    /\ pc' = "healthy" /\ outcome' = "unchanged"
    /\ NoElapse
    /\ UNCHANGED <<reset, step, disp, plan, hash, fails, token, planned, glass,
                   served, gap, torn>>

Download ==
    /\ pc = "decided" /\ hash # disp.hash
    /\ pc' = "fetched"
    /\ Elapse
    /\ UNCHANGED <<reset, step, disp, outcome, plan, hash, fails, token, planned,
                   glass, served, gap, torn>>

DownloadFails ==
    /\ pc = "decided" /\ hash # disp.hash
    /\ \E s \in {"download", "verify"} : Fail(s)
    /\ Elapse
    /\ UNCHANGED <<reset, disp, outcome, hash, token, planned, glass, served, gap, torn>>

DrawPicture ==
    /\ pc = "fetched" /\ CanDraw
    /\ Blit(disp.hash)
    /\ pc' = "drawn"
    /\ UNCHANGED <<reset, step, disp, outcome, plan, hash, fails, token, planned,
                   served, torn>>

DrawFails ==
    /\ pc = "fetched" /\ CanDraw
    /\ BlitFails(disp.hash)
    /\ Fail("blit")
    /\ UNCHANGED <<reset, disp, outcome, hash, token, planned, served>>

\* mutant: the hash of the picture not drawn is kept all the same.
Defer_keeps ==
    /\ pc = "fetched" /\ ~CanDraw
    /\ pc' = "healthy" /\ outcome' = "deferred"
    /\ hash' = disp.hash
    /\ NoElapse
    /\ UNCHANGED <<reset, step, disp, plan, fails, token, planned, glass,
                   served, gap, torn>>

Defer ==
    /\ pc = "fetched" /\ ~CanDraw
    /\ pc' = "healthy" /\ outcome' = "deferred"
    /\ NoElapse
    /\ UNCHANGED <<reset, step, disp, plan, hash, fails, token, planned, glass,
                   served, gap, torn>>

StoreHash ==
    /\ pc = "drawn"
    /\ hash' = disp.hash
    /\ torn' = FALSE
    /\ pc' = "healthy" /\ outcome' = "refreshed"
    /\ NoElapse
    /\ UNCHANGED <<reset, step, disp, plan, fails, token, planned, glass, served, gap>>
-----------------------------------------------------------------------------
(* Going to sleep                                                          *)

PlanSleep ==
    /\ pc = "healthy"
    /\ plan' = HealthyPlan(disp.sleep, outcome = "deferred", guard)
    /\ fails' = plan'.next \/ ("nvs" \in Hazards /\ UNCHANGED fails)
    /\ pc' = "ready"
    /\ NoElapse
    /\ UNCHANGED <<reset, step, disp, outcome, hash, token, planned, glass, served,
                   gap, torn>>

FaultWanted == ShouldDrawFault(step, plan.next, hash = FaultScreen)

\* maybe_draw_fault_screen, once per outage: its sentinel is what remembers.
DrawFault ==
    /\ pc = "failing" /\ FaultWanted /\ CanDraw
    /\ Blit(FaultScreen)
    /\ pc' = "faultDrawn"
    /\ UNCHANGED <<reset, step, disp, outcome, plan, hash, fails, token, planned,
                   served, torn>>

StoreFault ==
    /\ pc = "faultDrawn"
    /\ hash' = FaultScreen
    /\ torn' = FALSE
    /\ pc' = "ready"
    /\ NoElapse
    /\ UNCHANGED <<reset, step, disp, outcome, plan, fails, token, planned, glass,
                   served, gap>>

\* mutant: a guard over the awake budget is waited for at the next draw.
NoFault_waits ==
    /\ pc = "failing"
    /\ \/ ~FaultWanted /\ NoElapse /\ UNCHANGED <<glass, gap, torn>>
       \/ FaultWanted /\ CanDraw /\ BlitFails(FaultScreen)
    /\ pc' = "ready"
    /\ UNCHANGED <<reset, step, disp, outcome, plan, hash, fails, token, planned, served>>

\* Not wanted, over the awake budget, or failed: straight to sleep.
NoFault ==
    /\ pc = "failing"
    /\ \/ (~FaultWanted \/ ~CanDraw) /\ NoElapse /\ UNCHANGED <<glass, gap, torn>>
       \/ FaultWanted /\ CanDraw /\ BlitFails(FaultScreen)
    /\ pc' = "ready"
    /\ UNCHANGED <<reset, step, disp, outcome, plan, hash, fails, token, planned, served>>

Sleep ==
    /\ pc = "ready"
    /\ pc' = "asleep"
    /\ planned' = plan.sleep
    /\ NoElapse
    /\ UNCHANGED <<reset, step, disp, outcome, plan, hash, fails, token, glass,
                   served, gap, torn>>

\* The server has another picture to show.
Publish ==
    /\ \E p \in Pictures : p # served /\ served' = p
    /\ UNCHANGED <<device, glass, since, gap, torn>>
-----------------------------------------------------------------------------
Wake == TimerWake \/ EarlyWake \/ NvsUnusable \/ AbnormalReset
Poll == Connect \/ Enrol \/ Answer \/ PollFails \/ Deadline
Update == DrawUpdating \/ StoreUpdating \/ Restart \/ UpdateFails \/ NoUpdate
Picture == HashSkip \/ Download \/ DownloadFails \/ DrawPicture \/ DrawFails
             \/ Defer \/ StoreHash
Finish == PlanSleep \/ DrawFault \/ StoreFault \/ NoFault \/ Sleep

Device == Wake \/ Poll \/ Update \/ Picture \/ Finish
Next == Device \/ Crash \/ PowerCycle \/ Publish

Spec == Init /\ [][Next]_vars

(* The firmware runs: a wake that can take a step takes one, and the timer  *)
(* fires.  LiveSpec adds that a stage tried again and again succeeds in the *)
(* end, which is what the retry at every wake is for.                       *)
RunSpec == Spec /\ WF_vars(Device)
LiveSpec ==
    /\ RunSpec
    /\ SF_vars(Connect) /\ SF_vars(Enrol) /\ SF_vars(Answer)
    /\ SF_vars(NoUpdate) /\ SF_vars(UpdateFails /\ pc' = "decided")
    /\ SF_vars(Download) /\ SF_vars(DrawPicture)
-----------------------------------------------------------------------------
TypeOK ==
    /\ pc \in PCs
    /\ reset \in {"power-on", "timer", "button", "abnormal", "restart"}
    /\ step \in Steps
    /\ disp \in [hash : Hashes, sleep : Nat, offer : BOOLEAN]
    /\ outcome \in {"none", "unchanged", "refreshed", "deferred"}
    /\ plan \in [sleep : Nat, next : 0..CounterMax, failed : BOOLEAN]
    /\ hash \in Hashes /\ glass \in Hashes /\ served \in Pictures
    /\ fails \in 0..CounterMax
    /\ token \in BOOLEAN /\ torn \in BOOLEAN
    /\ guard \in 0..Spacing /\ planned \in Nat
    /\ since \in 0..Spacing /\ gap \in 0..Spacing

(* Two refreshes of the panel are never closer than the spacing, whatever   *)
(* the sleeps, early wakes, restarts into a new image and abnormal resets   *)
(* in between, and although each deep sleep, restart and reset disturbs the *)
(* counter that is kept of it (panel.c, panel_guard.c).                     *)
RefreshesSpaced == gap = Spacing

(* The hash kept in NVS is that of the picture on the glass, unless a       *)
(* refresh was interrupted before its hash was stored: this is what makes   *)
(* the hash-skip of fp_poll_once() right.                                   *)
HashIsOnGlass ==
    /\ ~torn /\ pc \notin {"drawn", "faultDrawn", "updatingDrawn"}
    /\ hash \in Pictures
    => glass = hash

(* NO CONNECTION is drawn once per outage, however many wakes fail          *)
(* (maybe_draw_fault_screen): it is never drawn over itself, except after   *)
(* an update whose UPDATING screen was not drawn and left its sentinel all  *)
(* the same.                                                                *)
FaultScreenNotRedrawn ==
    [][pc = "failing" /\ pc' = "faultDrawn" /\ ~torn /\ hash # UpdatingScreen
         => glass # FaultScreen]_vars

(* A failed wake is followed by a sleep of at least the base backoff, so    *)
(* that no failure, not even a lost NVS or a reset, can loop on the radio.  *)
FailureBacksOff ==
    pc = "asleep" /\ plan.failed => planned >= BackoffBase

(* Every wake ends in deep sleep.                                           *)
EveryWakeEnds == (pc # "asleep") ~> (pc = "asleep")

(* A picture the server keeps serving comes to be on the glass, again and   *)
(* again, however often the polls before it failed, once the server no      *)
(* longer offers an update (FirmwareRegistry bounds the offers).            *)
PictureArrives ==
    \A p \in Pictures : <>[](served = p /\ ~disp.offer) => []<>(glass = p)
=============================================================================
