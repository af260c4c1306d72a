------------------------------- MODULE Buzzer -------------------------------
(***************************************************************************)
(* The buzzer driver of components/hw_hal/src/hal_buzzer.c: a tone that a  *)
(* task starts, a timer callback ends and another task may cut short.      *)
(*                                                                         *)
(* Three threads enter the driver, and nothing in it takes a lock: the     *)
(* task that raises alerts (play_tone), the UI (stop, by way of            *)
(* alert_engine_set_silent), and the esp_timer task whose callback is      *)
(* buzzer_stop_timer_cb.  Every access to the driver's state is a step of  *)
(* its own.  The 20 ms a stop waits for are not measured: any thread may   *)
(* take any number of steps meanwhile.  Frequencies, durations and the     *)
(* error count are left out, and so is hal_buzzer_deinit, which nothing    *)
(* calls.                                                                  *)
(***************************************************************************)
EXTENDS Integers

CONSTANT MaxPlayers   \* bound: playback tasks alive together

ASSUME BuzzerConstants == MaxPlayers \in Nat \ {0}

Thread == {"task", "ui", "timer"}

StopPlace == {"idle", "stop", "clear", "untimer", "disable"}
Place     == StopPlace \cup {"play", "enable", "raise", "create", "lower", "arm"}

VARIABLES
    ready,     \* buzzer_ctx.initialized
    playing,   \* buzzer_ctx.playing
    on,        \* the I2S channel is enabled
    armed,     \* buzzer_ctx.stop_timer is running
    players,   \* buzzer_playback_task: how many have not left
    pc         \* where each thread is in the driver

buzzerVars == <<ready, playing, on, armed, players, pc>>

(* hal_buzzer_init at boot, which main.c survives when it fails.           *)
BuzzerInit ==
    /\ ready \in BOOLEAN
    /\ playing = FALSE /\ on = FALSE /\ armed = FALSE
    /\ players = 0
    /\ pc = [t \in Thread |-> "idle"]

At(t, place)    == pc[t] = place
GoTo(t, place)  == pc' = [pc EXCEPT ![t] = place]

----------------------------------------------------------------------------
(* hal_buzzer_stop.  Called by play_tone, it returns there.                *)

AfterStop(t) == IF t = "task" THEN "enable" ELSE "idle"

StopCheck(t) ==
    /\ At(t, "stop")
    /\ GoTo(t, IF ready /\ playing THEN "clear" ELSE AfterStop(t))
    /\ UNCHANGED <<ready, playing, on, armed, players>>

StopClear(t) ==
    /\ At(t, "clear")
    /\ playing' = FALSE
    /\ GoTo(t, "untimer")
    /\ UNCHANGED <<ready, on, armed, players>>

StopTimer(t) ==
    /\ At(t, "untimer")
    /\ armed' = FALSE
    /\ GoTo(t, "disable")
    /\ UNCHANGED <<ready, playing, on, players>>

StopDisable(t) ==
    /\ At(t, "disable")
    /\ on' = FALSE
    /\ GoTo(t, AfterStop(t))
    /\ UNCHANGED <<ready, playing, armed, players>>

StopCall ==
    /\ At("ui", "idle")
    /\ GoTo("ui", "stop")
    /\ UNCHANGED <<ready, playing, on, armed, players>>

Stop(t) == StopCheck(t) \/ StopClear(t) \/ StopTimer(t) \/ StopDisable(t)

(* A one-shot timer is off the list before its callback runs.              *)
TimerFires ==
    /\ armed /\ At("timer", "idle")
    /\ armed' = FALSE
    /\ GoTo("timer", "stop")
    /\ UNCHANGED <<ready, playing, on, players>>

----------------------------------------------------------------------------
(* hal_buzzer_play_tone, called by the alert engine.                       *)

PlayCall ==
    /\ At("task", "idle")
    /\ GoTo("task", "play")
    /\ UNCHANGED <<ready, playing, on, armed, players>>

PlayCheck ==
    /\ At("task", "play")
    /\ GoTo("task", IF ~ready THEN "idle"
                    ELSE IF playing THEN "stop" ELSE "enable")
    /\ UNCHANGED <<ready, playing, on, armed, players>>

(* i2s_channel_enable refuses a channel that is already enabled.           *)
PlayEnable ==
    /\ At("task", "enable")
    /\ on' = TRUE
    /\ GoTo("task", IF on THEN "idle" ELSE "raise")
    /\ UNCHANGED <<ready, playing, armed, players>>

PlayRaise ==
    /\ At("task", "raise")
    /\ playing' = TRUE
    /\ GoTo("task", "create")
    /\ UNCHANGED <<ready, on, armed, players>>

PlayCreate ==
    /\ At("task", "create")
    /\ players < MaxPlayers
    /\ players' = players + 1
    /\ GoTo("task", "arm")
    /\ UNCHANGED <<ready, playing, on, armed>>

\* Seeded fault: the failing start forgets to disable the channel.
PlayCreateFails_LeavesOn ==
    /\ At("task", "create")
    /\ GoTo("task", "lower")
    /\ UNCHANGED <<ready, playing, on, armed, players>>

(* xTaskCreate finds no memory.                                            *)
PlayCreateFails ==
    /\ At("task", "create")
    /\ on' = FALSE
    /\ GoTo("task", "lower")
    /\ UNCHANGED <<ready, playing, armed, players>>

PlayLower ==
    /\ At("task", "lower")
    /\ playing' = FALSE
    /\ GoTo("task", "idle")
    /\ UNCHANGED <<ready, on, armed, players>>

\* Seeded fault: the timer is left to the next tone, which finds it running.
PlayArm_Forgets ==
    /\ At("task", "arm")
    /\ GoTo("task", "idle")
    /\ UNCHANGED <<ready, playing, on, armed, players>>

(* esp_timer_start_once refuses a running timer: it keeps its old time.    *)
PlayArm ==
    /\ At("task", "arm")
    /\ armed' = TRUE
    /\ GoTo("task", "idle")
    /\ UNCHANGED <<ready, playing, on, players>>

Play == PlayCheck \/ PlayEnable \/ PlayRaise \/ PlayCreate \/ PlayCreateFails
            \/ PlayLower \/ PlayArm

(* buzzer_playback_task finds playing false and deletes itself.            *)
PlayerLeaves ==
    /\ players > 0 /\ ~playing
    /\ players' = players - 1
    /\ UNCHANGED <<ready, playing, on, armed, pc>>

----------------------------------------------------------------------------
BuzzerNext ==
    \/ PlayCall \/ Play \/ StopCall \/ \E t \in Thread : Stop(t)
    \/ TimerFires \/ PlayerLeaves

(* A thread inside the driver is scheduled until it leaves, and a running  *)
(* timer expires.  Nobody has to start a tone, or to stop starting them.   *)
Fairness ==
    /\ \A t \in Thread : WF_buzzerVars(Stop(t))
    /\ WF_buzzerVars(Play)
    /\ WF_buzzerVars(TimerFires)

BuzzerSpec == BuzzerInit /\ [][BuzzerNext]_buzzerVars /\ Fairness

----------------------------------------------------------------------------
(* Flags and places keep to their ranges; only the task starts tones       *)
(* (buzzer_ctx).                                                           *)
BuzzerTypeOK ==
    /\ ready \in BOOLEAN /\ playing \in BOOLEAN
    /\ on \in BOOLEAN /\ armed \in BOOLEAN
    /\ players \in 0..MaxPlayers
    /\ pc \in [Thread -> Place]
    /\ pc["ui"] \in StopPlace /\ pc["timer"] \in StopPlace

(* Whoever will turn the amplifier off: a timer that runs or whose         *)
(* callback has yet to look, a stop past its check, a start that has not   *)
(* armed the timer.                                                        *)
EndPending ==
    \/ armed
    \/ \E t \in Thread : pc[t] \in {"clear", "untimer", "disable"}
    \/ playing /\ At("timer", "stop")
    \/ pc["task"] \in {"raise", "create", "arm"}

(* The amplifier is never on with nobody left to turn it off, however the  *)
(* start of one tone, the expiry of the one before it and silent mode      *)
(* overlap in the unlocked driver (hal_buzzer_play_tone, hal_buzzer_stop). *)
EndIsOnItsWay == on => EndPending

(* Every tone ends: an amplifier that is on is turned off                  *)
(* (buzzer_stop_timer_cb).                                                 *)
ToneEnds == on ~> ~on

=============================================================================
