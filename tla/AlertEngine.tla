---------------------------- MODULE AlertEngine ----------------------------
(***************************************************************************)
(* The alert engine of components/services/src/alert_engine.c: the table   *)
(* that spaces the proximity alerts of each aircraft, the notification the *)
(* UI shows, and silent mode.                                              *)
(*                                                                         *)
(* One task raises alerts; the UI sets silent mode meanwhile.  The call of *)
(* hal_buzzer_play_tone, which may take 20 ms, is a step between the       *)
(* decision to alert and the notification; the engine ignores its result,  *)
(* so module Buzzer is not needed here.  Distances are near or far, times  *)
(* count repeat intervals' units, and texts, durations and                 *)
(* proximity_track_t.within_threshold, which nothing reads, are left out.  *)
(***************************************************************************)
EXTENDS Integers, Sequences, SequencesExt

CONSTANTS
    Aircraft,    \* the aircraft alerts are raised for
    Slots,       \* MAX_PROXIMITY_TRACKED
    Intervals,   \* the values of config.proximity_repeat_interval_s
    MaxTime      \* bound: the clock stops here

ASSUME AlertConstants ==
    Slots \in Nat \ {0} /\ Intervals \subseteq Nat \ {0} /\ MaxTime \in Nat \ {0}

Time == 1..MaxTime                      \* a caller's clock is past 0 after boot

VARIABLES
    up,        \* s_engine.initialized
    sound,     \* s_engine.config.sound_enabled
    every,     \* s_engine.config.proximity_repeat_interval_s
    note,      \* s_engine.current_notification: its type, "none" if inactive
    tracks,    \* s_engine.proximity_tracks
    at,        \* where the task is: "idle", "play" (in the buzzer) or "show"
    call,      \* the arguments of the task's last call, the interval it read
    shown,     \* history: the time of the last proximity notice, 0 if none
    fix,       \* geo_has_valid_fix()
    now        \* the time callers pass

vars == <<up, sound, every, note, tracks, at, call, shown, fix, now>>

NoCall == [kind |-> "none", a |-> "none", near |-> FALSE, fixed |-> FALSE, time |-> 0,
           every |-> 0]

CallRecord == [kind : {"none", "new", "prox"}, a : Aircraft \cup {"none"},
               near : BOOLEAN, fixed : BOOLEAN, time : Time \cup {0},
               every : Intervals \cup {0}]

Tracked(a) == \E i \in 1..Len(tracks) : tracks[i].a = a

Forget == call' = NoCall /\ shown' = [a \in Aircraft |-> 0]

Init ==
    /\ up = FALSE /\ sound = TRUE /\ every \in Intervals /\ note = "none"
    /\ tracks = <<>>
    /\ at = "idle"
    /\ call = NoCall
    /\ shown = [a \in Aircraft |-> 0]
    /\ fix = FALSE
    /\ now = 1

----------------------------------------------------------------------------
EngineInit(s, interval) ==
    /\ at = "idle"
    /\ up' = TRUE /\ sound' = s /\ every' = interval /\ note' = "none"
    /\ tracks' = <<>>
    /\ Forget
    /\ UNCHANGED <<at, fix, now>>

EngineDeinit ==
    /\ at = "idle"
    /\ up' = FALSE /\ note' = "none"
    /\ tracks' = <<>>
    /\ Forget
    /\ UNCHANGED <<sound, every, at, fix, now>>

(* play_new_detection_buzzer and play_proximity_buzzer.                    *)
Alert == IF sound THEN "play" ELSE "show"

NewDetection(a) ==
    /\ at = "idle" /\ up
    /\ call' = [NoCall EXCEPT !.kind = "new", !.a = a]
    /\ at' = Alert
    /\ UNCHANGED <<up, sound, every, note, tracks, shown, fix, now>>

(* find_or_create_track: the table as the search leaves it.                *)
WithTrack(a) ==
    IF Tracked(a) \/ Len(tracks) >= Slots THEN tracks
    ELSE Append(tracks, [a |-> a, last |-> 0])

Due(track) == track.last = 0 \/ now - track.last >= every

(* alert_engine_check_proximity: `near` is distance_m < the threshold.     *)
CheckProximity(a, near) ==
    /\ at = "idle" /\ up
    /\ call' = [kind |-> "prox", a |-> a, near |-> near, fixed |-> fix, time |-> now,
                every |-> every]
    /\ LET found == IF fix THEN WithTrack(a) ELSE tracks
           alert == {i \in 1..Len(found) : fix /\ near /\ found[i].a = a /\ Due(found[i])}
       IN  /\ tracks' = [i \in 1..Len(found) |->
                            IF i \in alert THEN [found[i] EXCEPT !.last = now]
                            ELSE found[i]]
           /\ at' = IF alert = {} THEN "idle" ELSE Alert
    /\ UNCHANGED <<up, sound, every, note, shown, fix, now>>

\* Seeded fault: an error of the buzzer ends the alert.
PlayReturns_GivesUp ==
    /\ at = "play"
    /\ at' \in {"show", "idle"}
    /\ UNCHANGED <<up, sound, every, note, tracks, call, shown, fix, now>>

(* hal_buzzer_play_tone comes back, with a tone or without.                *)
PlayReturns ==
    /\ at = "play"
    /\ at' = "show"
    /\ UNCHANGED <<up, sound, every, note, tracks, call, shown, fix, now>>

(* set_notification with the time the call was given.                      *)
Show ==
    /\ at = "show"
    /\ note' = call.kind
    /\ shown' = IF call.kind = "prox" THEN [shown EXCEPT ![call.a] = call.time] ELSE shown
    /\ at' = "idle"
    /\ UNCHANGED <<up, sound, every, tracks, call, fix, now>>

\* Seeded fault: the last entry is dropped in place of the one found.
ClearProximity_DropsLast(a) ==
    /\ at = "idle"
    /\ Tracked(a) /\ tracks' = Front(tracks)
    /\ call' = NoCall
    /\ shown' = [shown EXCEPT ![a] = 0]
    /\ UNCHANGED <<up, sound, every, note, at, fix, now>>

(* alert_engine_clear_proximity: the entries behind a's move up.           *)
ClearProximity(a) ==
    /\ at = "idle"
    /\ \E i \in 1..Len(tracks) : tracks[i].a = a /\ tracks' = RemoveAt(tracks, i)
    /\ call' = NoCall
    /\ shown' = [shown EXCEPT ![a] = 0]
    /\ UNCHANGED <<up, sound, every, note, at, fix, now>>

(* alert_engine_set_silent, at any time by the UI.  It also stops the tone: *)
(* module Buzzer's StopCall.                                               *)
SetSilent(s) ==
    /\ sound' = ~s
    /\ UNCHANGED <<up, every, note, tracks, at, call, shown, fix, now>>

(* alert_engine_update_config, at any time.  The threshold it also sets is *)
(* what `near` is judged by, afresh in every check.                        *)
UpdateConfig(s, interval) ==
    /\ sound' = s /\ every' = interval
    /\ UNCHANGED <<up, note, tracks, at, call, shown, fix, now>>

(* The receiver finds and loses its position; time passes.                 *)
FixChanges ==
    /\ fix' = ~fix
    /\ UNCHANGED <<up, sound, every, note, tracks, at, call, shown, now>>

Tick ==
    /\ now < MaxTime
    /\ now' = now + 1
    /\ UNCHANGED <<up, sound, every, note, tracks, at, call, shown, fix>>

Next ==
    \/ \E s \in BOOLEAN, interval \in Intervals :
          EngineInit(s, interval) \/ UpdateConfig(s, interval)
    \/ \E s \in BOOLEAN : SetSilent(s)
    \/ EngineDeinit \/ PlayReturns \/ Show \/ FixChanges \/ Tick
    \/ \E a \in Aircraft : NewDetection(a) \/ ClearProximity(a)
    \/ \E a \in Aircraft, near \in BOOLEAN : CheckProximity(a, near)

Spec == Init /\ [][Next]_vars

----------------------------------------------------------------------------
(* The table never outgrows MAX_PROXIMITY_TRACKED and names no aircraft    *)
(* twice; times are times callers passed (find_or_create_track).           *)
TypeOK ==
    /\ up \in BOOLEAN /\ sound \in BOOLEAN /\ fix \in BOOLEAN
    /\ note \in {"none", "new", "prox"}
    /\ tracks \in Seq([a : Aircraft, last : 0..MaxTime]) /\ Len(tracks) <= Slots
    /\ \A i, j \in 1..Len(tracks) : tracks[i].a = tracks[j].a => i = j
    /\ at \in {"idle", "play", "show"}
    /\ every \in Intervals
    /\ call \in CallRecord
    /\ shown \in [Aircraft -> 0..MaxTime]
    /\ now \in Time

(* Two proximity notices for one aircraft are apart by the repeat interval *)
(* that was set when the second was decided, through clears of others that *)
(* move its entry and changes of the configuration (check_proximity).      *)
AlertPace ==
    [][\A a \in Aircraft :
        shown'[a] # shown[a] /\ shown'[a] # 0 /\ shown[a] # 0
            => shown'[a] - shown[a] >= call.every]_vars

(* When a check of a near aircraft with a fix returns, the operator has    *)
(* been shown a proximity notice for it within the last interval, whatever *)
(* the buzzer answered, unless the table is full of others.                *)
WarnedWhenNear ==
    at = "idle" /\ call.kind = "prox" /\ call.near /\ call.fixed =>
        \/ shown[call.a] # 0 /\ call.time - shown[call.a] < call.every
        \/ ~Tracked(call.a) /\ Len(tracks) = Slots

=============================================================================
