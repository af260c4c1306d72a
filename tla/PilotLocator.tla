---------------------------- MODULE PilotLocator ----------------------------
(***************************************************************************)
(* components/services/src/pilot_locator.c, above the GPS driver and the   *)
(* geolocation service it asks for the place of the monitor: where the     *)
(* pilot of each aircraft is, from what is known of it.                    *)
(*                                                                         *)
(* The estimate from signal strength, a weighted centroid, is known only   *)
(* to lie between the places of its readings, which is all of a reading    *)
(* that is kept here.                                                      *)
(***************************************************************************)
EXTENDS Gps

CONSTANTS Aircraft,      \* the identifiers
          PilotPlaces,   \* where a pilot or a home point may be
          MaxTracked,    \* PILOT_LOCATOR_MAX_AIRCRAFT
          MaxReadings,   \* PILOT_LOCATOR_MAX_RSSI_READINGS
          MaxNoted       \* bound on the readings made for an aircraft

ASSUME LocatorAssumption ==
    PilotPlaces \subseteq Nat /\ MaxTracked \in Nat \ {0} /\ MaxReadings \in Nat \ {0} /\ MaxNoted \in Nat

VARIABLES
    tracking,   \* s_tracking: identifier -> entry
    noted       \* ghost: every reading made for an aircraft, oldest first

locVars == <<tracking, noted>>
vars == <<gpsVars, locVars>>

MinReadings == 3     \* PILOT_LOCATOR_MIN_RSSI_FOR_TRIANGULATION
Separation  == 1     \* PILOT_LOCATOR_MIN_SEPARATION_M, in steps

Unknown  == [source |-> "NONE", confidence |-> "UNKNOWN", places |-> {}, relative |-> FALSE]
NewEntry == [operator |-> Empty, home |-> Empty, readings |-> <<>>, position |-> Unknown]

Init ==
    /\ GpsInit
    /\ tracking = << >>
    /\ noted = [a \in Aircraft |-> <<>>]

-----------------------------------------------------------------------------
(* What is known of one pilot. *)

Apart(a, b) == a - b >= Separation \/ b - a >= Separation

(* count_separated_readings: those that are far enough from another one. *)
SeparatedReadings(readings) ==
    {i \in DOMAIN readings : \E j \in DOMAIN readings : Apart(readings[i], readings[j])}

Triangulated(readings) ==
    Len(readings) >= MinReadings /\ Cardinality(SeparatedReadings(readings)) >= MinReadings

Found(source, confidence, places, from) ==
    [source |-> source, confidence |-> confidence, places |-> places,
     relative |-> from]

\* Seeded fault: with no source left, the last position stays.
ResolveBestPosition_KeepsLast(e, from) ==
    [e EXCEPT !.position =
        IF e.operator # Empty THEN Found("OPERATOR", "CONFIRMED", {e.operator}, from)
        ELSE IF e.home # Empty THEN Found("HOME", "ESTIMATED", {e.home}, from)
        ELSE IF Triangulated(e.readings)
        THEN Found("RSSI", "ESTIMATED", Range(e.readings), from)
        ELSE @]

(* resolve_best_position: the operator, the home point, the signal. *)
ResolveBestPosition(e, from) ==
    [e EXCEPT !.position =
        IF e.operator # Empty THEN Found("OPERATOR", "CONFIRMED", {e.operator}, from)
        ELSE IF e.home # Empty THEN Found("HOME", "ESTIMATED", {e.home}, from)
        ELSE IF Triangulated(e.readings)
        THEN Found("RSSI", "ESTIMATED", Range(e.readings), from)
        ELSE Unknown]

\* Seeded fault: a full buffer overwrites its last reading.
AddReading_OverLast(e, place) ==
    [e EXCEPT !.readings =
        IF Len(@) < MaxReadings THEN Append(@, place) ELSE [@ EXCEPT ![MaxReadings] = place]]

(* pilot_locator_add_rssi_reading: a full buffer loses its oldest. *)
AddReading(e, place) ==
    [e EXCEPT !.readings =
        IF Len(@) < MaxReadings THEN Append(@, place) ELSE Append(Tail(@), place)]

-----------------------------------------------------------------------------
(* The operations. *)

(* find_or_create_entry finds nothing when all slots are taken by others. *)
Trackable(a) == a \in DOMAIN tracking \/ Cardinality(DOMAIN tracking) < MaxTracked

EntryOf(a) == IF a \in DOMAIN tracking THEN tracking[a] ELSE NewEntry

Store(a, e) == tracking' = [b \in DOMAIN tracking \cup {a} |-> IF b = a THEN e ELSE tracking[b]]

(* With something to show, the driver is asked for the place of the        *)
(* monitor as the entry is resolved.                                       *)
ResolveAndStore(a, e) ==
    /\ monitor' \in IF ResolveBestPosition(e, FALSE).position = Unknown THEN {monitor} ELSE Refreshed
    /\ Store(a, ResolveBestPosition(e, geo_ready /\ monitor'))

Call == UNCHANGED <<initialized, status, current, last_valid, ever, 
                    mutex, parsed, geo_ready>>

(* hal_gps_get_position into a caller's variable of zeros. *)
Stamps == Copied([place |-> Empty, fix_valid |-> FALSE],
                 [place |-> current.place, fix_valid |-> current.fix_valid])

(* pilot_locator_update, with the position the detection was stamped with, *)
(* all zeros when the driver was too slow; an rssi_dbm of 0 means that no  *)
(* strength was measured.                                                  *)
Update(a) ==
    /\ Call /\ Len(noted[a]) < MaxNoted
    /\ \E pos \in Stamps, measured \in BOOLEAN :
         IF ~Trackable(a) THEN UNCHANGED <<tracking, noted, monitor>>
         ELSE IF measured /\ pos.fix_valid
         THEN /\ noted' = [noted EXCEPT ![a] = Append(@, pos.place)]
              /\ ResolveAndStore(a, AddReading(EntryOf(a), pos.place))
         ELSE ResolveAndStore(a, EntryOf(a)) /\ UNCHANGED noted

(* pilot_locator_add_rssi_reading called by itself resolves nothing. *)
AddOnly(a) ==
    /\ Call /\ Len(noted[a]) < MaxNoted
    /\ \E pos \in Stamps :
         IF ~pos.fix_valid \/ ~Trackable(a) THEN UNCHANGED <<tracking, noted>>
         ELSE /\ noted' = [noted EXCEPT ![a] = Append(@, pos.place)]
              /\ Store(a, AddReading(EntryOf(a), pos.place))
    /\ UNCHANGED monitor

SetOperator(a) ==
    /\ Call
    /\ IF ~Trackable(a) THEN UNCHANGED <<tracking, monitor>>
       ELSE \E p \in PilotPlaces : ResolveAndStore(a, [EntryOf(a) EXCEPT !.operator = p])
    /\ UNCHANGED noted

SetHome(a) ==
    /\ Call
    /\ IF ~Trackable(a) THEN UNCHANGED <<tracking, monitor>>
       ELSE \E p \in PilotPlaces : ResolveAndStore(a, [EntryOf(a) EXCEPT !.home = p])
    /\ UNCHANGED noted

(* pilot_locator_get_position resolves once more before it answers. *)
GetPosition(a) ==
    /\ a \in DOMAIN tracking
    /\ ResolveAndStore(a, tracking[a])
    /\ UNCHANGED <<initialized, status, current, last_valid, ever, 
                   mutex, parsed, geo_ready, noted>>

(* pilot_locator_reset; pilot_locator_init does the same. *)
Reset ==
    /\ tracking' = << >> /\ noted' = [a \in Aircraft |-> <<>>]
    /\ UNCHANGED gpsVars

Locate ==
    \/ \E a \in Aircraft : Update(a) \/ AddOnly(a) \/ SetOperator(a) \/ SetHome(a) \/ GetPosition(a)
    \/ Reset

Next == (GpsNext /\ UNCHANGED locVars) \/ Locate

Spec == Init /\ [][Next]_vars

-----------------------------------------------------------------------------
(* Properties. *)

(* No more aircraft than there are slots, no more readings than the ring   *)
(* holds (find_or_create_entry, pilot_locator_add_rssi_reading).           *)
LocTypeOK ==
    /\ IsFiniteSet(DOMAIN tracking) /\ Cardinality(DOMAIN tracking) <= MaxTracked
    /\ \A a \in DOMAIN tracking : Len(tracking[a].readings) <= MaxReadings
    /\ {monitor, geo_ready, initialized, ever} \subseteq BOOLEAN

(* What an aircraft's entry holds for triangulation are the newest         *)
(* readings made for it, oldest first, none of another aircraft and none   *)
(* made without a fix.                                                     *)
ReadingsAreNewest ==
    \A a \in DOMAIN tracking :
        LET n == Len(noted[a])
            k == IF n < MaxReadings THEN n ELSE MaxReadings
        IN  tracking[a].readings = SubSeq(noted[a], n - k + 1, n)

(* A position inferred from signal strength is never an old estimate:      *)
(* whoever asks gets one from the newest readings of the aircraft, though  *)
(* readings have been added, and others pushed out, since the last update; *)
(* when those no longer bear an estimate there is none.                    *)
SignalAnswersAreCurrent ==
    [][\A a \in Aircraft :
         GetPosition(a) => (tracking'[a].position.source = "RSSI" =>
            LET n == Len(noted[a])
                k == IF n < MaxReadings THEN n ELSE MaxReadings
                newest == SubSeq(noted[a], n - k + 1, n)
            IN  /\ tracking'[a].position.places = Range(newest)
                /\ k >= MinReadings
                /\ \E x, y \in Range(newest) : Apart(x, y))]_vars
=============================================================================
