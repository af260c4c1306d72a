-------------------------------- MODULE Gps --------------------------------
(***************************************************************************)
(* The GPS driver, components/hw_hal/src/hal_gps.c, and the geolocation    *)
(* service on top of it, components/services/src/geolocation_service.c.    *)
(* A reader task collects lines from the UART, parses the sentence in a    *)
(* complete one and stores the position under a mutex; other tasks copy    *)
(* the position under that mutex, and wait for it at most 100 ms.          *)
(*                                                                         *)
(* A place is a number of steps of 10 m along a line.  A sentence is a     *)
(* record of the fields that are read; Empty is a field with no text.  The *)
(* UART delivers a line in pieces, of which any may be lost or damaged.    *)
(***************************************************************************)
EXTENDS Integers, Sequences, FiniteSets, SequencesExt

CONSTANTS Places,       \* where the receiver may be
          MaxLine       \* pieces that fit into the line buffer

ASSUME GpsAssumption == Places \subseteq Nat /\ MaxLine \in Nat \ {0, 1}

VARIABLES
    initialized, status,             \* gps_ctx
    current,                         \* current_position
    last_valid,                      \* last_valid_position, what is read of it
    ever,                            \* has_ever_had_fix
    mutex,                           \* "none", "free" or "reader"
    parsed,                          \* what the reader is storing: temp_pos
    geo_ready, monitor               \* s_initialized; s_monitor_position: is it valid

gpsVars == <<initialized, status, current, last_valid, ever, 
             mutex, parsed, geo_ready, monitor>>

MinSatellites == 4
MaxHdop       == 5
NoHdop        == 99
Empty         == -1

ZeroPosition == [place |-> Empty, altitude |-> Empty, satellites |-> 0, hdop |-> 0, fix_valid |-> FALSE]
NoPlace      == [place |-> Empty, altitude |-> Empty]
NoPosition   == [ZeroPosition EXCEPT !.hdop = NoHdop]

Gga(quality, place, sats, hdop) ==
    [type |-> "GGA", valid |-> quality, place |-> place, sats |-> sats, hdop |-> hdop]
Rmc(valid, place) == [type |-> "RMC", valid |-> valid, place |-> place, sats |-> 0, hdop |-> Empty]
Other             == [type |-> "GSV", valid |-> TRUE, place |-> Empty, sats |-> 0, hdop |-> Empty]

Sentences ==
    {Gga(TRUE, p, MinSatellites - 1, 1) : p \in Places}
    \cup {Gga(TRUE, p, MinSatellites, h) : p \in Places, h \in {1, MaxHdop, Empty}}
    \cup {Rmc(TRUE, p) : p \in Places}
    \cup {Gga(FALSE, Empty, 0, Empty), Rmc(FALSE, Empty), Other}

(* The pieces of a line: the '$' that a sentence starts with, and runs of  *)
(* other bytes.  A sentence is its start and one intact run.               *)
Dollar(s)  == [start |-> TRUE, of |-> s, clean |-> TRUE]
NoSentence == [type |-> "none"]
Run(clean) == [start |-> FALSE, of |-> NoSentence, clean |-> clean]

NoLine == [of |-> NoSentence, len |-> 0, clean |-> TRUE]
Idle    == [ok |-> FALSE, pos |-> ZeroPosition]

GpsInit ==
    /\ initialized = FALSE /\ status = "INACTIVE"
    /\ current = ZeroPosition /\ last_valid = NoPlace
    /\ ever = FALSE /\ mutex = "none"
    /\ parsed = Idle
    /\ geo_ready = FALSE /\ monitor = FALSE

-----------------------------------------------------------------------------
(* Parsing a sentence. *)

(* gps_evaluate_fix *)
EvaluateFix(pos) == pos.satellites >= MinSatellites /\ pos.hdop < MaxHdop

(* A field without text leaves what was there before. *)
Given(field, before) == IF field = Empty THEN before ELSE field

\* Seeded fault: the fix is judged before the dilution is read.
ParseGga_FixFirst(s, pos) ==
    IF ~s.valid
    THEN [pos EXCEPT !.satellites = 0, !.hdop = NoHdop, !.fix_valid = FALSE]
    ELSE LET p == [pos EXCEPT !.satellites = s.sats, !.place = Given(s.place, @),
                              !.altitude = Given(s.place, @)]
         IN  [p EXCEPT !.fix_valid = EvaluateFix(p), !.hdop = Given(s.hdop, @)]

(* nmea_parse_gga; the altitude is that of the place. *)
ParseGga(s, pos) ==
    IF ~s.valid
    THEN [pos EXCEPT !.satellites = 0, !.hdop = NoHdop, !.fix_valid = FALSE]
    ELSE LET p == [pos EXCEPT !.satellites = s.sats, !.hdop = Given(s.hdop, @),
                              !.place = Given(s.place, @), !.altitude = Given(s.place, @)]
         IN  [p EXCEPT !.fix_valid = EvaluateFix(p)]

(* nmea_parse_rmc: no opinion about the fix. *)
ParseRmc(s, pos) == IF s.valid THEN [pos EXCEPT !.place = Given(s.place, @)] ELSE pos

(* nmea_parse_sentence: the checksum fits a whole sentence only. *)
Parses(l) == l.of.type \in {"GGA", "RMC"} /\ l.clean /\ l.len = 2

ParseSentence(l, pos) ==
    IF l.of.type = "GGA" THEN ParseGga(l.of, pos) ELSE ParseRmc(l.of, pos)

-----------------------------------------------------------------------------
(* The reader task. *)

Reading == initialized /\ parsed = Idle

(* One piece is collected.  A '$' starts a new line, whatever was there;   *)
(* with the buffer full the line is dropped, and what follows is collected *)
(* without its start.                                                      *)
Collect(line, piece) ==
    IF piece.start THEN [of |-> piece.of, len |-> 1, clean |-> TRUE]
    ELSE IF line.len < MaxLine
    THEN [line EXCEPT !.len = @ + 1, !.clean = @ /\ piece.clean]
    ELSE NoLine

(* What arrives before the end of a line: a whole sentence, one that is    *)
(* damaged or has lost its start, one with bytes of another between, and   *)
(* one whose end was lost before the next.                                 *)
Lines ==
    UNION {{ <<Dollar(s), Run(TRUE)>>, <<Dollar(s), Run(FALSE)>>, <<Run(TRUE)>>,
             <<Dollar(s)>> \o [i \in 1..(MaxLine + 1) |-> Run(TRUE)],
             <<Dollar(Other), Run(TRUE), Dollar(s), Run(TRUE)>> } : s \in Sentences}

(* A line ends: it is parsed into a copy of the position and stored.  The  *)
(* bytes were collected in variables of the reader task alone, so that the *)
(* line is one step.  It is lost when another task keeps the mutex too     *)
(* long.                                                                   *)
EndLine ==
    \E pieces \in Lines :
        LET line == FoldLeft(Collect, NoLine, pieces)
        IN  /\ Reading /\ mutex = "free" /\ Parses(line)
            /\ mutex' = "reader"
            /\ parsed' = [ok |-> TRUE, pos |-> ParseSentence(line, current)]
            /\ current' = parsed'.pos
            /\ UNCHANGED <<initialized, status, last_valid, ever,
                           geo_ready, monitor>>

\* Seeded fault: when the fix is lost the position is left as it was parsed.
Settle_NotRestored ==
    /\ initialized /\ parsed # Idle
    /\ IF parsed.pos.fix_valid
       THEN /\ last_valid' = [place |-> parsed.pos.place, altitude |-> parsed.pos.altitude] /\ ever' = TRUE /\ status' = "ACTIVE"
       ELSE UNCHANGED <<last_valid, ever, status>>
    /\ parsed' = Idle /\ mutex' = "free"
    /\ UNCHANGED <<initialized, current,
                   geo_ready, monitor>>

(* Still under the mutex: a valid position is remembered, and without a    *)
(* fix the place of the last valid one is put back.                        *)
Settle ==
    /\ initialized /\ parsed # Idle
    /\ IF parsed.pos.fix_valid
       THEN /\ last_valid' = [place |-> parsed.pos.place, altitude |-> parsed.pos.altitude] /\ ever' = TRUE /\ status' = "ACTIVE"
            /\ UNCHANGED current
       ELSE /\ current' = IF ever
                          THEN [current EXCEPT !.place = last_valid.place,
                                  !.altitude = last_valid.altitude, !.fix_valid = FALSE]
                          ELSE current
            /\ UNCHANGED <<last_valid, ever, status>>
    /\ parsed' = Idle /\ mutex' = "free"
    /\ UNCHANGED <<initialized, geo_ready, monitor>>

Reader == EndLine \/ Settle

-----------------------------------------------------------------------------
(* The calls of other tasks. *)

(* hal_gps_init; UART, mutex or task may fail. *)
HalGpsInit ==
    /\ ~initialized
    /\ current' = NoPosition /\ last_valid' = NoPlace
    /\ ever' = FALSE
    /\ \/ /\ initialized' = TRUE /\ status' = "ACTIVE" /\ mutex' = "free"
          /\ parsed' = Idle
       \/ /\ status' = "ERROR" /\ UNCHANGED <<initialized, mutex, parsed>>
    /\ UNCHANGED <<geo_ready, monitor>>

(* hal_gps_deinit stops the reader wherever it is. *)
HalGpsDeinit ==
    /\ initialized
    /\ initialized' = FALSE /\ status' = "INACTIVE" /\ mutex' = "none"
    /\ parsed' = Idle
    /\ UNCHANGED <<current, last_valid, ever, 
                   geo_ready, monitor>>

(* hal_gps_get_position writes the position to its caller's variable, or   *)
(* leaves that alone: before init, and when the mutex is not had in time.  *)
(* The callers read the place and whether it is valid.                     *)
Copied(before, taken) == {before} \cup (IF initialized /\ mutex = "free" THEN {taken} ELSE {})

(* geo_service_init; of the place of the monitor, whose distance to another *)
(* follows from the two places, only whether it is valid is kept.          *)
GeoInit ==
    /\ IF status = "INACTIVE" THEN UNCHANGED <<geo_ready, monitor>>
       ELSE geo_ready' = TRUE /\ monitor' \in Copied(FALSE, current.fix_valid)
    /\ UNCHANGED <<initialized, status, current, last_valid, ever, 
                   mutex, parsed>>

(* geo_get_monitor_position: the error of the driver is not looked at. *)
Refreshed == IF geo_ready THEN Copied(monitor, current.fix_valid) ELSE {monitor}

GpsCalls == HalGpsInit \/ HalGpsDeinit \/ GeoInit

GpsNext == Reader \/ GpsCalls

-----------------------------------------------------------------------------
(* Properties. *)

(* Once there has been a fix, whoever has the mutex sees the place and the *)
(* altitude of the last valid position, through every sentence that comes  *)
(* without a fix, moves the place by itself, or is damaged: a place        *)
(* reported without a fix never shows.                                     *)
PlaceIsLastValid ==
    mutex = "free" /\ ever =>
        current.place = last_valid.place /\ current.altitude = last_valid.altitude

(* A fix shown is one that the satellites and the dilution shown with it   *)
(* support, although the two sentences set them in different steps, a      *)
(* field may be left out, and the driver may be removed between the two    *)
(* writes of its reader.                                                   *)
FixIsSupported == current.fix_valid => EvaluateFix(current)
=============================================================================
