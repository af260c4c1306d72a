---------------------------- MODULE LinkDecoders ----------------------------
(***************************************************************************)
(* The two decoders of control-link telemetry: components/services/src/    *)
(* mavlink_decoder.c (MAVLink v1 and v2) and elrs_decoder.c (CRSF).        *)
(*                                                                         *)
(* A frame is the record of what its bytes say: the start byte, the        *)
(* lengths, the message, whether the checksum fits, and the values of the  *)
(* payload.  Telemetry is decoded_telemetry_t, each has_ flag and the      *)
(* fields it covers being one field that may be None.                      *)
(***************************************************************************)
EXTENDS Integers, Sequences, FiniteSets

(* A field that has a value holds it as a sequence of one. *)
None == <<>>

NoTelemetry ==
    [uas_id |-> "", position |-> None, altitude |-> None, speed |-> None,
     heading |-> 0, battery |-> None, mode |-> None, rssi |-> 0, quality |-> 0]

Decoded(err, tele) == [err |-> err, tele |-> tele]
Failed(err)        == Decoded(err, NoTelemetry)

-----------------------------------------------------------------------------
(* MAVLink. *)

CrcLen       == 2             \* MAVLINK_CRC_LEN
SignatureLen == 13            \* MAVLINK_V2_SIGNATURE_LEN
MavMinLen    == 8             \* the v1 header and the checksum

HEARTBEAT           == 0
GLOBAL_POSITION_INT == 33
BATTERY_STATUS      == 147
HOME_POSITION       == 242
KnownMsgs == {HEARTBEAT, GLOBAL_POSITION_INT, BATTERY_STATUS, HOME_POSITION}

MavFrame(version, len, plen, signed, msg, crc, values) ==
    [version |-> version, len |-> len, plen |-> plen, signed |-> signed,
     msg |-> msg, crc |-> crc, values |-> values]

HeaderLen(f) == IF f.version = 1 THEN 6 ELSE 10

ExpectedLen(f) ==
    HeaderLen(f) + f.plen + CrcLen
      + (IF f.version = 2 /\ f.signed THEN SignatureLen ELSE 0)

(* parse_frame_header: the length is checked before anything past it is read *)
ParseError(f) ==
    IF f.version \notin {1, 2} THEN "UNKNOWN_FMT"
    ELSE IF f.len < ExpectedLen(f) THEN "INCOMPLETE"
    ELSE "OK"

(* A payload shorter than the whole message changes nothing and is no      *)
(* error: MAVLink 2 cuts the zeros off its end.                            *)
MavTelemetry(f) ==
    LET v == f.values
    IN  CASE f.msg = GLOBAL_POSITION_INT /\ f.plen >= 28 ->
               [NoTelemetry EXCEPT !.position = <<v.lat, v.lon>>, !.altitude = <<v.alt>>,
                                   !.speed = <<v.speed>>, !.heading = v.heading]
          [] f.msg = BATTERY_STATUS /\ f.plen >= 36 /\ v.battery \in 0..100 ->
               [NoTelemetry EXCEPT !.battery = <<v.battery>>]
          [] f.msg = HEARTBEAT /\ f.plen >= 9 -> [NoTelemetry EXCEPT !.mode = <<v.mode>>]
          [] f.msg = HOME_POSITION /\ f.plen >= 12 ->
               [NoTelemetry EXCEPT !.position = <<v.lat, v.lon>>, !.altitude = <<v.alt>>]
          [] OTHER -> NoTelemetry

MavDecode(f) ==
    IF f.len < MavMinLen THEN Failed("INCOMPLETE")
    ELSE IF ParseError(f) # "OK" THEN Failed(ParseError(f))
    ELSE IF f.msg \notin KnownMsgs THEN Failed("UNKNOWN_FMT")
    ELSE IF ~f.crc THEN Failed("CRC_FAIL")
    ELSE Decoded("OK", MavTelemetry(f))

(* mavlink_is_valid_frame. *)
MavValid(f) ==
    f.len >= MavMinLen /\ ParseError(f) = "OK" /\ f.msg \in KnownMsgs /\ f.crc

-----------------------------------------------------------------------------
(* CRSF. *)

CrsfMinSize == 4              \* CRSF_FRAME_MIN_SIZE
GPS         == 2
BATTERY     == 8
LINK_STATS  == 20

CrsfFrame(sync, len, flen, type, crc, values) ==
    [sync |-> sync, len |-> len, flen |-> flen, type |-> type, crc |-> crc,
     values |-> values]

(* The length field counts type, payload and checksum. *)
TotalSize(f)  == 2 + f.flen
PayloadLen(f) == f.flen - 2

(* elrs_validate_crc. *)
CrsfIntact(f) ==
    f.len >= CrsfMinSize /\ f.sync /\ f.flen >= 2 /\ TotalSize(f) <= f.len /\ f.crc

InRange(v) ==
    /\ v.lat \in -900000000..900000000
    /\ v.lon \in -1800000000..1800000000
    /\ v.heading \in 0..36000

LinkRssi(v) == IF v.ant1 < v.ant2 THEN -v.ant1 ELSE -v.ant2

CrsfTelemetry(f) ==
    LET v == f.values
    IN  CASE f.type = LINK_STATS ->
               IF PayloadLen(f) >= 10 /\ LinkRssi(v) \in -130..0 /\ v.quality <= 100
               THEN Decoded("OK", [NoTelemetry EXCEPT !.rssi = LinkRssi(v), !.quality = v.quality])
               ELSE Failed("INCOMPLETE")
          [] f.type = BATTERY ->
               IF PayloadLen(f) >= 8 /\ v.volts <= 1000 /\ v.battery <= 100
               THEN Decoded("OK", [NoTelemetry EXCEPT !.battery = <<v.battery>>])
               ELSE Failed("INCOMPLETE")
          [] f.type = GPS ->
               IF PayloadLen(f) >= 15 /\ InRange(v)
               THEN Decoded("OK", [NoTelemetry EXCEPT !.position = <<v.lat, v.lon>>,
                                     !.altitude = <<v.alt - 1000>>, !.speed = <<v.speed>>,
                                     !.heading = v.heading])
               ELSE Failed("INCOMPLETE")
          [] OTHER -> Failed("UNKNOWN_FMT")

CrsfDecode(f) ==
    IF f.len < CrsfMinSize \/ ~f.sync \/ f.flen < 2 \/ TotalSize(f) > f.len
    THEN Failed("INCOMPLETE")
    ELSE IF ~CrsfIntact(f) THEN Failed("CRC_FAIL")
    ELSE CrsfTelemetry(f)
=============================================================================
