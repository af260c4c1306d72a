------------------------------ MODULE RemoteId ------------------------------
(***************************************************************************)
(* The Remote ID decoder of components/services/src/remoteid_decoder.c:    *)
(* validation of a Wi-Fi or BLE frame, its ASTM F3411 messages, staging    *)
(* before commit, the encoder, and the counters of what was accepted and   *)
(* rejected.                                                               *)
(*                                                                         *)
(* A frame is the record of its header fields, its whole 25-byte messages  *)
(* and the number of bytes after the last whole one.  A message says       *)
(* whether its CRC byte fits.  Coordinates are the raw integers (degrees   *)
(* * 1e7), altitudes are in half metres, speeds in quarters of a m/s.      *)
(***************************************************************************)
EXTENDS Integers, Sequences, FiniteSets, SequencesExt

MsgSize     == 25            \* REMOTEID_MSG_SIZE
HdrSize     == 5
WifiMinLen  == 30            \* REMOTEID_WIFI_MIN_LEN
BleMinLen   == 29            \* REMOTEID_BLE_MIN_LEN
BleMinAd    == 29            \* AD type, UUID, counter and one message
MaxMessages == 10            \* REMOTEID_MAX_MESSAGES

BASIC_ID     == 0
LOCATION     == 1
SYSTEM       == 4
MSG_TYPE_MAX == 5
MSG_PACK     == 15

LatMax     == 900000000
LonMax     == 1800000000
AltInvalid == 65535
AltOffset  == 2000           \* 1000 m
SpeedStep  == 255            \* what the speed multiplier adds

Reason == {"TRUNCATED", "DECLARED_LENGTH", "BOUNDS", "FORMAT", "CRC"}

BasicMsg(crc, id) == [type |-> BASIC_ID, crc |-> crc, id |-> id]
LocationMsg(crc, lat, lon, alt, speed, mult, dir, seg) ==
    [type |-> LOCATION, crc |-> crc, lat |-> lat, lon |-> lon, alt |-> alt,
     speed |-> speed, mult |-> mult, dir |-> dir, seg |-> seg]
SystemMsg(crc, lat, lon) == [type |-> SYSTEM, crc |-> crc, lat |-> lat, lon |-> lon]
OtherMsg(crc, type)      == [type |-> type, crc |-> crc]

RidFrame(ble, hdrOK, ad, counter, msgs, tail) ==
    [ble |-> ble, hdrOK |-> hdrOK, ad |-> ad, counter |-> counter,
     msgs |-> msgs, tail |-> tail]

FrameLen(f) == HdrSize + MsgSize * Len(f.msgs) + f.tail

NoData ==
    [uas_id |-> "", lat |-> 0, lon |-> 0, altitude |-> 0, speed |-> 0,
     direction |-> 0, has_position |-> FALSE, has_speed |-> FALSE,
     op_lat |-> 0, op_lon |-> 0, has_operator |-> FALSE]

-----------------------------------------------------------------------------
(* One message. *)

LatValid(lat) == lat # 0 /\ lat \in -LatMax..LatMax
LonValid(lon) == lon # 0 /\ lon \in -LonMax..LonMax

\* Seeded fault: one valid coordinate is enough for a position.
PositionValid_Either(lat, lon) == LatValid(lat) \/ LonValid(lon)

PositionValid(lat, lon) == LatValid(lat) /\ LonValid(lon)

AltitudeFromRaw(raw) == IF raw = AltInvalid THEN 0 ELSE raw - AltOffset

(* Trailing blanks are cut off: an identifier of blanks is empty. *)
TrimmedId(id) == IF id = "blank" THEN "" ELSE id

DecodeLocation(m, d) ==
    LET dir == m.dir + (IF m.seg THEN 180 ELSE 0)
    IN  [d EXCEPT
          !.direction = IF dir > 360 THEN 360 ELSE dir,
          !.speed = m.speed + (IF m.mult THEN SpeedStep ELSE 0),
          !.has_speed = m.speed # 0 \/ m.mult,
          !.lat = m.lat, !.lon = m.lon,
          !.has_position = PositionValid(m.lat, m.lon),
          !.altitude = AltitudeFromRaw(m.alt)]

DecodeSystem(m, d) ==
    [d EXCEPT !.op_lat = m.lat, !.op_lon = m.lon,
              !.has_operator = PositionValid(m.lat, m.lon)]

(* decode_single_message: a pack of messages passes the range check and is *)
(* then an unknown format like any other type.                             *)
Understood(m) == m.type \in 0..MSG_TYPE_MAX

DecodeMessage(d, m) ==
    CASE m.type = BASIC_ID -> [d EXCEPT !.uas_id = TrimmedId(m.id)]
      [] m.type = LOCATION -> DecodeLocation(m, d)
      [] m.type = SYSTEM   -> DecodeSystem(m, d)
      [] OTHER             -> d

(* The messages of a frame, one after the other.  Each overwrites all the  *)
(* fields of its kind, so that the last one of each kind decides.          *)
OfType(msgs, type) == {i \in DOMAIN msgs : msgs[i].type = type}

Latest(msgs, type, d) ==
    IF OfType(msgs, type) = {} THEN d
    ELSE DecodeMessage(d, msgs[Max(OfType(msgs, type))])

DecodeMessages(msgs) ==
    Latest(msgs, SYSTEM, Latest(msgs, LOCATION, Latest(msgs, BASIC_ID, NoData)))

-----------------------------------------------------------------------------
(* A frame: remoteid_validate_frame_safe, then the messages into a staging *)
(* copy that is committed only when all of them were intact.               *)

FirstTypeKnown(f) == Understood(f.msgs[1]) \/ f.msgs[1].type = MSG_PACK

MessageCount(f) ==
    LET whole   == Len(f.msgs)
        counted == IF f.counter > 0 /\ f.counter < whole THEN f.counter ELSE whole
    IN  IF counted > MaxMessages THEN MaxMessages ELSE counted

(* Why a frame is refused, "NONE" when it is not. *)
Refusal(f) ==
    IF FrameLen(f) < (IF f.ble THEN BleMinLen ELSE WifiMinLen) THEN "TRUNCATED"
    ELSE IF ~f.hdrOK THEN "FORMAT"
    ELSE IF f.ble /\ (f.ad < BleMinAd \/ f.ad + 1 > FrameLen(f)) THEN "DECLARED_LENGTH"
    ELSE IF f.msgs = <<>> THEN "BOUNDS"
    ELSE IF ~FirstTypeKnown(f) THEN "FORMAT"
    ELSE "NONE"

RefusalError(reason) ==
    IF reason = "FORMAT" THEN "UNKNOWN_FMT" ELSE "INVALID_SIZE"

Rejected(err, reason) == [err |-> err, reason |-> reason, data |-> NoData]

\* Seeded fault: a message whose CRC fails is skipped.
DecodeFrame_SkipsBadCrc(f) ==
    LET msgs == SelectSeq(SubSeq(f.msgs, 1, MessageCount(f)), LAMBDA m : m.crc)
        data == DecodeMessages(msgs)
    IN  IF Refusal(f) # "NONE" THEN Rejected(RefusalError(Refusal(f)), Refusal(f))
        ELSE IF data.uas_id = "" THEN Rejected("INCOMPLETE", "FORMAT")
        ELSE [err |-> "OK", reason |-> "NONE", data |-> data]

(* remoteid_decode_wifi and remoteid_decode_ble. *)
DecodeFrame(f) ==
    LET msgs  == SubSeq(f.msgs, 1, MessageCount(f))
        data  == DecodeMessages(msgs)
        basic == OfType(msgs, BASIC_ID) # {}
    IN  IF Refusal(f) # "NONE" THEN Rejected(RefusalError(Refusal(f)), Refusal(f))
        ELSE IF \E i \in DOMAIN msgs : ~msgs[i].crc THEN Rejected("CRC_FAIL", "CRC")
        ELSE IF ~basic /\ \E i \in DOMAIN msgs : ~Understood(msgs[i])
             THEN Rejected("UNKNOWN_FMT", "FORMAT")
        ELSE IF ~basic \/ data.uas_id = "" THEN Rejected("INCOMPLETE", "FORMAT")
        ELSE [err |-> "OK", reason |-> "NONE", data |-> data]

-----------------------------------------------------------------------------
(* The counters, one step for each call. *)

NoMetrics == [accepted |-> 0, integrity |-> 0, rejected |-> [r \in Reason |-> 0]]

Counted(mt, res) ==
    IF res.err = "OK" THEN [mt EXCEPT !.accepted = @ + 1]
    ELSE [mt EXCEPT !.rejected[res.reason] = @ + 1,
                    !.integrity = IF res.reason = "CRC" THEN @ + 1 ELSE @]

-----------------------------------------------------------------------------
(* remoteid_encode: what a transmitter with this encoder sends.  The       *)
(* division by 1e-7 may lose one unit towards zero (slip is 0 or 1).       *)

EncodedCoord(v, slip) == IF v > 0 THEN v - slip ELSE IF v < 0 THEN v + slip ELSE 0

EncodedAlt(alt) ==
    IF alt + AltOffset < 0 THEN 0
    ELSE IF alt + AltOffset > AltInvalid - 1 THEN AltInvalid - 1
    ELSE alt + AltOffset

\* Seeded fault: the multiplier is set from the step on, not above it.
EncodedLocation_AtStep(d, slip) ==
    LET seg == d.direction >= 180
        dir == IF seg THEN d.direction - 180 ELSE d.direction
    IN  LocationMsg(TRUE, EncodedCoord(d.lat, slip), EncodedCoord(d.lon, slip),
                    EncodedAlt(d.altitude),
                    IF d.speed > SpeedStep + 1 THEN d.speed - SpeedStep ELSE d.speed % 256,
                    d.speed > SpeedStep + 1,
                    IF dir > 179 THEN 179 ELSE dir, seg)

EncodedLocation(d, slip) ==
    LET mult == d.speed > SpeedStep
        seg  == d.direction >= 180
        dir  == IF seg THEN d.direction - 180 ELSE d.direction
    IN  LocationMsg(TRUE, EncodedCoord(d.lat, slip), EncodedCoord(d.lon, slip),
                    EncodedAlt(d.altitude),
                    IF mult THEN d.speed - SpeedStep ELSE d.speed, mult,
                    IF dir > 179 THEN 179 ELSE dir, seg)

Encode(d, slip) ==
    << BasicMsg(TRUE, d.uas_id) >>
    \o (IF d.has_position THEN << EncodedLocation(d, slip) >> ELSE <<>>)
    \o (IF d.has_operator
        THEN << SystemMsg(TRUE, EncodedCoord(d.op_lat, slip), EncodedCoord(d.op_lon, slip)) >>
        ELSE <<>>)
=============================================================================
