-------------------------- MODULE TelemetryDecoder --------------------------
(***************************************************************************)
(* components/services/src/telemetry_decoder.c: a raw detection is         *)
(* classified, handed to the decoder of its protocol and, when that        *)
(* succeeds, written into the aircraft registry.                           *)
(*                                                                         *)
(* Frames come from three sides.  The drivers hand over what they hear as  *)
(* it is: a Wi-Fi frame from its MAC header on, a BLE advertisement, which *)
(* has room for one message, a LoRa packet.  And whoever calls the decoder *)
(* as remoteid_decoder.h documents it, with the payload cut out of the     *)
(* Wi-Fi frame, as the unit tests do and no driver does.  A transmitter    *)
(* sends the data of one of Peers with the encoder of remoteid_decoder.c;  *)
(* a payload may lose its last message, have one damaged, or count its     *)
(* messages wrongly.                                                       *)
(*                                                                         *)
(* Time is the number of calls so far.  The hash that names a vehicle      *)
(* without identifier is taken to be free of collisions.                   *)
(***************************************************************************)
EXTENDS Signatures, RemoteId, LinkDecoders

CONSTANTS Peers,        \* the decoded_telemetry_t that transmitters send
          LoraHeard,    \* what the LoRa monitor receives
          HistoryLen,   \* TELEMETRY_HISTORY_LEN
          MaxAircraft,  \* MAX_AIRCRAFT
          MaxCalls      \* bound on the calls of telemetry_decode

(* What the messages can say: places of the Earth, and the range of the    *)
(* encodings of altitude, speed and direction.                             *)
Sendable ==
    [uas_id : STRING, has_position : BOOLEAN, has_operator : BOOLEAN, has_speed : BOOLEAN,
     lat : -LatMax..LatMax, lon : -LonMax..LonMax,
     op_lat : -LatMax..LatMax, op_lon : -LonMax..LonMax,
     altitude : -AltOffset..(AltInvalid - AltOffset - 1),
     speed : 0..(2 * SpeedStep), direction : 0..360]

ASSUME TelemetryAssumption ==
    /\ HistoryLen \in Nat \ {0} /\ MaxAircraft \in Nat \ {0} /\ MaxCalls \in Nat
    /\ Peers \subseteq Sendable
    /\ \A raw \in LoraHeard : raw.source = "LORA" /\ raw.link # "RID" /\ raw.frame.len \in Nat

VARIABLES
    table,       \* s_signatures
    s_decoders,  \* the protocols with a registered decoder
    attached,    \* s_registry # NULL
    reg,         \* the registry: identifier -> entry
    metrics,     \* s_metrics of the Remote ID decoder
    calls,       \* calls of telemetry_decode
    last         \* ghost: what the last call got, from whom, and what it answered

decVars == <<table, s_decoders, attached, reg, metrics, calls, last>>

MAX_DECODERS == 3

RidSources == {"WIFI_RID", "BLE_RID"}

Raw(source, freq, hdr, link, frame) ==
    [source |-> source, freq |-> freq, hdr |-> hdr, link |-> link, frame |-> frame]

Nobody   == [uas_id |-> "nobody"]
NoCall   == [raw |-> NoSig, from |-> Nobody, whole |-> FALSE, err |-> "NONE", data |-> NoData]

DecInit ==
    /\ table = <<>> /\ s_decoders = {} /\ attached = FALSE
    /\ reg = << >> /\ metrics = NoMetrics /\ calls = 0
    /\ last = NoCall

-----------------------------------------------------------------------------
(* telemetry_decoder_init and telemetry_decoder_set_registry. *)

RegisteredDecoders ==
    LET wanted == <<"REMOTEID", "MAVLINK", "ELRS">>
    IN  {wanted[i] : i \in 1..MAX_DECODERS}

-----------------------------------------------------------------------------
(* Which decoder, and what it says. *)

EffectiveProtocol(raw) ==
    IF raw.source \in RidSources THEN "REMOTEID"
    ELSE Classify(table, raw.hdr, raw.freq).protocol

DispatchProtocol(raw) ==
    IF EffectiveProtocol(raw) = "CROSSFIRE" THEN "ELRS" ELSE EffectiveProtocol(raw)

Confidence(raw) ==
    IF raw.source \in RidSources THEN "HIGH"
    ELSE Classify(table, raw.hdr, raw.freq).confidence

(* remoteid_decode passes on what decoded_telemetry_t has room for: the     *)
(* operator is left behind, and the direction goes with the speed.         *)
TelemetryOf(data) ==
    [NoTelemetry EXCEPT
        !.uas_id   = data.uas_id,
        !.position = IF data.has_position THEN <<data.lat, data.lon>> ELSE None,
        !.altitude = IF data.has_position THEN <<data.altitude>> ELSE None,
        !.speed    = IF data.has_speed THEN <<data.speed>> ELSE None,
        !.heading  = IF data.has_speed THEN data.direction ELSE 0]

(* Bytes that are no frame of the decoder they reach have no start byte of *)
(* it, and both link decoders refuse them.                                 *)
RunDecoder(raw) ==
    LET p == DispatchProtocol(raw)
    IN  IF p \notin s_decoders THEN Failed("UNKNOWN_FMT")
        ELSE CASE p = "REMOTEID" ->
                    LET res == DecodeFrame(raw.frame)
                    IN  Decoded(res.err, IF res.err = "OK" THEN TelemetryOf(res.data)
                                         ELSE NoTelemetry)
               [] p = "MAVLINK" -> IF raw.link = "MAV" THEN MavDecode(raw.frame)
                                   ELSE Failed("UNKNOWN_FMT")
               [] p = "ELRS" -> IF raw.link = "CRSF" THEN CrsfDecode(raw.frame)
                                ELSE Failed("INCOMPLETE")

-----------------------------------------------------------------------------
(* update_registry. *)

(* generate_aircraft_id: the protocol and a hash of the payload. *)
GeneratedId(raw) == <<EffectiveProtocol(raw), raw.frame>>

AircraftId(raw, tele) == IF tele.uas_id # "" THEN <<tele.uas_id>> ELSE GeneratedId(raw)

(* The newest HistoryLen samples, oldest first. *)
Sampled(history, now) ==
    IF Len(history) < HistoryLen THEN Append(history, now)
    ELSE Append(Tail(history), now)

EntryAfter(raw, tele, old, now) ==
    [tele |-> tele, protocol |-> EffectiveProtocol(raw),
     confidence |-> Confidence(raw), last_seen |-> now,
     first_seen |-> IF old.first_seen = 0 THEN now ELSE old.first_seen,
     rssi_history |-> Sampled(old.rssi_history, now)]

FreshEntry == [first_seen |-> 0, rssi_history |-> <<>>]

(* A full registry gives up the slot of one that is out of range, if there *)
(* is one (AircraftRegistry says which), and refuses otherwise.            *)
UpdateRegistry(raw, tele, now) ==
    LET id  == AircraftId(raw, tele)
        new == EntryAfter(raw, tele, IF id \in DOMAIN reg THEN reg[id] ELSE FreshEntry, now)
        With(ids) == [i \in ids \cup {id} |-> IF i = id THEN new ELSE reg[i]]
    IN  \/ /\ id \in DOMAIN reg \/ Cardinality(DOMAIN reg) < MaxAircraft
           /\ reg' = With(DOMAIN reg)
        \/ /\ id \notin DOMAIN reg /\ Cardinality(DOMAIN reg) = MaxAircraft
           /\ \/ reg' = reg
              \/ \E gone \in DOMAIN reg : reg' = With(DOMAIN reg \ {gone})

(* telemetry_decode. *)
Decode(raw, from, whole) ==
    LET res   == RunDecoder(raw)
        isRid == DispatchProtocol(raw) = "REMOTEID" /\ "REMOTEID" \in s_decoders
    IN  /\ calls < MaxCalls
        /\ calls' = calls + 1
        /\ last' = [raw |-> raw, from |-> from, whole |-> whole, err |-> res.err,
                    data |-> IF isRid THEN DecodeFrame(raw.frame).data ELSE NoData]
        /\ IF isRid
           THEN metrics' = Counted(metrics, DecodeFrame(raw.frame))
           ELSE UNCHANGED metrics
        /\ IF res.err = "OK" /\ attached
           THEN UpdateRegistry(raw, res.tele, calls') ELSE UNCHANGED reg
        /\ UNCHANGED <<table, s_decoders, attached>>

-----------------------------------------------------------------------------
(* What arrives. *)

NanFreq == 2437000
AdvFreq == 2402000

MacHdrSize == 24

(* A payload as the decoder wants it, and the frame the driver hands over: *)
(* the decoder looks for its header where the MAC header begins.           *)
WifiPayload(msgs, counter) == RidFrame(FALSE, TRUE, 0, counter, msgs, 0)
WifiFrame(msgs) == RidFrame(FALSE, FALSE, 0, 0, <<>>, MacHdrSize + MsgSize * Len(msgs))
BleFrame(msgs)  == RidFrame(TRUE, TRUE, 4 + MsgSize * Len(msgs), 0, msgs, 0)

WifiRaw(frame) == Raw("WIFI_RID", NanFreq, <<FF>>, "RID", frame)
BleRaw(frame)  == Raw("BLE_RID", AdvFreq, <<FF>>, "RID", frame)

Hurt(msgs, i) == [msgs EXCEPT ![i].crc = FALSE]

(* wifi_promiscuous_rx_cb and wifi_frame_callback: all messages of a       *)
(* transmitter in one frame, from its MAC header on.                       *)
HearWifi ==
    \E d \in Peers, slip \in {0, 1} : Decode(WifiRaw(WifiFrame(Encode(d, slip))), d, TRUE)

(* ble_gap_event_handler and ble_adv_callback: a legacy advertisement of   *)
(* 31 bytes holds one message.                                             *)
HearBle ==
    \E d \in Peers, slip \in {0, 1} :
        LET msgs == Encode(d, slip)
            Hear(m, whole) == Decode(BleRaw(BleFrame(<<m>>)), d, whole)
        IN  \E i \in DOMAIN msgs :
              \/ Hear(msgs[i], Len(msgs) = 1)
              \/ Hear([msgs[i] EXCEPT !.crc = FALSE], FALSE)

(* A call with a payload that begins where remoteid_decode_wifi wants it.  *)
CallWithPayload ==
    \E d \in Peers, slip \in {0, 1} :
        LET msgs == Encode(d, slip)
            Call(got, counter, whole) == Decode(WifiRaw(WifiPayload(got, counter)), d, whole)
        IN  \/ Call(msgs, Len(msgs), TRUE)
            \/ Call(msgs, 1, Len(msgs) = 1)
            \/ Call(Front(msgs), Len(msgs), FALSE)
            \/ \E i \in DOMAIN msgs : Call(Hurt(msgs, i), Len(msgs), FALSE)

HearLora == \E raw \in LoraHeard : Decode(raw, Nobody, FALSE)

Arrive == HearWifi \/ HearBle \/ HearLora \/ CallWithPayload

-----------------------------------------------------------------------------
(* Properties. *)

Near(a, b, slack) == a - b \in -slack..slack

(* Telemetry tele says nothing that d did not send: the identifier, a      *)
(* position within the unit the encoder may lose, the speed exactly, and   *)
(* no position at all where the one sent is none.                          *)
Agrees(tele, d) ==
    /\ tele.uas_id = TrimmedId(d.uas_id)
    /\ tele.position # None =>
          /\ d.has_position
          /\ Near(tele.position[1], d.lat, 1) /\ Near(tele.position[2], d.lon, 1)
          /\ LatValid(tele.position[1]) /\ LonValid(tele.position[2])
          /\ tele.altitude = <<d.altitude>>
    /\ tele.speed # None => tele.speed = <<d.speed>> /\ Near(tele.heading, d.direction, 1)

(* A frame that arrives whole, and begins with the header that             *)
(* remoteid_decode_wifi and remoteid_decode_ble ask for, is decoded to     *)
(* what was sent, position and operator included: they invert              *)
(* remoteid_encode.  Only a transmitter without an identifier is refused.  *)
HeardAsSent ==
    last.whole /\ last.raw.frame.hdrOK =>
        LET d == last.from t == last.data
        IN  IF TrimmedId(d.uas_id) = "" THEN last.err = "INCOMPLETE"
            ELSE /\ last.err = "OK" /\ Agrees(TelemetryOf(t), d)
                 /\ d.has_position =>
                      /\ t.has_position = (LatValid(t.lat) /\ LonValid(t.lon))
                      /\ t.speed = d.speed /\ Near(t.direction, d.direction, 1)
                      /\ t.altitude = d.altitude
                 /\ d.has_operator =>
                      /\ Near(t.op_lat, d.op_lat, 1) /\ Near(t.op_lon, d.op_lon, 1)
                      /\ t.has_operator = PositionValid(t.op_lat, t.op_lon)

(* What the registry shows of a Remote ID vehicle is what that vehicle     *)
(* sent, whatever frames were damaged, cut or mixed on the way: nothing a  *)
(* refused frame said ever reaches an entry.                               *)
EntriesAreTrue ==
    \A id \in DOMAIN reg :
        reg[id].protocol = "REMOTEID" =>
            \E d \in Peers : <<d.uas_id>> = id /\ Agrees(reg[id].tele, d)

(* A registry entry changes only for a frame whose checksums all fit: an   *)
(* CRSF frame that elrs_validate_crc, a MAVLink frame that                 *)
(* mavlink_is_valid_frame would take, or a Remote ID frame with no bad     *)
(* message among those it counts.                                          *)
OnlyIntactFramesCount ==
    [][reg' # reg =>
         LET raw == last'.raw
         IN  IF raw.link = "RID"
             THEN \A i \in 1..MessageCount(raw.frame) : raw.frame.msgs[i].crc
             ELSE IF raw.link = "MAV" THEN MavValid(raw.frame)
             ELSE CrsfIntact(raw.frame)]_decVars
=============================================================================
