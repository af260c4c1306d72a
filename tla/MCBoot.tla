------------------------------- MODULE MCBoot -------------------------------
(* Boot as TLC checks it: the constants are in MCBoot.cfg. *)
EXTENDS Boot

Nothing == [NoData EXCEPT !.uas_id = "blank"]

(* A drone in flight, faster than the speed step and heading past 180, with *)
(* its operator; one at the boundary of every field, with an operator at no *)
(* place; one without a position; one whose position is none; one that has  *)
(* no name.                                                                 *)
MCPeers ==
    { [NoData EXCEPT !.uas_id = "drone", !.has_position = TRUE, !.lat = 450000001,
         !.lon = -90000001, !.altitude = 240, !.speed = 256, !.has_speed = TRUE,
         !.direction = 359, !.has_operator = TRUE, !.op_lat = 450000100, !.op_lon = -90000100],
      [NoData EXCEPT !.uas_id = "edge", !.has_position = TRUE, !.lat = LatMax, !.lon = -LonMax,
         !.altitude = -AltOffset, !.speed = 255, !.has_speed = TRUE, !.direction = 180,
         !.has_operator = TRUE, !.op_lat = 0, !.op_lon = 90000000],
      [NoData EXCEPT !.uas_id = "quiet"],
      [NoData EXCEPT !.uas_id = "lost", !.has_position = TRUE, !.lat = 1, !.lon = 5,
         !.direction = 360],
      Nothing }

Values == [lat |-> 450000000, lon |-> 90000000, alt |-> 1100, speed |-> 12, heading |-> 9000,
           battery |-> 80, mode |-> 4, volts |-> 110, ant1 |-> 70, ant2 |-> 80, quality |-> 99]

Mav(msg, plen, len, crc)    == Raw("LORA", 868100, <<1..7>>, "MAV",
                                   MavFrame(1, len, plen, FALSE, msg, crc, Values))
Mav2(msg, plen, len, crc)   == Raw("LORA", 868100, <<{0} \cup 2..7>>, "MAV",
                                   MavFrame(2, len, plen, TRUE, msg, crc, Values))
Crsf(type, flen, len, crc)  == Raw("LORA", 868100, <<{3, 6, 7}>>, "CRSF",
                                   CrsfFrame(TRUE, len, flen, type, crc, Values))

MCLoraHeard ==
    { Mav(HEARTBEAT, 9, 17, TRUE), Mav(HEARTBEAT, 9, 17, FALSE), Mav(HEARTBEAT, 9, 16, TRUE),
      Mav2(GLOBAL_POSITION_INT, 28, 53, TRUE), Mav2(GLOBAL_POSITION_INT, 28, 53, FALSE),
      Mav2(BATTERY_STATUS, 30, 55, TRUE), Mav(1, 9, 17, TRUE),
      Crsf(GPS, 17, 19, TRUE), Crsf(GPS, 17, 19, FALSE), Crsf(GPS, 17, 22, FALSE),
      Crsf(LINK_STATS, 12, 14, TRUE), Crsf(BATTERY, 10, 12, TRUE), Crsf(BATTERY, 10, 11, TRUE),
      Raw("LORA", 868100, <<{0}>>, "NOISE", CrsfFrame(FALSE, 40, 0, 0, FALSE, Values)),
      Raw("LORA", 868100, <<{5}>>, "NOISE", CrsfFrame(FALSE, 40, 0, 0, FALSE, Values)) }

Json(parses) ==
    [parses |-> parses,
     field |-> [f \in ConfigField |-> IF f = "min_satellites" THEN "low" ELSE "valid"]]

Line(protocol, header, mask, len, min, max) ==
    [protocol |-> protocol, header |-> header, mask |-> mask, len |-> len,
     min |-> min, max |-> max, modulation |-> "LORA"]

Start(fails, parses, csv) == [fault |-> fails, config |-> Json(parses), csv |-> csv]

(* Two entries, the first with a short mask and heard outside its band, and *)
(* a line that is too short; more entries than there is room for, one with  *)
(* a band past 2^32 Hz; nothing that parses; no file.                       *)
ShortMask ==
    <<HeaderRow,
      Line("FRSKY", <<{3, 6, 7}, {1}>>, <<{3}>>, 2, 2400, 2500),
      Line("CROSSFIRE", <<{3, 6, 7}>>, <<>>, 1, 862, 928),
      Line("MAVLINK", <<{1}>>, <<FF>>, 2, 0, 0)>>
TooMany ==
    <<Line("DJI", <<{0, 2, 4, 6}>>, <<{2}>>, 1, 5725, 5850),
      Line("MAVLINK", <<1..7>>, <<FF>>, 1, 0, 0),
      Line("WIFI", <<FF, {1}>>, <<{}, {1}>>, 2, 0, 0),
      Line("ELRS", <<{}>>, <<{}>>, 1, 862, 928)>>
    \o [i \in 1..4 |-> Line("FRSKY", <<1..6>>, <<>>, 1, 2400, 2500)]
NoneParses == <<HeaderRow, Line("ELRS", BadHex, <<>>, 1, 0, 0)>>

MCStarts ==
    { Start({}, TRUE, ShortMask), Start({"sd", "gps"}, TRUE, ShortMask),
      Start({"lora", "detect_tasks"}, FALSE, TooMany), Start({"pipeline"}, TRUE, NoneParses),
      Start({"task_manager", "ui"}, FALSE, <<>>) }
=============================================================================
