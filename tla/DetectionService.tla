-------------------------- MODULE DetectionService --------------------------
(***************************************************************************)
(* The detection service of components/services/src/detection_service.c    *)
(* with the two scanners it drives (hal_wifi_scanner.c, hal_ble_scanner.c):*)
(* a task that gives Wi-Fi and BLE their turns on the 2.4 GHz radio, a     *)
(* task that polls the SX1262, the drivers' frame callbacks, the bounded   *)
(* detection queue all of them feed without blocking, and the calls that   *)
(* start and stop the tasks.                                               *)
(*                                                                         *)
(* A detection is <<source, n>>: the n-th of its source.  Its payload is   *)
(* the decoders' business.                                                 *)
(***************************************************************************)
EXTENDS Integers, Sequences, FiniteSets

CONSTANTS
    DetCap,       \* DETECTION_QUEUE_SIZE
    MaxDet,       \* bound: detections of all sources together
    MaxSvcStarts  \* bound: calls of detection_service_start

ASSUME SvcConstants ==
    DetCap \in Nat \ {0} /\ MaxDet \in Nat /\ MaxSvcStarts \in Nat \ {0}

Driver    == {"wifi", "ble"}
Source    == Driver \cup {"lora"}
Detection == Source \X (1..MaxDet)
SvcRun    == 1..MaxSvcStarts

VARIABLES
    svcInit,     \* s_state.initialized
    svcStarted,  \* s_state.started
    svcStop,     \* s_state.stop_requested
    avail,       \* the sources s_state.source_available names
    detQ,        \* s_state.detection_queue
    wifiOn,      \* hal_wifi_scanner.c: s_state.scanning
    bleOn,       \* hal_ble_scanner.c: s_state.scanning
    cb,          \* of each scanner's driver: how far its call back is
    scan,        \* task_wifi_ble_scanner of each start: where it is
    rx,          \* task_lora_monitor of each start: where it is, its detection
    svcCall,     \* the call of the API under way
    svcStarts,   \* history: calls of detection_service_start
    heard,       \* history: detections made, by source
    quiet        \* history: the service was stopped and not started since

hal     == <<wifiOn, bleOn, cb>>
tasks   == <<scan, rx>>
flags   == <<svcInit, svcStarted, svcStop, avail>>
svcVars == <<flags, detQ, hal, tasks, svcCall, svcStarts, heard, quiet>>

NoDet == <<"none", 0>>
ScanPlace == {"off", "head", "wifi", "wifiIdle", "mid", "ble", "bleIdle"}

SvcInitState ==
    /\ svcInit = FALSE /\ svcStarted = FALSE /\ svcStop = FALSE
    /\ avail = {}
    /\ detQ = <<>>
    /\ wifiOn = FALSE /\ bleOn = FALSE
    /\ cb = [s \in Driver |-> "none"]
    /\ scan = [i \in SvcRun |-> "off"]
    /\ rx = [i \in SvcRun |-> [at |-> "off", d |-> NoDet]]
    /\ svcCall = "none"
    /\ svcStarts = 0
    /\ heard = [s \in Source |-> 0]
    /\ quiet = TRUE

-----------------------------------------------------------------------------
(* The API.                                                                *)

\* The HAL modules that did not fail to initialise are available.
SvcInitialise ==
    /\ svcCall = "none" /\ ~svcInit
    /\ svcInit' = TRUE
    /\ avail' \in SUBSET Source
    /\ UNCHANGED <<svcStarted, svcStop, detQ, hal, tasks, svcCall, svcStarts, heard,
                   quiet>>

SvcStartBegin ==
    /\ svcCall = "none" /\ svcInit /\ ~svcStarted /\ svcStarts < MaxSvcStarts
    /\ svcStarts' = svcStarts + 1
    /\ svcStop' = FALSE
    /\ quiet' = FALSE
    /\ svcCall' = "startScan"
    /\ UNCHANGED <<svcInit, svcStarted, avail, detQ, hal, tasks, heard>>

\* The first task: a failing xTaskCreate ends the call.
SvcStartScan ==
    /\ svcCall = "startScan"
    /\ IF avail \cap {"wifi", "ble"} = {}
       THEN svcCall' = "startLora" /\ UNCHANGED scan
       ELSE \/ svcCall' = "startLora" /\ scan' = [scan EXCEPT ![svcStarts] = "head"]
            \/ svcCall' = "none" /\ UNCHANGED scan
    /\ UNCHANGED <<flags, detQ, hal, rx, svcStarts, heard, quiet>>

\* The second task: when its xTaskCreate fails the first is asked to stop.
SvcStartLora ==
    /\ svcCall = "startLora"
    /\ svcCall' = "none"
    /\ \/ /\ svcStarted' = TRUE
          /\ rx' = IF "lora" \in avail THEN [rx EXCEPT ![svcStarts].at = "loop"] ELSE rx
          /\ UNCHANGED svcStop
       \/ /\ "lora" \in avail
          /\ svcStop' = TRUE
          /\ UNCHANGED <<svcStarted, rx>>
    /\ UNCHANGED <<svcInit, avail, detQ, hal, scan, svcStarts, heard, quiet>>

SvcStopBegin ==
    /\ svcCall = "none" /\ svcInit /\ svcStarted
    /\ svcStop' = TRUE
    /\ svcCall' \in {"stop", "deinit"}
    /\ UNCHANGED <<svcInit, svcStarted, avail, detQ, hal, tasks, svcStarts, heard, quiet>>

\* Seeded fault: detection_service_stop does not wait for its tasks.
StopDelayElapsed_None == TRUE

Idle ==
    /\ \A i \in SvcRun : scan[i] = "off" /\ rx[i].at = "off"
    /\ \A s \in Driver : cb[s] = "none"

\* The delay is a whole Wi-Fi/BLE cycle: every task has seen the request by then, and
\* the calls back that began before have returned.
StopDelayElapsed == Idle

\* Seeded fault: the queue is not emptied.
SvcStopEnd_KeepsQueue ==
    /\ svcCall \in {"stop", "deinit"} /\ StopDelayElapsed
    /\ svcStarted' = FALSE
    /\ svcCall' = IF svcCall = "stop" THEN "none" ELSE "delete"
    /\ quiet' = TRUE
    /\ UNCHANGED <<svcInit, svcStop, avail, detQ, hal, tasks, svcStarts, heard>>

SvcStopEnd ==
    /\ svcCall \in {"stop", "deinit"} /\ StopDelayElapsed
    /\ detQ' = <<>>
    /\ svcStarted' = FALSE
    /\ svcCall' = IF svcCall = "stop" THEN "none" ELSE "delete"
    /\ quiet' = TRUE
    /\ UNCHANGED <<svcInit, svcStop, avail, hal, tasks, svcStarts, heard>>

\* detection_service_deinit: at once when nothing was started.
SvcDelete ==
    /\ \/ svcCall = "delete"
       \/ svcCall = "none" /\ svcInit /\ ~svcStarted
    /\ svcCall' = "none"
    /\ svcInit' = FALSE /\ svcStop' = FALSE /\ avail' = {}
    /\ detQ' = <<>>
    /\ UNCHANGED <<svcStarted, hal, tasks, svcStarts, heard, quiet>>

-----------------------------------------------------------------------------
(* Detections.                                                             *)

Total == heard["wifi"] + heard["ble"] + heard["lora"]

\* The next detection of a source is stamped.
Hear(s) ==
    /\ Total < MaxDet
    /\ heard' = [heard EXCEPT ![s] = @ + 1]

\* enqueue_detection: without blocking, and without a trace when the queue is full.
Enqueue(d) ==
    IF svcInit /\ Len(detQ) < DetCap
    THEN detQ' = Append(detQ, d)
    ELSE UNCHANGED detQ

FrameRest == UNCHANGED <<flags, wifiOn, bleOn, tasks, svcCall, svcStarts, quiet>>

\* wifi_promiscuous_rx_cb or ble_gap_event_handler finds its scanner on and calls back.
FrameCalled(s) ==
    /\ IF s = "wifi" THEN wifiOn ELSE bleOn
    /\ cb[s] = "none"
    /\ cb' = [cb EXCEPT ![s] = "called"]
    /\ UNCHANGED <<detQ, heard>>
    /\ FrameRest

\* wifi_frame_callback or ble_adv_callback stamps the detection, unless asked to stop;
\* the scanner may be off by now.
FrameStamped(s) ==
    /\ cb[s] = "called"
    /\ \/ ~svcStop /\ Hear(s) /\ cb' = [cb EXCEPT ![s] = "stamped"]
       \/ svcStop /\ UNCHANGED heard /\ cb' = [cb EXCEPT ![s] = "none"]
    /\ UNCHANGED detQ
    /\ FrameRest

\* It is queued, however the service was called meanwhile.
FrameQueued(s) ==
    /\ cb[s] = "stamped"
    /\ Enqueue(<<s, heard[s]>>)
    /\ cb' = [cb EXCEPT ![s] = "none"]
    /\ UNCHANGED heard
    /\ FrameRest

\* detection_service_receive, called by the decoder: d is the oldest detection.
Receive(d) ==
    /\ svcInit /\ detQ # <<>>
    /\ d = Head(detQ)
    /\ detQ' = Tail(detQ)

-----------------------------------------------------------------------------
(* task_wifi_ble_scanner.                                                  *)

ScanAt(i, places) == scan[i] \in places
ScanGo(i, place) == scan' = [scan EXCEPT ![i] = place]
ScanRest == UNCHANGED <<flags, detQ, cb, rx, svcCall, svcStarts, heard, quiet>>

\* hal_wifi_scanner_start and hal_ble_scanner_start refuse when scanning.
WifiPhase(i) ==
    /\ ScanAt(i, {"head"}) /\ ~svcStop
    /\ \/ "wifi" \in avail /\ ~wifiOn /\ wifiOn' = TRUE /\ ScanGo(i, "wifi")
       \/ UNCHANGED wifiOn /\ ScanGo(i, "wifiIdle")
    /\ UNCHANGED bleOn
    /\ ScanRest

\* Seeded fault: the Wi-Fi scanner is left on when its phase is over.
WifiPhaseEnds_NotStopped(i) ==
    /\ ScanAt(i, {"wifi", "wifiIdle"})
    /\ ScanGo(i, "mid")
    /\ UNCHANGED hal
    /\ ScanRest

WifiPhaseEnds(i) ==
    /\ ScanAt(i, {"wifi", "wifiIdle"})
    /\ wifiOn' = (wifiOn /\ scan[i] # "wifi")
    /\ ScanGo(i, "mid")
    /\ UNCHANGED bleOn
    /\ ScanRest

BlePhase(i) ==
    /\ ScanAt(i, {"mid"}) /\ ~svcStop
    /\ \/ "ble" \in avail /\ ~bleOn /\ bleOn' = TRUE /\ ScanGo(i, "ble")
       \/ UNCHANGED bleOn /\ ScanGo(i, "bleIdle")
    /\ UNCHANGED wifiOn
    /\ ScanRest

BlePhaseEnds(i) ==
    /\ ScanAt(i, {"ble", "bleIdle"})
    /\ bleOn' = (bleOn /\ scan[i] # "ble")
    /\ ScanGo(i, "head")
    /\ UNCHANGED wifiOn
    /\ ScanRest

\* Both scanners are stopped on the way out.
ScanExit(i) ==
    /\ ScanAt(i, {"head", "mid"}) /\ svcStop
    /\ wifiOn' = FALSE /\ bleOn' = FALSE
    /\ ScanGo(i, "off")
    /\ ScanRest

-----------------------------------------------------------------------------
(* task_lora_monitor.                                                      *)

RxRest == UNCHANGED <<flags, hal, scan, svcCall, svcStarts, quiet>>

\* A packet arrives and is stamped; the radio's dwell and idle polls change nothing.
RxPacket(i) ==
    /\ rx[i].at = "loop" /\ ~svcStop
    /\ Hear("lora")
    /\ rx' = [rx EXCEPT ![i] = [at |-> "stamped", d |-> <<"lora", heard'["lora"]>>]]
    /\ UNCHANGED detQ
    /\ RxRest

\* Seeded fault: the LoRa task blocks until there is room in the queue.
RxEnqueue_Blocks(i) ==
    /\ rx[i].at = "stamped" /\ Len(detQ) < DetCap
    /\ Enqueue(rx[i].d)
    /\ rx' = [rx EXCEPT ![i] = [at |-> "loop", d |-> NoDet]]
    /\ UNCHANGED heard
    /\ RxRest

\* Until it is queued the callbacks of the other sources may overtake it.
RxEnqueue(i) ==
    /\ rx[i].at = "stamped"
    /\ Enqueue(rx[i].d)
    /\ rx' = [rx EXCEPT ![i] = [at |-> "loop", d |-> NoDet]]
    /\ UNCHANGED heard
    /\ RxRest

RxExit(i) ==
    /\ rx[i].at = "loop" /\ svcStop
    /\ rx' = [rx EXCEPT ![i].at = "off"]
    /\ UNCHANGED <<detQ, heard>>
    /\ RxRest

-----------------------------------------------------------------------------
ScanStep(i) ==
    \/ WifiPhase(i) \/ WifiPhaseEnds(i) \/ BlePhase(i) \/ BlePhaseEnds(i) \/ ScanExit(i)

RxStep(i) == RxEnqueue(i) \/ RxExit(i)

FrameReturns(s) == FrameStamped(s) \/ FrameQueued(s)

SvcApi ==
    \/ SvcInitialise \/ SvcStartBegin \/ SvcStartScan \/ SvcStartLora
    \/ SvcStopBegin \/ SvcStopEnd

SvcNext ==
    \/ SvcApi
    \/ \E s \in Driver : FrameCalled(s) \/ FrameReturns(s)
    \/ \E i \in SvcRun : ScanStep(i) \/ RxPacket(i) \/ RxStep(i)

\* The service with whoever receives from it.
Taken ==
    /\ \E d \in Detection : Receive(d)
    /\ UNCHANGED <<flags, hal, tasks, svcCall, svcStarts, heard, quiet>>

SvcSpec ==
    /\ SvcInitState /\ [][SvcNext \/ SvcDelete \/ Taken]_svcVars
    /\ \A i \in SvcRun : WF_svcVars(ScanStep(i)) /\ WF_svcVars(RxStep(i))
    /\ \A s \in Driver : WF_svcVars(FrameReturns(s))

-----------------------------------------------------------------------------
(* Properties.                                                             *)

\* Flags, tasks and the queue keep to their ranges (detection_service.c).
SvcTypeOK ==
    /\ svcInit \in BOOLEAN /\ svcStarted \in BOOLEAN /\ svcStop \in BOOLEAN
    /\ avail \subseteq Source
    /\ detQ \in Seq(Detection) /\ Len(detQ) <= DetCap
    /\ wifiOn \in BOOLEAN /\ bleOn \in BOOLEAN /\ quiet \in BOOLEAN
    /\ cb \in [Driver -> {"none", "called", "stamped"}]
    /\ scan \in [SvcRun -> ScanPlace]
    /\ rx \in [SvcRun -> [at : {"off", "loop", "stamped"}, d : Detection \cup {NoDet}]]
    /\ svcCall \in {"none", "startScan", "startLora", "stop", "deinit", "delete"}
    /\ svcStarts \in 0..MaxSvcStarts
    /\ heard \in [Source -> 0..MaxDet]

\* Two scanner tasks run only after a start that failed half-way was repeated.
Alone == Cardinality({i \in SvcRun : scan[i] # "off"}) <= 1

\* Wi-Fi and BLE never listen at the same time on the radio they share, while one
\* task drives them.
RadiosTakeTurns == Alone => ~(wifiOn /\ bleOn)

\* After a stop nothing listens and nothing is left in the queue until the next
\* start: no detection of one session is delivered in the next.
StoppedIsSilent == quiet => ~wifiOn /\ ~bleOn /\ detQ = <<>>

\* The tasks asked to stop leave, in whatever phase they are, and the drivers' calls back
\* return: the fixed delay of detection_service_stop waits for something that happens.
TasksLeave == svcStop ~> (~svcStop \/ Idle)

\* The detections that left the sources for the queue: one that is stamped and not
\* queued yet is still on its way.
InFlight(s) == IF s \in Driver THEN cb[s] = "stamped"
               ELSE \E i \in SvcRun : rx[i].at = "stamped"

Offered == [s \in Source |-> heard[s] - IF InFlight(s) THEN 1 ELSE 0]

\* What the decoder may rely on, through every overlap of tasks, stops and starts.
Feed == INSTANCE DetectionFeed WITH
    open <- svcInit, listening <- ~quiet, detQ <- detQ, offered <- Offered

\* detection_service.c is such a feed: every step of its tasks, callbacks and calls
\* is a step of DetectionFeed or none.
ImplementsFeed == Feed!FeedSpec
=============================================================================
