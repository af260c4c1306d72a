-------------------------- MODULE DetectionProofs ---------------------------
(***************************************************************************)
(* What holds of a detection from the air to the registry.                 *)
(*                                                                         *)
(* Of the detection service, for every queue size, every number of starts  *)
(* and every number of detections: it implements the feed the decoder      *)
(* relies on, a stop leaves silence, and one scanner task never lets Wi-Fi *)
(* and BLE listen together.                                                *)
(*                                                                         *)
(* Of the decoder, for every signature file, every transmitter and every   *)
(* damage on the way: the table survives saving, its two searches agree,   *)
(* decoding inverts encoding, and the registry shows what was sent.        *)
(***************************************************************************)
EXTENDS DetectionService, Boot, FiniteSetTheorems, SequenceTheorems, WellFoundedInduction,
        TLAPS

USE DEF SvcRun, Source, Driver

-----------------------------------------------------------------------------
(* The inductive invariant.                                                *)

\* What a call under way, and a started service, imply.
CallsInOrder ==
    /\ svcCall \in {"startScan", "startLora"} =>
          svcInit /\ ~svcStarted /\ ~quiet /\ svcStarts \in SvcRun
    /\ svcCall \in {"stop", "deinit"} => svcStarted
    /\ svcCall = "delete" => svcInit /\ ~svcStarted
    /\ svcStarted => svcInit /\ ~quiet /\ svcStarts \in SvcRun

\* A scanner that listens was put on by a task that is in that phase.
ScannersOwned ==
    /\ wifiOn => \E i \in SvcRun : scan[i] = "wifi"
    /\ bleOn => \E i \in SvcRun : scan[i] = "ble"

\* A start finds its own scanner task not running yet.
FreshStart ==
    /\ \A i \in SvcRun : i > svcStarts => scan[i] = "off"
    /\ svcCall = "startScan" => scan[svcStarts] = "off"

\* After a stop no task is left, and no call back under way.
QuietAlone ==
    quiet => /\ detQ = <<>>
             /\ \A i \in SvcRun : scan[i] = "off"
             /\ \A s \in Driver : cb[s] = "none"

\* A call back that stamped a detection heard one.
CallsHeard == \A s \in Driver : cb[s] = "stamped" => heard[s] >= 1

\* Only the latest start's LoRa task runs, only while the service is started, and the
\* detection it holds is the last one of its source.
OneRx ==
    \A i \in SvcRun :
        /\ rx[i].at # "off" => svcStarted /\ i = svcStarts
        /\ rx[i].at = "stamped" => heard["lora"] >= 1 /\ rx[i].d = <<"lora", heard["lora"]>>

IInv ==
    SvcTypeOK /\ CallsInOrder /\ ScannersOwned /\ FreshStart /\ QuietAlone /\ CallsHeard
    /\ OneRx

SvcNextAll == SvcNext \/ SvcDelete \/ Taken

-----------------------------------------------------------------------------
(* The helpers.                                                            *)

\* A detection that is stamped is the next of its source, within the bound.
LEMMA HearStamps ==
  ASSUME SvcTypeOK, NEW s \in Source, Hear(s)
  PROVE  /\ heard' \in [Source -> 0..MaxDet]
         /\ heard'[s] = heard[s] + 1 /\ heard'[s] \in 1..MaxDet
         /\ \A t \in Source \ {s} : heard'[t] = heard[t]
         /\ <<s, heard'[s]>> \in Detection
<1>1. heard \in [Source -> 0..MaxDet] /\ MaxDet \in Nat
  BY SvcConstants DEF SvcTypeOK
<1>2. heard["wifi"] \in 0..MaxDet /\ heard["ble"] \in 0..MaxDet /\ heard["lora"] \in 0..MaxDet
  BY <1>1
<1>3. heard[s] < MaxDet
  BY <1>1, <1>2 DEF Hear, Total
<1>4. heard' = [heard EXCEPT ![s] = heard[s] + 1] /\ heard[s] + 1 \in 1..MaxDet
  BY <1>1, <1>3 DEF Hear
<1> QED
  BY <1>1, <1>4 DEF Detection

\* Queueing keeps the queue within its capacity.
LEMMA EnqueueFits ==
  ASSUME SvcTypeOK, NEW d \in Detection, Enqueue(d)
  PROVE  detQ' \in Seq(Detection) /\ Len(detQ') <= DetCap
<1>1. DetCap \in Nat /\ detQ \in Seq(Detection) /\ Len(detQ) <= DetCap
  BY SvcConstants DEF SvcTypeOK
<1>2. CASE svcInit /\ Len(detQ) < DetCap
  BY <1>1, <1>2 DEF Enqueue
<1>3. CASE ~(svcInit /\ Len(detQ) < DetCap)
  BY <1>1, <1>3 DEF Enqueue
<1> QED
  BY <1>2, <1>3

\* The stamped detection of a LoRa task is one.
LEMMA StampedIsDetection ==
  ASSUME SvcTypeOK, OneRx, NEW i \in SvcRun, rx[i].at = "stamped"
  PROVE  rx[i].d \in Detection /\ rx[i].d = <<"lora", heard["lora"]>>
<1>1. heard["lora"] \in 0..MaxDet /\ heard["lora"] >= 1
  BY DEF SvcTypeOK, OneRx
<1>2. MaxDet \in Nat /\ heard["lora"] \in 1..MaxDet
  BY <1>1, SvcConstants
<1> QED
  BY <1>2 DEF OneRx, Detection

\* The stamped detection of a call back is one.
LEMMA CalledIsDetection ==
  ASSUME SvcTypeOK, CallsHeard, NEW s \in Driver, cb[s] = "stamped"
  PROVE  <<s, heard[s]>> \in Detection
<1>1. heard[s] \in 0..MaxDet /\ heard[s] >= 1
  BY DEF SvcTypeOK, CallsHeard
<1>2. MaxDet \in Nat /\ heard[s] \in 1..MaxDet
  BY <1>1, SvcConstants
<1> QED
  BY <1>2 DEF Detection

-----------------------------------------------------------------------------
(* Every step keeps every conjunct of the invariant.                       *)

QueueInBounds == detQ \in Seq(Detection) /\ Len(detQ) <= DetCap

\* The queue.
LEMMA QueueTyped == IInv /\ [SvcNextAll]_svcVars => QueueInBounds'
<1> SUFFICES ASSUME IInv, [SvcNextAll]_svcVars PROVE QueueInBounds'
  OBVIOUS
<1> USE SvcConstants DEF IInv
<1>1. CASE UNCHANGED detQ
  BY <1>1 DEF SvcTypeOK, QueueInBounds
<1>2. CASE SvcStopEnd
  <2>1. detQ' = <<>>
    BY <1>2 DEF SvcStopEnd
  <2> QED
    BY <2>1, SvcConstants DEF QueueInBounds
<1>3. CASE SvcDelete
  <2>1. detQ' = <<>>
    BY <1>3 DEF SvcDelete
  <2> QED
    BY <2>1, SvcConstants DEF QueueInBounds
<1>4. ASSUME NEW s \in Driver, FrameQueued(s) PROVE QueueInBounds'
  <2>1. <<s, heard[s]>> \in Detection
    BY <1>4, CalledIsDetection DEF FrameQueued
  <2> QED
    BY <1>4, <2>1, EnqueueFits DEF FrameQueued, QueueInBounds
<1>5. ASSUME NEW i \in SvcRun, RxEnqueue(i) PROVE QueueInBounds'
  BY <1>5, StampedIsDetection, EnqueueFits DEF RxEnqueue, QueueInBounds
<1>6. CASE Taken
  <2>1. detQ # <<>> /\ detQ' = Tail(detQ) /\ detQ \in Seq(Detection) /\ Len(detQ) <= DetCap
    BY <1>6 DEF Taken, Receive, SvcTypeOK
  <2> QED
    BY <2>1, SvcConstants DEF QueueInBounds
<1> QED
  BY <1>1, <1>2, <1>3, <1>4, <1>5, <1>6 DEF SvcNextAll, SvcNext, SvcApi, ScanStep, RxStep, FrameCalled, FrameStamped, FrameReturns, FrameRest,
     SvcInitialise, SvcStartBegin, SvcStartScan, SvcStartLora, SvcStopBegin, WifiPhase,
     WifiPhaseEnds, BlePhase, BlePhaseEnds, ScanExit, RxPacket, RxExit, RxRest, ScanAt,
     ScanGo, ScanRest, svcVars, flags, hal, tasks

\* What was heard.
LEMMA HeardTyped == IInv /\ [SvcNextAll]_svcVars => (heard \in [Source -> 0..MaxDet])'
<1> SUFFICES ASSUME IInv, [SvcNextAll]_svcVars PROVE (heard \in [Source -> 0..MaxDet])'
  OBVIOUS
<1> USE SvcConstants DEF IInv
<1>1. CASE UNCHANGED heard
  BY <1>1 DEF SvcTypeOK
<1>2. ASSUME NEW s \in Driver, FrameStamped(s) PROVE (heard \in [Source -> 0..MaxDet])'
  <2>1. CASE Hear(s)
    BY <2>1, HearStamps
  <2>2. CASE heard' = heard
    BY <2>2 DEF SvcTypeOK
  <2> QED
    BY <1>2, <2>1, <2>2 DEF FrameStamped
<1>3. ASSUME NEW i \in SvcRun, RxPacket(i) PROVE (heard \in [Source -> 0..MaxDet])'
  BY <1>3, HearStamps DEF RxPacket
<1> QED
  BY <1>1, <1>2, <1>3 DEF SvcNextAll, SvcNext, SvcApi, ScanStep, RxStep, FrameCalled, FrameQueued, FrameReturns, FrameRest, SvcInitialise,
     SvcStartBegin, SvcStartScan, SvcStartLora, SvcStopBegin, SvcStopEnd, SvcDelete,
     WifiPhase, WifiPhaseEnds, BlePhase, BlePhaseEnds, ScanExit, RxEnqueue, RxExit, Taken,
     Receive, RxRest, ScanAt, ScanGo, ScanRest, svcVars, flags, hal, tasks

RxRecord == [at : {"off", "loop", "stamped"}, d : Detection \cup {NoDet}]

\* The LoRa tasks.
LEMMA RxTyped == IInv /\ [SvcNextAll]_svcVars => (rx \in [SvcRun -> RxRecord])'
<1> SUFFICES ASSUME IInv, [SvcNextAll]_svcVars PROVE (rx \in [SvcRun -> RxRecord])'
  OBVIOUS
<1> USE SvcConstants DEF IInv
<1>1. CASE UNCHANGED rx
  BY <1>1 DEF SvcTypeOK, RxRecord
<1>2. CASE SvcStartLora
  <2> DEFINE r == [rx[svcStarts] EXCEPT !.at = "loop"]
  <2>1. svcStarts \in SvcRun
    BY <1>2 DEF SvcStartLora, CallsInOrder
  <2>0. rx \in [SvcRun -> RxRecord]
    BY DEF SvcTypeOK, RxRecord
  <2>2. r \in RxRecord
    BY <2>0, <2>1 DEF RxRecord
  <2>3. rx' = [rx EXCEPT ![svcStarts] = r] \/ rx' = rx
    BY <1>2 DEF SvcStartLora
  <2> HIDE DEF r
  <2> QED
    BY <2>0, <2>1, <2>2, <2>3
<1>3. ASSUME NEW i \in SvcRun, RxPacket(i) PROVE (rx \in [SvcRun -> RxRecord])'
  <2> DEFINE r == [at |-> "stamped", d |-> <<"lora", heard'["lora"]>>]
  <2>1. r \in RxRecord
    BY <1>3, HearStamps DEF RxPacket, RxRecord
  <2>2. rx' = [rx EXCEPT ![i] = r] /\ rx \in [SvcRun -> RxRecord]
    BY <1>3 DEF RxPacket, SvcTypeOK, RxRecord
  <2> HIDE DEF r
  <2> QED
    BY <2>1, <2>2
<1>4. ASSUME NEW i \in SvcRun, RxEnqueue(i) PROVE (rx \in [SvcRun -> RxRecord])'
  <2> DEFINE r == [at |-> "loop", d |-> NoDet]
  <2>1. r \in RxRecord
    BY DEF RxRecord
  <2>2. rx' = [rx EXCEPT ![i] = r] /\ rx \in [SvcRun -> RxRecord]
    BY <1>4 DEF RxEnqueue, SvcTypeOK, RxRecord
  <2> HIDE DEF r
  <2> QED
    BY <2>1, <2>2
<1>5. ASSUME NEW i \in SvcRun, RxExit(i) PROVE (rx \in [SvcRun -> RxRecord])'
  <2> DEFINE r == [rx[i] EXCEPT !.at = "off"]
  <2>0. rx \in [SvcRun -> RxRecord]
    BY DEF SvcTypeOK, RxRecord
  <2>1. r \in RxRecord
    BY <2>0 DEF RxRecord
  <2>2. rx' = [rx EXCEPT ![i] = r]
    BY <1>5 DEF RxExit
  <2> HIDE DEF r
  <2> QED
    BY <2>0, <2>1, <2>2
<1> QED
  BY <1>1, <1>2, <1>3, <1>4, <1>5 DEF SvcNextAll, SvcNext, SvcApi, ScanStep, RxStep,
     SvcInitialise, SvcStartBegin, SvcStartScan, SvcStopBegin, SvcStopEnd, SvcDelete,
     FrameCalled, FrameStamped, FrameQueued, FrameReturns, FrameRest, WifiPhase, WifiPhaseEnds, BlePhase, BlePhaseEnds, ScanExit, Taken, Receive,
     ScanAt, ScanGo, ScanRest, svcVars, flags, hal, tasks

\* The scanner tasks.
LEMMA ScanTyped == IInv /\ [SvcNextAll]_svcVars => (scan \in [SvcRun -> ScanPlace])'
<1> SUFFICES ASSUME IInv, [SvcNextAll]_svcVars PROVE (scan \in [SvcRun -> ScanPlace])'
  OBVIOUS
<1> USE SvcConstants DEF IInv
<1>1. CASE UNCHANGED scan
  BY <1>1 DEF SvcTypeOK, ScanPlace
<1>2. CASE SvcStartScan
  BY <1>2 DEF SvcTypeOK, ScanPlace, SvcStartScan, flags, hal, tasks
<1>3. ASSUME NEW i \in SvcRun, WifiPhase(i) PROVE (scan \in [SvcRun -> ScanPlace])'
  BY <1>3 DEF SvcTypeOK, ScanPlace, WifiPhase, ScanRest, ScanAt, ScanGo, flags, hal, tasks
<1>4. ASSUME NEW i \in SvcRun, WifiPhaseEnds(i) PROVE (scan \in [SvcRun -> ScanPlace])'
  BY <1>4 DEF SvcTypeOK, ScanPlace, WifiPhaseEnds, ScanRest, ScanAt, ScanGo, flags, hal,
     tasks
<1>5. ASSUME NEW i \in SvcRun, BlePhase(i) PROVE (scan \in [SvcRun -> ScanPlace])'
  BY <1>5 DEF SvcTypeOK, ScanPlace, BlePhase, ScanRest, ScanAt, ScanGo, flags, hal, tasks
<1>6. ASSUME NEW i \in SvcRun, BlePhaseEnds(i) PROVE (scan \in [SvcRun -> ScanPlace])'
  BY <1>6 DEF SvcTypeOK, ScanPlace, BlePhaseEnds, ScanRest, ScanAt, ScanGo, flags, hal,
     tasks
<1>7. ASSUME NEW i \in SvcRun, ScanExit(i) PROVE (scan \in [SvcRun -> ScanPlace])'
  BY <1>7 DEF SvcTypeOK, ScanPlace, ScanExit, ScanRest, ScanAt, ScanGo, flags, hal, tasks
<1> QED
  BY <1>1, <1>2, <1>3, <1>4, <1>5, <1>6, <1>7 DEF SvcNextAll, SvcNext, SvcApi, ScanStep,
     RxStep, SvcInitialise, SvcStartBegin, SvcStartLora, SvcStopBegin, SvcStopEnd,
     SvcDelete, FrameCalled, FrameStamped, FrameQueued, FrameReturns, FrameRest, RxPacket, RxEnqueue, RxExit, Taken, Receive, RxRest, svcVars,
     flags, hal, tasks

\* The starts.
LEMMA StartsTyped == IInv /\ [SvcNextAll]_svcVars => (svcStarts \in 0..MaxSvcStarts)'
<1> SUFFICES ASSUME IInv, [SvcNextAll]_svcVars PROVE (svcStarts \in 0..MaxSvcStarts)'
  OBVIOUS
<1> USE SvcConstants DEF IInv
<1>1. CASE UNCHANGED svcStarts
  BY <1>1 DEF SvcTypeOK
<1>2. CASE SvcStartBegin
  <2>1. svcStarts \in 0..MaxSvcStarts /\ svcStarts < MaxSvcStarts /\ svcStarts' = svcStarts + 1
    BY <1>2 DEF SvcStartBegin, SvcTypeOK
  <2> QED
    BY <2>1
<1> QED
  BY <1>1, <1>2 DEF SvcNextAll, SvcNext, SvcApi, ScanStep, RxStep, SvcInitialise,
     SvcStartScan, SvcStartLora, SvcStopBegin, SvcStopEnd, SvcDelete, FrameCalled, FrameStamped, FrameQueued, FrameReturns, FrameRest, WifiPhase,
     WifiPhaseEnds, BlePhase, BlePhaseEnds, ScanExit, RxPacket, RxEnqueue, RxExit, Taken,
     Receive, RxRest, ScanAt, ScanGo, ScanRest, svcVars, flags, hal, tasks

\* The flags and the call under way.
FlagsTyped ==
    /\ svcInit \in BOOLEAN /\ svcStarted \in BOOLEAN /\ svcStop \in BOOLEAN
    /\ avail \subseteq Source
    /\ wifiOn \in BOOLEAN /\ bleOn \in BOOLEAN /\ quiet \in BOOLEAN
    /\ svcCall \in {"none", "startScan", "startLora", "stop", "deinit", "delete"}

\* They keep their types.
LEMMA FlagsStayTyped == IInv /\ [SvcNextAll]_svcVars => FlagsTyped'
<1> SUFFICES ASSUME IInv, [SvcNextAll]_svcVars PROVE FlagsTyped'
  OBVIOUS
<1> USE SvcConstants DEF IInv
<1>1. CASE UNCHANGED <<svcInit, svcStarted, svcStop, avail, wifiOn, bleOn, quiet, svcCall>>
  BY <1>1 DEF SvcTypeOK, FlagsTyped
<1>2. CASE SvcInitialise
  BY <1>2 DEF SvcTypeOK, FlagsTyped, SvcInitialise, flags, hal, tasks
<1>3. CASE SvcStartBegin
  BY <1>3 DEF SvcTypeOK, FlagsTyped, SvcStartBegin, flags, hal, tasks
<1>4. CASE SvcStartScan
  BY <1>4 DEF SvcTypeOK, FlagsTyped, SvcStartScan, flags, hal, tasks
<1>5. CASE SvcStartLora
  BY <1>5 DEF SvcTypeOK, FlagsTyped, SvcStartLora, flags, hal, tasks
<1>6. CASE SvcStopBegin
  BY <1>6 DEF SvcTypeOK, FlagsTyped, SvcStopBegin, flags, hal, tasks
<1>7. CASE SvcStopEnd
  BY <1>7 DEF SvcTypeOK, FlagsTyped, SvcStopEnd, StopDelayElapsed, Idle, tasks, hal, flags, hal,
     tasks
<1>8. CASE SvcDelete
  BY <1>8 DEF SvcTypeOK, FlagsTyped, SvcDelete, flags, hal, tasks
<1>9. ASSUME NEW i \in SvcRun, WifiPhase(i) PROVE FlagsTyped'
  BY <1>9 DEF SvcTypeOK, FlagsTyped, WifiPhase, ScanRest, ScanAt, ScanGo, flags, hal,
     tasks
<1>10. ASSUME NEW i \in SvcRun, WifiPhaseEnds(i) PROVE FlagsTyped'
  BY <1>10 DEF SvcTypeOK, FlagsTyped, WifiPhaseEnds, ScanRest, ScanAt, ScanGo, flags, hal,
     tasks
<1>11. ASSUME NEW i \in SvcRun, BlePhase(i) PROVE FlagsTyped'
  BY <1>11 DEF SvcTypeOK, FlagsTyped, BlePhase, ScanRest, ScanAt, ScanGo, flags, hal,
     tasks
<1>12. ASSUME NEW i \in SvcRun, BlePhaseEnds(i) PROVE FlagsTyped'
  BY <1>12 DEF SvcTypeOK, FlagsTyped, BlePhaseEnds, ScanRest, ScanAt, ScanGo, flags, hal,
     tasks
<1>13. ASSUME NEW i \in SvcRun, ScanExit(i) PROVE FlagsTyped'
  BY <1>13 DEF SvcTypeOK, FlagsTyped, ScanExit, ScanRest, ScanAt, ScanGo, flags, hal,
     tasks
<1> QED
  BY <1>1, <1>2, <1>3, <1>4, <1>5, <1>6, <1>7, <1>8, <1>9, <1>10, <1>11, <1>12, <1>13 DEF
     SvcNextAll, SvcNext, SvcApi, ScanStep, RxStep, FrameCalled, FrameStamped, FrameQueued, FrameReturns, FrameRest, RxPacket, RxEnqueue, RxExit,
     Taken, Receive, RxRest, svcVars, flags, hal, tasks

CallPlace == {"none", "called", "stamped"}

\* The calls back.
LEMMA CallsBackTyped == IInv /\ [SvcNextAll]_svcVars => (cb \in [Driver -> CallPlace])'
<1> SUFFICES ASSUME IInv, [SvcNextAll]_svcVars PROVE (cb \in [Driver -> CallPlace])'
  OBVIOUS
<1> USE DEF IInv
<1>1. CASE UNCHANGED cb
  BY <1>1 DEF SvcTypeOK, CallPlace
<1>2. ASSUME NEW s \in Driver, FrameCalled(s) \/ FrameReturns(s)
      PROVE  (cb \in [Driver -> CallPlace])'
  BY <1>2 DEF SvcTypeOK, CallPlace, FrameCalled, FrameReturns, FrameStamped, FrameQueued
<1> QED
  BY <1>1, <1>2 DEF SvcNextAll, SvcNext, SvcApi, ScanStep, RxStep, SvcInitialise,
     SvcStartBegin, SvcStartScan, SvcStartLora, SvcStopBegin, SvcStopEnd, SvcDelete,
     WifiPhase, WifiPhaseEnds, BlePhase, BlePhaseEnds, ScanExit, RxPacket, RxEnqueue,
     RxExit, Taken, Receive, RxRest, ScanAt, ScanGo, ScanRest, svcVars, flags, hal, tasks

\* All together.
LEMMA TypesKept == IInv /\ [SvcNextAll]_svcVars => SvcTypeOK'
  BY QueueTyped, HeardTyped, RxTyped, ScanTyped, StartsTyped, FlagsStayTyped,
     CallsBackTyped DEF SvcTypeOK, FlagsTyped, RxRecord, CallPlace, QueueInBounds

\* The order of the calls.
LEMMA CallsKept == IInv /\ [SvcNextAll]_svcVars => CallsInOrder'
<1> SUFFICES ASSUME IInv, [SvcNextAll]_svcVars PROVE CallsInOrder'
  OBVIOUS
<1> USE SvcConstants DEF IInv
<1>1. CASE UNCHANGED <<svcCall, svcInit, svcStarted, quiet, svcStarts>>
  BY <1>1 DEF CallsInOrder, SvcTypeOK, ScanPlace
<1>2. CASE SvcInitialise
  BY <1>2 DEF CallsInOrder, SvcTypeOK, ScanPlace, SvcInitialise, flags, hal, tasks
<1>3. CASE SvcStartBegin
  BY <1>3 DEF CallsInOrder, SvcTypeOK, ScanPlace, SvcStartBegin, flags, hal, tasks
<1>4. CASE SvcStartScan
  BY <1>4 DEF CallsInOrder, SvcTypeOK, ScanPlace, SvcStartScan, flags, hal, tasks
<1>5. CASE SvcStartLora
  BY <1>5 DEF CallsInOrder, SvcTypeOK, ScanPlace, SvcStartLora, flags, hal, tasks
<1>6. CASE SvcStopBegin
  BY <1>6 DEF CallsInOrder, SvcTypeOK, ScanPlace, SvcStopBegin, flags, hal, tasks
<1>7. CASE SvcStopEnd
  BY <1>7 DEF CallsInOrder, SvcTypeOK, ScanPlace, SvcStopEnd, StopDelayElapsed, Idle, tasks,
     hal, flags, hal, tasks
<1>8. CASE SvcDelete
  BY <1>8 DEF CallsInOrder, SvcTypeOK, ScanPlace, SvcDelete, flags, hal, tasks
<1> QED
  BY <1>1, <1>2, <1>3, <1>4, <1>5, <1>6, <1>7, <1>8 DEF SvcNextAll, SvcNext, SvcApi,
     ScanStep, RxStep, FrameCalled, FrameStamped, FrameQueued, FrameReturns, FrameRest, WifiPhase, WifiPhaseEnds, BlePhase, BlePhaseEnds, ScanExit,
     RxPacket, RxEnqueue, RxExit, Taken, Receive, RxRest, ScanAt, ScanGo, ScanRest,
     svcVars, flags, hal, tasks

\* A scanner is put on and off by its own task, or off by a leaving one.
LEMMA ScannersKept == IInv /\ [SvcNextAll]_svcVars => ScannersOwned'
<1> SUFFICES ASSUME IInv, [SvcNextAll]_svcVars PROVE ScannersOwned'
  OBVIOUS
<1> USE SvcConstants DEF IInv
<1>1. CASE UNCHANGED <<wifiOn, bleOn, scan>>
  BY <1>1 DEF ScannersOwned, FreshStart, CallsInOrder, SvcTypeOK, ScanPlace
<1>2. CASE SvcStartScan
  BY <1>2 DEF ScannersOwned, FreshStart, CallsInOrder, SvcTypeOK, ScanPlace, SvcStartScan,
     flags, hal, tasks
<1>3. ASSUME NEW i \in SvcRun, WifiPhase(i) PROVE ScannersOwned'
  BY <1>3 DEF ScannersOwned, SvcTypeOK, WifiPhase, ScanAt, ScanGo
<1>4. ASSUME NEW i \in SvcRun, WifiPhaseEnds(i) PROVE ScannersOwned'
  BY <1>4 DEF ScannersOwned, SvcTypeOK, WifiPhaseEnds, ScanAt, ScanGo
<1>5. ASSUME NEW i \in SvcRun, BlePhase(i) PROVE ScannersOwned'
  BY <1>5 DEF ScannersOwned, SvcTypeOK, BlePhase, ScanAt, ScanGo
<1>6. ASSUME NEW i \in SvcRun, BlePhaseEnds(i) PROVE ScannersOwned'
  BY <1>6 DEF ScannersOwned, SvcTypeOK, BlePhaseEnds, ScanAt, ScanGo
<1>7. ASSUME NEW i \in SvcRun, ScanExit(i) PROVE ScannersOwned'
  BY <1>7 DEF ScannersOwned, SvcTypeOK, ScanExit, ScanAt, ScanGo
<1> QED
  BY <1>1, <1>2, <1>3, <1>4, <1>5, <1>6, <1>7 DEF SvcNextAll, SvcNext, SvcApi, ScanStep,
     RxStep, SvcInitialise, SvcStartBegin, SvcStartLora, SvcStopBegin, SvcStopEnd,
     SvcDelete, FrameCalled, FrameStamped, FrameQueued, FrameReturns, FrameRest, RxPacket, RxEnqueue, RxExit, Taken, Receive, RxRest, svcVars,
     flags, hal, tasks

\* Tasks are created by the start they belong to.
LEMMA FreshKept == IInv /\ [SvcNextAll]_svcVars => FreshStart'
<1> SUFFICES ASSUME IInv, [SvcNextAll]_svcVars PROVE FreshStart'
  OBVIOUS
<1> USE SvcConstants DEF IInv
<1>1. CASE UNCHANGED <<svcStarts, svcCall, scan>>
  BY <1>1 DEF FreshStart, CallsInOrder, SvcTypeOK, ScanPlace
<1>2. CASE SvcStartBegin
  BY <1>2 DEF FreshStart, CallsInOrder, SvcTypeOK, ScanPlace, SvcStartBegin, flags, hal,
     tasks
<1>3. CASE SvcStartScan
  BY <1>3 DEF FreshStart, CallsInOrder, SvcTypeOK, ScanPlace, SvcStartScan, flags, hal,
     tasks
<1>4. CASE SvcStartLora
  BY <1>4 DEF FreshStart, CallsInOrder, SvcTypeOK, ScanPlace, SvcStartLora, flags, hal,
     tasks
<1>5. CASE SvcStopBegin
  BY <1>5 DEF FreshStart, CallsInOrder, SvcTypeOK, ScanPlace, SvcStopBegin, flags, hal,
     tasks
<1>6. CASE SvcStopEnd
  BY <1>6 DEF FreshStart, CallsInOrder, SvcTypeOK, ScanPlace, SvcStopEnd,
     StopDelayElapsed, Idle, tasks, hal, flags, hal, tasks
<1>7. CASE SvcDelete
  BY <1>7 DEF FreshStart, CallsInOrder, SvcTypeOK, ScanPlace, SvcDelete, flags, hal, tasks
<1>8. ASSUME NEW i \in SvcRun, WifiPhase(i) PROVE FreshStart'
  BY <1>8 DEF FreshStart, CallsInOrder, SvcTypeOK, ScanPlace, WifiPhase, ScanRest, ScanAt,
     ScanGo, flags, hal, tasks
<1>9. ASSUME NEW i \in SvcRun, WifiPhaseEnds(i) PROVE FreshStart'
  BY <1>9 DEF FreshStart, CallsInOrder, SvcTypeOK, ScanPlace, WifiPhaseEnds, ScanRest,
     ScanAt, ScanGo, flags, hal, tasks
<1>10. ASSUME NEW i \in SvcRun, BlePhase(i) PROVE FreshStart'
  BY <1>10 DEF FreshStart, CallsInOrder, SvcTypeOK, ScanPlace, BlePhase, ScanRest, ScanAt,
     ScanGo, flags, hal, tasks
<1>11. ASSUME NEW i \in SvcRun, BlePhaseEnds(i) PROVE FreshStart'
  BY <1>11 DEF FreshStart, CallsInOrder, SvcTypeOK, ScanPlace, BlePhaseEnds, ScanRest,
     ScanAt, ScanGo, flags, hal, tasks
<1>12. ASSUME NEW i \in SvcRun, ScanExit(i) PROVE FreshStart'
  BY <1>12 DEF FreshStart, CallsInOrder, SvcTypeOK, ScanPlace, ScanExit, ScanRest, ScanAt,
     ScanGo, flags, hal, tasks
<1> QED
  BY <1>1, <1>2, <1>3, <1>4, <1>5, <1>6, <1>7, <1>8, <1>9, <1>10, <1>11, <1>12 DEF
     SvcNextAll, SvcNext, SvcApi, ScanStep, RxStep, SvcInitialise, FrameCalled, FrameStamped, FrameQueued, FrameReturns, FrameRest, RxPacket,
     RxEnqueue, RxExit, Taken, Receive, RxRest, svcVars, flags, hal, tasks

\* Silence lasts until the next start.
LEMMA QuietKept == IInv /\ [SvcNextAll]_svcVars => QuietAlone'
<1> SUFFICES ASSUME IInv, [SvcNextAll]_svcVars PROVE QuietAlone'
  OBVIOUS
<1> USE SvcConstants DEF IInv
<1>1. CASE UNCHANGED <<quiet, detQ, scan, cb>>
  BY <1>1 DEF QuietAlone, ScannersOwned, OneRx, CallsInOrder, SvcTypeOK, ScanPlace
<1>2. CASE SvcStartBegin
  BY <1>2 DEF QuietAlone, ScannersOwned, OneRx, CallsInOrder, SvcTypeOK, ScanPlace,
     SvcStartBegin, flags, hal, tasks
<1>3. CASE SvcStartScan
  BY <1>3 DEF QuietAlone, ScannersOwned, OneRx, CallsInOrder, SvcTypeOK, ScanPlace,
     SvcStartScan, flags, hal, tasks
<1>4. CASE SvcStopEnd
  BY <1>4 DEF QuietAlone, ScannersOwned, OneRx, CallsInOrder, SvcTypeOK, ScanPlace,
     SvcStopEnd, StopDelayElapsed, Idle, tasks, hal, flags, hal, tasks
<1>5. CASE SvcDelete
  BY <1>5 DEF QuietAlone, ScannersOwned, OneRx, CallsInOrder, SvcTypeOK, ScanPlace,
     SvcDelete, flags, hal, tasks
<1>6. ASSUME NEW s \in Driver, FrameCalled(s) PROVE QuietAlone'
  BY <1>6 DEF QuietAlone, ScannersOwned, FrameCalled, FrameRest
<1>14. ASSUME NEW s \in Driver, FrameReturns(s) PROVE QuietAlone'
  BY <1>14 DEF QuietAlone, FrameReturns, FrameStamped, FrameQueued, FrameRest
<1>7. ASSUME NEW i \in SvcRun, WifiPhase(i) PROVE QuietAlone'
  BY <1>7 DEF QuietAlone, ScannersOwned, OneRx, CallsInOrder, SvcTypeOK, ScanPlace,
     WifiPhase, ScanRest, ScanAt, ScanGo, flags, hal, tasks
<1>8. ASSUME NEW i \in SvcRun, WifiPhaseEnds(i) PROVE QuietAlone'
  BY <1>8 DEF QuietAlone, ScannersOwned, OneRx, CallsInOrder, SvcTypeOK, ScanPlace,
     WifiPhaseEnds, ScanRest, ScanAt, ScanGo, flags, hal, tasks
<1>9. ASSUME NEW i \in SvcRun, BlePhase(i) PROVE QuietAlone'
  BY <1>9 DEF QuietAlone, ScannersOwned, OneRx, CallsInOrder, SvcTypeOK, ScanPlace,
     BlePhase, ScanRest, ScanAt, ScanGo, flags, hal, tasks
<1>10. ASSUME NEW i \in SvcRun, BlePhaseEnds(i) PROVE QuietAlone'
  BY <1>10 DEF QuietAlone, ScannersOwned, OneRx, CallsInOrder, SvcTypeOK, ScanPlace,
     BlePhaseEnds, ScanRest, ScanAt, ScanGo, flags, hal, tasks
<1>11. ASSUME NEW i \in SvcRun, ScanExit(i) PROVE QuietAlone'
  BY <1>11 DEF QuietAlone, ScannersOwned, OneRx, CallsInOrder, SvcTypeOK, ScanPlace,
     ScanExit, ScanRest, ScanAt, ScanGo, flags, hal, tasks
<1>12. ASSUME NEW i \in SvcRun, RxEnqueue(i) PROVE QuietAlone'
  BY <1>12 DEF QuietAlone, ScannersOwned, OneRx, CallsInOrder, SvcTypeOK, ScanPlace,
     RxEnqueue, Enqueue, RxRest, flags, hal, tasks
<1>13. CASE Taken
  BY <1>13 DEF QuietAlone, ScannersOwned, OneRx, CallsInOrder, SvcTypeOK, ScanPlace,
     Taken, Receive, flags, hal, tasks
<1> QED
  BY <1>1, <1>2, <1>3, <1>4, <1>5, <1>6, <1>7, <1>8, <1>9, <1>10, <1>11, <1>12, <1>13, <1>14
     DEF SvcNextAll, SvcNext, SvcApi, ScanStep, RxStep, SvcInitialise, SvcStartLora,
     SvcStopBegin, RxPacket, RxExit, RxRest, svcVars, flags, hal, tasks

\* One LoRa task, holding the latest detection.
LEMMA RxKept == IInv /\ [SvcNextAll]_svcVars => OneRx'
<1> SUFFICES ASSUME IInv, [SvcNextAll]_svcVars PROVE OneRx'
  OBVIOUS
<1> USE SvcConstants DEF IInv
<1>1. CASE UNCHANGED <<rx, svcStarted, svcStarts, heard>>
  BY <1>1 DEF OneRx, CallsInOrder, SvcTypeOK, ScanPlace
<1>2. CASE SvcStartBegin
  BY <1>2 DEF OneRx, CallsInOrder, SvcTypeOK, ScanPlace, SvcStartBegin, flags, hal, tasks
<1>3. CASE SvcStartLora
  <2>1. /\ svcStarts' = svcStarts /\ ~svcStarted
        /\ rx' = rx \/ (svcStarted' = TRUE /\ rx' = [rx EXCEPT ![svcStarts].at = "loop"])
    BY <1>3 DEF SvcStartLora, CallsInOrder
  <2>2. rx \in [SvcRun -> RxRecord] /\ \A i \in SvcRun : rx[i].at = "off"
    BY <2>1 DEF OneRx, SvcTypeOK, RxRecord
  <2>3. CASE rx' = rx
    BY <2>2, <2>3 DEF OneRx
  <2>4. CASE svcStarted' = TRUE /\ rx' = [rx EXCEPT ![svcStarts].at = "loop"]
    <3>1. ASSUME NEW i \in SvcRun
          PROVE  /\ rx'[i].at # "stamped"
                 /\ rx'[i].at # "off" => i = svcStarts
      BY <2>2, <2>4 DEF RxRecord
    <3> QED
      BY <2>1, <2>4, <3>1 DEF OneRx
  <2> QED
    BY <2>1, <2>3, <2>4
<1>4. CASE SvcStopEnd
  <2>1. rx' = rx
    BY <1>4 DEF SvcStopEnd, tasks
  <2>2. \A i \in SvcRun : rx'[i].at = "off"
    BY <1>4, <2>1, Zenon DEF SvcStopEnd, StopDelayElapsed, Idle
  <2> QED
    BY <2>2 DEF OneRx
<1>5. ASSUME NEW s \in Driver, FrameStamped(s) PROVE OneRx'
  <2>1. UNCHANGED <<rx, svcStarted, svcStarts>>
    BY <1>5 DEF FrameStamped, FrameRest, flags, tasks
  <2>2. heard'["lora"] = heard["lora"]
    <3>1. CASE Hear(s)
      BY <3>1, HearStamps
    <3> QED
      BY <1>5, <3>1 DEF FrameStamped
  <2> QED
    BY <2>1, <2>2 DEF OneRx
<1>6. ASSUME NEW i \in SvcRun, RxPacket(i) PROVE OneRx'
  <2> DEFINE r == [at |-> "stamped", d |-> <<"lora", heard'["lora"]>>]
  <2>1. heard'["lora"] >= 1 /\ UNCHANGED <<svcStarted, svcStarts>>
    BY <1>6, HearStamps DEF RxPacket, RxRest, flags
  <2>2. i = svcStarts /\ svcStarted
    BY <1>6 DEF RxPacket, OneRx
  <2>3. \A j \in SvcRun : rx[j].at # "off" => j = i
    BY <2>2 DEF OneRx
  <2>4. rx' = [rx EXCEPT ![i] = r] /\ rx \in [SvcRun -> RxRecord]
    BY <1>6 DEF RxPacket, SvcTypeOK, RxRecord
  <2>5. r.at = "stamped" /\ r.d = <<"lora", heard'["lora"]>>
    OBVIOUS
  <2> HIDE DEF r
  <2>6. ASSUME NEW j \in SvcRun, rx'[j].at # "off" PROVE rx'[j] = r /\ j = i
    BY <2>3, <2>4, <2>6 DEF RxRecord
  <2> QED
    BY <2>1, <2>2, <2>5, <2>6 DEF OneRx
<1>7. ASSUME NEW i \in SvcRun, RxEnqueue(i) PROVE OneRx'
  BY <1>7 DEF OneRx, CallsInOrder, SvcTypeOK, ScanPlace, RxEnqueue, Enqueue, RxRest,
     flags, hal, tasks
<1>8. ASSUME NEW i \in SvcRun, RxExit(i) PROVE OneRx'
  BY <1>8 DEF OneRx, CallsInOrder, SvcTypeOK, ScanPlace, RxExit, RxRest, flags, hal, tasks
<1> QED
  BY <1>1, <1>2, <1>3, <1>4, <1>5, <1>6, <1>7, <1>8 DEF SvcNextAll, SvcNext, SvcApi,
     ScanStep, RxStep, FrameCalled, FrameQueued, FrameReturns, FrameRest, SvcInitialise, SvcStartScan, SvcStopBegin, SvcDelete, WifiPhase,
     WifiPhaseEnds, BlePhase, BlePhaseEnds, ScanExit, Taken, Receive, ScanAt, ScanGo,
     ScanRest, svcVars, flags, hal, tasks

\* A call back stamps what it heard.
LEMMA CallsHeardKept == IInv /\ [SvcNextAll]_svcVars => CallsHeard'
<1> SUFFICES ASSUME IInv, [SvcNextAll]_svcVars PROVE CallsHeard'
  OBVIOUS
<1> USE SvcConstants DEF IInv
<1>1. CASE UNCHANGED <<cb, heard>>
  BY <1>1 DEF CallsHeard
<1>2. ASSUME NEW s \in Driver, FrameCalled(s) PROVE CallsHeard'
  BY <1>2 DEF CallsHeard, FrameCalled, SvcTypeOK
<1>3. ASSUME NEW s \in Driver, FrameStamped(s) PROVE CallsHeard'
  <2>1. CASE svcStop /\ heard' = heard /\ cb' = [cb EXCEPT ![s] = "none"]
    BY <2>1 DEF CallsHeard, SvcTypeOK
  <2>2. CASE Hear(s) /\ cb' = [cb EXCEPT ![s] = "stamped"]
    <3>1. heard'[s] \in 1..MaxDet /\ \A t \in Source \ {s} : heard'[t] = heard[t]
      BY <2>2, HearStamps
    <3>2. heard'[s] >= 1
      BY <3>1
    <3>3. \A t \in Driver \ {s} : cb'[t] = cb[t] /\ heard'[t] = heard[t]
      BY <2>2, <3>1 DEF SvcTypeOK
    <3> QED
      BY <3>2, <3>3 DEF CallsHeard
  <2> QED
    BY <1>3, <2>1, <2>2 DEF FrameStamped
<1>4. ASSUME NEW s \in Driver, FrameQueued(s) PROVE CallsHeard'
  BY <1>4 DEF CallsHeard, FrameQueued, SvcTypeOK
<1>5. ASSUME NEW i \in SvcRun, RxPacket(i) PROVE CallsHeard'
  <2>1. cb' = cb
    BY <1>5 DEF RxPacket, RxRest, hal
  <2>2. \A t \in Driver : heard'[t] = heard[t]
    BY <1>5, HearStamps DEF RxPacket
  <2> QED
    BY <2>1, <2>2 DEF CallsHeard
<1> QED
  BY <1>1, <1>2, <1>3, <1>4, <1>5 DEF SvcNextAll, SvcNext, SvcApi, ScanStep, RxStep,
     FrameReturns, SvcInitialise, SvcStartBegin, SvcStartScan, SvcStartLora, SvcStopBegin,
     SvcStopEnd, SvcDelete, WifiPhase, WifiPhaseEnds, BlePhase, BlePhaseEnds, ScanExit,
     RxEnqueue, RxExit, Taken, Receive, RxRest, ScanAt, ScanGo, ScanRest, svcVars, flags,
     hal, tasks

-----------------------------------------------------------------------------
(* The theorems.                                                           *)

LEMMA InitInv == SvcInitState => IInv
<1> SUFFICES ASSUME SvcInitState PROVE IInv
  OBVIOUS
<1> USE SvcConstants DEF SvcInitState
<1>1. detQ \in Seq(Detection) /\ Len(detQ) <= DetCap
  OBVIOUS
<1>2. rx \in [SvcRun -> RxRecord]
  BY DEF RxRecord
<1>3. scan \in [SvcRun -> ScanPlace]
  BY DEF ScanPlace
<1>4. heard \in [Source -> 0..MaxDet] /\ svcStarts \in 0..MaxSvcStarts
  OBVIOUS
<1>5. SvcTypeOK
  BY <1>1, <1>2, <1>3, <1>4 DEF SvcTypeOK, RxRecord
<1>6. CallsInOrder /\ ScannersOwned /\ FreshStart /\ QuietAlone /\ CallsHeard
  BY DEF CallsInOrder, ScannersOwned, FreshStart, QuietAlone, CallsHeard
<1>7. OneRx
  BY DEF OneRx
<1> QED
  BY <1>5, <1>6, <1>7 DEF IInv

\* The invariant holds in every state: IInv is inductive.
THEOREM Invariance == SvcSpec => []IInv
<1>1. SvcInitState => IInv
  BY InitInv
<1>2. IInv /\ [SvcNextAll]_svcVars => IInv'
  BY TypesKept, CallsKept, ScannersKept, FreshKept, QuietKept, CallsHeardKept, RxKept DEF IInv
<1> QED
  BY <1>1, <1>2, PTL DEF SvcSpec, SvcNextAll

\* Every variable of the service keeps its type, and the queue its capacity.
THEOREM TypeCorrect == SvcSpec => []SvcTypeOK
<1>1. IInv => SvcTypeOK
  BY DEF IInv
<1> QED
  BY <1>1, Invariance, PTL

\* After detection_service_stop nothing listens and the queue stays empty until the
\* service is started again, for every interleaving of its tasks and starts.
THEOREM SilentWhenStopped == SvcSpec => []StoppedIsSilent
<1>1. IInv => StoppedIsSilent
  BY DEF IInv, StoppedIsSilent, ScannersOwned, QuietAlone
<1> QED
  BY <1>1, Invariance, PTL

\* Two tasks that are running are two.
LEMMA TwoRunning ==
  ASSUME NEW i \in SvcRun, NEW j \in SvcRun, i # j, scan[i] # "off", scan[j] # "off",
         MaxSvcStarts \in Nat
  PROVE  ~Alone
<1> DEFINE S == {k \in SvcRun : scan[k] # "off"}
<1>1. IsFiniteSet(SvcRun)
  BY FS_Interval
<1>2. IsFiniteSet(S) /\ {i, j} \subseteq S
  BY <1>1, FS_Subset
<1>3. Cardinality({i, j}) = 2
  <2>1. {i, j} = {i} \cup {j}
    OBVIOUS
  <2>2. IsFiniteSet({i}) /\ Cardinality({i}) = 1 /\ j \notin {i}
    BY FS_Singleton
  <2>3. Cardinality({i} \cup {j}) = Cardinality({i}) + 1
    BY <2>2, FS_AddElement
  <2> QED
    BY <2>1, <2>2, <2>3
<1>4. Cardinality({i, j}) <= Cardinality(S) /\ Cardinality(S) \in Nat
  BY <1>2, FS_Subset, FS_CardinalityType
<1> QED
  BY <1>3, <1>4 DEF Alone

\* With one scanner task Wi-Fi and BLE never listen at the same time.
THEOREM TurnsTaken == SvcSpec => []RadiosTakeTurns
<1>1. ASSUME IInv, Alone, wifiOn, bleOn PROVE FALSE
  <2>1. PICK i \in SvcRun : scan[i] = "wifi"
    BY <1>1 DEF IInv, ScannersOwned
  <2>2. PICK j \in SvcRun : scan[j] = "ble"
    BY <1>1 DEF IInv, ScannersOwned
  <2>3. MaxSvcStarts \in Nat
    BY SvcConstants
  <2> QED
    BY <1>1, <2>1, <2>2, <2>3, TwoRunning
<1>2. IInv => RadiosTakeTurns
  BY <1>1 DEF RadiosTakeTurns
<1> QED
  BY <1>2, Invariance, PTL

-----------------------------------------------------------------------------
(* The service implements the feed.                                        *)

\* The initial state maps to the feed's.
LEMMA FeedInitMaps == SvcInitState => Feed!FeedInit
<1> SUFFICES ASSUME SvcInitState PROVE Feed!FeedInit
  OBVIOUS
<1>1. \A i \in SvcRun : rx[i].at = "off"
  BY DEF SvcInitState
<1>2. \A s \in Source : ~InFlight(s)
  <2>1. cb = [s \in Driver |-> "none"]
    BY DEF SvcInitState
  <2>2. \A s \in Driver : cb[s] # "stamped"
    BY <2>1
  <2>3. ~ \E i \in SvcRun : rx[i].at = "stamped"
    BY <1>1
  <2> QED
    BY <2>2, <2>3, Zenon DEF InFlight
<1>3. heard = [s \in Source |-> 0]
  BY DEF SvcInitState
<1>4. Offered = [s \in Source |-> 0]
  <2>1. \A s \in Source : heard[s] - (IF InFlight(s) THEN 1 ELSE 0) = 0
    BY <1>2, <1>3
  <2> QED
    BY <2>1, Zenon DEF Offered
<1> QED
  BY <1>4 DEF Feed!FeedInit, SvcInitState

\* A packet that is stamped and not queued: whether there is one.
Stamped == \E i \in SvcRun : rx[i].at = "stamped"

\* The sources with a detection on its way to the queue.
OnTheWay == {s \in Source : InFlight(s)}

LEMMA OnTheWayIs ==
  /\ OnTheWay = {s \in Driver : cb[s] = "stamped"} \cup (IF Stamped THEN {"lora"} ELSE {})
  /\ OnTheWay' = {s \in Driver : cb'[s] = "stamped"} \cup (IF Stamped' THEN {"lora"} ELSE {})
  BY DEF OnTheWay, InFlight, Stamped

\* What was offered, source by source.
LEMMA OfferedOf ==
  /\ Offered = [s \in Source |-> heard[s] - (IF s \in OnTheWay THEN 1 ELSE 0)]
  /\ Offered' = [s \in Source |-> heard'[s] - (IF s \in OnTheWay' THEN 1 ELSE 0)]
  BY DEF Offered, OnTheWay

\* A step that hears nothing and stamps or queues nothing offers nothing.
LEMMA OfferedSame ==
  ASSUME heard' = heard, cb' = cb, Stamped' = Stamped PROVE Offered' = Offered
<1>1. OnTheWay' = OnTheWay
  BY OnTheWayIs
<1> QED
  BY <1>1, OfferedOf

\* A detection on its way is offered when it is queued and no longer on its way.
LEMMA QueueingOffers ==
  ASSUME IInv, NEW s \in Source, s \in OnTheWay, OnTheWay' = OnTheWay \ {s},
         heard[s] >= 1, heard' = heard, ~quiet, UNCHANGED <<svcInit, quiet>>,
         Enqueue(<<s, heard[s]>>)
  PROVE  Feed!Offer(s)
<1>1. heard \in [Source -> 0..MaxDet] /\ MaxDet \in Nat
  BY SvcConstants DEF IInv, SvcTypeOK
<1>2. /\ Offered[s] = heard[s] - 1 /\ Offered'[s] = heard[s]
      /\ \A t \in Source \ {s} : Offered'[t] = Offered[t]
  BY <1>1, OfferedOf
<1>3. Offered[s] < MaxDet /\ Offered'[s] = Offered[s] + 1
  BY <1>1, <1>2
<1>4. Offered' = [Offered EXCEPT ![s] = @ + 1]
  BY <1>2, <1>3 DEF Offered
<1>5. detQ' = IF svcInit /\ Len(detQ) < DetCap THEN Append(detQ, <<s, Offered'[s]>>) ELSE detQ
  BY <1>2 DEF Enqueue
<1> QED
  BY <1>3, <1>4, <1>5 DEF Feed!Offer

\* A detection that is stamped is heard and on its way: nothing is offered.
LEMMA StampingOffersNothing ==
  ASSUME IInv, NEW s \in Source, s \notin OnTheWay, OnTheWay' = OnTheWay \cup {s}, Hear(s)
  PROVE  Offered' = Offered
<1>1. /\ heard \in [Source -> 0..MaxDet] /\ heard'[s] = heard[s] + 1
      /\ \A t \in Source \ {s} : heard'[t] = heard[t]
  BY HearStamps DEF IInv, SvcTypeOK
<1>2. \A t \in Source : Offered'[t] = Offered[t]
  <2>1. Offered'[s] = heard[s] + 1 - 1 /\ Offered[s] = heard[s] - 0
    BY <1>1, OfferedOf
  <2>2. \A t \in Source \ {s} : Offered'[t] = Offered[t]
    BY <1>1, OfferedOf
  <2>3. heard[s] \in Int
    BY <1>1, SvcConstants
  <2> QED
    BY <2>1, <2>2, <2>3
<1> QED
  BY <1>2 DEF Offered

\* A frame of Wi-Fi or BLE, or a packet's way into the queue, is an Offer.
LEMMA FrameOffers ==
  ASSUME IInv, NEW s \in Driver, FrameQueued(s) PROVE Feed!Offer(s)
<1>1. ~quiet /\ heard[s] >= 1
  BY DEF FrameQueued, IInv, QuietAlone, CallsHeard
<1>2. s \in OnTheWay /\ OnTheWay' = OnTheWay \ {s}
  <2>1. Stamped' = Stamped
    BY DEF FrameQueued, FrameRest, tasks, Stamped
  <2>2. cb[s] = "stamped" /\ cb' = [cb EXCEPT ![s] = "none"]
        /\ cb \in [Driver -> CallPlace]
    BY DEF FrameQueued, IInv, SvcTypeOK, CallPlace
  <2>3. {t \in Driver : cb'[t] = "stamped"} = {t \in Driver : cb[t] = "stamped"} \ {s}
    BY <2>2
  <2> QED
    BY <2>1, <2>2, <2>3, OnTheWayIs
<1>3. heard' = heard /\ UNCHANGED <<svcInit, quiet>> /\ Enqueue(<<s, heard[s]>>)
  BY DEF FrameQueued, FrameRest, flags
<1> QED
  BY <1>1, <1>2, <1>3, QueueingOffers

LEMMA PacketOffers ==
  ASSUME IInv, NEW i \in SvcRun, RxEnqueue(i) PROVE Feed!Offer("lora")
<1>1. ~quiet /\ svcStarted /\ i = svcStarts
  BY DEF RxEnqueue, IInv, OneRx, CallsInOrder
<1>2. heard["lora"] >= 1 /\ rx[i].d = <<"lora", heard["lora"]>>
  BY DEF RxEnqueue, IInv, OneRx
<1>3. heard' = heard /\ cb' = cb /\ UNCHANGED <<svcInit, quiet>> /\ Enqueue(rx[i].d)
  BY DEF RxEnqueue, RxRest, flags, hal
<1>4. Stamped
  BY DEF RxEnqueue, Stamped
<1>5. ~Stamped'
  <2>1. \A j \in SvcRun : j # i => rx[j].at = "off"
    BY <1>1 DEF IInv, OneRx
  <2>2. rx' = [rx EXCEPT ![i] = [at |-> "loop", d |-> NoDet]] /\ rx \in [SvcRun -> RxRecord]
    BY DEF RxEnqueue, IInv, SvcTypeOK, RxRecord
  <2>3. \A j \in SvcRun : rx'[j].at # "stamped"
    BY <2>1, <2>2
  <2> QED
    BY <2>3 DEF Stamped
<1>6. "lora" \in OnTheWay /\ OnTheWay' = OnTheWay \ {"lora"}
  BY <1>3, <1>4, <1>5, OnTheWayIs
<1> QED
  BY <1>1, <1>2, <1>3, <1>6, QueueingOffers

\* A packet or a frame that is stamped is offered only when it is queued.
LEMMA StampingStutters ==
  ASSUME IInv, NEW i \in SvcRun, RxPacket(i) PROVE UNCHANGED <<svcInit, quiet, detQ, Offered>>
<1>1. ~Stamped
  BY DEF RxPacket, IInv, OneRx, Stamped
<1>2. Stamped'
  <2>1. rx \in [SvcRun -> RxRecord]
    BY DEF IInv, SvcTypeOK, RxRecord
  <2>2. rx'[i].at = "stamped"
    BY <2>1 DEF RxPacket
  <2> QED
    BY <2>2 DEF Stamped
<1>3. cb' = cb
  BY DEF RxPacket, RxRest, hal
<1>4. "lora" \notin OnTheWay /\ OnTheWay' = OnTheWay \cup {"lora"}
  BY <1>1, <1>2, <1>3, OnTheWayIs
<1>5. Offered' = Offered
  BY <1>4, StampingOffersNothing DEF RxPacket
<1> QED
  BY <1>5 DEF RxPacket, RxRest, flags

LEMMA CallsStutter ==
  ASSUME IInv, NEW s \in Driver, FrameCalled(s) \/ FrameStamped(s)
  PROVE  UNCHANGED <<svcInit, quiet, detQ, Offered>>
<1>1. Stamped' = Stamped /\ UNCHANGED <<svcInit, quiet, detQ>>
  BY DEF FrameCalled, FrameStamped, FrameRest, flags, tasks, Stamped
<1>2. cb \in [Driver -> CallPlace] /\ cb[s] # "stamped"
  BY DEF IInv, SvcTypeOK, CallPlace, FrameCalled, FrameStamped
<1>3. s \notin OnTheWay
  BY <1>2, OnTheWayIs
<1>4. CASE heard' = heard /\ \E to \in {"called", "none"} : cb' = [cb EXCEPT ![s] = to]
  <2>1. {t \in Driver : cb'[t] = "stamped"} = {t \in Driver : cb[t] = "stamped"}
    BY <1>2, <1>4
  <2>2. OnTheWay' = OnTheWay
    BY <1>1, <2>1, OnTheWayIs
  <2>3. Offered' = Offered
    BY <1>4, <2>2, OfferedOf
  <2> QED
    BY <1>1, <2>3
<1>5. CASE Hear(s) /\ cb' = [cb EXCEPT ![s] = "stamped"]
  <2>1. {t \in Driver : cb'[t] = "stamped"} = {t \in Driver : cb[t] = "stamped"} \cup {s}
    BY <1>2, <1>5
  <2>2. OnTheWay' = OnTheWay \cup {s}
    BY <1>1, <2>1, OnTheWayIs
  <2>3. Offered' = Offered
    BY <1>3, <1>5, <2>2, StampingOffersNothing
  <2> QED
    BY <1>1, <2>3
<1> QED
  BY <1>4, <1>5 DEF FrameCalled, FrameStamped

\* The other steps of the tasks change nothing the feed shows.
LEMMA TasksStutter ==
  ASSUME IInv, NEW i \in SvcRun, ScanStep(i) \/ RxExit(i)
  PROVE  UNCHANGED <<svcInit, quiet, detQ, Offered>>
<1>1. heard' = heard /\ cb' = cb /\ UNCHANGED <<svcInit, quiet, detQ>>
  BY DEF ScanStep, WifiPhase, WifiPhaseEnds, BlePhase, BlePhaseEnds, ScanExit, ScanRest,
     RxExit, RxRest, flags, hal
<1>2. Stamped' = Stamped
  <2>1. CASE ScanStep(i)
    BY <2>1 DEF ScanStep, WifiPhase, WifiPhaseEnds, BlePhase, BlePhaseEnds, ScanExit,
       ScanRest, Stamped
  <2>2. CASE RxExit(i)
    <3>1. rx \in [SvcRun -> RxRecord] /\ rx[i].at = "loop"
          /\ rx' = [rx EXCEPT ![i].at = "off"]
      BY <2>2 DEF RxExit, IInv, SvcTypeOK, RxRecord
    <3>2. \A j \in SvcRun : rx'[j].at = "stamped" <=> rx[j].at = "stamped"
      BY <3>1 DEF RxRecord
    <3> QED
      BY <3>2 DEF Stamped
  <2> QED
    BY <2>1, <2>2
<1> QED
  BY <1>1, <1>2, OfferedSame

\* The calls open, start, halt and close the feed.
LEMMA ApiMaps ==
  ASSUME IInv, SvcApi \/ SvcDelete PROVE [Feed!FeedNext]_(Feed!feedVars)
<1>1. heard' = heard /\ cb' = cb
  BY DEF SvcApi, SvcInitialise, SvcStartBegin, SvcStartScan, SvcStartLora, SvcStopBegin,
     SvcStopEnd, SvcDelete, hal
<1>2. Stamped' = Stamped
  <2>1. CASE SvcStartLora
    <3>1. rx \in [SvcRun -> RxRecord]
      BY DEF IInv, SvcTypeOK, RxRecord
    <3>2. /\ rx' = rx \/ rx' = [rx EXCEPT ![svcStarts].at = "loop"]
          /\ ~svcStarted
      BY <2>1 DEF SvcStartLora, IInv, CallsInOrder
    <3>3. \A j \in SvcRun : rx[j].at = "off"
      BY <3>1, <3>2 DEF IInv, OneRx
    <3>4. \A j \in SvcRun : rx'[j].at # "stamped"
      BY <3>1, <3>2, <3>3 DEF RxRecord
    <3> QED
      BY <3>3, <3>4 DEF Stamped
  <2>2. CASE rx' = rx
    BY <2>2 DEF Stamped
  <2> QED
    BY <2>1, <2>2 DEF SvcApi, SvcInitialise, SvcStartBegin, SvcStartScan, SvcStopBegin,
       SvcStopEnd, SvcDelete, tasks
<1>3. Offered' = Offered
  BY <1>1, <1>2, OfferedSame
<1>4. CASE SvcInitialise
  BY <1>3, <1>4 DEF SvcInitialise, Feed!FeedNext, Feed!Open
<1>5. CASE SvcStartBegin /\ quiet
  BY <1>3, <1>5 DEF SvcStartBegin, Feed!FeedNext, Feed!Start
<1>6. CASE SvcStopEnd
  <2>1. svcInit /\ ~quiet
    BY <1>6 DEF SvcStopEnd, IInv, CallsInOrder
  <2> QED
    BY <1>3, <1>6, <2>1 DEF SvcStopEnd, Feed!FeedNext, Feed!Halt
<1>7. CASE SvcDelete
  <2>1. svcInit
    BY <1>7 DEF SvcDelete, IInv, CallsInOrder
  <2> QED
    BY <1>3, <1>7, <2>1 DEF SvcDelete, Feed!FeedNext, Feed!Close
<1>8. CASE SvcStartBegin /\ ~quiet
  BY <1>3, <1>8 DEF SvcStartBegin, Feed!feedVars
<1>9. CASE SvcStartScan \/ SvcStartLora \/ SvcStopBegin
  BY <1>3, <1>9 DEF SvcStartScan, SvcStartLora, SvcStopBegin, flags, Feed!feedVars
<1> QED
  BY <1>4, <1>5, <1>6, <1>7, <1>8, <1>9 DEF SvcApi

\* What the decoder receives it takes.
LEMMA TakenTakes == ASSUME Taken PROVE \E d \in Detection : Feed!Take(d)
<1>1. PICK d \in Detection : Receive(d)
  BY DEF Taken
<1>2. Offered' = Offered /\ UNCHANGED <<svcInit, quiet>>
  <2>1. heard' = heard /\ cb' = cb /\ Stamped' = Stamped /\ UNCHANGED <<svcInit, quiet>>
    BY DEF Taken, flags, tasks, hal, Stamped
  <2> QED
    BY <2>1, OfferedSame
<1>3. Feed!Take(d)
  BY <1>1, <1>2 DEF Receive, Feed!Take
<1> QED
  BY <1>3

\* Every step of the service is a step of the feed, or changes nothing it shows.
LEMMA StepMaps ==
  IInv /\ [SvcNextAll]_svcVars => [Feed!FeedNext]_(Feed!feedVars)
<1> SUFFICES ASSUME IInv, [SvcNextAll]_svcVars PROVE [Feed!FeedNext]_(Feed!feedVars)
  OBVIOUS
<1>1. CASE SvcApi \/ SvcDelete
  BY <1>1, ApiMaps
<1>2. ASSUME NEW s \in Driver, FrameQueued(s) PROVE Feed!FeedNext
  BY <1>2, FrameOffers DEF Feed!FeedNext
<1>3. ASSUME NEW i \in SvcRun, RxEnqueue(i) PROVE Feed!FeedNext
  BY <1>3, PacketOffers DEF Feed!FeedNext
<1>4. ASSUME NEW i \in SvcRun, RxPacket(i) PROVE UNCHANGED Feed!feedVars
  BY <1>4, StampingStutters DEF Feed!feedVars
<1>5. ASSUME NEW i \in SvcRun, ScanStep(i) \/ RxExit(i) PROVE UNCHANGED Feed!feedVars
  BY <1>5, TasksStutter DEF Feed!feedVars
<1>6. CASE Taken
  BY <1>6, TakenTakes DEF Feed!FeedNext, Feed!Detection, Detection
<1>7. CASE UNCHANGED svcVars
  <2>1. heard' = heard /\ cb' = cb /\ Stamped' = Stamped /\ UNCHANGED <<svcInit, quiet, detQ>>
    BY <1>7 DEF svcVars, flags, tasks, hal, Stamped
  <2> QED
    BY <2>1, OfferedSame DEF Feed!feedVars
<1>8. ASSUME NEW s \in Driver, FrameCalled(s) \/ FrameStamped(s) PROVE UNCHANGED Feed!feedVars
  BY <1>8, CallsStutter DEF Feed!feedVars
<1> QED
  BY <1>1, <1>2, <1>3, <1>4, <1>5, <1>6, <1>7, <1>8
     DEF SvcNextAll, SvcNext, RxStep, FrameReturns

\* The service, with its tasks, calls and radios, is the bounded, ordered, lossy queue
\* that the decoder relies on.
THEOREM Implements == SvcSpec => ImplementsFeed
<1>1. SvcInitState => Feed!FeedInit
  BY FeedInitMaps
<1>2. IInv /\ [SvcNextAll]_svcVars => [Feed!FeedNext]_(Feed!feedVars)
  BY StepMaps
<1> QED
  BY <1>1, <1>2, Invariance, PTL DEF SvcSpec, SvcNextAll, ImplementsFeed, Feed!FeedSpec

-----------------------------------------------------------------------------
(* Least, greatest and k-th of a set of numbers.                           *)

\* A set of naturals has a least member.
LEMMA Least ==
  ASSUME NEW S, S \subseteq Nat, S # {}
  PROVE  \E x \in S : \A y \in S : x <= y
<1> DEFINE R == {ss \in Nat \X Nat : ss[1] < ss[2]}
<1>1. IsWellFoundedOn(R, Nat)
  BY NatLessThanWellFounded DEF OpToRel
<1> HIDE DEF R
<1>2. PICK x \in S : \A y \in S : ~ (<<y, x>> \in R)
  BY <1>1, WFMin
<1>3. \A y \in S : ~ (y < x)
  BY <1>2 DEF R
<1> QED
  BY <1>3

\* A set of positions has a greatest member, and Max names one.
LEMMA Greatest ==
  ASSUME NEW n \in Nat, NEW S, S \subseteq 1..n, S # {}
  PROVE  Max(S) \in S
<1> DEFINE U == {u \in 0..n : \A x \in S : x <= u}
<1>1. U \subseteq Nat /\ n \in U
  OBVIOUS
<1>2. PICK u \in U : \A v \in U : u <= v
  BY <1>1, Least
<1>3. u \in S
  <2> SUFFICES ASSUME u \notin S PROVE FALSE
    OBVIOUS
  <2>1. u \in Nat /\ \A x \in S : x \in Nat /\ x >= 1 /\ x < u
    BY <1>2
  <2>2. u >= 1
    <3>1. PICK x \in S : TRUE
      OBVIOUS
    <3> QED
      BY <2>1, <3>1
  <2>3. u - 1 \in 0..n
    BY <2>1, <2>2, <1>2
  <2>4. \A x \in S : x <= u - 1
    BY <2>1
  <2> QED
    BY <1>2, <2>1, <2>3, <2>4
<1>4. \A x \in S : u >= x
  BY <1>2
<1> QED
  BY <1>3, <1>4 DEF Max

\* The k-th of a set of positions is one of them.
LEMMA NthIsOne ==
  ASSUME NEW n \in Nat, NEW S, S \subseteq 1..n, NEW k \in 1..Cardinality(S)
  PROVE  Nth(S, k) \in S
<1> DEFINE Upto(i) == {j \in S : j <= i}
           R == {i \in 0..n : Cardinality(Upto(i)) >= k}
<1>0. \A j \in S : j \in Nat /\ j >= 1 /\ j <= n
  OBVIOUS
<1>1. IsFiniteSet(S) /\ Cardinality(S) \in Nat
  <2>1. IsFiniteSet(1..n) /\ S \in SUBSET (1..n)
    BY FS_Interval
  <2> QED
    BY <2>1, FS_Subset, FS_CardinalityType
<1>2. k \in Nat /\ k >= 1
  BY <1>1
<1>3. \A i \in 0..n : IsFiniteSet(Upto(i)) /\ Cardinality(Upto(i)) \in Nat
  <2> TAKE i \in 0..n
  <2>1. Upto(i) \in SUBSET S
    OBVIOUS
  <2> QED
    BY <2>1, <1>1, FS_Subset, FS_CardinalityType
<1>4. n \in R /\ R \subseteq Nat
  <2>1. Upto(n) = S
    BY <1>0
  <2>2. Cardinality(Upto(n)) >= k
    BY <2>1, <1>1
  <2> QED
    BY <2>2
<1>5. PICK i \in R : \A j \in R : i <= j
  <2> HIDE DEF R
  <2> QED
    BY <1>4, Least
<1>6. i \in 0..n /\ Cardinality(Upto(i)) >= k
  BY <1>5
<1>7. i # 0
  <2>1. Upto(0) = {}
    <3>1. \A j \in S : ~ (j <= 0)
      BY <1>0
    <3> QED
      BY <3>1
  <2>2. Cardinality(Upto(0)) = 0
    BY <2>1, FS_EmptySet
  <2> HIDE DEF Upto
  <2> QED
    BY <2>2, <1>6, <1>2
<1>8. i \in 1..n /\ i - 1 \in 0..n /\ i - 1 \notin R
  <2>1. i \in 1..n /\ i - 1 \in 0..n
    BY <1>6, <1>7
  <2> HIDE DEF R
  <2> QED
    BY <2>1, <1>5
<1>9. Cardinality(Upto(i - 1)) < k
  <2>1. ~ (Cardinality(Upto(i - 1)) >= k)
    BY <1>8
  <2> HIDE DEF Upto, R
  <2> QED
    BY <2>1, <1>8, <1>3, <1>2
<1>10. i \in S
  <2> SUFFICES ASSUME i \notin S PROVE FALSE
    OBVIOUS
  <2>1. Upto(i) = Upto(i - 1)
    <3>1. \A j \in S : j <= i <=> j <= i - 1
      BY <1>0, <1>8
    <3> QED
      BY <3>1
  <2> HIDE DEF Upto, R
  <2> QED
    BY <2>1, <1>9, <1>6, <1>2, <1>3, <1>8
<1>11. Upto(i) = Upto(i - 1) \cup {i} /\ i \notin Upto(i - 1)
  <2>1. \A j \in S : j <= i <=> j <= i - 1 \/ j = i
    BY <1>0, <1>8
  <2>2. ~ (i <= i - 1)
    BY <1>8
  <2> QED
    BY <2>1, <2>2, <1>10
<1>12. Cardinality(Upto(i)) = Cardinality(Upto(i - 1)) + 1
  <2> HIDE DEF Upto, R
  <2> QED
    BY <1>11, <1>3, <1>8, FS_AddElement
<1>13. Cardinality(Upto(i)) = k
  <2> HIDE DEF Upto, R
  <2> QED
    BY <1>6, <1>12, <1>9, <1>3, <1>8, <1>2
<1> QED
  BY <1>10, <1>13 DEF Nth

\* Of the positions 2..n+1 the k-th is k+1.
LEMMA NthOfShifted ==
  ASSUME NEW n \in Nat, NEW k \in 1..n
  PROVE  Nth(2..(n + 1), k) = k + 1
<1> DEFINE S == 2..(n + 1)
<1>1. \A i \in S : {j \in S : j <= i} = 2..i
  OBVIOUS
<1>2. \A i \in S : Cardinality({j \in S : j <= i}) = i - 1
  <2> SUFFICES ASSUME NEW i \in S PROVE Cardinality({j \in S : j <= i}) = i - 1
    OBVIOUS
  <2>1. {j \in S : j <= i} = 2..i
    BY <1>1
  <2>2. Cardinality(2..i) = i - 1
    BY FS_Interval
  <2> QED
    BY <2>1, <2>2
<1>3. k + 1 \in S
  OBVIOUS
<1>4. \A i \in S : Cardinality({j \in S : j <= i}) = k <=> i = k + 1
  <2> SUFFICES ASSUME NEW i \in S
               PROVE  Cardinality({j \in S : j <= i}) = k <=> i = k + 1
    OBVIOUS
  <2>1. Cardinality({j \in S : j <= i}) = i - 1
    BY <1>2
  <2> HIDE DEF S
  <2>2. i \in Int /\ k \in Int
    BY DEF S
  <2> QED
    BY <2>1, <2>2
<1> HIDE DEF S
<1>5. (CHOOSE i \in S : Cardinality({j \in S : j <= i}) = k) = k + 1
  BY <1>3, <1>4
<1> QED
  BY <1>5 DEF Nth, S

-----------------------------------------------------------------------------
(* The signature table.                                                    *)

\* What an entry can say of the modulation.  The provers have no fact about STRING, so
\* that the modulations of the built-in table are named.
Modulation == (STRING \cup {"LORA", "ANY", "OFDM", "FHSS"}) \ {"absent"}

\* An entry of the table: what parse_csv_line can make, and what is built in.
Entry ==
    [protocol : Protocol, pattern : Seq(SUBSET Bit), mask : Seq(SUBSET Bit),
     min : Nat, max : Nat, modulation : Modulation]

EntryOK(s) ==
    /\ s \in Entry
    /\ Len(s.pattern) \in 1..HeaderMax /\ Len(s.mask) = Len(s.pattern)
    /\ s.min < Word /\ s.max < Word

TableOK(t) == t \in Seq(Entry) /\ \A i \in 1..Len(t) : EntryOK(t[i])

\* A record of the fields of an entry is an entry.
LEMMA SigIsEntry ==
  ASSUME NEW p \in Protocol, NEW pat \in Seq(SUBSET Bit), NEW mk \in Seq(SUBSET Bit),
         Len(pat) \in 1..HeaderMax, Len(mk) = Len(pat),
         NEW min \in Nat, NEW max \in Nat, min < Word, max < Word,
         NEW md \in Modulation
  PROVE  EntryOK(Sig(p, pat, mk, min, max, md))
BY DEF EntryOK, Entry, Sig

LEMMA DefaultsOK ==
  /\ TableOK(DefaultSignatures)
  /\ \A i \in 1..Len(DefaultSignatures) : DefaultSignatures[i].protocol # "REMOTEID"
<1>1. ASSUME NEW c \in SUBSET Bit
      PROVE  <<c>> \in Seq(SUBSET Bit) /\ Len(<<c>>) = 1
  OBVIOUS
<1>2. /\ {} \in SUBSET Bit /\ 2..7 \in SUBSET Bit /\ FF \in SUBSET Bit /\ 1..7 \in SUBSET Bit
      /\ ({0} \cup 2..7) \in SUBSET Bit /\ {0, 2, 4, 6} \in SUBSET Bit
      /\ {3, 6, 7} \in SUBSET Bit /\ 1..6 \in SUBSET Bit
  BY DEF Bit, FF
<1>3. ASSUME NEW p \in Protocol, NEW c \in SUBSET Bit, NEW mk \in SUBSET Bit,
             NEW min \in Nat, NEW max \in Nat, min < Word, max < Word,
             NEW md \in Modulation
      PROVE  EntryOK(Sig(p, <<c>>, <<mk>>, min, max, md))
  <2>1. 1 \in 1..HeaderMax
    BY DEF HeaderMax
  <2> QED
    BY <1>1, <2>1, <1>3, SigIsEntry
<1>4. /\ "ELRS" \in Protocol /\ "MAVLINK" \in Protocol /\ "DJI" \in Protocol
      /\ "CROSSFIRE" \in Protocol /\ "FRSKY" \in Protocol
      /\ "LORA" \in Modulation /\ "ANY" \in Modulation /\ "OFDM" \in Modulation
      /\ "FHSS" \in Modulation
  BY DEF Protocol, Modulation
<1>5. /\ 862000 \in Nat /\ 928000 \in Nat /\ 2400000 \in Nat /\ 2500000 \in Nat
      /\ 862000 < Word /\ 928000 < Word /\ 2400000 < Word /\ 2500000 < Word /\ 0 < Word
  BY SMT DEF Word
<1>6. ASSUME NEW c \in SUBSET Bit, NEW mk \in SUBSET Bit,
             NEW min \in Nat, NEW max \in Nat, min < Word, max < Word
      PROVE  /\ EntryOK(Sig("ELRS", <<c>>, <<mk>>, min, max, "LORA"))
             /\ EntryOK(Sig("MAVLINK", <<c>>, <<mk>>, min, max, "ANY"))
             /\ EntryOK(Sig("DJI", <<c>>, <<mk>>, min, max, "OFDM"))
             /\ EntryOK(Sig("CROSSFIRE", <<c>>, <<mk>>, min, max, "LORA"))
             /\ EntryOK(Sig("FRSKY", <<c>>, <<mk>>, min, max, "FHSS"))
  <2>1. ASSUME NEW p \in Protocol, NEW md \in Modulation
        PROVE  EntryOK(Sig(p, <<c>>, <<mk>>, min, max, md))
    BY <1>3, <1>6, Zenon
  <2> QED
    BY <1>4, <2>1, Zenon
<1>7. /\ EntryOK(Sig("ELRS", <<{}>>, <<2..7>>, 862000, 928000, "LORA"))
      /\ EntryOK(Sig("ELRS", <<{}>>, <<2..7>>, 2400000, 2500000, "LORA"))
      /\ EntryOK(Sig("MAVLINK", <<1..7>>, <<FF>>, 0, 0, "ANY"))
      /\ EntryOK(Sig("MAVLINK", <<{0} \cup 2..7>>, <<FF>>, 0, 0, "ANY"))
      /\ EntryOK(Sig("DJI", <<{0, 2, 4, 6}>>, <<FF>>, 2400000, 2500000, "OFDM"))
      /\ EntryOK(Sig("CROSSFIRE", <<{3, 6, 7}>>, <<FF>>, 862000, 928000, "LORA"))
      /\ EntryOK(Sig("FRSKY", <<1..6>>, <<FF>>, 2400000, 2500000, "FHSS"))
  BY <1>2, <1>5, <1>6, SMTT(40)
<1>8. ASSUME NEW s, EntryOK(s) PROVE s \in Entry
  BY <1>8 DEF EntryOK
<1>9. DefaultSignatures \in Seq(Entry) /\ Len(DefaultSignatures) = 7
  BY <1>7, <1>8, SMT DEF DefaultSignatures
<1>10. \A i \in 1..7 : EntryOK(DefaultSignatures[i])
  BY <1>7, SMT DEF DefaultSignatures
<1>11. \A i \in 1..7 : DefaultSignatures[i].protocol # "REMOTEID"
  BY SMT DEF DefaultSignatures, Sig
<1> QED
  BY <1>9, <1>10, <1>11 DEF TableOK

\* A line that parses makes an entry.
LEMMA ParsedIsEntry ==
  ASSUME NEW l \in CsvLine, ParseOK(l)
  PROVE  EntryOK(ParseLine(l))
<1>1. /\ l.protocol \in Protocol /\ l.modulation \in Modulation
      /\ l.header \in Seq(SUBSET Bit) /\ l.mask \in Seq(SUBSET Bit)
      /\ l.min \in Nat /\ l.max \in Nat /\ l.len \in 1..HeaderMax /\ Len(l.header) >= l.len
  BY DEF ParseOK, CsvLine, Modulation
<1>2. l.len \in Nat /\ l.len >= 1
  BY <1>1 DEF HeaderMax
<1> DEFINE pat == SubSeq(l.header, 1, l.len)
           mk  == MaskOf(l)
<1>3. pat \in Seq(SUBSET Bit) /\ Len(pat) = l.len
  BY <1>1, <1>2
<1>4. mk \in Seq(SUBSET Bit) /\ Len(mk) = l.len
  <2>1. \A b \in 1..l.len : mk[b] \in SUBSET Bit
    <3> TAKE b \in 1..l.len
    <3>1. b <= Len(l.mask) => l.mask[b] \in SUBSET Bit
      BY <1>1, <1>2
    <3> QED
      BY <3>1 DEF MaskOf, FF
  <2>2. mk = [b \in 1..l.len |-> mk[b]]
    BY DEF MaskOf
  <2> HIDE DEF mk
  <2> QED
    BY <1>2, <2>1, <2>2
<1>5. /\ FreqFromMHz(l.min) \in Nat /\ FreqFromMHz(l.max) \in Nat
      /\ FreqFromMHz(l.min) < Word /\ FreqFromMHz(l.max) < Word
  <2>1. ASSUME NEW x \in Nat PROVE FreqFromMHz(x) \in Nat /\ FreqFromMHz(x) < Word
    <3>1. x * MHz \in Nat /\ Word \in Nat /\ Word > 0
      BY SMT DEF MHz, Word
    <3>2. ASSUME NEW y \in Nat, NEW w \in Nat, w > 0 PROVE y % w \in Nat /\ y % w < w
      BY <3>2, SMT
    <3> QED
      BY <3>1, <3>2, SMT DEF FreqFromMHz
  <2> QED
    BY <1>1, <2>1, Zenon
<1> HIDE DEF pat, mk
<1> QED
  BY <1>1, <1>3, <1>4, <1>5, SigIsEntry, Zenon DEF ParseLine, pat, mk

\* Loading a file of such lines gives a table of entries.
LEMMA LoadedIsTable ==
  ASSUME NEW text \in Seq(CsvLine)
  PROVE  TableOK(LoadCsv(text).table)
<1> DEFINE good == {i \in DOMAIN text : ParseOK(text[i])}
           room == IF Cardinality(good) < MaxSigs THEN Cardinality(good) ELSE MaxSigs
           t    == [k \in 1..room |-> ParseLine(text[Nth(good, k)])]
<1>1. CASE good = {}
  BY <1>1, DefaultsOK DEF LoadCsv
<1>2. CASE good # {}
  <2>1. good \subseteq 1..Len(text) /\ Len(text) \in Nat
    OBVIOUS
  <2>2. IsFiniteSet(good) /\ Cardinality(good) \in Nat
    <3>1. IsFiniteSet(1..Len(text))
      BY <2>1, FS_Interval
    <3> QED
      BY <2>1, <3>1, FS_Subset, FS_CardinalityType
  <2>3. room \in Nat /\ room <= Cardinality(good)
    BY <2>2, MaxSigsAssumption
  <2>4. \A k \in 1..room : EntryOK(ParseLine(text[Nth(good, k)]))
    <3> TAKE k \in 1..room
    <3>1. k \in 1..Cardinality(good)
      <4> HIDE DEF good, room
      <4> QED
        BY <2>2, <2>3
    <3>2. Nth(good, k) \in good
      <4> HIDE DEF good
      <4> QED
        BY <2>1, <3>1, NthIsOne
    <3>3. text[Nth(good, k)] \in CsvLine /\ ParseOK(text[Nth(good, k)])
      BY <3>2
    <3> QED
      BY <3>3, ParsedIsEntry
  <2>5. TableOK(t)
    <3>1. \A k \in 1..room : t[k] = ParseLine(text[Nth(good, k)])
      OBVIOUS
    <3>2. \A k \in 1..room : EntryOK(t[k]) /\ t[k] \in Entry
      BY <2>4, <3>1 DEF EntryOK
    <3>3. t = [k \in 1..room |-> t[k]]
      OBVIOUS
    <3> HIDE DEF t, room
    <3>4. t \in Seq(Entry) /\ Len(t) = room
      BY <2>3, <3>2, <3>3
    <3> QED
      BY <3>2, <3>4 DEF TableOK
  <2> QED
    BY <1>2, <2>5 DEF LoadCsv
<1> QED
  BY <1>1, <1>2


-----------------------------------------------------------------------------
(* Saving and searching.                                                   *)

\* An entry that a line can say.
Sayable(s) == s.modulation # "" /\ s.min % MHz = 0 /\ s.max % MHz = 0

\* What parse_csv_line makes of the line of an entry is the entry again.
LEMMA LineOfEntry ==
  ASSUME NEW s, EntryOK(s), Sayable(s)
  PROVE  ParseOK(SigLine(s)) /\ ParseLine(SigLine(s)) = s
<1> DEFINE l == SigLine(s)
<1>1. /\ s \in Entry /\ Len(s.pattern) \in 1..HeaderMax /\ Len(s.mask) = Len(s.pattern)
      /\ s.min < Word /\ s.max < Word
  BY DEF EntryOK
<1>2. /\ s.protocol \in Protocol /\ s.pattern \in Seq(SUBSET Bit) /\ s.mask \in Seq(SUBSET Bit)
      /\ s.min \in Nat /\ s.max \in Nat /\ s.modulation \in Modulation
  BY <1>1 DEF Entry
<1>3. /\ l.protocol = s.protocol /\ l.header = s.pattern /\ l.len = Len(s.pattern)
      /\ l.min = s.min \div MHz /\ l.max = s.max \div MHz /\ l.modulation = s.modulation
      /\ l.mask = IF \A b \in DOMAIN s.mask : s.mask[b] = FF THEN <<>> ELSE s.mask
  BY DEF SigLine, Sayable
<1>4. Len(l.mask) <= HeaderMax
  <2>1. HeaderMax \in Nat
    BY DEF HeaderMax
  <2>2. Len(s.mask) <= HeaderMax /\ 0 <= HeaderMax
    BY <1>1, <2>1
  <2> HIDE DEF l
  <2> QED
    BY <1>3, <2>2
<1>5. ParseOK(l)
  <2>1. l.modulation # "absent"
    BY <1>2, <1>3 DEF Modulation
  <2>2. Len(l.header) >= l.len /\ l.len \in 1..HeaderMax /\ Len(l.header) \in 1..HeaderMax
    BY <1>1, <1>2, <1>3 DEF HeaderMax
  <2> HIDE DEF l
  <2> QED
    BY <1>2, <1>3, <1>4, <2>1, <2>2 DEF ParseOK
<1>6. SubSeq(l.header, 1, l.len) = s.pattern
  BY <1>2, <1>3
<1>7. MaskOf(l) = s.mask
  <2>1. MaskOf(l) = [b \in 1..Len(s.pattern) |-> IF b <= Len(l.mask) THEN l.mask[b] ELSE FF]
    BY <1>3 DEF MaskOf
  <2>2. DOMAIN s.mask = 1..Len(s.pattern) /\ Len(s.pattern) \in Nat
    BY <1>1, <1>2
  <2>3. \A b \in 1..Len(s.pattern) : (IF b <= Len(l.mask) THEN l.mask[b] ELSE FF) = s.mask[b]
    <3>1. CASE \A b \in DOMAIN s.mask : s.mask[b] = FF
      <4>1. Len(l.mask) = 0
        BY <1>3, <3>1
      <4> HIDE DEF l
      <4> QED
        BY <3>1, <4>1, <2>2
    <3>2. CASE ~ \A b \in DOMAIN s.mask : s.mask[b] = FF
      <4>1. l.mask = s.mask
        BY <1>3, <3>2
      <4> HIDE DEF l
      <4> QED
        BY <4>1, <2>2, <1>1
    <3> QED
      BY <3>1, <3>2
  <2>4. s.mask = [b \in 1..Len(s.pattern) |-> s.mask[b]]
    BY <1>2, <2>2
  <2> HIDE DEF l
  <2> QED
    BY <2>1, <2>3, <2>4
<1>8. FreqFromMHz(l.min) = s.min /\ FreqFromMHz(l.max) = s.max
  <2>1. ASSUME NEW x \in Nat, x < Word, x % MHz = 0
        PROVE  FreqFromMHz(x \div MHz) = x
    BY <2>1, SMT DEF FreqFromMHz, MHz, Word
  <2>2. s.min % MHz = 0 /\ s.max % MHz = 0
    BY DEF Sayable
  <2> HIDE DEF l
  <2> QED
    BY <1>1, <1>2, <1>3, <2>1, <2>2, Zenon
<1>9. s = [protocol |-> s.protocol, pattern |-> s.pattern, mask |-> s.mask,
           min |-> s.min, max |-> s.max, modulation |-> s.modulation]
  BY <1>1 DEF Entry
<1> HIDE DEF l
<1>10. ParseLine(l) = s
  BY <1>3, <1>6, <1>7, <1>8, <1>9 DEF ParseLine, Sig
<1> QED
  BY <1>5, <1>10 DEF l

\* A table of entries that can be written is what its file loads again.
LEMMA SavedReloads ==
  ASSUME NEW t, TableOK(t)
  PROVE  SavedIsReloaded(t)
<1> SUFFICES ASSUME Writable(t), Len(t) <= MaxSigs
             PROVE  LoadCsv(SerializeCsv(t)) = [err |-> FALSE, table |-> t]
  BY DEF SavedIsReloaded
<1> DEFINE n     == Len(t)
           text  == SerializeCsv(t)
           good  == {i \in DOMAIN text : ParseOK(text[i])}
           room  == IF Cardinality(good) < MaxSigs THEN Cardinality(good) ELSE MaxSigs
<1>1. t \in Seq(Entry) /\ n \in Nat /\ n >= 1 /\ DOMAIN t = 1..n
  <2>1. t \in Seq(Entry) /\ t # <<>>
    BY DEF TableOK, Writable
  <2> QED
    BY <2>1
<1>2. \A i \in 1..n : ParseOK(SigLine(t[i])) /\ ParseLine(SigLine(t[i])) = t[i]
  <2> TAKE i \in 1..n
  <2>1. EntryOK(t[i]) /\ Sayable(t[i])
    BY <1>1 DEF TableOK, Writable, Sayable
  <2> QED
    BY <2>1, LineOfEntry
<1>3. /\ DOMAIN text = 1..(n + 1)
      /\ text[1] = HeaderRow
      /\ \A i \in 1..n : text[i + 1] = SigLine(t[i])
  <2> DEFINE lines == [i \in DOMAIN t |-> SigLine(t[i])]
             Row   == {HeaderRow} \cup {SigLine(t[i]) : i \in DOMAIN t}
  <2>1. lines \in Seq(Row) /\ Len(lines) = n
    <3>1. lines = [i \in 1..n |-> lines[i]] /\ \A i \in 1..n : lines[i] \in Row
      BY <1>1
    <3> HIDE DEF lines, Row
    <3> QED
      BY <1>1, <3>1
  <2>2. <<HeaderRow>> \in Seq(Row) /\ Len(<<HeaderRow>>) = 1
    OBVIOUS
  <2>3. text = <<HeaderRow>> \o lines
    BY DEF SerializeCsv
  <2>4. \A i \in 1..n : lines[i] = SigLine(t[i])
    BY <1>1
  <2> HIDE DEF lines, Row, n, text
  <2>5. DOMAIN text = 1..(n + 1)
    BY <1>1, <2>1, <2>2, <2>3
  <2>6. text[1] = HeaderRow
    BY <1>1, <2>1, <2>2, <2>3
  <2>7. \A i \in 1..n : text[i + 1] = lines[i]
    BY <1>1, <2>1, <2>2, <2>3
  <2> QED
    BY <2>4, <2>5, <2>6, <2>7
<1>4. ~ ParseOK(HeaderRow)
  BY DEF ParseOK, HeaderRow, Protocol
<1>5. good = 2..(n + 1)
  <2>1. \A i \in 2..(n + 1) : i - 1 \in 1..n /\ (i - 1) + 1 = i /\ i \in 1..(n + 1)
    BY <1>1
  <2>2. \A i \in 2..(n + 1) : ParseOK(text[i])
    <3> TAKE i \in 2..(n + 1)
    <3>1. text[i] = SigLine(t[i - 1])
      BY <1>3, <2>1
    <3> QED
      BY <1>2, <2>1, <3>1
  <2>3. \A i \in 1..(n + 1) : i = 1 \/ i \in 2..(n + 1)
    BY <1>1
  <2> HIDE DEF text, n
  <2> QED
    BY <1>3, <1>4, <2>1, <2>2, <2>3
<1>6. room = n /\ good # {}
  <2>1. Cardinality(2..(n + 1)) = n
    BY <1>1, FS_Interval
  <2>2. 2 \in 2..(n + 1)
    BY <1>1
  <2>3. n <= MaxSigs
    OBVIOUS
  <2>4. Cardinality(good) = n
    BY <1>5, <2>1
  <2>5. good # {}
    BY <1>5, <2>2
  <2> HIDE DEF good, text, n
  <2> QED
    BY <1>1, <2>3, <2>4, <2>5, MaxSigsAssumption
<1>7. \A k \in 1..n : ParseLine(text[Nth(good, k)]) = t[k]
  <2> TAKE k \in 1..n
  <2>1. Nth(good, k) = k + 1
    BY <1>1, <1>5, NthOfShifted
  <2> QED
    BY <1>2, <1>3, <2>1
<1>8. [k \in 1..room |-> ParseLine(text[Nth(good, k)])] = t
  <2>1. t = [k \in 1..n |-> t[k]]
    BY <1>1
  <2> HIDE DEF text, good, room, n
  <2> QED
    BY <1>6, <1>7, <2>1
<1>9. LoadCsv(text) = [err |-> FALSE, table |-> [k \in 1..room |-> ParseLine(text[Nth(good, k)])]]
  BY <1>6 DEF LoadCsv
<1> QED
  BY <1>8, <1>9


\* The first of the entries that hit is one of them, and not the answer "none".
LEMMA FirstHit ==
  ASSUME NEW t, TableOK(t), NEW H, H \subseteq DOMAIN t, H # {}
  PROVE  \E i \in H : (\A j \in H : i <= j) /\ FirstSig(t, H) = t[i]
<1>1. H \subseteq Nat
  BY DEF TableOK
<1>2. \E i \in H : \A j \in H : i <= j
  BY <1>1, Least
<1> DEFINE f == CHOOSE i \in H : \A j \in H : i <= j
<1>3. f \in H /\ \A j \in H : f <= j
  BY <1>2
<1>4. FirstSig(t, H) = t[f]
  BY DEF FirstSig
<1> QED
  BY <1>3, <1>4

LEMMA NoEntryIsNone ==
  ASSUME NEW t, TableOK(t), NEW i \in DOMAIN t
  PROVE  t[i] # NoSig
<1>1. Len(t[i].pattern) # 0
  <2>1. EntryOK(t[i])
    BY DEF TableOK
  <2> QED
    BY <2>1 DEF EntryOK, HeaderMax
<1>2. Len(NoSig.pattern) = 0
  BY DEF NoSig, Sig
<1> QED
  BY <1>1, <1>2

\* classifier_classify and signatures_find_match agree on every table of entries: they scan
\* the same fits in the same order.
LEMMA SearchesAgreeOn ==
  ASSUME NEW t, TableOK(t), NEW hdr, NEW freq
  PROVE  SearchesAgree(t, hdr, freq)
<1> DEFINE fit == Fitting(t, hdr)
           in  == FittingIn(t, hdr, freq)
           hit == {i \in fit : AnyFrequency(t[i]) \/ InBand(t[i], freq)}
           m   == FindMatch(t, hdr, freq)
           c   == Classify(t, hdr, freq)
<1> SUFFICES ASSUME hdr # <<>>
             PROVE  /\ m # NoSig /\ ~AnyFrequency(m)
                         => c = [protocol |-> m.protocol, confidence |-> "HIGH"]
                    /\ c.confidence = "HIGH" => m # NoSig
                    /\ c.confidence = "HIGH" \/ m = NoSig \/ AnyFrequency(m)
  BY DEF SearchesAgree
<1>1. fit \subseteq DOMAIN t /\ in = {i \in fit : InBand(t[i], freq)}
      /\ in \subseteq hit /\ hit \subseteq DOMAIN t /\ in \subseteq DOMAIN t
  BY DEF Fitting, FittingIn
<1>2. \A i \in DOMAIN t : i \in Nat
  BY DEF TableOK
<1>3. m = FirstSig(t, hit)
  BY DEF FindMatch
<1>4. c = IF FirstSig(t, in) # NoSig
          THEN [protocol |-> FirstSig(t, in).protocol, confidence |-> "HIGH"]
          ELSE [protocol |-> FirstSig(t, fit).protocol, confidence |-> "LOW"]
  BY DEF Classify
<1>5. c.confidence = "HIGH" <=> FirstSig(t, in) # NoSig
  BY <1>4
<1>6. ASSUME m # NoSig, ~AnyFrequency(m)
      PROVE  FirstSig(t, in) = m
  <2>1. hit # {}
    BY <1>3, <1>6 DEF FirstSig
  <2> HIDE DEF hit, in, fit, m
  <2>2. PICK i \in hit : (\A j \in hit : i <= j) /\ m = t[i]
    BY <1>1, <1>3, <2>1, FirstHit
  <2>3. i \in in
    BY <1>1, <1>6, <2>2 DEF hit
  <2>4. PICK k \in in : (\A j \in in : k <= j) /\ FirstSig(t, in) = t[k]
    BY <1>1, <2>3, FirstHit
  <2>5. i <= k /\ k <= i
    BY <1>1, <2>2, <2>3, <2>4
  <2>6. i = k
    BY <1>1, <1>2, <2>5, <2>2, <2>4
  <2> QED
    BY <2>2, <2>4, <2>6
<1>7. ASSUME FirstSig(t, in) # NoSig PROVE m # NoSig
  <2>1. hit # {}
    BY <1>1, <1>7 DEF FirstSig
  <2> HIDE DEF hit, in, fit, m
  <2>2. PICK i \in hit : m = t[i]
    BY <1>1, <1>3, <2>1, FirstHit
  <2> QED
    BY <1>1, <2>2, NoEntryIsNone
<1> HIDE DEF m, c, hit, in, fit
<1> QED
  BY <1>4, <1>5, <1>6, <1>7


-----------------------------------------------------------------------------
(* What a transmitter sends, and what becomes of it.                       *)

SystemOf(d, slip) ==
    SystemMsg(TRUE, EncodedCoord(d.op_lat, slip), EncodedCoord(d.op_lon, slip))

\* The messages of d, and what is heard of them.
Sent(d, slip) ==
    {BasicMsg(TRUE, d.uas_id)}
    \cup (IF d.has_position THEN {EncodedLocation(d, slip)} ELSE {})
    \cup (IF d.has_operator THEN {SystemOf(d, slip)} ELSE {})

HeardOf(d, slip) == Sent(d, slip) \cup {[m EXCEPT !.crc = FALSE] : m \in Sent(d, slip)}

\* One element, and at most one of each of two more kinds.
LEMMA AtMostThree ==
  ASSUME NEW M, NEW b \in M, NEW x \in Seq(M), NEW y \in Seq(M), Len(x) <= 1, Len(y) <= 1
  PROVE  LET e == <<b>> \o x \o y
         IN  /\ e \in Seq(M) /\ Len(e) \in 1..3 /\ e[1] = b
             /\ Len(x) = 1 => 2 \in 1..Len(e) /\ e[2] = x[1]
             /\ Len(y) = 1 => Len(e) \in 1..Len(e) /\ e[Len(e)] = y[1]
<1> DEFINE f == <<b>> \o x
           e == f \o y
<1>1. <<b>> \in Seq(M) /\ Len(<<b>>) = 1 /\ <<b>>[1] = b
  OBVIOUS
<1>2. Len(x) \in Nat /\ Len(y) \in Nat
  OBVIOUS
<1>3. f \in Seq(M) /\ Len(f) = 1 + Len(x) /\ f[1] = b
  BY <1>1, <1>2
<1>4. Len(x) = 1 => f[2] = x[1]
  <2>1. ASSUME NEW g \in Seq(M), Len(g) = 1, Len(x) = 1 PROVE (g \o x)[2] = x[1]
    <3>1. 2 \in 1..(Len(g) + Len(x)) /\ ~ (2 <= Len(g)) /\ 2 - Len(g) = 1
      BY <2>1
    <3> QED
      BY <3>1, ConcatProperties
  <2> QED
    BY <1>1, <2>1
<1> HIDE DEF f
<1>5. e \in Seq(M) /\ Len(e) = Len(f) + Len(y) /\ e[1] = b
  BY <1>2, <1>3
<1>6. Len(x) = 1 => e[2] = x[1]
  <2>1. ASSUME Len(x) = 1 PROVE (f \o y)[2] = f[2]
    <3>1. 2 \in 1..(Len(f) + Len(y)) /\ 2 <= Len(f)
      BY <1>2, <1>3, <2>1
    <3> QED
      BY <1>3, <3>1, ConcatProperties
  <2> QED
    BY <1>4, <2>1
<1>7. Len(y) = 1 => e[Len(f) + 1] = y[1]
  BY <1>2, <1>3
<1> HIDE DEF e
<1> QED
  BY <1>2, <1>3, <1>5, <1>6, <1>7 DEF e, f

\* The encoder makes a sequence of one message of each kind that d has.
LEMMA EncodeMakes ==
  ASSUME NEW d \in Sendable, NEW slip
  PROVE  LET e == Encode(d, slip)
         IN  /\ e \in Seq(Sent(d, slip)) /\ Len(e) \in 1..3
             /\ e[1] = BasicMsg(TRUE, d.uas_id)
             /\ d.has_position => \E i \in 1..Len(e) : e[i] = EncodedLocation(d, slip)
             /\ d.has_operator => \E i \in 1..Len(e) : e[i] = SystemOf(d, slip)
<1> DEFINE b == BasicMsg(TRUE, d.uas_id)
           l == EncodedLocation(d, slip)
           s == SystemOf(d, slip)
           M == Sent(d, slip)
           x == IF d.has_position THEN <<l>> ELSE <<>>
           y == IF d.has_operator THEN <<s>> ELSE <<>>
           e == <<b>> \o x \o y
<1>1. Encode(d, slip) = e
  BY DEF Encode, SystemOf
<1>2. b \in M /\ (d.has_position => l \in M) /\ (d.has_operator => s \in M)
  BY DEF Sent
<1>3. d.has_position \in BOOLEAN /\ d.has_operator \in BOOLEAN
  BY DEF Sendable
<1> HIDE DEF b, l, s, M
<1>4. /\ x \in Seq(M) /\ Len(x) <= 1
      /\ d.has_position => Len(x) = 1 /\ x[1] = l
      /\ y \in Seq(M) /\ Len(y) <= 1
      /\ d.has_operator => Len(y) = 1 /\ y[1] = s
  BY <1>2, <1>3
<1> HIDE DEF x, y
<1>5. /\ e \in Seq(M) /\ Len(e) \in 1..3 /\ e[1] = b
      /\ Len(x) = 1 => 2 \in 1..Len(e) /\ e[2] = x[1]
      /\ Len(y) = 1 => Len(e) \in 1..Len(e) /\ e[Len(e)] = y[1]
  BY <1>2, <1>4, AtMostThree
<1> HIDE DEF e
<1> QED
  BY <1>1, <1>4, <1>5 DEF b, l, s, M

\* The kinds and the checks of the messages of d.
LEMMA SentKinds ==
  ASSUME NEW d, NEW slip, NEW m \in Sent(d, slip)
  PROVE  /\ m.type \in {BASIC_ID, LOCATION, SYSTEM} /\ m.crc = TRUE
         /\ [m EXCEPT !.crc = FALSE].crc = FALSE
         /\ m.type = BASIC_ID => m = BasicMsg(TRUE, d.uas_id)
         /\ m.type = LOCATION => d.has_position /\ m = EncodedLocation(d, slip)
         /\ m.type = SYSTEM => d.has_operator /\ m = SystemOf(d, slip)
<1>1. CASE m = BasicMsg(TRUE, d.uas_id)
  BY <1>1 DEF BasicMsg, BASIC_ID, LOCATION, SYSTEM
<1>2. CASE d.has_position /\ m = EncodedLocation(d, slip)
  BY <1>2, SMT DEF EncodedLocation, LocationMsg, BASIC_ID, LOCATION, SYSTEM
<1>3. CASE d.has_operator /\ m = SystemOf(d, slip)
  BY <1>3, SMT DEF SystemOf, SystemMsg, BASIC_ID, LOCATION, SYSTEM
<1> QED
  BY <1>1, <1>2, <1>3 DEF Sent

LEMMA TheLocation ==
  ASSUME NEW d, NEW slip, NEW m \in Sent(d, slip), m.type = LOCATION
  PROVE  d.has_position /\ m = EncodedLocation(d, slip)
BY SentKinds

LEMMA TheSystem ==
  ASSUME NEW d, NEW slip, NEW m \in Sent(d, slip), m.type = SYSTEM
  PROVE  m = SystemOf(d, slip)
BY SentKinds

\* What is heard with a check that fits was sent.
LEMMA IntactWasSent ==
  ASSUME NEW d, NEW slip, NEW m \in HeardOf(d, slip), m.crc
  PROVE  m \in Sent(d, slip)
BY SentKinds DEF HeardOf


\* The encoder may lose one unit of a coordinate, and nothing of the rest: altitude and
\* speed are in the range of their encodings, the direction may lose one degree.
LEMMA LocationSurvives ==
  ASSUME NEW d \in Sendable, NEW slip \in {0, 1}
  PROVE  LET m   == EncodedLocation(d, slip)
             dir == m.dir + (IF m.seg THEN 180 ELSE 0)
         IN  /\ m.type = LOCATION
             /\ Near(m.lat, d.lat, 1) /\ Near(m.lon, d.lon, 1)
             /\ AltitudeFromRaw(m.alt) = d.altitude
             /\ m.speed + (IF m.mult THEN SpeedStep ELSE 0) = d.speed
             /\ Near(IF dir > 360 THEN 360 ELSE dir, d.direction, 1)
<1> DEFINE m   == EncodedLocation(d, slip)
           seg == d.direction >= 180
           rot == IF seg THEN d.direction - 180 ELSE d.direction
           dir == m.dir + (IF m.seg THEN 180 ELSE 0)
<1>1. /\ d.lat \in Int /\ d.lon \in Int /\ d.altitude \in Int /\ d.speed \in Int
      /\ d.direction \in Int
      /\ d.altitude >= -AltOffset /\ d.altitude <= AltInvalid - AltOffset - 1
      /\ d.speed >= 0 /\ d.direction >= 0 /\ d.direction <= 360
  <2>1. LatMax \in Nat /\ LonMax \in Nat /\ AltOffset \in Nat /\ AltInvalid \in Nat
        /\ SpeedStep \in Nat
    BY SMT DEF LatMax, LonMax, AltOffset, AltInvalid, SpeedStep
  <2>2. /\ d.lat \in -LatMax..LatMax /\ d.lon \in -LonMax..LonMax
        /\ d.altitude \in -AltOffset..(AltInvalid - AltOffset - 1)
        /\ d.speed \in 0..(2 * SpeedStep) /\ d.direction \in 0..360
    BY DEF Sendable
  <2> QED
    BY <2>1, <2>2, SMT
<1>2. /\ m.type = LOCATION
      /\ m.lat = EncodedCoord(d.lat, slip) /\ m.lon = EncodedCoord(d.lon, slip)
      /\ m.alt = EncodedAlt(d.altitude)
      /\ m.mult = (d.speed > SpeedStep)
      /\ m.speed = (IF d.speed > SpeedStep THEN d.speed - SpeedStep ELSE d.speed)
      /\ m.seg = seg /\ m.dir = (IF rot > 179 THEN 179 ELSE rot)
  BY Zenon DEF EncodedLocation, LocationMsg
<1>3. ASSUME NEW v \in Int PROVE Near(EncodedCoord(v, slip), v, 1)
  BY <1>3, SMT DEF EncodedCoord, Near
<1>4. AltitudeFromRaw(EncodedAlt(d.altitude)) = d.altitude
  BY <1>1, SMT DEF AltitudeFromRaw, EncodedAlt, AltOffset, AltInvalid
<1>5. m.speed + (IF m.mult THEN SpeedStep ELSE 0) = d.speed
  <2>1. SpeedStep \in Nat
    BY DEF SpeedStep
  <2> HIDE DEF m
  <2>2. CASE d.speed > SpeedStep
    <3>1. m.mult = TRUE /\ m.speed = d.speed - SpeedStep
      BY <1>2, <2>2, Zenon
    <3> QED
      BY <1>1, <2>1, <3>1, SMT
  <2>3. CASE ~ (d.speed > SpeedStep)
    <3>1. ~ m.mult /\ m.speed = d.speed
      BY <1>2, <2>3, Zenon
    <3> QED
      BY <1>1, <2>1, <3>1, SMT
  <2> QED
    BY <2>2, <2>3, Zenon
<1>6. Near(IF dir > 360 THEN 360 ELSE dir, d.direction, 1)
  <2> HIDE DEF m
  <2>1. CASE d.direction >= 180
    <3>1. m.seg = TRUE /\ m.dir = (IF d.direction - 180 > 179 THEN 179 ELSE d.direction - 180)
      BY <1>2, <2>1, Zenon
    <3> QED
      BY <1>1, <3>1, SMT DEF Near
  <2>2. CASE ~ (d.direction >= 180)
    <3>1. ~ m.seg /\ m.dir = (IF d.direction > 179 THEN 179 ELSE d.direction)
      BY <1>2, <2>2, Zenon
    <3> QED
      BY <1>1, <3>1, <2>2, SMT DEF Near
  <2> QED
    BY <2>1, <2>2, Zenon
<1> HIDE DEF m
<1>7. Near(m.lat, d.lat, 1) /\ Near(m.lon, d.lon, 1) /\ AltitudeFromRaw(m.alt) = d.altitude
  BY <1>1, <1>2, <1>3, <1>4, ZenonT(40)
<1> QED
  BY <1>2, <1>5, <1>6, <1>7, Zenon DEF m


\* What data t says of the transmitter d, msgs being the messages it was decoded from.
Faithful(t, d, msgs) ==
    /\ t.uas_id = IF OfType(msgs, BASIC_ID) = {} THEN "" ELSE TrimmedId(d.uas_id)
    /\ OfType(msgs, LOCATION) = {} => ~t.has_position /\ ~t.has_speed
    /\ OfType(msgs, LOCATION) # {} =>
          /\ d.has_position
          /\ Near(t.lat, d.lat, 1) /\ Near(t.lon, d.lon, 1)
          /\ t.has_position = PositionValid(t.lat, t.lon)
          /\ t.altitude = d.altitude /\ t.speed = d.speed
          /\ Near(t.direction, d.direction, 1)
    /\ OfType(msgs, SYSTEM) # {} =>
          /\ Near(t.op_lat, d.op_lat, 1) /\ Near(t.op_lon, d.op_lon, 1)
          /\ t.has_operator = PositionValid(t.op_lat, t.op_lon)

\* Whichever messages of d the decoder is given, what it takes from them is what d sent.
LEMMA DecodedFields ==
  ASSUME NEW d \in Sendable, NEW slip \in {0, 1}, NEW n \in Nat, NEW msgs,
         DOMAIN msgs = 1..n, \A i \in 1..n : msgs[i] \in Sent(d, slip)
  PROVE  Faithful(DecodeMessages(msgs), d, msgs)
<1> DEFINE l  == EncodedLocation(d, slip)
           s  == SystemOf(d, slip)
           B  == OfType(msgs, BASIC_ID)
           L  == OfType(msgs, LOCATION)
           S  == OfType(msgs, SYSTEM)
           t0 == IF B = {} THEN NoData ELSE [NoData EXCEPT !.uas_id = TrimmedId(d.uas_id)]
           t1 == IF L = {} THEN t0 ELSE DecodeLocation(l, t0)
           t2 == IF S = {} THEN t1 ELSE DecodeSystem(s, t1)
<1>1. ASSUME NEW type, OfType(msgs, type) # {}
      PROVE  LET m == msgs[Max(OfType(msgs, type))] IN m \in Sent(d, slip) /\ m.type = type
  <2> DEFINE T == OfType(msgs, type)
  <2>1. T \subseteq 1..n
    BY DEF OfType
  <2>2. Max(T) \in T
    <3> HIDE DEF T
    <3> QED
      BY <2>1, <1>1, Greatest DEF T
  <2>3. msgs[Max(T)].type = type
    BY <2>2 DEF OfType
  <2>4. msgs[Max(T)] \in Sent(d, slip)
    <3> HIDE DEF T
    <3> QED
      BY <2>1, <2>2
  <2> QED
    BY <2>3, <2>4
<1>2. BASIC_ID # LOCATION /\ LOCATION # SYSTEM /\ BASIC_ID # SYSTEM
  BY DEF BASIC_ID, LOCATION, SYSTEM
<1>3. Latest(msgs, BASIC_ID, NoData) = t0
  <2>1. CASE B = {}
    BY <2>1 DEF Latest
  <2>2. CASE B # {}
    <3> DEFINE m == msgs[Max(B)]
    <3>1. m = BasicMsg(TRUE, d.uas_id) /\ m.type = BASIC_ID
      BY <1>1, <2>2, SentKinds
    <3>2. m.id = d.uas_id
      BY <3>1 DEF BasicMsg
    <3>3. DecodeMessage(NoData, m) = [NoData EXCEPT !.uas_id = TrimmedId(d.uas_id)]
      <4> HIDE DEF m
      <4> QED
        BY <3>1, <3>2, <1>2 DEF DecodeMessage
    <3> QED
      BY <2>2, <3>3 DEF Latest
  <2> QED
    BY <2>1, <2>2
<1>4. Latest(msgs, LOCATION, t0) = t1 /\ (L # {} => d.has_position)
  <2>1. CASE L = {}
    BY <2>1 DEF Latest
  <2>2. CASE L # {}
    <3> DEFINE m == msgs[Max(L)]
    <3>1. m = l /\ m.type = LOCATION /\ d.has_position
      <4>1. m \in Sent(d, slip) /\ m.type = LOCATION
        BY <1>1, <2>2
      <4> HIDE DEF m
      <4> QED
        BY <4>1, TheLocation, Zenon
    <3>2. DecodeMessage(t0, m) = DecodeLocation(l, t0)
      <4> HIDE DEF m, t0, l
      <4> QED
        BY <3>1, <1>2 DEF DecodeMessage
    <3> QED
      BY <2>2, <3>1, <3>2 DEF Latest
  <2> QED
    BY <2>1, <2>2
<1>5. Latest(msgs, SYSTEM, t1) = t2
  <2>1. CASE S = {}
    BY <2>1 DEF Latest
  <2>2. CASE S # {}
    <3> DEFINE m == msgs[Max(S)]
    <3>1. m = s /\ m.type = SYSTEM
      <4>1. m \in Sent(d, slip) /\ m.type = SYSTEM
        BY <1>1, <2>2
      <4> HIDE DEF m
      <4> QED
        BY <4>1, TheSystem, Zenon
    <3>2. DecodeMessage(t1, m) = DecodeSystem(s, t1)
      <4> HIDE DEF m, t1, s
      <4> QED
        BY <3>1, <1>2 DEF DecodeMessage
    <3> QED
      BY <2>2, <3>1, <3>2 DEF Latest
  <2> QED
    BY <2>1, <2>2
<1>6. DecodeMessages(msgs) = t2
  BY <1>3, <1>4, <1>5 DEF DecodeMessages
<1>7. /\ t0.uas_id = (IF B = {} THEN "" ELSE TrimmedId(d.uas_id))
      /\ ~t0.has_position /\ ~t0.has_speed
      /\ DOMAIN t0 = DOMAIN NoData
  BY DEF NoData
<1> HIDE DEF t0
<1>8. /\ t1.uas_id = t0.uas_id /\ DOMAIN t1 = DOMAIN NoData
      /\ L = {} => ~t1.has_position /\ ~t1.has_speed
  BY <1>7 DEF DecodeLocation, NoData
<1>9. L # {} => /\ t1.lat = l.lat /\ t1.lon = l.lon
                /\ t1.has_position = PositionValid(l.lat, l.lon)
                /\ t1.altitude = AltitudeFromRaw(l.alt)
                /\ t1.speed = l.speed + (IF l.mult THEN SpeedStep ELSE 0)
                /\ t1.direction = IF l.dir + (IF l.seg THEN 180 ELSE 0) > 360 THEN 360
                                  ELSE l.dir + (IF l.seg THEN 180 ELSE 0)
  <2> HIDE DEF l
  <2> QED
    BY <1>7 DEF DecodeLocation, NoData
<1> HIDE DEF t1
<1>10. /\ t2.uas_id = t1.uas_id /\ t2.has_position = t1.has_position
       /\ t2.has_speed = t1.has_speed /\ t2.lat = t1.lat /\ t2.lon = t1.lon
       /\ t2.altitude = t1.altitude /\ t2.speed = t1.speed /\ t2.direction = t1.direction
  <2> HIDE DEF s
  <2> QED
    BY <1>8 DEF DecodeSystem, NoData
<1>11. S # {} => /\ t2.op_lat = s.lat /\ t2.op_lon = s.lon
                 /\ t2.has_operator = PositionValid(s.lat, s.lon)
  <2> HIDE DEF s
  <2> QED
    BY <1>8 DEF DecodeSystem, NoData
<1>12. Near(s.lat, d.op_lat, 1) /\ Near(s.lon, d.op_lon, 1)
  <2>1. d.op_lat \in Int /\ d.op_lon \in Int
    <3>1. LatMax \in Nat /\ LonMax \in Nat
      BY SMT DEF LatMax, LonMax
    <3>2. d.op_lat \in -LatMax..LatMax /\ d.op_lon \in -LonMax..LonMax
      BY DEF Sendable
    <3> QED
      BY <3>1, <3>2, SMT
  <2>2. ASSUME NEW v \in Int PROVE Near(EncodedCoord(v, slip), v, 1)
    BY <2>2, SMT DEF EncodedCoord, Near
  <2>3. s.lat = EncodedCoord(d.op_lat, slip) /\ s.lon = EncodedCoord(d.op_lon, slip)
    BY DEF SystemOf, SystemMsg
  <2> HIDE DEF s
  <2> QED
    BY <2>1, <2>2, <2>3, Zenon
<1>13. /\ Near(l.lat, d.lat, 1) /\ Near(l.lon, d.lon, 1)
       /\ AltitudeFromRaw(l.alt) = d.altitude
       /\ l.speed + (IF l.mult THEN SpeedStep ELSE 0) = d.speed
       /\ Near(IF l.dir + (IF l.seg THEN 180 ELSE 0) > 360 THEN 360
               ELSE l.dir + (IF l.seg THEN 180 ELSE 0), d.direction, 1)
  BY LocationSurvives, SMT
<1> HIDE DEF t2, l, s, L, S, B
<1>14. DecodeMessages(msgs).uas_id = IF B = {} THEN "" ELSE TrimmedId(d.uas_id)
  BY <1>6, <1>7, <1>8, <1>10
<1>15. L = {} => ~DecodeMessages(msgs).has_position /\ ~DecodeMessages(msgs).has_speed
  BY <1>6, <1>8, <1>10
<1>16. L # {} =>
         /\ d.has_position
         /\ Near(t2.lat, d.lat, 1) /\ Near(t2.lon, d.lon, 1)
         /\ t2.has_position = PositionValid(t2.lat, t2.lon)
         /\ t2.altitude = d.altitude /\ t2.speed = d.speed
         /\ Near(t2.direction, d.direction, 1)
  BY <1>4, <1>9, <1>10, <1>13, ZenonT(40)
<1>17. S # {} =>
         /\ Near(t2.op_lat, d.op_lat, 1) /\ Near(t2.op_lon, d.op_lon, 1)
         /\ t2.has_operator = PositionValid(t2.op_lat, t2.op_lon)
  BY <1>11, <1>12, Zenon
<1> QED
  BY <1>6, <1>14, <1>15, <1>16, <1>17, Zenon DEF Faithful, B, L, S


-----------------------------------------------------------------------------
(* What arrives.                                                           *)

\* A detection of Remote ID: heard of d, and as it was sent when it is whole.
RidRaw(raw, d, slip, whole) ==
    /\ raw.source \in RidSources /\ raw.link = "RID"
    /\ raw.frame.msgs \in Seq(HeardOf(d, slip)) /\ raw.frame.counter \in Nat
    /\ whole => /\ raw.frame.msgs = Encode(d, slip)
                /\ Refusal(raw.frame) = "NONE"
                /\ MessageCount(raw.frame) = Len(raw.frame.msgs)

\* A whole frame is refused by neither validation.
LEMMA WholeIsTaken ==
  ASSUME NEW d \in Sendable, NEW slip, NEW f, f.msgs = Encode(d, slip), f.tail = 0, f.hdrOK,
         \/ f.ble = FALSE /\ f.counter = Len(f.msgs)
         \/ f.ble = TRUE /\ f.counter = 0 /\ f.ad = 4 + MsgSize * Len(f.msgs)
  PROVE  Refusal(f) = "NONE" /\ MessageCount(f) = Len(f.msgs)
<1> DEFINE n == Len(f.msgs)
<1>1. n \in {1, 2, 3} /\ f.msgs[1] = BasicMsg(TRUE, d.uas_id)
  <2>1. Len(Encode(d, slip)) \in 1..3
    BY EncodeMakes
  <2>2. Encode(d, slip)[1] = BasicMsg(TRUE, d.uas_id)
    BY EncodeMakes
  <2>3. n \in 1..3
    BY <2>1
  <2> HIDE DEF n
  <2> QED
    BY <2>2, <2>3
<1>2. f.msgs # <<>>
  <2>1. n # 0
    <3> HIDE DEF n
    <3> QED
      BY <1>1
  <2>2. Len(<<>>) = 0
    OBVIOUS
  <2> QED
    BY <2>1, <2>2, Zenon
<1>3. FirstTypeKnown(f)
  BY <1>1 DEF FirstTypeKnown, Understood, BasicMsg, BASIC_ID, MSG_TYPE_MAX
<1>4. FrameLen(f) = 5 + 25 * n
  <2>1. FrameLen(f) = HdrSize + MsgSize * n + f.tail
    BY DEF FrameLen
  <2> HIDE DEF n
  <2> QED
    BY <1>1, <2>1, SMT DEF HdrSize, MsgSize
<1>5. MessageCount(f) = n
  <2>1. f.counter = n \/ f.counter = 0
    OBVIOUS
  <2>2. MessageCount(f) = IF (IF f.counter > 0 /\ f.counter < n THEN f.counter ELSE n) > MaxMessages
                          THEN MaxMessages
                          ELSE IF f.counter > 0 /\ f.counter < n THEN f.counter ELSE n
    BY Zenon DEF MessageCount
  <2> HIDE DEF n
  <2> QED
    BY <1>1, <2>1, <2>2, SMT DEF MaxMessages
<1>6. ~ (FrameLen(f) < (IF f.ble THEN BleMinLen ELSE WifiMinLen))
  <2> HIDE DEF n
  <2> QED
    BY <1>1, <1>4, SMT DEF BleMinLen, WifiMinLen
<1>7. ~ (f.ble /\ (f.ad < BleMinAd \/ f.ad + 1 > FrameLen(f)))
  <2>1. f.ble => f.ad = 4 + MsgSize * n
    OBVIOUS
  <2> HIDE DEF n
  <2> QED
    BY <1>1, <1>4, <2>1, SMT DEF BleMinAd, MsgSize
<1> QED
  BY <1>2, <1>3, <1>5, <1>6, <1>7, Zenon DEF Refusal, n

LEMMA PayloadIsRid ==
  ASSUME NEW d \in Sendable, NEW slip, NEW got \in Seq(HeardOf(d, slip)), NEW counter \in Nat, NEW whole,
         whole => got = Encode(d, slip) /\ counter = Len(got)
  PROVE  RidRaw(WifiRaw(WifiPayload(got, counter)), d, slip, whole)
<1> DEFINE f == WifiPayload(got, counter)
<1>1. f.msgs = got /\ f.tail = 0 /\ f.hdrOK = TRUE /\ f.ble = FALSE /\ f.counter = counter
  BY DEF WifiPayload, RidFrame
<1> HIDE DEF f
<1>2. whole => Refusal(f) = "NONE" /\ MessageCount(f) = Len(f.msgs)
  BY <1>1, WholeIsTaken
<1> DEFINE raw == WifiRaw(f)
<1>3. raw.source = "WIFI_RID" /\ raw.link = "RID" /\ raw.frame = f
  BY DEF WifiRaw, Raw
<1> HIDE DEF raw
<1>4. RidRaw(raw, d, slip, whole)
  BY <1>1, <1>2, <1>3 DEF RidRaw, RidSources
<1> QED
  BY <1>4 DEF raw, f

\* A detection whose frame does not begin with the header the decoder asks for.
Headless(raw) == raw.source \in RidSources /\ raw.link = "RID" /\ raw.frame.hdrOK = FALSE

LEMMA FrameIsHeadless == ASSUME NEW msgs PROVE Headless(WifiRaw(WifiFrame(msgs)))
<1> DEFINE f == WifiFrame(msgs)
<1>1. f.hdrOK = FALSE
  BY DEF WifiFrame, RidFrame
<1> HIDE DEF f
<1>2. /\ WifiRaw(f).source = "WIFI_RID" /\ WifiRaw(f).link = "RID"
      /\ WifiRaw(f).frame = f
  BY DEF WifiRaw, Raw
<1> QED
  BY <1>1, <1>2 DEF Headless, RidSources, f

\* Both validations refuse it.
LEMMA HeadlessIsRefused ==
  ASSUME NEW f, f.hdrOK = FALSE PROVE DecodeFrame(f).err # "OK"
<1> DEFINE r == Refusal(f)
<1>1. r # "NONE"
  BY Zenon DEF Refusal
<1> HIDE DEF r
<1>2. DecodeFrame(f) = Rejected(RefusalError(r), r)
  BY <1>1, Zenon DEF DecodeFrame, r
<1>3. RefusalError(r) # "OK"
  BY DEF RefusalError
<1>4. Rejected(RefusalError(r), r).err = RefusalError(r)
  BY DEF Rejected
<1> QED
  BY <1>2, <1>3, <1>4, Zenon

LEMMA BleIsRid ==
  ASSUME NEW d \in Sendable, NEW slip, NEW m \in HeardOf(d, slip), NEW whole,
         whole => <<m>> = Encode(d, slip)
  PROVE  RidRaw(BleRaw(BleFrame(<<m>>)), d, slip, whole)
<1> DEFINE f == BleFrame(<<m>>)
<1>1. /\ f.msgs = <<m>> /\ f.tail = 0 /\ f.hdrOK = TRUE /\ f.ble = TRUE /\ f.counter = 0
      /\ f.ad = 4 + MsgSize * Len(f.msgs)
  BY DEF BleFrame, RidFrame
<1> HIDE DEF f
<1>2. whole => Refusal(f) = "NONE" /\ MessageCount(f) = Len(f.msgs)
  BY <1>1, WholeIsTaken
<1> DEFINE raw == BleRaw(f)
<1>3. raw.source = "BLE_RID" /\ raw.link = "RID" /\ raw.frame = f
  BY DEF BleRaw, Raw
<1>4. f.msgs \in Seq(HeardOf(d, slip)) /\ f.counter \in Nat
  BY <1>1
<1> HIDE DEF raw
<1>5. RidRaw(raw, d, slip, whole)
  BY <1>1, <1>2, <1>3, <1>4 DEF RidRaw, RidSources
<1> QED
  BY <1>5 DEF raw, f


-----------------------------------------------------------------------------
(* What the decoder answers.                                               *)

\* The messages that are read are the first of the frame.
LEMMA ReadMessages ==
  ASSUME NEW X, NEW f, f.msgs \in Seq(X), f.counter \in Nat
  PROVE  LET n    == MessageCount(f)
             msgs == SubSeq(f.msgs, 1, n)
         IN  /\ n \in Nat /\ n <= Len(f.msgs)
             /\ DOMAIN msgs = 1..n
             /\ \A i \in 1..n : msgs[i] = f.msgs[i] /\ f.msgs[i] \in X
<1> DEFINE n == MessageCount(f)
           w == Len(f.msgs)
<1>1. w \in Nat
  OBVIOUS
<1>2. n \in Nat /\ n <= w
  <2>1. n = IF (IF f.counter > 0 /\ f.counter < w THEN f.counter ELSE w) > MaxMessages
            THEN MaxMessages
            ELSE IF f.counter > 0 /\ f.counter < w THEN f.counter ELSE w
    BY Zenon DEF MessageCount
  <2> HIDE DEF n, w
  <2> QED
    BY <1>1, <2>1, SMT DEF MaxMessages
<1> HIDE DEF n
<1>3. \A i \in 1..n : i \in 1..w
  <2> HIDE DEF w
  <2> QED
    BY <1>1, <1>2
<1> QED
  BY <1>1, <1>2, <1>3 DEF n

\* An answer "OK" says that no message read is damaged, and what they are decoded to.
LEMMA TakenFrame ==
  ASSUME NEW X, NEW f, f.msgs \in Seq(X), f.counter \in Nat, DecodeFrame(f).err = "OK"
  PROVE  LET msgs == SubSeq(f.msgs, 1, MessageCount(f))
         IN  /\ \A i \in DOMAIN msgs : msgs[i].crc
             /\ OfType(msgs, BASIC_ID) # {}
             /\ DecodeFrame(f).data = DecodeMessages(msgs)
             /\ DecodeFrame(f).data.uas_id # ""
<1> DEFINE msgs == SubSeq(f.msgs, 1, MessageCount(f))
           data == DecodeMessages(msgs)
           taken == [err |-> "OK", reason |-> "NONE", data |-> data]
<1>1. \/ \E e \in {"UNKNOWN_FMT", "INVALID_SIZE", "CRC_FAIL", "INCOMPLETE"} : \E r :
           DecodeFrame(f) = Rejected(e, r)
      \/ /\ \A i \in DOMAIN msgs : msgs[i].crc
         /\ OfType(msgs, BASIC_ID) # {} /\ data.uas_id # ""
         /\ DecodeFrame(f) = taken
  <2> HIDE DEF data, msgs
  <2> QED
    BY Zenon DEF DecodeFrame, RefusalError, data, msgs
<1>2. \A e \in {"UNKNOWN_FMT", "INVALID_SIZE", "CRC_FAIL", "INCOMPLETE"} : \A r :
         Rejected(e, r).err # "OK"
  BY DEF Rejected
<1>3. taken.data = data
  OBVIOUS
<1> QED
  BY <1>1, <1>2, <1>3, Zenon

\* A frame of messages of d that is taken says nothing d did not send.
LEMMA TakenIsTrue ==
  ASSUME NEW d \in Sendable, NEW slip \in {0, 1}, NEW f,
         f.msgs \in Seq(HeardOf(d, slip)), f.counter \in Nat, DecodeFrame(f).err = "OK"
  PROVE  /\ DecodeFrame(f).data.uas_id = TrimmedId(d.uas_id) /\ TrimmedId(d.uas_id) # ""
         /\ Agrees(TelemetryOf(DecodeFrame(f).data), d)
<1> DEFINE n    == MessageCount(f)
           msgs == SubSeq(f.msgs, 1, n)
           t    == DecodeFrame(f).data
           tele == TelemetryOf(t)
           L    == OfType(msgs, LOCATION)
<1>1. /\ n \in Nat /\ DOMAIN msgs = 1..n
      /\ \A i \in 1..n : msgs[i] = f.msgs[i] /\ f.msgs[i] \in HeardOf(d, slip)
  BY ReadMessages, Zenon
<1>2. /\ \A i \in DOMAIN msgs : msgs[i].crc
      /\ OfType(msgs, BASIC_ID) # {} /\ t = DecodeMessages(msgs) /\ t.uas_id # ""
  BY TakenFrame, Zenon
<1>3. \A i \in 1..n : msgs[i] \in Sent(d, slip)
  BY <1>1, <1>2, IntactWasSent, Zenon
<1> HIDE DEF n, msgs, t, L
<1>4. /\ t.uas_id = TrimmedId(d.uas_id)
      /\ L = {} => ~t.has_position /\ ~t.has_speed
      /\ L # {} =>
            /\ d.has_position
            /\ Near(t.lat, d.lat, 1) /\ Near(t.lon, d.lon, 1)
            /\ t.has_position = PositionValid(t.lat, t.lon)
            /\ t.altitude = d.altitude /\ t.speed = d.speed
            /\ Near(t.direction, d.direction, 1)
  <2>1. Faithful(t, d, msgs)
    BY <1>1, <1>2, <1>3, DecodedFields, Zenon
  <2> QED
    BY <1>2, <2>1, Zenon DEF Faithful, L
<1>5. /\ tele.uas_id = t.uas_id
      /\ tele.position = (IF t.has_position THEN <<t.lat, t.lon>> ELSE None)
      /\ tele.altitude = (IF t.has_position THEN <<t.altitude>> ELSE None)
      /\ tele.speed = (IF t.has_speed THEN <<t.speed>> ELSE None)
      /\ tele.heading = (IF t.has_speed THEN t.direction ELSE 0)
  BY DEF TelemetryOf, NoTelemetry
<1> HIDE DEF tele
<1>6. tele.position # None =>
        /\ d.has_position
        /\ Near(tele.position[1], d.lat, 1) /\ Near(tele.position[2], d.lon, 1)
        /\ LatValid(tele.position[1]) /\ LonValid(tele.position[2])
        /\ tele.altitude = <<d.altitude>>
  <2> SUFFICES ASSUME tele.position # None
               PROVE  /\ d.has_position
                      /\ Near(tele.position[1], d.lat, 1) /\ Near(tele.position[2], d.lon, 1)
                      /\ LatValid(tele.position[1]) /\ LonValid(tele.position[2])
                      /\ tele.altitude = <<d.altitude>>
    OBVIOUS
  <2>1. t.has_position /\ L # {}
    BY <1>4, <1>5, Zenon
  <2>2. PositionValid(t.lat, t.lon)
    BY <1>4, <2>1, Zenon
  <2>3. tele.position = <<t.lat, t.lon>> /\ tele.altitude = <<t.altitude>>
    BY <1>5, <2>1, Zenon
  <2>4. tele.position[1] = t.lat /\ tele.position[2] = t.lon
    BY <2>3
  <2> QED
    BY <1>4, <2>1, <2>2, <2>3, <2>4, Zenon DEF PositionValid
<1>7. tele.speed # None => tele.speed = <<d.speed>> /\ Near(tele.heading, d.direction, 1)
  BY <1>4, <1>5, Zenon
<1> QED
  BY <1>2, <1>4, <1>5, <1>6, <1>7, Zenon DEF Agrees, tele, t


\* What HeardAsSent says of an answer to a frame of d.
HeardFrom(d, err, t) ==
    IF TrimmedId(d.uas_id) = "" THEN err = "INCOMPLETE"
    ELSE /\ err = "OK" /\ Agrees(TelemetryOf(t), d)
         /\ d.has_position =>
              /\ t.has_position = (LatValid(t.lat) /\ LonValid(t.lon))
              /\ t.speed = d.speed /\ Near(t.direction, d.direction, 1)
              /\ t.altitude = d.altitude
         /\ d.has_operator =>
              /\ Near(t.op_lat, d.op_lat, 1) /\ Near(t.op_lon, d.op_lon, 1)
              /\ t.has_operator = PositionValid(t.op_lat, t.op_lon)

\* A whole frame of d is decoded to what d sent.
LEMMA WholeIsHeard ==
  ASSUME NEW d \in Sendable, NEW slip \in {0, 1}, NEW f,
         f.msgs = Encode(d, slip), f.counter \in Nat,
         Refusal(f) = "NONE", MessageCount(f) = Len(f.msgs)
  PROVE  HeardFrom(d, DecodeFrame(f).err, DecodeFrame(f).data)
<1> DEFINE e    == Encode(d, slip)
           n    == Len(e)
           msgs == SubSeq(f.msgs, 1, MessageCount(f))
           data == DecodeMessages(msgs)
<1>1. /\ e \in Seq(Sent(d, slip)) /\ n \in 1..3 /\ e[1] = BasicMsg(TRUE, d.uas_id)
      /\ d.has_position => \E i \in 1..n : e[i] = EncodedLocation(d, slip)
      /\ d.has_operator => \E i \in 1..n : e[i] = SystemOf(d, slip)
  BY EncodeMakes, Zenon
<1>2. n \in Nat /\ 1 \in 1..n
  <2> HIDE DEF n
  <2> QED
    BY <1>1
<1>3. msgs = SubSeq(e, 1, n)
  OBVIOUS
<1>4. DOMAIN msgs = 1..n /\ \A i \in 1..n : msgs[i] = e[i] /\ e[i] \in Sent(d, slip)
  <2> HIDE DEF msgs, e
  <2> QED
    BY <1>1, <1>2, <1>3
<1> HIDE DEF e, n, msgs, data
<1>5. \A i \in 1..n : msgs[i] \in Sent(d, slip) /\ msgs[i].crc = TRUE
  BY <1>4, SentKinds, Zenon
<1>6. OfType(msgs, BASIC_ID) # {}
  <2>1. msgs[1].type = BASIC_ID
    BY <1>1, <1>2, <1>4 DEF BasicMsg
  <2> QED
    BY <1>2, <1>4, <2>1 DEF OfType
<1>7. d.has_position => OfType(msgs, LOCATION) # {}
  <2> SUFFICES ASSUME d.has_position PROVE OfType(msgs, LOCATION) # {}
    OBVIOUS
  <2>1. PICK i \in 1..n : msgs[i] = EncodedLocation(d, slip)
    BY <1>1, <1>4
  <2>2. msgs[i].type = LOCATION
    BY <2>1, LocationSurvives, ZenonT(40)
  <2> QED
    BY <1>4, <2>2 DEF OfType
<1>8. d.has_operator => OfType(msgs, SYSTEM) # {}
  <2> SUFFICES ASSUME d.has_operator PROVE OfType(msgs, SYSTEM) # {}
    OBVIOUS
  <2>1. PICK i \in 1..n : msgs[i] = SystemOf(d, slip)
    BY <1>1, <1>4
  <2>2. msgs[i].type = SYSTEM
    BY <2>1 DEF SystemOf, SystemMsg
  <2> QED
    BY <1>4, <2>2 DEF OfType
<1>9. /\ data.uas_id = TrimmedId(d.uas_id)
      /\ d.has_position =>
            /\ data.has_position = PositionValid(data.lat, data.lon)
            /\ data.altitude = d.altitude /\ data.speed = d.speed
            /\ Near(data.direction, d.direction, 1)
      /\ d.has_operator =>
            /\ Near(data.op_lat, d.op_lat, 1) /\ Near(data.op_lon, d.op_lon, 1)
            /\ data.has_operator = PositionValid(data.op_lat, data.op_lon)
  <2>1. Faithful(data, d, msgs)
    BY <1>2, <1>4, <1>5, DecodedFields, Zenon DEF data
  <2> QED
    BY <1>6, <1>7, <1>8, <2>1, Zenon DEF Faithful
<1>10. ~ \E i \in DOMAIN msgs : ~msgs[i].crc
  BY <1>4, <1>5, Zenon
<1>11. DecodeFrame(f) = IF data.uas_id = "" THEN Rejected("INCOMPLETE", "FORMAT")
                        ELSE [err |-> "OK", reason |-> "NONE", data |-> data]
  BY <1>6, <1>10, Zenon DEF DecodeFrame, msgs, data
<1>12. CASE TrimmedId(d.uas_id) = ""
  <2>1. DecodeFrame(f) = Rejected("INCOMPLETE", "FORMAT")
    BY <1>9, <1>11, <1>12, Zenon
  <2>2. Rejected("INCOMPLETE", "FORMAT").err = "INCOMPLETE"
    BY DEF Rejected
  <2> QED
    BY <1>12, <2>1, <2>2, Zenon DEF HeardFrom
<1>13. CASE TrimmedId(d.uas_id) # ""
  <2>1. DecodeFrame(f) = [err |-> "OK", reason |-> "NONE", data |-> data]
    BY <1>9, <1>11, <1>13
  <2>2. DecodeFrame(f).err = "OK" /\ DecodeFrame(f).data = data
    BY <2>1
  <2>3. f.msgs \in Seq(HeardOf(d, slip))
    <3>1. Sent(d, slip) \subseteq HeardOf(d, slip)
      BY DEF HeardOf
    <3> QED
      BY <1>1, <3>1 DEF e
  <2>4. Agrees(TelemetryOf(data), d)
    BY <2>2, <2>3, TakenIsTrue, Zenon
  <2> QED
    BY <1>9, <1>13, <2>2, <2>4, Zenon DEF HeardFrom, PositionValid
<1> QED
  BY <1>12, <1>13, Zenon


-----------------------------------------------------------------------------
(* The inductive invariant.                                                *)

Before == {"buses", "hal", "config", "domain", "services"}

\* The table is one of entries; until the services are up the registry is empty, and from
\* then on the classifier has the built-in table and the decoder its three protocols.
Prepared ==
    /\ TableOK(table) /\ card.csv \in Seq(CsvLine)
    /\ phase \in Before => reg = << >>
    /\ phase \notin Before => table = DefaultSignatures /\ s_decoders = RegisteredDecoders

DecInv == Prepared /\ HeardAsSent /\ EntriesAreTrue

LEMMA Registered == RegisteredDecoders = {"REMOTEID", "MAVLINK", "ELRS"}
<1> DEFINE wanted == <<"REMOTEID", "MAVLINK", "ELRS">>
<1>1. \A i \in 1..3 : i = 1 \/ i = 2 \/ i = 3
  OBVIOUS
<1>2. {wanted[i] : i \in 1..3} = {wanted[1], wanted[2], wanted[3]}
  BY <1>1
<1>3. wanted[1] = "REMOTEID" /\ wanted[2] = "MAVLINK" /\ wanted[3] = "ELRS"
  OBVIOUS
<1> QED
  BY <1>2, <1>3 DEF RegisteredDecoders, MAX_DECODERS

\* The classifier never names Remote ID: the built-in table has no such entry.
LEMMA NeverRemoteId ==
  ASSUME NEW hdr, NEW freq
  PROVE  Classify(DefaultSignatures, hdr, freq).protocol # "REMOTEID"
<1> DEFINE t == DefaultSignatures
<1>1. ASSUME NEW H, H \subseteq DOMAIN t
      PROVE  FirstSig(t, H).protocol # "REMOTEID"
  <2>1. CASE H = {}
    BY <2>1 DEF FirstSig, NoSig, Sig
  <2>2. CASE H # {}
    <3>1. PICK i \in H : FirstSig(t, H) = t[i]
      BY <1>1, <2>2, DefaultsOK, FirstHit, Zenon
    <3>2. i \in 1..Len(t)
      BY <1>1, <3>1, DefaultsOK DEF TableOK
    <3> QED
      BY <3>1, <3>2, DefaultsOK, Zenon
  <2> QED
    BY <2>1, <2>2
<1>2. Fitting(t, hdr) \subseteq DOMAIN t /\ FittingIn(t, hdr, freq) \subseteq DOMAIN t
  BY Zenon DEF Fitting, FittingIn
<1>3. \E p, c : /\ Classify(t, hdr, freq) = [protocol |-> p, confidence |-> c]
               /\ \/ p = "UNKNOWN"
                  \/ p = FirstSig(t, FittingIn(t, hdr, freq)).protocol
                  \/ p = FirstSig(t, Fitting(t, hdr)).protocol
  BY Zenon DEF Classify
<1>4. PICK p, c : /\ Classify(t, hdr, freq) = [protocol |-> p, confidence |-> c]
                  /\ \/ p = "UNKNOWN"
                     \/ p = FirstSig(t, FittingIn(t, hdr, freq)).protocol
                     \/ p = FirstSig(t, Fitting(t, hdr)).protocol
  BY <1>3
<1>5. p # "REMOTEID"
  BY <1>1, <1>2, <1>4, Zenon
<1>6. Classify(t, hdr, freq).protocol = p
  BY <1>4
<1> QED
  BY <1>5, <1>6

\* What arrives is a Remote ID detection of some transmitter, one that does not begin where
\* the decoder looks, or what the LoRa monitor hears.
LEMMA Arrivals ==
  ASSUME Arrive
  PROVE  \E raw, from, whole :
           /\ Decode(raw, from, whole)
           /\ \/ \E slip \in {0, 1} : from \in Peers /\ RidRaw(raw, from, slip, whole)
              \/ Headless(raw)
              \/ raw \in LoraHeard /\ whole = FALSE
<1>1. \A d \in Peers : d \in Sendable
  BY TelemetryAssumption
<1>2. CASE CallWithPayload
  <2>1. PICK d \in Peers, slip \in {0, 1} :
          LET msgs == Encode(d, slip)
              Got(got, counter, whole) ==
                Decode(WifiRaw(WifiPayload(got, counter)), d, whole)
          IN  \/ Got(msgs, Len(msgs), TRUE)
              \/ Got(msgs, 1, Len(msgs) = 1)
              \/ Got(Front(msgs), Len(msgs), FALSE)
              \/ \E i \in DOMAIN msgs : Got(Hurt(msgs, i), Len(msgs), FALSE)
    BY <1>2, Zenon DEF CallWithPayload
  <2> DEFINE e == Encode(d, slip)
             H == HeardOf(d, slip)
             wifi(got, counter) == WifiRaw(WifiPayload(got, counter))
  <2>2. e \in Seq(Sent(d, slip)) /\ Len(e) \in 1..3
    BY <1>1, EncodeMakes, Zenon
  <2>3. Sent(d, slip) \subseteq H
    BY DEF HeardOf
  <2>4. e \in Seq(H) /\ Len(e) \in Nat
    <3> HIDE DEF e, H
    <3> QED
      BY <2>2, <2>3
  <2>5. Front(e) \in Seq(H)
    <3> HIDE DEF e, H
    <3> QED
      BY <2>2, <2>4 DEF Front
  <2>6. \A i \in DOMAIN e : Hurt(e, i) \in Seq(H)
    <3> TAKE i \in DOMAIN e
    <3>1. [e[i] EXCEPT !.crc = FALSE] \in H
      <4>1. e[i] \in Sent(d, slip)
        <5> HIDE DEF e
        <5> QED
          BY <2>2
      <4> QED
        BY <4>1, Zenon DEF HeardOf
    <3>2. Hurt(e, i) = [e EXCEPT ![i] = [e[i] EXCEPT !.crc = FALSE]]
      BY DEF Hurt
    <3> HIDE DEF e, H
    <3> QED
      BY <2>4, <3>1, <3>2
  <2>7. ASSUME NEW got \in Seq(H), NEW counter \in Nat, NEW whole,
               whole => got = e /\ counter = Len(got)
        PROVE  RidRaw(wifi(got, counter), d, slip, whole)
    BY <1>1, <2>7, PayloadIsRid, Zenon
  <2>8. /\ RidRaw(wifi(e, Len(e)), d, slip, TRUE)
        /\ RidRaw(wifi(e, 1), d, slip, Len(e) = 1)
        /\ RidRaw(wifi(Front(e), Len(e)), d, slip, FALSE)
        /\ \A i \in DOMAIN e : RidRaw(wifi(Hurt(e, i), Len(e)), d, slip, FALSE)
    <3>1. 1 \in Nat
      OBVIOUS
    <3> HIDE DEF e, H, wifi
    <3>2. RidRaw(wifi(e, Len(e)), d, slip, TRUE)
      BY <2>4, <2>7, Zenon
    <3>3. RidRaw(wifi(e, 1), d, slip, Len(e) = 1)
      BY <2>4, <2>7, <3>1, Zenon
    <3>4. RidRaw(wifi(Front(e), Len(e)), d, slip, FALSE)
      BY <2>4, <2>5, <2>7, Zenon
    <3>5. \A i \in DOMAIN e : RidRaw(wifi(Hurt(e, i), Len(e)), d, slip, FALSE)
      BY <2>4, <2>6, <2>7, Zenon
    <3> QED
      BY <3>2, <3>3, <3>4, <3>5
  <2>9. \/ Decode(wifi(e, Len(e)), d, TRUE)
        \/ Decode(wifi(e, 1), d, Len(e) = 1)
        \/ Decode(wifi(Front(e), Len(e)), d, FALSE)
        \/ \E i \in DOMAIN e : Decode(wifi(Hurt(e, i), Len(e)), d, FALSE)
    BY <2>1, Zenon
  <2> HIDE DEF e, H, wifi
  <2> QED
    BY <2>8, <2>9, Zenon
<1>3. CASE HearBle
  <2>1. PICK d \in Peers, slip \in {0, 1} :
          LET msgs == Encode(d, slip)
              Got(m, whole) ==
                Decode(BleRaw(BleFrame(<<m>>)), d, whole)
          IN  \E i \in DOMAIN msgs :
                 \/ Got(msgs[i], Len(msgs) = 1)
                 \/ Got([msgs[i] EXCEPT !.crc = FALSE], FALSE)
    BY <1>3, Zenon DEF HearBle
  <2> DEFINE e == Encode(d, slip)
             H == HeardOf(d, slip)
             ble(m) == BleRaw(BleFrame(<<m>>))
  <2>2. e \in Seq(Sent(d, slip))
    BY <1>1, EncodeMakes, Zenon
  <2>3. \A i \in DOMAIN e : e[i] \in H /\ [e[i] EXCEPT !.crc = FALSE] \in H
    <3> TAKE i \in DOMAIN e
    <3>1. e[i] \in Sent(d, slip)
      <4> HIDE DEF e
      <4> QED
        BY <2>2
    <3> QED
      BY <3>1, Zenon DEF HeardOf
  <2>4. \A i \in DOMAIN e : Len(e) = 1 => <<e[i]>> = e
    <3> HIDE DEF e
    <3> QED
      BY <2>2
  <2>5. ASSUME NEW m \in H, NEW whole, whole => <<m>> = e
        PROVE  RidRaw(ble(m), d, slip, whole)
    BY <1>1, <2>5, BleIsRid, Zenon
  <2>6. PICK i \in DOMAIN e : \/ Decode(ble(e[i]), d, Len(e) = 1)
                              \/ Decode(ble([e[i] EXCEPT !.crc = FALSE]), d, FALSE)
    BY <2>1, Zenon
  <2> HIDE DEF e, H, ble
  <2>7. RidRaw(ble(e[i]), d, slip, Len(e) = 1)
    BY <2>3, <2>4, <2>5, Zenon
  <2>8. RidRaw(ble([e[i] EXCEPT !.crc = FALSE]), d, slip, FALSE)
    BY <2>3, <2>5, Zenon
  <2> QED
    BY <2>6, <2>7, <2>8, Zenon
<1>4. CASE HearLora
  BY <1>4, Zenon DEF HearLora
<1>5. CASE HearWifi
  <2>1. PICK d \in Peers, slip \in {0, 1} : Decode(WifiRaw(WifiFrame(Encode(d, slip))), d, TRUE)
    BY <1>5, Zenon DEF HearWifi
  <2>2. Headless(WifiRaw(WifiFrame(Encode(d, slip))))
    BY FrameIsHeadless, Zenon
  <2> QED
    BY <2>1, <2>2, Zenon
<1> QED
  BY <1>2, <1>3, <1>4, <1>5, Zenon DEF Arrive


\* Which decoder takes what arrives, once the services are up.
LEMMA RidAnswer ==
  ASSUME s_decoders = RegisteredDecoders, NEW raw, raw.source \in RidSources
  PROVE  /\ EffectiveProtocol(raw) = "REMOTEID" /\ DispatchProtocol(raw) = "REMOTEID"
         /\ RunDecoder(raw).err = DecodeFrame(raw.frame).err
         /\ DecodeFrame(raw.frame).err = "OK" =>
              RunDecoder(raw).tele = TelemetryOf(DecodeFrame(raw.frame).data)
<1>1. EffectiveProtocol(raw) = "REMOTEID"
  BY DEF EffectiveProtocol
<1>2. DispatchProtocol(raw) = "REMOTEID"
  BY <1>1 DEF DispatchProtocol
<1>3. "REMOTEID" \in s_decoders
  BY Registered
<1> DEFINE res == DecodeFrame(raw.frame)
<1>4. RunDecoder(raw) = Decoded(res.err, IF res.err = "OK" THEN TelemetryOf(res.data)
                                         ELSE NoTelemetry)
  <2> HIDE DEF res
  <2> QED
    BY <1>2, <1>3 DEF RunDecoder, res
<1> HIDE DEF res
<1> QED
  BY <1>1, <1>2, <1>4 DEF Decoded, res

LEMMA LinkAnswer ==
  ASSUME table = DefaultSignatures, s_decoders = RegisteredDecoders,
         NEW raw, raw.source = "LORA", raw.frame.len \in Nat
  PROVE  /\ EffectiveProtocol(raw) # "REMOTEID" /\ DispatchProtocol(raw) # "REMOTEID"
         /\ RunDecoder(raw).err = "OK" =>
              IF raw.link = "MAV" THEN MavValid(raw.frame) ELSE CrsfIntact(raw.frame)
<1>1. EffectiveProtocol(raw) # "REMOTEID"
  BY NeverRemoteId DEF EffectiveProtocol, RidSources
<1>2. DispatchProtocol(raw) # "REMOTEID"
  BY <1>1 DEF DispatchProtocol
<1>3. Failed("UNKNOWN_FMT").err # "OK" /\ Failed("INCOMPLETE").err # "OK"
      /\ Failed("CRC_FAIL").err # "OK"
  BY DEF Failed, Decoded
<1>4. MavDecode(raw.frame).err = "OK" => MavValid(raw.frame)
  <2>1. ASSUME ParseError(raw.frame) # "OK" PROVE Failed(ParseError(raw.frame)).err # "OK"
    BY <2>1 DEF Failed, Decoded
  <2> SUFFICES ASSUME ~MavValid(raw.frame) PROVE MavDecode(raw.frame).err # "OK"
    OBVIOUS
  <2>2. CASE raw.frame.len < MavMinLen
    BY <1>3, <2>2, Zenon DEF MavDecode
  <2>3. CASE ~ (raw.frame.len < MavMinLen) /\ ParseError(raw.frame) # "OK"
    BY <2>1, <2>3, Zenon DEF MavDecode
  <2>4. CASE ~ (raw.frame.len < MavMinLen) /\ ParseError(raw.frame) = "OK"
             /\ raw.frame.msg \notin KnownMsgs
    BY <1>3, <2>4, Zenon DEF MavDecode
  <2>5. CASE ~ (raw.frame.len < MavMinLen) /\ ParseError(raw.frame) = "OK"
             /\ raw.frame.msg \in KnownMsgs /\ ~raw.frame.crc
    BY <1>3, <2>5, Zenon DEF MavDecode
  <2>6. raw.frame.len < MavMinLen \/ raw.frame.len >= MavMinLen
    BY SMT DEF MavMinLen
  <2> QED
    BY <2>2, <2>3, <2>4, <2>5, <2>6, Zenon DEF MavValid
<1>5. CrsfDecode(raw.frame).err = "OK" => CrsfIntact(raw.frame)
  <2> SUFFICES ASSUME ~CrsfIntact(raw.frame) PROVE CrsfDecode(raw.frame).err # "OK"
    OBVIOUS
  <2>1. CrsfDecode(raw.frame) = Failed("INCOMPLETE") \/ CrsfDecode(raw.frame) = Failed("CRC_FAIL")
    BY Zenon DEF CrsfDecode
  <2> QED
    BY <1>3, <2>1, Zenon
<1>6. CASE DispatchProtocol(raw) = "MAVLINK"
  <2>1. RunDecoder(raw) = IF raw.link = "MAV" THEN MavDecode(raw.frame) ELSE Failed("UNKNOWN_FMT")
    BY <1>6, Registered DEF RunDecoder
  <2> QED
    BY <1>1, <1>2, <1>3, <1>4, <2>1, Zenon
<1>7. CASE DispatchProtocol(raw) = "ELRS"
  <2>1. RunDecoder(raw) = IF raw.link = "CRSF" THEN CrsfDecode(raw.frame) ELSE Failed("INCOMPLETE")
    BY <1>7, Registered DEF RunDecoder
  <2>2. raw.link = "CRSF" => raw.link # "MAV"
    OBVIOUS
  <2> QED
    BY <1>1, <1>2, <1>3, <1>5, <2>1, <2>2, Zenon
<1>8. CASE DispatchProtocol(raw) \notin s_decoders
  <2>1. RunDecoder(raw) = Failed("UNKNOWN_FMT")
    BY <1>8, Zenon DEF RunDecoder
  <2> QED
    BY <1>1, <1>2, <1>3, <2>1, Zenon
<1> QED
  BY <1>2, <1>6, <1>7, <1>8, Registered

\* A write to the registry that is true of its vehicle leaves every entry true.
LEMMA WritesAreTrue ==
  ASSUME NEW raw, NEW tele, NEW now, EntriesAreTrue, UpdateRegistry(raw, tele, now),
         EffectiveProtocol(raw) = "REMOTEID" =>
           \E d \in Peers : <<d.uas_id>> = AircraftId(raw, tele) /\ Agrees(tele, d)
  PROVE  EntriesAreTrue'
<1> DEFINE id  == AircraftId(raw, tele)
           new == EntryAfter(raw, tele, IF id \in DOMAIN reg THEN reg[id] ELSE FreshEntry, now)
           With(ids) == [i \in ids \cup {id} |-> IF i = id THEN new ELSE reg[i]]
<1>1. \/ reg' = reg
      \/ \E ids : ids \subseteq DOMAIN reg /\ reg' = With(ids)
  <2>1. \/ /\ id \in DOMAIN reg \/ Cardinality(DOMAIN reg) < MaxAircraft
           /\ reg' = With(DOMAIN reg)
        \/ /\ id \notin DOMAIN reg /\ Cardinality(DOMAIN reg) = MaxAircraft
           /\ \/ reg' = reg
              \/ \E gone \in DOMAIN reg : reg' = With(DOMAIN reg \ {gone})
    BY DEF UpdateRegistry
  <2> HIDE DEF With
  <2>2. \A gone : DOMAIN reg \ {gone} \subseteq DOMAIN reg
    OBVIOUS
  <2> QED
    BY <2>1, <2>2, Zenon
<1>2. new.tele = tele /\ new.protocol = EffectiveProtocol(raw)
  BY DEF EntryAfter
<1> HIDE DEF new, id
<1>3. CASE reg' = reg
  BY <1>3 DEF EntriesAreTrue
<1>4. CASE \E ids : ids \subseteq DOMAIN reg /\ reg' = With(ids)
  <2>1. PICK ids : ids \subseteq DOMAIN reg /\ reg' = With(ids)
    BY <1>4
  <2>2. \A i \in DOMAIN reg' : (i = id /\ reg'[i] = new) \/ (i \in DOMAIN reg /\ reg'[i] = reg[i])
    BY <2>1
  <2>3. ASSUME NEW i \in DOMAIN reg', reg'[i].protocol = "REMOTEID"
        PROVE  \E d \in Peers : <<d.uas_id>> = i /\ Agrees(reg'[i].tele, d)
    <3>1. CASE i = id /\ reg'[i] = new
      BY <1>2, <2>3, <3>1, Zenon DEF id
    <3>2. CASE i \in DOMAIN reg /\ reg'[i] = reg[i]
      BY <2>3, <3>2, Zenon DEF EntriesAreTrue
    <3> QED
      BY <2>2, <3>1, <3>2, Zenon
  <2> QED
    BY <2>3, Zenon DEF EntriesAreTrue
<1> QED
  BY <1>1, <1>3, <1>4


-----------------------------------------------------------------------------
(* The steps.                                                              *)

\* A detection that is decoded leaves the invariant, and a registry entry it changes is of
\* a frame whose checks fit.
LEMMA DecodePreserves ==
  ASSUME DecInv, phase \notin Before, UNCHANGED bootVars, NEW raw, NEW from, NEW whole,
         Decode(raw, from, whole),
         \/ \E slip \in {0, 1} : from \in Peers /\ RidRaw(raw, from, slip, whole)
         \/ Headless(raw)
         \/ raw \in LoraHeard /\ whole = FALSE
  PROVE  /\ DecInv'
         /\ reg' # reg =>
              IF raw.link = "RID"
              THEN \A i \in 1..MessageCount(raw.frame) : raw.frame.msgs[i].crc
              ELSE IF raw.link = "MAV" THEN MavValid(raw.frame)
              ELSE CrsfIntact(raw.frame)
         /\ last'.raw = raw
<1> DEFINE res   == RunDecoder(raw)
           isRid == DispatchProtocol(raw) = "REMOTEID" /\ "REMOTEID" \in s_decoders
<1>1. /\ table = DefaultSignatures /\ s_decoders = RegisteredDecoders
      /\ TableOK(table) /\ card.csv \in Seq(CsvLine) /\ HeardAsSent /\ EntriesAreTrue
  BY DEF DecInv, Prepared
<1>2. /\ last' = [raw |-> raw, from |-> from, whole |-> whole, err |-> res.err,
                  data |-> IF isRid THEN DecodeFrame(raw.frame).data ELSE NoData]
      /\ IF res.err = "OK" /\ attached THEN UpdateRegistry(raw, res.tele, calls')
         ELSE UNCHANGED reg
      /\ UNCHANGED <<table, s_decoders, attached>>
  BY Zenon DEF Decode
<1>3. /\ last'.raw = raw /\ last'.from = from /\ last'.whole = whole /\ last'.err = res.err
      /\ last'.data = IF isRid THEN DecodeFrame(raw.frame).data ELSE NoData
  <2> HIDE DEF res, isRid
  <2> QED
    BY <1>2
<1>4. Prepared'
  BY <1>1, <1>2 DEF Prepared, bootVars
<1> HIDE DEF res
<1>5. CASE \E slip \in {0, 1} : from \in Peers /\ RidRaw(raw, from, slip, whole)
  <2>1. PICK slip \in {0, 1} : from \in Peers /\ RidRaw(raw, from, slip, whole)
    BY <1>5
  <2>2. from \in Sendable
    BY <2>1, TelemetryAssumption
  <2> DEFINE f == raw.frame
  <2>3. /\ raw.source \in RidSources /\ raw.link = "RID"
        /\ f.msgs \in Seq(HeardOf(from, slip)) /\ f.counter \in Nat
        /\ whole => /\ f.msgs = Encode(from, slip)
                    /\ Refusal(f) = "NONE" /\ MessageCount(f) = Len(f.msgs)
    BY <2>1, Zenon DEF RidRaw
  <2>4. /\ EffectiveProtocol(raw) = "REMOTEID" /\ isRid
        /\ res.err = DecodeFrame(f).err
        /\ DecodeFrame(f).err = "OK" => res.tele = TelemetryOf(DecodeFrame(f).data)
    BY <1>1, <2>3, RidAnswer, Registered DEF res
  <2> HIDE DEF f
  <2>5. HeardAsSent'
    <3>1. last'.data = DecodeFrame(f).data
      BY <1>3, <2>4 DEF f
    <3>2. whole => HeardFrom(from, DecodeFrame(f).err, DecodeFrame(f).data)
      BY <2>2, <2>3, WholeIsHeard, Zenon
    <3>3. last'.whole => HeardFrom(last'.from, last'.err, last'.data)
      BY <1>3, <2>4, <3>1, <3>2, Zenon
    <3> QED
      BY <3>3, Zenon DEF HeardAsSent, HeardFrom
  <2>6. CASE res.err = "OK" /\ attached
    <3>1. UpdateRegistry(raw, res.tele, calls')
      BY <1>2, <2>6, Zenon
    <3>2. /\ DecodeFrame(f).data.uas_id = TrimmedId(from.uas_id) /\ TrimmedId(from.uas_id) # ""
          /\ Agrees(TelemetryOf(DecodeFrame(f).data), from)
      BY <2>2, <2>3, <2>4, <2>6, TakenIsTrue, Zenon
    <3>3. Agrees(res.tele, from)
      BY <2>4, <2>6, <3>2, Zenon
    <3>4. res.tele.uas_id = from.uas_id /\ res.tele.uas_id # ""
      BY <3>2, <3>3 DEF Agrees, TrimmedId
    <3>5. AircraftId(raw, res.tele) = <<from.uas_id>>
      BY <3>4 DEF AircraftId
    <3>6. EntriesAreTrue'
      BY <1>1, <2>1, <3>1, <3>3, <3>5, WritesAreTrue, Zenon
    <3>7. \A i \in 1..MessageCount(f) : f.msgs[i].crc
      <4> DEFINE msgs == SubSeq(f.msgs, 1, MessageCount(f))
      <4>1. \A i \in DOMAIN msgs : msgs[i].crc
        BY <2>3, <2>4, <2>6, TakenFrame, Zenon
      <4>2. DOMAIN msgs = 1..MessageCount(f)
            /\ \A i \in 1..MessageCount(f) : msgs[i] = f.msgs[i]
        BY <2>3, ReadMessages, Zenon
      <4> HIDE DEF msgs
      <4> QED
        BY <4>1, <4>2
    <3> QED
      BY <1>3, <1>4, <2>3, <2>5, <3>6, <3>7, Zenon DEF DecInv, f
  <2>7. CASE ~ (res.err = "OK" /\ attached)
    <3>1. reg' = reg
      BY <1>2, <2>7, Zenon
    <3>2. EntriesAreTrue'
      BY <1>1, <3>1 DEF EntriesAreTrue
    <3> QED
      BY <1>3, <1>4, <2>5, <3>1, <3>2, Zenon DEF DecInv
  <2> QED
    BY <2>6, <2>7, Zenon
<1>6. CASE raw \in LoraHeard /\ whole = FALSE
  <2>1. raw.source = "LORA" /\ raw.link # "RID" /\ raw.frame.len \in Nat
    BY <1>6, TelemetryAssumption
  <2>2. /\ EffectiveProtocol(raw) # "REMOTEID"
        /\ res.err = "OK" =>
             IF raw.link = "MAV" THEN MavValid(raw.frame) ELSE CrsfIntact(raw.frame)
    BY <1>1, <2>1, LinkAnswer DEF res
  <2>3. HeardAsSent'
    BY <1>3, <1>6, Zenon DEF HeardAsSent
  <2>4. CASE res.err = "OK" /\ attached
    <3>1. UpdateRegistry(raw, res.tele, calls')
      BY <1>2, <2>4, Zenon
    <3>2. EntriesAreTrue'
      BY <1>1, <2>2, <3>1, WritesAreTrue, Zenon
    <3> QED
      BY <1>3, <1>4, <2>1, <2>2, <2>3, <2>4, <3>2, Zenon DEF DecInv
  <2>5. CASE ~ (res.err = "OK" /\ attached)
    <3>1. reg' = reg
      BY <1>2, <2>5, Zenon
    <3>2. EntriesAreTrue'
      BY <1>1, <3>1 DEF EntriesAreTrue
    <3> QED
      BY <1>3, <1>4, <2>3, <3>1, <3>2, Zenon DEF DecInv
  <2> QED
    BY <2>4, <2>5, Zenon
<1>7. CASE Headless(raw)
  <2>1. res.err # "OK"
    <3>1. res.err = DecodeFrame(raw.frame).err
      BY <1>1, <1>7, RidAnswer DEF Headless, res
    <3> QED
      BY <1>7, <3>1, HeadlessIsRefused, Zenon DEF Headless
  <2>2. reg' = reg
    BY <1>2, <2>1, Zenon
  <2>3. HeardAsSent'
    <3>1. ~last'.raw.frame.hdrOK
      BY <1>3, <1>7, Zenon DEF Headless
    <3> QED
      BY <3>1, Zenon DEF HeardAsSent
  <2>4. EntriesAreTrue'
    BY <1>1, <2>2 DEF EntriesAreTrue
  <2> QED
    BY <1>3, <1>4, <2>2, <2>3, <2>4, Zenon DEF DecInv
<1> QED
  BY <1>5, <1>6, <1>7, Zenon


\* Every step keeps the invariant, and changes the registry for intact frames only.
LEMMA StepPreserves ==
  ASSUME DecInv, [Next]_vars
  PROVE  /\ DecInv'
         /\ reg' # reg =>
              LET raw == last'.raw
              IN  IF raw.link = "RID"
                  THEN \A i \in 1..MessageCount(raw.frame) : raw.frame.msgs[i].crc
                  ELSE IF raw.link = "MAV" THEN MavValid(raw.frame)
                  ELSE CrsfIntact(raw.frame)
<1>1. /\ TableOK(table) /\ card.csv \in Seq(CsvLine) /\ HeardAsSent /\ EntriesAreTrue
      /\ phase \in Before => reg = << >>
      /\ phase \notin Before => table = DefaultSignatures /\ s_decoders = RegisteredDecoders
  BY DEF DecInv, Prepared
<1>2. ASSUME UNCHANGED <<reg, last>> PROVE HeardAsSent' /\ EntriesAreTrue' /\ reg' = reg
  BY <1>1, <1>2 DEF HeardAsSent, EntriesAreTrue
<1>3. ASSUME UNCHANGED decVars, card' = card, phase' \in Before <=> phase \in Before
      PROVE  Prepared' /\ UNCHANGED <<reg, last>>
  BY <1>1, <1>3 DEF Prepared, decVars
<1>4. CASE Buses
  <2>1. UNCHANGED decVars /\ card' = card /\ phase = "buses" /\ phase' = "hal"
    BY <1>4 DEF Buses, Step
  <2>2. phase' \in Before <=> phase \in Before
    BY <2>1 DEF Before
  <2> QED
    BY <1>2, <1>3, <2>1, <2>2, Zenon DEF DecInv
<1>5. CASE Hal
  <2>1. UNCHANGED decVars /\ card' = card /\ phase = "hal" /\ phase' = "config"
    BY <1>5 DEF Hal, Step
  <2>2. phase' \in Before <=> phase \in Before
    BY <2>1 DEF Before
  <2> QED
    BY <1>2, <1>3, <2>1, <2>2, Zenon DEF DecInv
<1>6. CASE LoadFiles
  <2>1. /\ phase = "config" /\ phase' = "domain" /\ card' = card
        /\ table' = DefaultSignatures \/ table' = LoadCsv(card.csv).table
        /\ UNCHANGED <<s_decoders, attached, reg, metrics, calls, last>>
    BY <1>6, Zenon DEF LoadFiles, Step
  <2>2. TableOK(table')
    BY <1>1, <2>1, DefaultsOK, LoadedIsTable, Zenon
  <2>3. Prepared'
    BY <1>1, <2>1, <2>2 DEF Prepared, Before
  <2> QED
    BY <1>2, <2>1, <2>3, Zenon DEF DecInv
<1>7. CASE Domain
  <2>1. /\ phase = "domain" /\ phase' = "services" /\ card' = card
        /\ table' = DefaultSignatures /\ reg' = << >> /\ last' = last
    BY <1>7, Zenon DEF Domain, Step
  <2>2. reg' = reg
    BY <1>1, <2>1 DEF Before
  <2>3. Prepared'
    BY <1>1, <2>1, DefaultsOK DEF Prepared, Before
  <2> QED
    BY <1>2, <2>1, <2>2, <2>3, Zenon DEF DecInv
<1>8. CASE Services
  <2>1. /\ phase' = "ui" /\ card' = card /\ table' = DefaultSignatures
        /\ s_decoders' = RegisteredDecoders /\ UNCHANGED <<reg, last>>
    BY <1>8, Zenon DEF Services, Step
  <2>2. Prepared'
    BY <1>1, <2>1, DefaultsOK DEF Prepared, Before
  <2> QED
    BY <1>2, <2>1, <2>2, Zenon DEF DecInv
<1>9. CASE Ui
  <2>1. UNCHANGED decVars /\ card' = card /\ phase = "ui" /\ phase' = "tasks"
    BY <1>9 DEF Ui, Step
  <2>2. phase' \in Before <=> phase \in Before
    BY <2>1 DEF Before
  <2> QED
    BY <1>2, <1>3, <2>1, <2>2, Zenon DEF DecInv
<1>10. CASE Tasks
  <2>1. /\ UNCHANGED decVars /\ card' = card /\ phase = "tasks"
        /\ phase' = "run" \/ phase' = "halted"
    BY <1>10, Zenon DEF Tasks, Step
  <2>2. phase' \in Before <=> phase \in Before
    BY <2>1 DEF Before
  <2> QED
    BY <1>2, <1>3, <2>1, <2>2, Zenon DEF DecInv
<1>11. CASE Run
  <2>1. phase = "run" /\ Arrive /\ UNCHANGED bootVars
    BY <1>11 DEF Run
  <2>2. phase \notin Before
    BY <2>1 DEF Before
  <2>3. PICK raw, from, whole :
          /\ Decode(raw, from, whole)
          /\ \/ \E slip \in {0, 1} : from \in Peers /\ RidRaw(raw, from, slip, whole)
             \/ Headless(raw)
             \/ raw \in LoraHeard /\ whole = FALSE
    BY <2>1, Arrivals, Zenon
  <2> QED
    BY <2>1, <2>2, <2>3, DecodePreserves, Zenon
<1>12. CASE UNCHANGED vars
  <2>1. UNCHANGED decVars /\ card' = card /\ phase' = phase
    BY <1>12 DEF vars, bootVars
  <2> QED
    BY <1>2, <1>3, <2>1, Zenon DEF DecInv
<1> QED
  BY <1>4, <1>5, <1>6, <1>7, <1>8, <1>9, <1>10, <1>11, <1>12, Zenon DEF Next

LEMMA StartsPrepared ==
  ASSUME Init PROVE DecInv
<1>1. /\ table = <<>> /\ reg = << >> /\ last = NoCall /\ phase = "buses"
      /\ \E s \in Starts : card = [config |-> s.config, csv |-> s.csv]
  BY Zenon DEF Init, DecInit
<1>2. TableOK(<<>>)
  BY DEF TableOK
<1>3. card.csv \in Seq(CsvLine)
  BY <1>1, StartsAssumption
<1>4. HeardAsSent
  BY <1>1 DEF HeardAsSent, NoCall
<1>5. EntriesAreTrue
  BY <1>1 DEF EntriesAreTrue
<1> QED
  BY <1>1, <1>2, <1>3, <1>4, <1>5 DEF DecInv, Prepared, Before

-----------------------------------------------------------------------------
(* The theorems.                                                           *)

\* The invariant holds of every start, with every card and every transmitter.
THEOREM DecodingInvariance == Spec => []DecInv
<1>1. Init => DecInv
  BY StartsPrepared
<1>2. DecInv /\ [Next]_vars => DecInv'
  BY StepPreserves
<1> QED
  BY <1>1, <1>2, PTL DEF Spec

\* Whatever signatures.csv holds, the table it makes can be saved by
\* signatures_serialize_csv and loaded by signatures_load_csv without loss.
THEOREM SavingIsLossless == Spec => []TableSurvivesSaving
<1>1. DecInv => TableSurvivesSaving
  BY SavedReloads DEF DecInv, Prepared, TableSurvivesSaving
<1> QED
  BY <1>1, DecodingInvariance, PTL

\* ClassifierFollowsTable for every header and frequency, not only those of the runs.
AlwaysAgree == \A hdr, freq : SearchesAgree(table, hdr, freq)

\* classifier_classify and signatures_find_match never disagree, whatever table is loaded
\* and whatever is heard.
THEOREM SearchesNeverDisagree == Spec => [](AlwaysAgree /\ ClassifierFollowsTable)
<1>1. DecInv => AlwaysAgree
  BY SearchesAgreeOn, Zenon DEF DecInv, Prepared, AlwaysAgree
<1>2. AlwaysAgree => ClassifierFollowsTable
  BY Zenon DEF AlwaysAgree, ClassifierFollowsTable
<1> QED
  BY <1>1, <1>2, DecodingInvariance, PTL

\* remoteid_decode_wifi and remoteid_decode_ble invert remoteid_encode, for everything a
\* transmitter can say, on every frame that arrives whole and begins with the header their
\* interface asks for: advertisements that hold all there is to say, and calls with the
\* payload cut out of the Wi-Fi frame.  The frames of the Wi-Fi driver are not among them.
THEOREM DecoderInvertsEncoder == Spec => []HeardAsSent
<1>1. DecInv => HeardAsSent
  BY DEF DecInv
<1> QED
  BY <1>1, DecodingInvariance, PTL

\* No frame that hal_wifi_scanner.c hands over and detection_service.c queues is decoded,
\* whatever a transmitter says and whatever decoders there are: it begins with the MAC
\* header, and the registry stays as it is.
THEOREM DriverFramesRefused ==
  ASSUME HearWifi PROVE last'.err # "OK" /\ reg' = reg
<1>1. PICK d \in Peers, slip \in {0, 1} : Decode(WifiRaw(WifiFrame(Encode(d, slip))), d, TRUE)
  BY Zenon DEF HearWifi
<1> DEFINE raw == WifiRaw(WifiFrame(Encode(d, slip)))
           res == RunDecoder(raw)
<1>2. raw.source \in RidSources /\ raw.frame.hdrOK = FALSE
  BY FrameIsHeadless, Zenon DEF Headless
<1>3. /\ last'.err = res.err
      /\ ~(res.err = "OK" /\ attached) => reg' = reg
  <2> DEFINE data == IF DispatchProtocol(raw) = "REMOTEID" /\ "REMOTEID" \in s_decoders
                     THEN DecodeFrame(raw.frame).data ELSE NoData
  <2>1. /\ last' = [raw |-> raw, from |-> d, whole |-> TRUE, err |-> res.err, data |-> data]
        /\ ~(res.err = "OK" /\ attached) => reg' = reg
    BY <1>1, Zenon DEF Decode
  <2> HIDE DEF raw, res, data
  <2> QED
    BY <2>1
<1> HIDE DEF raw
<1>4. DispatchProtocol(raw) = "REMOTEID"
  BY <1>2 DEF EffectiveProtocol, DispatchProtocol
<1>5. res.err # "OK"
  <2> DEFINE f == DecodeFrame(raw.frame)
             tele == IF f.err = "OK" THEN TelemetryOf(f.data) ELSE NoTelemetry
  <2>1. res = Failed("UNKNOWN_FMT") \/ res = Decoded(f.err, tele)
    BY <1>4, Zenon DEF RunDecoder
  <2>2. f.err # "OK"
    BY <1>2, HeadlessIsRefused, Zenon
  <2> HIDE DEF f, tele, res
  <2>3. Failed("UNKNOWN_FMT").err = "UNKNOWN_FMT" /\ Decoded(f.err, tele).err = f.err
    BY DEF Failed, Decoded
  <2> QED
    BY <2>1, <2>2, <2>3, Zenon
<1> QED
  BY <1>3, <1>5, Zenon

\* An entry of the registry that is named Remote ID shows what its vehicle sent, however
\* many frames were damaged, cut or counted wrongly.
THEOREM RegistryIsTrue == Spec => []EntriesAreTrue
<1>1. DecInv => EntriesAreTrue
  BY DEF DecInv
<1> QED
  BY <1>1, DecodingInvariance, PTL

\* update_registry runs only for frames whose checksums fit, of every protocol.
THEOREM RegistryTakesIntactFrames == Spec => OnlyIntactFramesCount
<1>1. DecInv /\ [Next]_vars =>
        [reg' # reg =>
           LET raw == last'.raw
           IN  IF raw.link = "RID"
               THEN \A i \in 1..MessageCount(raw.frame) : raw.frame.msgs[i].crc
               ELSE IF raw.link = "MAV" THEN MavValid(raw.frame)
               ELSE CrsfIntact(raw.frame)]_decVars
  BY StepPreserves, Zenon
<1> QED
  BY <1>1, DecodingInvariance, PTL DEF Spec, OnlyIntactFramesCount


=============================================================================
