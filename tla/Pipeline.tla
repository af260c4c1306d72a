------------------------------ MODULE Pipeline ------------------------------
(***************************************************************************)
(* The way of a detection through the firmware: the detection service, the *)
(* decoder task, the log queue and the logger task, with the UI task and   *)
(* the GPS task beside them (main/task_manager.c, main/data_pipeline.c),   *)
(* and the calls that start and stop the four tasks.                       *)
(*                                                                         *)
(* What the decoder and the logger call, telemetry_decode and              *)
(* data_logger_log, is modelled in AircraftRegistry and DataLogger; here a *)
(* detection is decoded or not, and a record is logged.  The detection     *)
(* service is the feed of DetectionFeed, which DetectionService implements.*)
(***************************************************************************)
EXTENDS DetectionFeed, FiniteSets

CONSTANTS
    LogCap,      \* PIPELINE_LOGGER_QUEUE_SIZE
    MaxTmStarts  \* bound: calls of task_manager_start

ASSUME TmConstants == LogCap \in Nat \ {0} /\ MaxTmStarts \in Nat \ {0}

Kind == {"ui", "decoder", "gps", "logger"}
TmRun == 1..MaxTmStarts

\* The order in which task_manager_start creates the tasks.
Creation == <<"ui", "decoder", "gps", "logger">>

VARIABLES
    running,    \* s_tm.running
    stopReq,    \* s_tm.stop_requested
    task,       \* the tasks of each start: where each is, and what it holds
    tmCall,     \* the call of task_manager_* under way, and its position
    tmStarts,   \* history: calls of task_manager_start
    logQ,       \* s_pipeline.logger_queue
    drops,      \* s_pipeline.logger_queue_drops
    wake,       \* some bit of s_pipeline.ui_event_group is set
    decoded,    \* the detections that reached the aircraft registry
    logged,     \* the records handed to the data logger, in order
    freed       \* a task or a queue was used after its memory was given back

tmVars   == <<running, stopReq, task, tmCall, tmStarts>>
flow     == <<logQ, drops, decoded, logged>>
pipeVars == <<tmVars, flow, wake, freed>>
vars     == <<feedVars, pipeVars>>

NoDet == <<"none", 0>>
Off == [at |-> "off", d |-> NoDet]
Loop == [at |-> "loop", d |-> NoDet]

Alive(kind) == {i \in TmRun : task[kind][i].at \notin {"off", "gone"}}

At(kind, i, place) == task[kind][i].at = place
Set(kind, i, place, d) == task' = [task EXCEPT ![kind][i] = [at |-> place, d |-> d]]

Init ==
    /\ FeedInit
    /\ running = FALSE /\ stopReq = FALSE
    /\ task = [kind \in Kind |-> [i \in TmRun |-> Off]]
    /\ tmCall = 0
    /\ tmStarts = 0
    /\ logQ = <<>> /\ drops = 0
    /\ wake = FALSE
    /\ decoded = {}
    /\ logged = <<>>
    /\ freed = FALSE

-----------------------------------------------------------------------------
(* task_manager_start and task_manager_stop; tmCall is 0 between calls,    *)
(* 1..4 while a start is about to create that task, 5 while a stop waits.  *)

TmStartBegin ==
    /\ tmCall = 0 /\ ~running /\ tmStarts < MaxTmStarts
    /\ tmStarts' = tmStarts + 1
    /\ stopReq' = FALSE
    /\ tmCall' = 1
    /\ UNCHANGED <<running, task, flow, wake, freed>>

TmCreate ==
    /\ tmCall \in 1..4
    /\ Set(Creation[tmCall], tmStarts, "loop", NoDet)
    /\ tmCall' = (tmCall + 1) % 5
    /\ running' = (tmCall = 4)
    /\ UNCHANGED <<stopReq, tmStarts, flow, wake, freed>>

\* A failing xTaskCreate ends the call; the tasks created before it stay.
TmCreateFails ==
    /\ tmCall \in 1..4
    /\ tmCall' = 0
    /\ UNCHANGED <<running, stopReq, task, tmStarts, flow, wake, freed>>

TmStopBegin ==
    /\ tmCall = 0 /\ running
    /\ stopReq' = TRUE
    /\ tmCall' = 5
    /\ UNCHANGED <<running, task, tmStarts, flow, wake, freed>>

\* After 500 ms the tasks with a shorter loop have left by themselves.
TmDelayElapsed == \A i \in TmRun : \A kind \in {"ui", "decoder"} : i \notin Alive(kind)

\* Every handle is passed to vTaskDelete: a task still in its loop dies where it is,
\* one that has left was freed by the idle task long ago, and there always is one.
TmStopEnd ==
    /\ tmCall = 5 /\ TmDelayElapsed
    /\ running' = FALSE
    /\ tmCall' = 0
    /\ freed' = TRUE
    /\ task' = [kind \in Kind |-> [task[kind] EXCEPT ![tmStarts].at = "gone"]]
    /\ UNCHANGED <<stopReq, tmStarts, flow, wake>>

-----------------------------------------------------------------------------
(* task_decoder_pipeline.                                                  *)

\* Seeded fault: a receive that timed out goes on with the previous detection.
DecoderReceive_Stale(i) ==
    /\ At("decoder", i, "loop") /\ ~stopReq
    /\ \/ \E d \in Detection : Take(d) /\ Set("decoder", i, "got", d)
       \/ /\ detQ = <<>>
          /\ \E d \in decoded : Set("decoder", i, "got", d)
          /\ UNCHANGED feedVars
    /\ UNCHANGED <<running, stopReq, tmCall, tmStarts, flow, wake, freed>>

DecoderReceive(i) ==
    /\ At("decoder", i, "loop") /\ ~stopReq
    /\ \E d \in Detection : Take(d) /\ Set("decoder", i, "got", d)
    /\ UNCHANGED <<running, stopReq, tmCall, tmStarts, flow, wake, freed>>

\* telemetry_decode updates the registry and the UI is notified, or fails.
DecoderDecode(i) ==
    /\ At("decoder", i, "got")
    /\ LET d == task["decoder"][i].d
       IN  \/ /\ decoded' = decoded \cup {d}
              /\ wake' = TRUE
              /\ Set("decoder", i, "send", d)
           \/ /\ Set("decoder", i, "loop", NoDet)
              /\ UNCHANGED <<decoded, wake>>
    /\ UNCHANGED <<running, stopReq, tmCall, tmStarts, logQ, drops, logged,
                   freed, feedVars>>

\* Seeded fault: a full queue gives up its oldest record, which nobody counts.
LogQueueTakes_Overwrites(d) ==
    /\ logQ' = IF Len(logQ) < LogCap THEN Append(logQ, d) ELSE Append(Tail(logQ), d)
    /\ UNCHANGED drops

\* data_pipeline_enqueue_log: a full queue refuses the record and counts it.
LogQueueTakes(d) ==
    IF Len(logQ) < LogCap
    THEN logQ' = Append(logQ, d) /\ UNCHANGED drops
    ELSE drops' = drops + 1 /\ UNCHANGED logQ

DecoderEnqueue(i) ==
    /\ At("decoder", i, "send")
    /\ LogQueueTakes(task["decoder"][i].d)
    /\ Set("decoder", i, "loop", NoDet)
    /\ UNCHANGED <<running, stopReq, tmCall, tmStarts, decoded, logged, wake,
                   freed, feedVars>>

-----------------------------------------------------------------------------
(* task_logger, task_gps_reader, task_ui_render.                           *)

LoggerDequeue(i) ==
    /\ At("logger", i, "loop") /\ ~stopReq
    /\ logQ # <<>>
    /\ Set("logger", i, "holds", Head(logQ))
    /\ logQ' = Tail(logQ)
    /\ UNCHANGED <<running, stopReq, tmCall, tmStarts, drops, decoded, logged,
                   wake, freed, feedVars>>

\* Seeded fault: the logger leaves its loop when a record could not be written.
LoggerLog_Leaves(i) ==
    /\ At("logger", i, "holds")
    /\ logged' = Append(logged, task["logger"][i].d)
    /\ \E place \in {"loop", "gone"} : Set("logger", i, place, NoDet)
    /\ UNCHANGED <<running, stopReq, tmCall, tmStarts, logQ, drops, decoded, wake,
                   freed, feedVars>>

LoggerLog(i) ==
    /\ At("logger", i, "holds")
    /\ logged' = Append(logged, task["logger"][i].d)
    /\ Set("logger", i, "loop", NoDet)
    /\ UNCHANGED <<running, stopReq, tmCall, tmStarts, logQ, drops, decoded,
                   wake, freed, feedVars>>

\* A position read from the GPS is stored and the UI notified.
GpsUpdate(i) ==
    /\ At("gps", i, "loop") /\ ~stopReq
    /\ wake' = TRUE
    /\ UNCHANGED <<tmVars, flow, freed, feedVars>>

\* xEventGroupWaitBits returns, with bits or after 20 ms, and clears all; what is
\* drawn then is modelled in Console.
UiFrame(i) ==
    /\ At("ui", i, "loop") /\ ~stopReq
    /\ wake' = FALSE
    /\ UNCHANGED <<tmVars, flow, freed, feedVars>>

TaskExit(kind, i) ==
    /\ At(kind, i, "loop") /\ stopReq
    /\ Set(kind, i, "gone", NoDet)
    /\ UNCHANGED <<running, stopReq, tmCall, tmStarts, flow, wake, freed,
                   feedVars>>

\* detection_service_deinit deletes the queue, with the decoder blocked on it or not.
QueueDeleted ==
    /\ Close
    /\ freed' = (freed \/ \E i \in TmRun : At("decoder", i, "loop"))
    /\ UNCHANGED <<tmVars, flow, wake>>

-----------------------------------------------------------------------------
FeedStep == Open \/ Start \/ Halt \/ \E s \in Source : Offer(s)

TmApi == TmStartBegin \/ TmCreate \/ TmCreateFails \/ TmStopBegin \/ TmStopEnd

DecoderStep(i) == DecoderReceive(i) \/ DecoderDecode(i) \/ DecoderEnqueue(i)
LoggerStep(i)  == LoggerDequeue(i) \/ LoggerLog(i)

\* Whatever used freed memory may do anything next: nothing is said about it.
Next ==
    /\ ~freed
    /\ \/ FeedStep /\ UNCHANGED pipeVars
       \/ TmApi /\ UNCHANGED feedVars
       \/ QueueDeleted
       \/ \E i \in TmRun :
             \/ DecoderStep(i) \/ LoggerStep(i) \/ GpsUpdate(i) \/ UiFrame(i)
             \/ \E kind \in Kind : TaskExit(kind, i)

Spec == Init /\ [][Next]_vars

\* A task on core 1 goes on.  The GPS and logger tasks have the lowest priorities:
\* they run only while the decoder blocks on the queue of an initialised detection
\* service (without one its loop spins, at a higher priority).
FairSpec ==
    /\ Spec
    /\ \A i \in TmRun :
         /\ WF_vars(~freed /\ DecoderStep(i))
         /\ WF_vars(~freed /\ open /\ LoggerStep(i))

-----------------------------------------------------------------------------
(* Properties.                                                             *)

Place == {"off", "loop", "gone", "got", "send", "holds"}

\* Queues keep to their capacities, tasks to their places (task_manager.c).
TypeOK ==
    /\ open \in BOOLEAN /\ listening \in BOOLEAN
    /\ detQ \in Seq(Detection) /\ Len(detQ) <= DetCap
    /\ offered \in [Source -> 0..MaxDet]
    /\ running \in BOOLEAN /\ stopReq \in BOOLEAN /\ freed \in BOOLEAN
    /\ task \in [Kind -> [TmRun -> [at : Place, d : Detection \cup {NoDet}]]]
    /\ tmCall \in 0..5 /\ tmStarts \in 0..MaxTmStarts
    /\ logQ \in Seq(Detection) /\ Len(logQ) <= LogCap
    /\ drops \in Nat
    /\ wake \in BOOLEAN
    /\ decoded \subseteq Detection
    /\ logged \in Seq(Detection)

\* The detections a task of a kind holds.
Held(kind, place) == {task[kind][i].d : i \in {j \in TmRun : At(kind, j, place)}}

\* Every detection that was decoded is on its way to the log, in it, or counted by
\* logger_queue_drops: nothing is logged twice and nothing vanishes uncounted.
DropsAccountForTheRest ==
    ~freed =>
    drops = Cardinality(decoded)
              - Cardinality(Held("decoder", "send")) - Len(logQ)
              - Cardinality(Held("logger", "holds")) - Len(logged)

\* Each source's detections are logged in the order they were made, while one
\* decoder and one logger run: as long as the tasks were started once.
LoggedInOrder ==
    tmStarts <= 1 =>
        \A a, b \in DOMAIN logged :
            (a < b /\ logged[a][1] = logged[b][1]) => logged[a][2] < logged[b][2]

\* The log queue drains into the data logger, unless the tasks are asked to stop or
\* the detection service is taken away.
LogQueueDrains ==
    (running /\ logQ # <<>>) ~> (logQ = <<>> \/ stopReq \/ ~open \/ freed)
=============================================================================
