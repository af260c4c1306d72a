---------------------------- MODULE DetectionFeed ----------------------------
(***************************************************************************)
(* What the detection service promises to the decoder                      *)
(* (components/services/include/detection_service.h and detection_service.c): *)
(* a bounded queue that gives each source's detections in the order they   *)
(* were made, each at most once, never blocks who feeds it, loses what     *)
(* does not fit, and is empty and fed by nobody once the service was       *)
(* stopped.  DetectionService implements it.                               *)
(***************************************************************************)
EXTENDS Integers, Sequences

CONSTANTS
    Source,  \* the detection sources
    DetCap,  \* DETECTION_QUEUE_SIZE
    MaxDet   \* bound: detections of a source

ASSUME FeedConstants == DetCap \in Nat \ {0} /\ MaxDet \in Nat

Detection == Source \X (1..MaxDet)

VARIABLES
    open,       \* the queue exists
    listening,  \* started, and not stopped since
    detQ,       \* the queue
    offered     \* history: detections put to the queue, by source

feedVars == <<open, listening, detQ, offered>>

FeedInit ==
    /\ open = FALSE /\ listening = FALSE
    /\ detQ = <<>>
    /\ offered = [s \in Source |-> 0]

Open ==
    /\ ~open /\ open' = TRUE
    /\ UNCHANGED <<listening, detQ, offered>>

Start ==
    /\ open /\ ~listening /\ listening' = TRUE
    /\ UNCHANGED <<open, detQ, offered>>

\* The service stops: the queue is emptied.
Halt ==
    /\ open /\ listening /\ listening' = FALSE
    /\ detQ' = <<>>
    /\ UNCHANGED <<open, offered>>

\* The queue is deleted.
Close ==
    /\ open /\ open' = FALSE
    /\ detQ' = <<>>
    /\ UNCHANGED <<listening, offered>>

\* A source's next detection is queued, or lost when there is no room.
Offer(s) ==
    /\ listening /\ offered[s] < MaxDet
    /\ offered' = [offered EXCEPT ![s] = @ + 1]
    /\ detQ' = IF open /\ Len(detQ) < DetCap THEN Append(detQ, <<s, offered'[s]>>) ELSE detQ
    /\ UNCHANGED <<open, listening>>

\* The decoder takes the oldest one.
Take(d) ==
    /\ open /\ detQ # <<>>
    /\ d = Head(detQ)
    /\ detQ' = Tail(detQ)
    /\ UNCHANGED <<open, listening, offered>>

FeedNext ==
    \/ Open \/ Start \/ Halt \/ Close
    \/ \E s \in Source : Offer(s)
    \/ \E d \in Detection : Take(d)

FeedSpec == FeedInit /\ [][FeedNext]_feedVars
=============================================================================
