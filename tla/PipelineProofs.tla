--------------------------- MODULE PipelineProofs ---------------------------
(***************************************************************************)
(* That no decoded detection is lost between the decoder and the data      *)
(* logger without being counted, and none logged twice, for any sizes of   *)
(* the queues, any number of detections and any number of starts; and that *)
(* those of one source are logged in order.                                *)
(***************************************************************************)
EXTENDS Pipeline, FiniteSetTheorems, TLAPS

In(s)      == {s[k] : k \in 1..Len(s)}
Distinct(s) == \A j, k \in 1..Len(s) : s[j] = s[k] => j = k

HeldByDecoder == Held("decoder", "got") \cup Held("decoder", "send")

(* What the tasks of a start under way, or to come, are: not there yet.    *)
NotCreatedYet ==
    /\ tmCall # 0 \/ running => tmStarts # 0
    /\ \A k \in 1..4 : \A i \in TmRun :
          i > tmStarts \/ (i = tmStarts /\ tmCall \in 1..k) => At(Creation[k], i, "off")

(* A detection that was not decoded yet is in one place: queued, or in the *)
(* hands of one decoder; and none was made that was not offered.           *)
OnePlaceBefore ==
    /\ Distinct(detQ)
    /\ In(detQ) \cap decoded = {} /\ In(detQ) \cap HeldByDecoder = {}
    /\ Held("decoder", "got") \cap decoded = {}
    /\ \A d \in In(detQ) \cup HeldByDecoder \cup decoded : d[2] <= offered[d[1]]
    /\ HeldByDecoder \cup Held("logger", "holds") \subseteq Detection

(* One that was decoded, too, until it is logged: with a decoder, queued   *)
(* or with a logger.                                                       *)
OnePlaceAfter ==
    /\ Distinct(logQ)
    /\ In(logQ) \cup Held("decoder", "send") \cup Held("logger", "holds") \subseteq decoded
    /\ In(logQ) \cap Held("decoder", "send") = {}
    /\ In(logQ) \cap Held("logger", "holds") = {}
    /\ Held("decoder", "send") \cap Held("logger", "holds") = {}

(* No two tasks hold the same one.                                         *)
OneHolder ==
    /\ \A i, j \in TmRun :
          /\ task["decoder"][i].at \in {"got", "send"} /\ task["decoder"][j].at \in {"got", "send"}
          /\ task["decoder"][i].d = task["decoder"][j].d
          => i = j
    /\ \A i, j \in TmRun :
          /\ At("logger", i, "holds") /\ At("logger", j, "holds")
          /\ task["logger"][i].d = task["logger"][j].d
          => i = j

Finite ==
    /\ IsFiniteSet(decoded)
    /\ IsFiniteSet(Held("decoder", "send")) /\ IsFiniteSet(Held("logger", "holds"))

Flow == OnePlaceBefore /\ OnePlaceAfter /\ OneHolder /\ Finite /\ DropsAccountForTheRest

IInv == TypeOK /\ NotCreatedYet /\ (~freed => Flow)

-----------------------------------------------------------------------------
(* Queues. *)

LEMMA Queued ==
    ASSUME NEW S, NEW s \in Seq(S), Distinct(s), NEW d \in S, d \notin In(s)
    PROVE  /\ Append(s, d) \in Seq(S) /\ Len(Append(s, d)) = Len(s) + 1
           /\ Distinct(Append(s, d)) /\ In(Append(s, d)) = In(s) \cup {d}
<1> DEFINE u == Append(s, d)
           n == Len(s)
<1>1. n \in Nat /\ u \in Seq(S) /\ Len(u) = n + 1 /\ u[n + 1] = d /\ \A k \in 1..n : u[k] = s[k]
  OBVIOUS
<1> HIDE DEF u
<1>2. Distinct(u)
  BY <1>1 DEF Distinct, In
<1>3. In(u) = In(s) \cup {d}
  <2>1. In(u) \subseteq In(s) \cup {d}
    BY <1>1 DEF In
  <2>2. In(s) \subseteq In(u)
    BY <1>1 DEF In
  <2>3. d \in In(u)
    BY <1>1 DEF In
  <2> QED
    BY <2>1, <2>2, <2>3
<1> QED
  BY <1>1, <1>2, <1>3 DEF u

LEMMA Dequeued ==
    ASSUME NEW S, NEW s \in Seq(S), Distinct(s), s # <<>>
    PROVE  /\ Tail(s) \in Seq(S) /\ Len(Tail(s)) = Len(s) - 1 /\ Len(s) # 0 /\ Len(s) \in Nat
           /\ Distinct(Tail(s)) /\ In(Tail(s)) = In(s) \ {Head(s)}
           /\ Head(s) \in In(s) /\ Head(s) \in S
<1> DEFINE u == Tail(s)
           n == Len(s)
<1>1. /\ n \in Nat /\ n # 0 /\ Head(s) = s[1]
      /\ u \in Seq(S) /\ Len(u) = n - 1 /\ \A k \in 1..(n - 1) : u[k] = s[k + 1]
  OBVIOUS
<1> HIDE DEF u
<1>2. Distinct(u)
  BY <1>1 DEF Distinct
<1>3. In(u) \subseteq In(s) \ {Head(s)}
  BY <1>1 DEF In, Distinct
<1>4. In(s) \ {Head(s)} \subseteq In(u)
  <2> SUFFICES ASSUME NEW k \in 1..n, s[k] # s[1] PROVE s[k] \in In(u)
    BY <1>1 DEF In
  <2>1. k - 1 \in 1..(n - 1) /\ (k - 1) + 1 = k
    BY <1>1
  <2>2. u[k - 1] = s[k]
    BY <1>1, <2>1
  <2> QED
    BY <1>1, <2>1, <2>2 DEF In
<1>5. Head(s) \in In(s) /\ Head(s) \in S
  BY <1>1 DEF In
<1> QED
  BY <1>1, <1>2, <1>3, <1>4, <1>5 DEF u

-----------------------------------------------------------------------------
(* Tasks. *)

(* A task is at a place with something in its hands; the others are where  *)
(* they were.                                                              *)
MovedTo(kind, i, place, d) ==
    /\ task' \in [Kind -> [TmRun -> [at : Place, d : Detection \cup {NoDet}]]]
    /\ task'[kind][i].at = place /\ task'[kind][i].d = d
    /\ \A k \in Kind, j \in TmRun : k # kind \/ j # i => task'[k][j] = task[k][j]

LEMMA Moved ==
    ASSUME TypeOK, NEW kind \in Kind, NEW i \in TmRun, NEW place \in Place,
           NEW d \in Detection \cup {NoDet}, Set(kind, i, place, d)
    PROVE  MovedTo(kind, i, place, d)
<1>1. task \in [Kind -> [TmRun -> [at : Place, d : Detection \cup {NoDet}]]]
  BY DEF TypeOK
<1> DEFINE r == [at |-> place, d |-> d]
<1>2. r \in [at : Place, d : Detection \cup {NoDet}] /\ r.at = place /\ r.d = d
  OBVIOUS
<1>3. task' = [task EXCEPT ![kind][i] = r]
  BY DEF Set
<1> HIDE DEF r
<1>4. /\ task'[kind][i] = r
      /\ \A k \in Kind, j \in TmRun : k # kind \/ j # i => task'[k][j] = task[k][j]
  BY <1>1, <1>3
<1>5. task' \in [Kind -> [TmRun -> [at : Place, d : Detection \cup {NoDet}]]]
  BY <1>1, <1>2, <1>3
<1> QED
  BY <1>2, <1>4, <1>5 DEF MovedTo

(* What else is held stays; something comes into the hands at the new      *)
(* place, and leaves those at the old one.                                 *)
LEMMA HeldElsewhere ==
    ASSUME NEW kind \in Kind, NEW i \in TmRun, NEW place, NEW d, MovedTo(kind, i, place, d),
           NEW k \in Kind, NEW p, k # kind \/ (p # place /\ ~At(kind, i, p))
    PROVE  Held(k, p)' = Held(k, p)
<1>1. \A j \in TmRun : /\ At(k, j, p)' <=> At(k, j, p)
                       /\ At(k, j, p) => task'[k][j].d = task[k][j].d
  BY DEF MovedTo, At
<1> QED
  BY <1>1 DEF Held

LEMMA HeldMore ==
    ASSUME NEW kind \in Kind, NEW i \in TmRun, NEW place, NEW d, MovedTo(kind, i, place, d),
           ~At(kind, i, place)
    PROVE  Held(kind, place)' = Held(kind, place) \cup {d}
<1>1. At(kind, i, place)' /\ task'[kind][i].d = d
  BY DEF MovedTo, At
<1>2. \A j \in TmRun : j # i => /\ At(kind, j, place)' <=> At(kind, j, place)
                                /\ task'[kind][j] = task[kind][j]
  BY DEF MovedTo, At
<1>3. Held(kind, place)' \subseteq Held(kind, place) \cup {d}
  BY <1>1, <1>2 DEF Held
<1>4. Held(kind, place) \subseteq Held(kind, place)'
  BY <1>1, <1>2 DEF Held
<1>5. d \in Held(kind, place)'
  BY <1>1 DEF Held
<1> QED
  BY <1>3, <1>4, <1>5

LEMMA HeldLess ==
    ASSUME NEW kind \in Kind, NEW i \in TmRun, NEW place, NEW d, MovedTo(kind, i, place, d),
           NEW p, p # place, At(kind, i, p),
           \A j \in TmRun : At(kind, j, p) /\ task[kind][j].d = task[kind][i].d => j = i
    PROVE  Held(kind, p)' = Held(kind, p) \ {task[kind][i].d} /\ task[kind][i].d \in Held(kind, p)
<1>1. ~At(kind, i, p)'
  BY DEF MovedTo, At
<1>2. \A j \in TmRun : j # i => /\ At(kind, j, p)' <=> At(kind, j, p)
                                /\ task'[kind][j] = task[kind][j]
  BY DEF MovedTo, At
<1>3. Held(kind, p)' \subseteq Held(kind, p) \ {task[kind][i].d}
  BY <1>1, <1>2 DEF Held
<1>4. Held(kind, p) \ {task[kind][i].d} \subseteq Held(kind, p)'
  BY <1>1, <1>2 DEF Held
<1>5. task[kind][i].d \in Held(kind, p)
  BY DEF Held
<1> QED
  BY <1>3, <1>4, <1>5

LEMMA StillToCome ==
    ASSUME NotCreatedYet, NEW kind \in Kind, NEW i \in TmRun, NEW place, NEW d,
           MovedTo(kind, i, place, d), ~At(kind, i, "off"), UNCHANGED <<running, tmCall, tmStarts>>
    PROVE  NotCreatedYet'
<1> SUFFICES ASSUME NEW k \in 1..4, NEW j \in TmRun,
                    j > tmStarts \/ (j = tmStarts /\ tmCall \in 1..k)
             PROVE  At(Creation[k], j, "off")'
  BY DEF NotCreatedYet
<1>1. At(Creation[k], j, "off") /\ Creation[k] \in Kind
  BY DEF NotCreatedYet, Creation, Kind
<1> QED
  BY <1>1 DEF MovedTo, At

(* Nothing that is held, queued, decoded or logged changes.                *)
LEMMA FlowUntouched ==
    ASSUME Flow, UNCHANGED <<detQ, offered, flow, freed>>,
           Held("decoder", "got")' = Held("decoder", "got"),
           Held("decoder", "send")' = Held("decoder", "send"),
           Held("logger", "holds")' = Held("logger", "holds"), OneHolder'
    PROVE  Flow'
BY DEF Flow, flow, OnePlaceBefore, OnePlaceAfter, Finite, DropsAccountForTheRest, HeldByDecoder

(* A task that holds nothing and shall hold nothing moves.                 *)
LEMMA EmptyHanded ==
    ASSUME Flow, NEW kind \in Kind, NEW i \in TmRun, NEW place \in {"loop", "gone"},
           MovedTo(kind, i, place, NoDet), task[kind][i].at \in {"off", "loop", "gone"},
           UNCHANGED <<detQ, offered, flow, freed>>
    PROVE  Flow'
<1>1. place \notin {"got", "send", "holds"}
      /\ ~At(kind, i, "got") /\ ~At(kind, i, "send") /\ ~At(kind, i, "holds")
  BY DEF At
<1>2. /\ Held("decoder", "got")' = Held("decoder", "got")
      /\ Held("decoder", "send")' = Held("decoder", "send")
      /\ Held("logger", "holds")' = Held("logger", "holds")
  BY <1>1, HeldElsewhere DEF Kind
<1>3. OneHolder'
  <2>1. ASSUME NEW j \in TmRun, task'["decoder"][j].at \in {"got", "send"}
        PROVE  task'["decoder"][j] = task["decoder"][j]
    BY <1>1, <2>1 DEF MovedTo, Kind
  <2>2. ASSUME NEW j \in TmRun, task'["logger"][j].at = "holds"
        PROVE  task'["logger"][j] = task["logger"][j]
    BY <1>1, <2>2 DEF MovedTo, Kind
  <2> QED
    BY <2>1, <2>2 DEF Flow, OneHolder, At
<1> QED
  BY <1>2, <1>3, FlowUntouched

(* A task takes what no other of its kind holds, or lets go.               *)
LEMMA DecoderAlone ==
    ASSUME OneHolder, NEW i \in TmRun, NEW place, NEW d, MovedTo("decoder", i, place, d),
           place \in {"got", "send"} =>
               \A j \in TmRun \ {i} : task["decoder"][j].at \in {"got", "send"}
                                         => task["decoder"][j].d # d
    PROVE  OneHolder'
<1>1. \A j \in TmRun : j # i => task'["decoder"][j] = task["decoder"][j]
  BY DEF MovedTo, Kind
<1>2. \A j \in TmRun : task'["logger"][j] = task["logger"][j]
  BY DEF MovedTo, Kind
<1>3. task'["decoder"][i].at = place /\ task'["decoder"][i].d = d
  BY DEF MovedTo
<1>4. ASSUME NEW j \in TmRun, NEW k \in TmRun,
             task'["decoder"][j].at \in {"got", "send"}, task'["decoder"][k].at \in {"got", "send"},
             task'["decoder"][j].d = task'["decoder"][k].d
      PROVE  j = k
  <2>1. CASE j # i /\ k # i
    BY <1>1, <1>4, <2>1 DEF OneHolder
  <2>2. CASE j = i \/ k = i
    BY <1>1, <1>3, <1>4, <2>2
  <2> QED
    BY <2>1, <2>2
<1> QED
  BY <1>2, <1>4 DEF OneHolder, At

LEMMA LoggerAlone ==
    ASSUME OneHolder, NEW i \in TmRun, NEW place, NEW d, MovedTo("logger", i, place, d),
           place = "holds" => \A j \in TmRun \ {i} : At("logger", j, "holds") => task["logger"][j].d # d
    PROVE  OneHolder'
<1>1. \A j \in TmRun : j # i => task'["logger"][j] = task["logger"][j]
  BY DEF MovedTo, Kind
<1>2. \A j \in TmRun : task'["decoder"][j] = task["decoder"][j]
  BY DEF MovedTo, Kind
<1>3. task'["logger"][i].at = place /\ task'["logger"][i].d = d
  BY DEF MovedTo
<1>4. ASSUME NEW j \in TmRun, NEW k \in TmRun,
             task'["logger"][j].at = "holds", task'["logger"][k].at = "holds",
             task'["logger"][j].d = task'["logger"][k].d
      PROVE  j = k
  <2>1. CASE j # i /\ k # i
    BY <1>1, <1>4, <2>1 DEF OneHolder, At
  <2>2. CASE j = i \/ k = i
    BY <1>1, <1>3, <1>4, <2>2 DEF At
  <2> QED
    BY <2>1, <2>2
<1> QED
  BY <1>2, <1>4 DEF OneHolder, At

-----------------------------------------------------------------------------
(* The steps of the decoder and the logger. *)

LEMMA ReceiveStep ==
    ASSUME IInv, ~freed, NEW i \in TmRun, DecoderReceive(i)
    PROVE  IInv'
<1>1. PICK d \in Detection : Take(d) /\ Set("decoder", i, "got", d)
  BY DEF DecoderReceive
<1>2. /\ At("decoder", i, "loop") /\ detQ # <<>> /\ d = Head(detQ) /\ detQ' = Tail(detQ)
      /\ UNCHANGED <<open, listening, offered, running, stopReq, tmCall, tmStarts, flow,
                     wake, freed>>
  BY <1>1 DEF DecoderReceive, Take
<1>3. TypeOK /\ NotCreatedYet /\ Flow /\ detQ \in Seq(Detection) /\ Len(detQ) <= DetCap
  BY DEF IInv, TypeOK
<1>4. "got" \in Place /\ "decoder" \in Kind /\ d \in Detection \cup {NoDet}
  BY DEF Place, Kind
<1>5. MovedTo("decoder", i, "got", d)
  BY <1>1, <1>3, <1>4, Moved
<1>6. /\ ~At("decoder", i, "got") /\ ~At("decoder", i, "send") /\ ~At("decoder", i, "off")
  BY <1>2 DEF At
<1>7. /\ Held("decoder", "got")' = Held("decoder", "got") \cup {d}
      /\ Held("decoder", "send")' = Held("decoder", "send")
      /\ Held("logger", "holds")' = Held("logger", "holds")
  BY <1>4, <1>5, <1>6, HeldMore, HeldElsewhere DEF Kind
<1>8. Distinct(detQ)
  BY <1>3 DEF Flow, OnePlaceBefore
<1>9. /\ detQ' \in Seq(Detection) /\ Len(detQ') = Len(detQ) - 1 /\ Len(detQ) \in Nat
      /\ Distinct(detQ') /\ In(detQ') = In(detQ) \ {d} /\ d \in In(detQ)
  BY <1>2, <1>3, <1>8, Dequeued
<1>10. TypeOK'
  <2>1. Len(detQ') <= DetCap
    BY <1>3, <1>9, FeedConstants
  <2> QED
    BY <1>2, <1>3, <1>5, <1>9, <2>1 DEF TypeOK, MovedTo, flow
<1>11. NotCreatedYet'
  BY <1>2, <1>3, <1>4, <1>5, <1>6, StillToCome
<1>12. OneHolder'
  <2>1. \A j \in TmRun : task["decoder"][j].at \in {"got", "send"} => task["decoder"][j].d \in HeldByDecoder
    BY DEF HeldByDecoder, Held, At
  <2>2. d \notin HeldByDecoder
    BY <1>3, <1>9 DEF Flow, OnePlaceBefore
  <2> QED
    BY <1>3, <1>5, <2>1, <2>2, DecoderAlone DEF Flow
<1>13. OnePlaceBefore'
  BY <1>2, <1>3, <1>7, <1>9 DEF Flow, OnePlaceBefore, HeldByDecoder, flow
<1>14. OnePlaceAfter' /\ Finite' /\ DropsAccountForTheRest'
  BY <1>2, <1>3, <1>7 DEF Flow, OnePlaceAfter, Finite, DropsAccountForTheRest, flow
<1> QED
  BY <1>10, <1>11, <1>12, <1>13, <1>14 DEF IInv, Flow

LEMMA DecodeStep ==
    ASSUME IInv, ~freed, NEW i \in TmRun, DecoderDecode(i)
    PROVE  IInv'
<1> DEFINE d == task["decoder"][i].d
<1>1. /\ At("decoder", i, "got")
      /\ UNCHANGED <<running, stopReq, tmCall, tmStarts, logQ, drops, logged, freed, feedVars>>
  BY DEF DecoderDecode
<1>2. TypeOK /\ NotCreatedYet /\ Flow
  BY DEF IInv
<1>3. d \in Held("decoder", "got")
  BY <1>1 DEF Held
<1>4. /\ d \in Detection /\ d \notin decoded /\ d \notin In(detQ)
      /\ d \notin Held("decoder", "send") /\ d \notin In(logQ) /\ d \notin Held("logger", "holds")
  BY <1>2, <1>3 DEF Flow, OnePlaceBefore, OnePlaceAfter, HeldByDecoder
<1>5. {"send", "loop"} \subseteq Place /\ "decoder" \in Kind /\ {d, NoDet} \subseteq Detection \cup {NoDet}
  BY <1>4 DEF Place, Kind
<1>6. \A j \in TmRun : task["decoder"][j].at \in {"got", "send"} /\ task["decoder"][j].d = d => j = i
  BY <1>1, <1>2 DEF Flow, OneHolder, At
<1>7. ~At("decoder", i, "send") /\ ~At("decoder", i, "off")
  BY <1>1 DEF At
<1> HIDE DEF d
<1>8. CASE decoded' = decoded \cup {d} /\ wake' = TRUE /\ Set("decoder", i, "send", d)
  <2>1. MovedTo("decoder", i, "send", d)
    BY <1>2, <1>5, <1>8, Moved
  <2>2. Held("decoder", "send")' = Held("decoder", "send") \cup {d}
    BY <1>5, <1>7, <2>1, HeldMore
  <2>3. Held("decoder", "got")' = Held("decoder", "got") \ {d}
    BY <1>1, <1>5, <1>6, <2>1, HeldLess DEF At, d
  <2>4. Held("logger", "holds")' = Held("logger", "holds")
    BY <1>5, <2>1, HeldElsewhere DEF Kind
  <2>5. TypeOK'
    BY <1>1, <1>2, <1>4, <1>8, <2>1 DEF TypeOK, MovedTo, feedVars
  <2>6. NotCreatedYet'
    BY <1>1, <1>2, <1>5, <1>7, <2>1, StillToCome
  <2>7. OneHolder'
    BY <1>2, <1>6, <2>1, DecoderAlone DEF Flow
  <2>8. OnePlaceBefore'
    BY <1>1, <1>2, <1>3, <1>4, <1>8, <2>2, <2>3, <2>4 DEF Flow, OnePlaceBefore, HeldByDecoder, feedVars
  <2>9. OnePlaceAfter'
    BY <1>1, <1>2, <1>4, <1>8, <2>2, <2>4 DEF Flow, OnePlaceAfter
  <2>10. /\ IsFiniteSet(decoded') /\ Cardinality(decoded') = Cardinality(decoded) + 1
         /\ IsFiniteSet(Held("decoder", "send")')
         /\ Cardinality(Held("decoder", "send")') = Cardinality(Held("decoder", "send")) + 1
    BY <1>2, <1>4, <1>8, <2>2, FS_AddElement DEF Flow, Finite
  <2>11. Finite' /\ DropsAccountForTheRest'
    <3>1. {Cardinality(decoded), Cardinality(Held("decoder", "send")),
           Cardinality(Held("logger", "holds")), Len(logQ), Len(logged)} \subseteq Nat
      BY <1>2, FS_CardinalityType DEF Flow, Finite, TypeOK
    <3> QED
      BY <1>1, <1>2, <2>4, <2>10, <3>1 DEF Flow, Finite, DropsAccountForTheRest
  <2> QED
    BY <2>5, <2>6, <2>7, <2>8, <2>9, <2>11 DEF IInv, Flow
<1>9. CASE Set("decoder", i, "loop", NoDet) /\ UNCHANGED <<decoded, wake>>
  <2>1. MovedTo("decoder", i, "loop", NoDet)
    BY <1>2, <1>5, <1>9, Moved
  <2>2. Held("decoder", "send")' = Held("decoder", "send")
    BY <1>5, <1>7, <2>1, HeldElsewhere
  <2>3. Held("decoder", "got")' = Held("decoder", "got") \ {d}
    BY <1>1, <1>5, <1>6, <2>1, HeldLess DEF At, d
  <2>4. Held("logger", "holds")' = Held("logger", "holds")
    BY <1>5, <2>1, HeldElsewhere DEF Kind
  <2>5. TypeOK'
    BY <1>1, <1>2, <1>9, <2>1 DEF TypeOK, MovedTo, feedVars
  <2>6. NotCreatedYet'
    BY <1>1, <1>2, <1>5, <1>7, <2>1, StillToCome
  <2>7. OneHolder'
    BY <1>2, <2>1, DecoderAlone DEF Flow
  <2>8. OnePlaceBefore'
    BY <1>1, <1>2, <1>9, <2>2, <2>3, <2>4 DEF Flow, OnePlaceBefore, HeldByDecoder, feedVars
  <2>9. OnePlaceAfter' /\ Finite' /\ DropsAccountForTheRest'
    BY <1>1, <1>2, <1>9, <2>2, <2>4 DEF Flow, OnePlaceAfter, Finite, DropsAccountForTheRest
  <2> QED
    BY <2>5, <2>6, <2>7, <2>8, <2>9 DEF IInv, Flow
<1> QED
  BY <1>8, <1>9 DEF DecoderDecode, d

(* A record that finds no room is counted.                                 *)
LEMMA EnqueueStep ==
    ASSUME IInv, ~freed, NEW i \in TmRun, DecoderEnqueue(i)
    PROVE  IInv'
<1> DEFINE d == task["decoder"][i].d
<1>1. /\ At("decoder", i, "send") /\ LogQueueTakes(d) /\ Set("decoder", i, "loop", NoDet)
      /\ UNCHANGED <<running, stopReq, tmCall, tmStarts, decoded, logged, wake, freed, feedVars>>
  BY DEF DecoderEnqueue
<1>2. /\ TypeOK /\ NotCreatedYet /\ Flow
      /\ logQ \in Seq(Detection) /\ Len(logQ) <= LogCap /\ drops \in Nat /\ LogCap \in Nat
  BY TmConstants DEF IInv, TypeOK
<1>3. d \in Held("decoder", "send")
  BY <1>1 DEF Held
<1>4. d \in Detection /\ d \in decoded /\ d \notin In(logQ) /\ d \notin Held("logger", "holds")
  BY <1>2, <1>3 DEF Flow, OnePlaceBefore, OnePlaceAfter, HeldByDecoder
<1>5. "loop" \in Place /\ "decoder" \in Kind /\ NoDet \in Detection \cup {NoDet}
  BY DEF Place, Kind
<1>6. \A j \in TmRun : At("decoder", j, "send") /\ task["decoder"][j].d = d => j = i
  BY <1>1, <1>2 DEF Flow, OneHolder, At
<1>7. ~At("decoder", i, "got") /\ ~At("decoder", i, "off")
  BY <1>1 DEF At
<1>8. MovedTo("decoder", i, "loop", NoDet)
  BY <1>1, <1>2, <1>5, Moved
<1>9. /\ Held("decoder", "got")' = Held("decoder", "got")
      /\ Held("logger", "holds")' = Held("logger", "holds")
  BY <1>5, <1>7, <1>8, HeldElsewhere DEF Kind
<1>10. Held("decoder", "send")' = Held("decoder", "send") \ {d}
  BY <1>1, <1>5, <1>6, <1>8, HeldLess
<1> HIDE DEF d
<1>11. NotCreatedYet'
  BY <1>1, <1>2, <1>5, <1>7, <1>8, StillToCome
<1>12. OneHolder'
  BY <1>2, <1>8, DecoderAlone DEF Flow
<1>13. OnePlaceBefore'
  BY <1>1, <1>2, <1>9, <1>10 DEF Flow, OnePlaceBefore, HeldByDecoder, feedVars
<1>14. /\ IsFiniteSet(Held("decoder", "send")')
       /\ Cardinality(Held("decoder", "send")') = Cardinality(Held("decoder", "send")) - 1
  BY <1>2, <1>3, <1>10, FS_RemoveElement DEF Flow, Finite
<1>15. {Cardinality(decoded), Cardinality(Held("decoder", "send")),
        Cardinality(Held("logger", "holds")), Len(logQ), Len(logged)} \subseteq Nat
  BY <1>2, FS_CardinalityType DEF Flow, Finite, TypeOK
<1>16. CASE logQ' = Append(logQ, d) /\ Len(logQ) < LogCap /\ UNCHANGED drops
  <2>1. Distinct(logQ)
    BY <1>2 DEF Flow, OnePlaceAfter
  <2>2. /\ logQ' \in Seq(Detection) /\ Len(logQ') = Len(logQ) + 1
        /\ Distinct(logQ') /\ In(logQ') = In(logQ) \cup {d}
    BY <1>2, <1>4, <1>16, <2>1, Queued
  <2>3. TypeOK'
    <3>1. Len(logQ') <= LogCap
      BY <1>2, <1>15, <1>16, <2>2
    <3> QED
      BY <1>1, <1>2, <1>8, <1>16, <2>2, <3>1 DEF TypeOK, MovedTo, feedVars
  <2>4. OnePlaceAfter'
    BY <1>1, <1>2, <1>4, <1>9, <1>10, <2>2 DEF Flow, OnePlaceAfter
  <2>5. Finite' /\ DropsAccountForTheRest'
    BY <1>1, <1>2, <1>9, <1>14, <1>15, <1>16, <2>2 DEF Flow, Finite, DropsAccountForTheRest
  <2> QED
    BY <1>11, <1>12, <1>13, <2>3, <2>4, <2>5 DEF IInv, Flow
<1>17. CASE drops' = drops + 1 /\ UNCHANGED logQ
  <2>1. TypeOK'
    BY <1>1, <1>2, <1>8, <1>17 DEF TypeOK, MovedTo, feedVars
  <2>2. OnePlaceAfter'
    BY <1>1, <1>2, <1>9, <1>10, <1>17 DEF Flow, OnePlaceAfter
  <2>3. Finite' /\ DropsAccountForTheRest'
    BY <1>1, <1>2, <1>9, <1>14, <1>15, <1>17 DEF Flow, Finite, DropsAccountForTheRest
  <2> QED
    BY <1>11, <1>12, <1>13, <2>1, <2>2, <2>3 DEF IInv, Flow
<1> QED
  BY <1>1, <1>16, <1>17 DEF LogQueueTakes

LEMMA DequeueStep ==
    ASSUME IInv, ~freed, NEW i \in TmRun, LoggerDequeue(i)
    PROVE  IInv'
<1> DEFINE d == Head(logQ)
<1>1. /\ At("logger", i, "loop") /\ logQ # <<>> /\ logQ' = Tail(logQ)
      /\ Set("logger", i, "holds", d)
      /\ UNCHANGED <<running, stopReq, tmCall, tmStarts, drops, decoded, logged,
                     wake, freed, feedVars>>
  BY DEF LoggerDequeue
<1>2. /\ TypeOK /\ NotCreatedYet /\ Flow
      /\ logQ \in Seq(Detection) /\ Len(logQ) <= LogCap /\ drops \in Nat /\ LogCap \in Nat
  BY TmConstants DEF IInv, TypeOK
<1>3. Distinct(logQ)
  BY <1>2 DEF Flow, OnePlaceAfter
<1>4. /\ logQ' \in Seq(Detection) /\ Len(logQ') = Len(logQ) - 1 /\ Len(logQ) \in Nat
      /\ Distinct(logQ') /\ In(logQ') = In(logQ) \ {d} /\ d \in In(logQ) /\ d \in Detection
  BY <1>1, <1>2, <1>3, Dequeued
<1> HIDE DEF d
<1>5. "holds" \in Place /\ "logger" \in Kind /\ d \in Detection \cup {NoDet}
  BY <1>4 DEF Place, Kind
<1>6. MovedTo("logger", i, "holds", d)
  BY <1>1, <1>2, <1>5, Moved
<1>7. ~At("logger", i, "holds") /\ ~At("logger", i, "off")
  BY <1>1 DEF At
<1>8. d \in decoded /\ d \notin Held("decoder", "send") /\ d \notin Held("logger", "holds")
  BY <1>2, <1>4 DEF Flow, OnePlaceAfter
<1>9. /\ Held("decoder", "got")' = Held("decoder", "got")
      /\ Held("decoder", "send")' = Held("decoder", "send")
      /\ Held("logger", "holds")' = Held("logger", "holds") \cup {d}
  BY <1>5, <1>6, <1>7, HeldMore, HeldElsewhere DEF Kind
<1>10. TypeOK'
  <2>1. Len(logQ') <= LogCap
    BY <1>2, <1>4
  <2> QED
    BY <1>1, <1>2, <1>4, <1>6, <2>1 DEF TypeOK, MovedTo, feedVars
<1>11. NotCreatedYet'
  BY <1>1, <1>2, <1>5, <1>6, <1>7, StillToCome
<1>12. OneHolder'
  <2>1. \A j \in TmRun : At("logger", j, "holds") => task["logger"][j].d \in Held("logger", "holds")
    BY DEF Held
  <2> QED
    BY <1>2, <1>6, <1>8, <2>1, LoggerAlone DEF Flow
<1>13. OnePlaceBefore'
  BY <1>1, <1>2, <1>4, <1>9 DEF Flow, OnePlaceBefore, HeldByDecoder, feedVars
<1>14. OnePlaceAfter'
  BY <1>1, <1>2, <1>4, <1>8, <1>9 DEF Flow, OnePlaceAfter
<1>15. /\ IsFiniteSet(Held("logger", "holds")')
       /\ Cardinality(Held("logger", "holds")') = Cardinality(Held("logger", "holds")) + 1
  BY <1>2, <1>8, <1>9, FS_AddElement DEF Flow, Finite
<1>16. {Cardinality(decoded), Cardinality(Held("decoder", "send")),
        Cardinality(Held("logger", "holds")), Len(logQ), Len(logged)} \subseteq Nat
  BY <1>2, FS_CardinalityType DEF Flow, Finite, TypeOK
<1>17. Finite' /\ DropsAccountForTheRest'
  BY <1>1, <1>2, <1>4, <1>9, <1>15, <1>16 DEF Flow, Finite, DropsAccountForTheRest
<1> QED
  BY <1>10, <1>11, <1>12, <1>13, <1>14, <1>17 DEF IInv, Flow

LEMMA LogStep ==
    ASSUME IInv, ~freed, NEW i \in TmRun, LoggerLog(i)
    PROVE  IInv'
<1> DEFINE d == task["logger"][i].d
<1>1. /\ At("logger", i, "holds") /\ logged' = Append(logged, d) /\ Set("logger", i, "loop", NoDet)
      /\ UNCHANGED <<running, stopReq, tmCall, tmStarts, logQ, drops, decoded,
                     wake, freed, feedVars>>
  BY DEF LoggerLog
<1>2. TypeOK /\ NotCreatedYet /\ Flow /\ logged \in Seq(Detection) /\ drops \in Nat
  BY DEF IInv, TypeOK
<1>3. d \in Held("logger", "holds")
  BY <1>1 DEF Held
<1>4. d \in Detection
  BY <1>2, <1>3 DEF Flow, OnePlaceBefore
<1>5. "loop" \in Place /\ "logger" \in Kind /\ NoDet \in Detection \cup {NoDet}
  BY DEF Place, Kind
<1>6. \A j \in TmRun : At("logger", j, "holds") /\ task["logger"][j].d = d => j = i
  BY <1>1, <1>2 DEF Flow, OneHolder
<1>7. ~At("logger", i, "off")
  BY <1>1 DEF At
<1>8. MovedTo("logger", i, "loop", NoDet)
  BY <1>1, <1>2, <1>5, Moved
<1>9. /\ Held("decoder", "got")' = Held("decoder", "got")
      /\ Held("decoder", "send")' = Held("decoder", "send")
  BY <1>5, <1>8, HeldElsewhere DEF Kind
<1>10. Held("logger", "holds")' = Held("logger", "holds") \ {d}
  BY <1>1, <1>5, <1>6, <1>8, HeldLess
<1> HIDE DEF d
<1>11. logged' \in Seq(Detection) /\ Len(logged') = Len(logged) + 1
  BY <1>1, <1>2, <1>4
<1>12. TypeOK'
  BY <1>1, <1>2, <1>8, <1>11 DEF TypeOK, MovedTo, feedVars
<1>13. NotCreatedYet'
  BY <1>1, <1>2, <1>5, <1>7, <1>8, StillToCome
<1>14. OneHolder'
  BY <1>2, <1>8, LoggerAlone DEF Flow
<1>15. OnePlaceBefore'
  BY <1>1, <1>2, <1>9, <1>10 DEF Flow, OnePlaceBefore, HeldByDecoder, feedVars
<1>16. OnePlaceAfter'
  BY <1>1, <1>2, <1>9, <1>10 DEF Flow, OnePlaceAfter
<1>17. /\ IsFiniteSet(Held("logger", "holds")')
       /\ Cardinality(Held("logger", "holds")') = Cardinality(Held("logger", "holds")) - 1
  BY <1>2, <1>3, <1>10, FS_RemoveElement DEF Flow, Finite
<1>18. {Cardinality(decoded), Cardinality(Held("decoder", "send")),
        Cardinality(Held("logger", "holds")), Len(logQ), Len(logged)} \subseteq Nat
  BY <1>2, FS_CardinalityType DEF Flow, Finite, TypeOK
<1>19. Finite' /\ DropsAccountForTheRest'
  BY <1>1, <1>2, <1>9, <1>11, <1>17, <1>18 DEF Flow, Finite, DropsAccountForTheRest
<1> QED
  BY <1>12, <1>13, <1>14, <1>15, <1>16, <1>19 DEF IInv, Flow

-----------------------------------------------------------------------------
(* The detection service. *)

LEMMA TasksStay ==
    ASSUME UNCHANGED tmVars
    PROVE  /\ NotCreatedYet => NotCreatedYet'
           /\ OneHolder => OneHolder'
           /\ \A kind \in Kind, place \in Place : Held(kind, place)' = Held(kind, place)
<1>1. UNCHANGED <<running, task, tmCall, tmStarts>>
  BY DEF tmVars
<1>2. \A kind \in Kind, i \in TmRun, place \in Place : At(kind, i, place)' <=> At(kind, i, place)
  BY <1>1 DEF At
<1> QED
  BY <1>1 DEF NotCreatedYet, OneHolder, Held, At

(* Emptying the queue takes away only what nobody decoded.                 *)
LEMMA Emptied ==
    ASSUME Flow, ~freed, detQ' = <<>>, UNCHANGED <<offered, tmVars, flow>>
    PROVE  Flow'
<1>1. In(detQ') = {} /\ Distinct(detQ')
  BY DEF In, Distinct
<1>2. /\ OneHolder'
      /\ UNCHANGED <<HeldByDecoder, Held("decoder", "got"), Held("decoder", "send"),
                     Held("logger", "holds"), decoded, logQ, drops, logged>>
  BY TasksStay DEF Flow, HeldByDecoder, Kind, Place, flow
<1>3. OnePlaceBefore'
  BY <1>1, <1>2 DEF Flow, OnePlaceBefore
<1>4. OnePlaceAfter' /\ Finite' /\ DropsAccountForTheRest'
  BY <1>2 DEF Flow, OnePlaceAfter, Finite, DropsAccountForTheRest
<1> QED
  BY <1>2, <1>3, <1>4 DEF Flow

LEMMA OfferStep ==
    ASSUME IInv, ~freed, NEW s \in Source, Offer(s), UNCHANGED pipeVars
    PROVE  IInv'
<1> DEFINE d == <<s, offered[s] + 1>>
           known == In(detQ) \cup HeldByDecoder \cup decoded
<1>1. /\ TypeOK /\ NotCreatedYet /\ Flow /\ detQ \in Seq(Detection) /\ Len(detQ) \in Nat
      /\ offered \in [Source -> 0..MaxDet] /\ MaxDet \in Nat /\ DetCap \in Nat
      /\ Len(detQ) <= DetCap
  BY FeedConstants DEF IInv, TypeOK
<1>2. /\ offered[s] < MaxDet /\ offered' = [offered EXCEPT ![s] = @ + 1]
      /\ UNCHANGED <<open, listening>>
      /\ \/ Len(detQ) < DetCap /\ detQ' = Append(detQ, d)
         \/ detQ' = detQ
  BY <1>1 DEF Offer
<1>3. d \in Detection
  BY <1>1, <1>2 DEF Detection
<1>4. known \subseteq Detection /\ \A e \in known : e[2] <= offered[e[1]]
  <2>1. In(detQ) \subseteq Detection
    BY <1>1 DEF In
  <2>2. HeldByDecoder \subseteq Detection /\ decoded \subseteq Detection
    BY <1>1 DEF Flow, OnePlaceBefore, TypeOK
  <2> QED
    BY <1>1, <2>1, <2>2 DEF Flow, OnePlaceBefore
<1>5. d \notin known
  BY <1>1, <1>4
<1>6. /\ offered' \in [Source -> 0..MaxDet]
      /\ \A e \in known \cup {d} : e[2] <= offered'[e[1]]
  <2>1. offered' \in [Source -> 0..MaxDet] /\ \A t \in Source : offered[t] <= offered'[t]
    BY <1>1, <1>2
  <2>2. d[2] <= offered'[d[1]]
    BY <1>1, <1>2
  <2>3. ASSUME NEW e \in known PROVE e[2] <= offered'[e[1]]
    <3>1. e[1] \in Source /\ e[2] \in Nat
      BY <1>4 DEF Detection
    <3> QED
      BY <1>1, <1>4, <2>1, <3>1
  <2> QED
    BY <2>1, <2>2, <2>3
<1>7. /\ UNCHANGED <<HeldByDecoder, Held("decoder", "got"), Held("decoder", "send"),
                     Held("logger", "holds"), decoded, freed>>
      /\ NotCreatedYet' /\ OnePlaceAfter' /\ OneHolder' /\ Finite' /\ DropsAccountForTheRest'
  <2>1. UNCHANGED <<tmVars, logQ, drops, decoded, logged, freed>>
    BY DEF pipeVars, flow
  <2>2. /\ UNCHANGED <<HeldByDecoder, Held("decoder", "got"), Held("decoder", "send"),
                       Held("logger", "holds")>>
        /\ NotCreatedYet' /\ OneHolder'
    BY <1>1, <2>1, TasksStay DEF Flow, HeldByDecoder, Kind, Place
  <2> QED
    BY <1>1, <2>1, <2>2 DEF Flow, OnePlaceAfter, Finite, DropsAccountForTheRest
<1> HIDE DEF d
<1>8. CASE Len(detQ) < DetCap /\ detQ' = Append(detQ, d)
  <2>1. /\ detQ' \in Seq(Detection) /\ Len(detQ') = Len(detQ) + 1
        /\ Distinct(detQ') /\ In(detQ') = In(detQ) \cup {d}
    BY <1>1, <1>3, <1>5, <1>8, Queued DEF Flow, OnePlaceBefore
  <2>2. TypeOK'
    <3>1. Len(detQ') <= DetCap
      BY <1>1, <1>8, <2>1
    <3> QED
      BY <1>1, <1>2, <1>6, <2>1, <3>1 DEF TypeOK, pipeVars, tmVars, flow
  <2>3. OnePlaceBefore'
    BY <1>1, <1>5, <1>6, <1>7, <2>1 DEF Flow, OnePlaceBefore, HeldByDecoder
  <2> QED
    BY <1>7, <2>2, <2>3 DEF IInv, Flow
<1>9. CASE detQ' = detQ
  <2>1. TypeOK'
    BY <1>1, <1>2, <1>6, <1>9 DEF TypeOK, pipeVars, tmVars, flow
  <2>2. OnePlaceBefore'
    BY <1>1, <1>6, <1>7, <1>9 DEF Flow, OnePlaceBefore
  <2> QED
    BY <1>7, <2>1, <2>2 DEF IInv, Flow
<1> QED
  BY <1>2, <1>8, <1>9

LEMMA FeedStepKeeps ==
    ASSUME IInv, ~freed, FeedStep, UNCHANGED pipeVars
    PROVE  IInv'
<1>1. /\ TypeOK /\ Flow /\ DetCap \in Nat /\ NotCreatedYet' /\ OneHolder'
      /\ UNCHANGED <<tmVars, flow, running, stopReq, task, tmCall, tmStarts,
                     logQ, drops, decoded, logged, wake, freed>>
      /\ UNCHANGED <<HeldByDecoder, Held("decoder", "got"), Held("decoder", "send"),
                     Held("logger", "holds")>>
  BY FeedConstants, TasksStay DEF IInv, Flow, HeldByDecoder, Kind, Place, pipeVars, tmVars, flow
<1>2. CASE Open \/ Start
  <2>1. TypeOK'
    BY <1>1, <1>2 DEF TypeOK, Open, Start
  <2>2. detQ' = detQ /\ offered' = offered
    BY <1>2 DEF Open, Start
  <2>3. Flow'
    BY <1>1, <2>2, FlowUntouched
  <2> QED
    BY <1>1, <2>1, <2>3 DEF IInv
<1>3. CASE Halt
  <2>1. Flow'
    BY <1>1, <1>3, Emptied DEF Halt
  <2>2. detQ' \in Seq(Detection) /\ Len(detQ') <= DetCap
    BY <1>1, <1>3 DEF Halt
  <2>3. TypeOK'
    BY <1>1, <1>3, <2>2 DEF TypeOK, Halt
  <2> QED
    BY <1>1, <2>1, <2>3 DEF IInv
<1> QED
  BY <1>2, <1>3, OfferStep DEF FeedStep

LEMMA DeletionKeeps ==
    ASSUME IInv, ~freed, QueueDeleted
    PROVE  IInv'
<1>1. /\ detQ' = <<>> /\ open' = FALSE /\ freed' \in BOOLEAN /\ TypeOK /\ Flow /\ DetCap \in Nat
      /\ UNCHANGED <<offered, listening, tmVars, flow, running, stopReq, task, tmCall, tmStarts,
                     logQ, drops, decoded, logged, wake>>
  BY FeedConstants DEF IInv, QueueDeleted, Close, tmVars, flow
<1>2. Flow'
  BY <1>1, Emptied
<1>3. NotCreatedYet'
  BY <1>1, TasksStay DEF IInv
<1>4. TypeOK'
  <2>1. detQ' \in Seq(Detection) /\ Len(detQ') <= DetCap
    BY <1>1
  <2> QED
    BY <1>1, <2>1 DEF TypeOK
<1> QED
  BY <1>2, <1>3, <1>4 DEF IInv

-----------------------------------------------------------------------------
(* The task manager, and the tasks that carry nothing. *)

LEMMA ApiStep ==
    ASSUME IInv, ~freed, TmApi, UNCHANGED feedVars
    PROVE  IInv'
<1>1. TypeOK /\ NotCreatedYet /\ Flow /\ MaxTmStarts \in Nat
      /\ UNCHANGED <<open, listening, detQ, offered>>
      /\ tmCall \in 0..5 /\ tmStarts \in 0..MaxTmStarts
  BY TmConstants DEF IInv, TypeOK, feedVars
<1>2. CASE TmStartBegin \/ TmCreateFails \/ TmStopBegin
  <2>1. UNCHANGED <<task, flow, logQ, drops, decoded, logged, wake, freed>>
    BY <1>2 DEF TmStartBegin, TmCreateFails, TmStopBegin, flow
  <2>2. Flow'
    <3>1. /\ UNCHANGED <<HeldByDecoder, Held("decoder", "got"), Held("decoder", "send"),
                         Held("logger", "holds")>>
          /\ OneHolder'
      BY <1>1, <2>1 DEF Flow, OneHolder, HeldByDecoder, Held, At
    <3> QED
      BY <1>1, <2>1, <3>1, FlowUntouched
  <2>3. TypeOK'
    <3>1. running' \in BOOLEAN /\ stopReq' \in BOOLEAN
      BY <1>1, <1>2 DEF TypeOK, TmStartBegin, TmCreateFails, TmStopBegin
    <3>2. tmCall' \in 0..5
      BY <1>2 DEF TmStartBegin, TmCreateFails, TmStopBegin
    <3>3. tmStarts' \in 0..MaxTmStarts
      BY <1>1, <1>2 DEF TmStartBegin, TmCreateFails, TmStopBegin
    <3> QED
      BY <1>1, <2>1, <3>1, <3>2, <3>3 DEF TypeOK
  <2>4. NotCreatedYet'
    <3>1. CASE TmStartBegin
      <4>1. tmCall' = 1 /\ tmStarts' = tmStarts + 1
        BY <3>1 DEF TmStartBegin
      <4>2. \A i \in TmRun : i >= tmStarts' => i > tmStarts
        BY <1>1, <4>1 DEF TmRun
      <4>3. \A k \in 1..4, i \in TmRun : i > tmStarts => At(Creation[k], i, "off")'
        BY <1>1, <2>1 DEF NotCreatedYet, At
      <4>4. \A i \in TmRun : i > tmStarts' \/ i = tmStarts' => i > tmStarts
        BY <1>1, <4>1 DEF TmRun
      <4> QED
        BY <1>1, <4>1, <4>3, <4>4 DEF NotCreatedYet
    <3>2. CASE TmCreateFails \/ TmStopBegin
      <4>1. /\ tmStarts' = tmStarts /\ running' = running
            /\ (tmCall' = 0 \/ (tmCall' = 5 /\ running))
        BY <3>2 DEF TmCreateFails, TmStopBegin
      <4> QED
        BY <1>1, <2>1, <4>1 DEF NotCreatedYet, At
    <3> QED
      BY <1>2, <3>1, <3>2
  <2> QED
    BY <2>2, <2>3, <2>4 DEF IInv
<1>3. CASE TmCreate
  <2> DEFINE kind == Creation[tmCall]
             i == tmStarts
  <2>1. /\ tmCall \in 1..4 /\ tmCall' = (tmCall + 1) % 5 /\ running' \in BOOLEAN
        /\ Set(kind, i, "loop", NoDet)
        /\ UNCHANGED <<stopReq, tmStarts, flow, logQ, drops, decoded, logged, wake, freed>>
    BY <1>3 DEF TmCreate, flow
  <2>2. i \in TmRun /\ kind \in Kind /\ At(kind, i, "off")
    BY <1>1, <2>1 DEF NotCreatedYet, TmRun, Creation, Kind
  <2>3. "loop" \in Place /\ NoDet \in Detection \cup {NoDet}
    BY DEF Place
  <2>4. MovedTo(kind, i, "loop", NoDet)
    BY <1>1, <2>1, <2>2, <2>3, Moved
  <2>5. Flow'
    BY <1>1, <2>1, <2>2, <2>4, EmptyHanded DEF At
  <2>6. TypeOK'
    BY <1>1, <2>1, <2>4 DEF TypeOK, MovedTo
  <2>7. NotCreatedYet'
    <3>1. tmStarts' # 0
      BY <2>1, <2>2 DEF TmRun
    <3> SUFFICES ASSUME NEW k \in 1..4, NEW j \in TmRun,
                        j > tmStarts' \/ (j = tmStarts' /\ tmCall' \in 1..k)
                 PROVE  At(Creation[k], j, "off")'
      BY <3>1 DEF NotCreatedYet
    <3>2. j > tmStarts \/ (j = tmStarts /\ tmCall \in 1..k /\ tmCall # k)
      BY <1>1, <2>1, <2>2 DEF TmRun
    <3>3. At(Creation[k], j, "off") /\ Creation[k] \in Kind
      BY <1>1, <3>2 DEF NotCreatedYet, Creation, Kind
    <3>4. Creation[k] # kind \/ j # i
      <4>1. \A a, b \in 1..4 : a # b => Creation[a] # Creation[b]
        BY DEF Creation
      <4> QED
        BY <1>1, <2>1, <3>2, <4>1 DEF TmRun
    <3> HIDE DEF kind, i
    <3> QED
      BY <2>4, <3>3, <3>4 DEF MovedTo, At
  <2> QED
    BY <2>5, <2>6, <2>7 DEF IInv
<1>4. CASE TmStopEnd
  <2>1. /\ tmCall = 5 /\ tmCall' = 0 /\ running' = FALSE /\ freed' = TRUE
        /\ task' = [kind \in Kind |-> [task[kind] EXCEPT ![tmStarts].at = "gone"]]
        /\ UNCHANGED <<stopReq, tmStarts, logQ, drops, decoded, logged, wake>>
    BY <1>4 DEF TmStopEnd, flow
  <2>2. task \in [Kind -> [TmRun -> [at : Place, d : Detection \cup {NoDet}]]]
    BY <1>1 DEF TypeOK
  <2>3. task' \in [Kind -> [TmRun -> [at : Place, d : Detection \cup {NoDet}]]]
    <3> DEFINE T == [at : Place, d : Detection \cup {NoDet}]
    <3>1. ASSUME NEW f \in [TmRun -> T], NEW j \in TmRun
          PROVE  [f[j] EXCEPT !.at = "gone"] \in T
      <4>1. "gone" \in Place
        BY DEF Place
      <4>2. f[j] \in T
        OBVIOUS
      <4> QED
        BY <4>1, <4>2
    <3>2. ASSUME NEW f \in [TmRun -> T]
          PROVE  [f EXCEPT ![tmStarts].at = "gone"] \in [TmRun -> T]
      BY <3>1, <3>2
    <3> HIDE DEF T
    <3>3. task \in [Kind -> [TmRun -> T]]
      BY <2>2 DEF T
    <3>4. \A kind \in Kind : [task[kind] EXCEPT ![tmStarts].at = "gone"] \in [TmRun -> T]
      BY <3>2, <3>3
    <3>5. task' \in [Kind -> [TmRun -> T]]
      BY <2>1, <3>4
    <3> QED
      BY <3>5 DEF T
  <2>4. \A kind \in Kind, j \in TmRun : j # tmStarts => task'[kind][j] = task[kind][j]
    BY <2>1, <2>2
  <2>5. TypeOK'
    <3>1. running' \in BOOLEAN /\ freed' \in BOOLEAN
      BY <2>1, Zenon
    <3>2. tmCall' \in 0..5
      BY <2>1, SMT
    <3>3. UNCHANGED <<open, listening, detQ, offered, stopReq, tmStarts, logQ, drops, decoded,
                      logged, wake>>
      BY <1>1, <2>1
    <3> QED
      BY <1>1, <2>3, <3>1, <3>2, <3>3 DEF TypeOK
  <2>6. NotCreatedYet'
    <3> SUFFICES ASSUME NEW k \in 1..4, NEW j \in TmRun, j > tmStarts
                 PROVE  At(Creation[k], j, "off")'
      BY <2>1 DEF NotCreatedYet
    <3>1. At(Creation[k], j, "off") /\ Creation[k] \in Kind /\ j # tmStarts
      BY <1>1 DEF NotCreatedYet, Creation, Kind, TmRun
    <3> QED
      BY <2>4, <3>1 DEF At
  <2> QED
    BY <2>1, <2>5, <2>6 DEF IInv
<1> QED
  BY <1>2, <1>3, <1>4 DEF TmApi

LEMMA TaskExitStep ==
    ASSUME IInv, ~freed, NEW kind \in Kind, NEW i \in TmRun, TaskExit(kind, i)
    PROVE  IInv'
<1>1. /\ TypeOK /\ NotCreatedYet /\ Flow /\ At(kind, i, "loop") /\ Set(kind, i, "gone", NoDet)
      /\ UNCHANGED <<open, listening, detQ, offered, running, stopReq, tmCall, tmStarts, flow,
                     logQ, drops, decoded, logged, wake, freed>>
  BY DEF IInv, TaskExit, feedVars, flow
<1>2. "gone" \in Place /\ NoDet \in Detection \cup {NoDet}
  BY DEF Place
<1>3. MovedTo(kind, i, "gone", NoDet)
  BY <1>1, <1>2, Moved
<1>4. Flow'
  BY <1>1, <1>3, EmptyHanded DEF At
<1>5. TypeOK'
  BY <1>1, <1>3 DEF TypeOK, MovedTo
<1>6. ~At(kind, i, "off")
  BY <1>1 DEF At
<1>7. NotCreatedYet'
  BY <1>1, <1>3, <1>6, StillToCome
<1> QED
  BY <1>4, <1>5, <1>7 DEF IInv

LEMMA DisplayStep ==
    ASSUME IInv, UNCHANGED <<tmVars, flow, freed, feedVars>>, wake' \in BOOLEAN
    PROVE  IInv'
<1>1. /\ UNCHANGED <<open, listening, detQ, offered, running, stopReq, task, tmCall, tmStarts,
                     logQ, drops, decoded, logged, freed>>
  BY DEF tmVars, flow, feedVars
<1>2. TypeOK' /\ NotCreatedYet'
  BY <1>1, TasksStay DEF IInv, TypeOK
<1>3. Flow => Flow'
  <2> SUFFICES ASSUME Flow PROVE Flow'
    OBVIOUS
  <2>1. /\ Held("decoder", "got")' = Held("decoder", "got")
        /\ Held("decoder", "send")' = Held("decoder", "send")
        /\ Held("logger", "holds")' = Held("logger", "holds") /\ OneHolder'
    BY TasksStay DEF Flow, Kind, Place
  <2> QED
    BY <1>1, <2>1, FlowUntouched
<1> QED
  BY <1>1, <1>2, <1>3 DEF IInv

-----------------------------------------------------------------------------
LEMMA Initially ==
    ASSUME Init
    PROVE  IInv
<1>1. /\ open = FALSE /\ listening = FALSE /\ detQ = <<>> /\ offered = [s \in Source |-> 0]
      /\ running = FALSE /\ stopReq = FALSE /\ tmCall = 0 /\ tmStarts = 0
      /\ logQ = <<>> /\ drops = 0 /\ wake = FALSE /\ decoded = {} /\ logged = <<>>
      /\ freed = FALSE
  BY DEF Init, FeedInit
<1>2. /\ task \in [Kind -> [TmRun -> [at : Place, d : Detection \cup {NoDet}]]]
      /\ \A kind \in Kind, i \in TmRun : task[kind][i].at = "off"
  BY DEF Init, Off, Place
<1>3. TypeOK
  <2>1. /\ {detQ, logQ, logged} \subseteq Seq(Detection)
        /\ Len(detQ) <= DetCap /\ Len(logQ) <= LogCap
    BY <1>1, FeedConstants, TmConstants
  <2>2. offered \in [Source -> 0..MaxDet] /\ tmStarts \in 0..MaxTmStarts
    BY <1>1, FeedConstants, TmConstants
  <2>3. /\ open \in BOOLEAN /\ listening \in BOOLEAN /\ running \in BOOLEAN /\ stopReq \in BOOLEAN
        /\ wake \in BOOLEAN /\ freed \in BOOLEAN
    BY <1>1, Zenon
  <2>4. tmCall \in 0..5 /\ drops \in Nat /\ decoded \subseteq Detection
    BY <1>1, SMT
  <2> QED
    BY <1>2, <2>1, <2>2, <2>3, <2>4 DEF TypeOK
<1>4. NotCreatedYet
  BY <1>1, <1>2 DEF NotCreatedYet, At, Creation, Kind
<1>5. Held("decoder", "got") = {} /\ Held("decoder", "send") = {} /\ Held("logger", "holds") = {}
  BY <1>2 DEF Held, At, Kind
<1>6. In(detQ) = {} /\ In(logQ) = {} /\ Distinct(detQ) /\ Distinct(logQ)
  BY <1>1 DEF In, Distinct
<1>7. OneHolder
  BY <1>2 DEF OneHolder, At, Kind
<1>8. OnePlaceBefore /\ OnePlaceAfter
  BY <1>1, <1>5, <1>6 DEF OnePlaceBefore, OnePlaceAfter, HeldByDecoder
<1>9. Finite /\ DropsAccountForTheRest
  <2>1. IsFiniteSet({}) /\ Cardinality({}) = 0
    BY FS_EmptySet
  <2>2. Len(logQ) = 0 /\ Len(logged) = 0 /\ drops = 0 /\ decoded = {}
    BY <1>1
  <2>3. /\ Cardinality(decoded) = 0 /\ Cardinality(Held("decoder", "send")) = 0
        /\ Cardinality(Held("logger", "holds")) = 0
    BY <1>5, <2>1, <2>2
  <2>4. Finite
    BY <1>5, <2>1, <2>2 DEF Finite
  <2> QED
    BY <2>2, <2>3, <2>4 DEF DropsAccountForTheRest
<1> QED
  BY <1>3, <1>4, <1>7, <1>8, <1>9 DEF IInv, Flow

LEMMA StepKeeps ==
    ASSUME IInv, [Next]_vars
    PROVE  IInv'
<1>1. CASE UNCHANGED vars
  <2>1. UNCHANGED <<tmVars, flow, freed, feedVars, wake>>
    BY <1>1 DEF vars, pipeVars
  <2> QED
    BY <2>1, DisplayStep DEF IInv, TypeOK
<1>2. CASE Next
  <2>1. CASE FeedStep /\ UNCHANGED pipeVars
    BY <1>2, <2>1, FeedStepKeeps DEF Next
  <2>2. CASE TmApi /\ UNCHANGED feedVars
    BY <1>2, <2>2, ApiStep DEF Next
  <2>3. CASE QueueDeleted
    BY <1>2, <2>3, DeletionKeeps DEF Next
  <2>4. ASSUME NEW i \in TmRun, DecoderStep(i) \/ LoggerStep(i)
        PROVE  IInv'
    BY <1>2, <2>4, ReceiveStep, DecodeStep, EnqueueStep, DequeueStep, LogStep
    DEF Next, DecoderStep, LoggerStep
  <2>5. ASSUME NEW i \in TmRun, GpsUpdate(i) \/ UiFrame(i)
        PROVE  IInv'
    <3>1. /\ UNCHANGED <<tmVars, flow, freed, feedVars>>
          /\ wake' \in BOOLEAN
      BY <2>5 DEF IInv, TypeOK, GpsUpdate, UiFrame
    <3> QED
      BY <3>1, DisplayStep
  <2>6. ASSUME NEW i \in TmRun, NEW kind \in Kind, TaskExit(kind, i)
        PROVE  IInv'
    BY <1>2, <2>6, TaskExitStep DEF Next
  <2> QED
    BY <1>2, <2>1, <2>2, <2>3, <2>4, <2>5, <2>6 DEF Next
<1> QED
  BY <1>1, <1>2

-----------------------------------------------------------------------------
(* What holds of the specification. *)

(* The inductive invariant of the pipeline holds (task_manager.c, data_pipeline.c). *)
THEOREM Invariance == Spec => []IInv
<1>1. Init => IInv
  BY Initially
<1>2. IInv /\ [Next]_vars => IInv'
  BY StepKeeps
<1> QED
  BY <1>1, <1>2, PTL DEF Spec

(* The queues keep to their capacities and the tasks to their places.      *)
THEOREM TypeCorrect == Spec => []TypeOK
BY Invariance, PTL DEF IInv

(* Every detection the decoder decoded is on its way to the data logger,   *)
(* logged once, or counted by logger_queue_drops, however the task manager *)
(* is started again, fails half-way, or the detection service is stopped   *)
(* in between.                                                             *)
THEOREM NothingVanishes == Spec => []DropsAccountForTheRest
<1>1. IInv => DropsAccountForTheRest
  BY DEF IInv, Flow, DropsAccountForTheRest
<1> QED
  BY <1>1, Invariance, PTL
-----------------------------------------------------------------------------
(* The order of the log. *)

Ordered(s)   == \A j, k \in 1..Len(s) : (j < k /\ s[j][1] = s[k][1]) => s[j][2] < s[k][2]
Before(A, B) == \A x \in A, y \in B : x[1] = y[1] => x[2] < y[2]

(* Six stages of the way, the oldest detections first.                     *)
Chain(L, H, Q, D, F, N) ==
    /\ Before(L, H \cup Q \cup D \cup F \cup N)
    /\ Before(H, Q \cup D \cup F \cup N)
    /\ Before(Q, D \cup F \cup N)
    /\ Before(D, F \cup N)
    /\ Before(F, N)

(* What each source offers next.                                           *)
ToCome == {<<s, offered[s] + 1>> : s \in Source}

(* What is further on its way is older: from the log through the logger's  *)
(* hands, the log queue, the decoder's hands and the detection queue to    *)
(* what is still to be offered.                                            *)
OnTheWay ==
    /\ Ordered(logged) /\ Ordered(logQ) /\ Ordered(detQ)
    /\ Chain(In(logged), Held("logger", "holds"), In(logQ), HeldByDecoder, In(detQ), ToCome)

(* With one decoder and one logger, that is.                               *)
OneLine == tmStarts <= 1 => OnTheWay

LEMMA OrderedAppend ==
    ASSUME NEW S, NEW s \in Seq(S), NEW d \in S, Ordered(s), Before(In(s), {d})
    PROVE  Ordered(Append(s, d)) /\ In(Append(s, d)) = In(s) \cup {d}
<1> DEFINE u == Append(s, d)
           n == Len(s)
<1>1. n \in Nat /\ u \in Seq(S) /\ Len(u) = n + 1 /\ u[n + 1] = d /\ \A k \in 1..n : u[k] = s[k]
  OBVIOUS
<1> HIDE DEF u
<1>2. \A k \in 1..n : s[k][1] = d[1] => s[k][2] < d[2]
  BY DEF Before, In
<1>3. Ordered(u)
  <2> SUFFICES ASSUME NEW j \in 1..(n + 1), NEW k \in 1..(n + 1), j < k, u[j][1] = u[k][1]
               PROVE  u[j][2] < u[k][2]
    BY <1>1 DEF Ordered
  <2>1. CASE k = n + 1
    BY <1>1, <1>2, <2>1
  <2>2. CASE k # n + 1
    BY <1>1, <2>2 DEF Ordered
  <2> QED
    BY <2>1, <2>2
<1>4. In(u) \subseteq In(s) \cup {d}
  BY <1>1 DEF In
<1>5. In(s) \cup {d} \subseteq In(u)
  BY <1>1 DEF In
<1> QED
  BY <1>3, <1>4, <1>5 DEF u

LEMMA OrderedTail ==
    ASSUME NEW S, NEW s \in Seq(S), Ordered(s), s # <<>>
    PROVE  /\ Ordered(Tail(s)) /\ Before({Head(s)}, In(Tail(s)))
           /\ In(Tail(s)) \subseteq In(s) /\ Head(s) \in In(s)
<1> DEFINE u == Tail(s)
           n == Len(s)
<1>1. /\ n \in Nat /\ n # 0 /\ Head(s) = s[1]
      /\ Len(u) = n - 1 /\ \A k \in 1..(n - 1) : u[k] = s[k + 1]
  OBVIOUS
<1> HIDE DEF u
<1>2. Ordered(u)
  BY <1>1 DEF Ordered
<1>3. Before({s[1]}, In(u))
  BY <1>1 DEF Before, Ordered, In
<1>4. In(u) \subseteq In(s) /\ s[1] \in In(s)
  BY <1>1 DEF In
<1> QED
  BY <1>1, <1>2, <1>3, <1>4 DEF u

LEMMA ChainShrinks ==
    ASSUME NEW L, NEW H, NEW Q, NEW D, NEW F, NEW N, Chain(L, H, Q, D, F, N),
           NEW K \in SUBSET H, NEW R \in SUBSET Q, NEW E \in SUBSET D, NEW G \in SUBSET F
    PROVE  Chain(L, K, R, E, G, N)
BY DEF Chain, Before

LEMMA ChainMoves ==
    ASSUME NEW L, NEW H, NEW Q, NEW D, NEW F, NEW N, Chain(L, H, Q, D, F, N), NEW d
    PROVE  /\ H = {d} => Chain(L \cup {d}, {}, Q, D, F, N) /\ Before(L, {d})
           /\ D = {d} => Chain(L, H, Q \cup {d}, {}, F, N) /\ Before(Q, {d})
           /\ \A R \in SUBSET Q : d \in Q /\ Before({d}, R) => Chain(L, {d}, R, D, F, N)
           /\ \A G \in SUBSET F : d \in F /\ Before({d}, G) => Chain(L, H, Q, {d}, G, N)
BY DEF Chain, Before


(* With one start each kind has one task, and its hands are empty or full. *)
LEMMA OneTask ==
    ASSUME TypeOK, NotCreatedYet, tmStarts <= 1, NEW kind \in Kind, NEW i \in TmRun,
           ~At(kind, i, "off")
    PROVE  \A j \in TmRun : ~At(kind, j, "off") => j = i
<1>1. \A j \in TmRun : j > tmStarts => At(kind, j, "off")
  <2>1. PICK k \in 1..4 : Creation[k] = kind
    <3>1. 1 \in 1..4 /\ 2 \in 1..4 /\ 3 \in 1..4 /\ 4 \in 1..4
      OBVIOUS
    <3> QED
      BY <3>1 DEF Creation, Kind
  <2> QED
    BY <2>1 DEF NotCreatedYet
<1>2. \A j \in TmRun : ~At(kind, j, "off") => j = 1
  BY <1>1 DEF TypeOK, TmRun
<1> QED
  BY <1>2

LEMMA OneTaskMoves ==
    ASSUME TypeOK, NotCreatedYet, tmStarts <= 1, NEW kind \in Kind, NEW i \in TmRun,
           ~At(kind, i, "off"), NEW place, NEW d, MovedTo(kind, i, place, d),
           NEW p \in Place \ {"off"}
    PROVE  /\ Held(kind, p) = IF At(kind, i, p) THEN {task[kind][i].d} ELSE {}
           /\ Held(kind, p)' = IF p = place THEN {d} ELSE {}
<1>1. \A j \in TmRun : At(kind, j, p) => j = i
  BY OneTask DEF At
<1>2. \A j \in TmRun : At(kind, j, p)' => j = i
  BY <1>1 DEF MovedTo, At
<1>3. At(kind, i, p)' <=> p = place
  BY DEF MovedTo, At
<1>4. task'[kind][i].d = d
  BY DEF MovedTo
<1> QED
  BY <1>1, <1>2, <1>3, <1>4 DEF Held

LEMMA InOrderReceive ==
    ASSUME IInv, OnTheWay, ~freed, tmStarts <= 1, NEW i \in TmRun, DecoderReceive(i)
    PROVE  OnTheWay'
<1>1. PICK d \in Detection : Take(d) /\ Set("decoder", i, "got", d)
  BY DEF DecoderReceive
<1>2. /\ At("decoder", i, "loop") /\ detQ # <<>> /\ d = Head(detQ) /\ detQ' = Tail(detQ)
      /\ UNCHANGED <<logged, logQ, offered, tmStarts>>
  BY <1>1 DEF DecoderReceive, Take, flow
<1>3. TypeOK /\ NotCreatedYet /\ detQ \in Seq(Detection)
  BY DEF IInv, TypeOK
<1>4. /\ {"got", "send", "holds"} \subseteq Place \ {"off"} /\ {"decoder", "logger"} \subseteq Kind
      /\ d \in Detection \cup {NoDet}
  BY DEF Place, Kind
<1>5. MovedTo("decoder", i, "got", d)
  BY <1>1, <1>3, <1>4, Moved
<1>6. Held("logger", "holds")' = Held("logger", "holds")
  BY <1>4, <1>5, HeldElsewhere
<1>7. Held("decoder", "got")' = {d} /\ Held("decoder", "send")' = {}
  BY <1>2, <1>3, <1>4, <1>5, OneTaskMoves DEF At
<1>8. HeldByDecoder' = {d}
  BY <1>7 DEF HeldByDecoder
<1>9. Ordered(detQ') /\ Before({d}, In(detQ')) /\ In(detQ') \subseteq In(detQ) /\ d \in In(detQ)
  BY <1>2, <1>3, OrderedTail DEF OnTheWay
<1>10. Chain(In(logged), Held("logger", "holds"), In(logQ), {d}, In(detQ'), ToCome)
  BY <1>9, ChainMoves DEF OnTheWay
<1> QED
  BY <1>2, <1>6, <1>8, <1>9, <1>10 DEF OnTheWay, ToCome

LEMMA InOrderEnqueue ==
    ASSUME IInv, OnTheWay, ~freed, tmStarts <= 1, NEW i \in TmRun, DecoderEnqueue(i)
    PROVE  OnTheWay'
<1> DEFINE d == task["decoder"][i].d
<1>1. /\ At("decoder", i, "send") /\ LogQueueTakes(d) /\ Set("decoder", i, "loop", NoDet)
      /\ UNCHANGED <<logged, detQ, offered, tmStarts>>
  BY DEF DecoderEnqueue, feedVars
<1>2. TypeOK /\ NotCreatedYet /\ logQ \in Seq(Detection) /\ Flow
  BY DEF IInv, TypeOK
<1>3. /\ {"got", "send", "holds", "loop"} \subseteq Place \ {"off"}
      /\ {"decoder", "logger"} \subseteq Kind /\ NoDet \in Detection \cup {NoDet}
  BY DEF Place, Kind
<1>4. MovedTo("decoder", i, "loop", NoDet)
  BY <1>1, <1>2, <1>3, Moved
<1>5. /\ Held("decoder", "got") = {} /\ Held("decoder", "send") = {d}
      /\ Held("decoder", "got")' = {} /\ Held("decoder", "send")' = {}
  BY <1>1, <1>2, <1>3, <1>4, OneTaskMoves DEF At
<1>6. HeldByDecoder = {d} /\ d \in Detection
  BY <1>2, <1>5 DEF HeldByDecoder, Flow, OnePlaceBefore
<1>7. Held("logger", "holds")' = Held("logger", "holds")
  BY <1>3, <1>4, HeldElsewhere
<1>9. HeldByDecoder' = {}
  BY <1>5 DEF HeldByDecoder
<1> HIDE DEF d
<1>10. CASE logQ' = Append(logQ, d)
  <2>1. /\ Chain(In(logged), Held("logger", "holds"), In(logQ) \cup {d}, {}, In(detQ), ToCome)
        /\ Before(In(logQ), {d})
    BY <1>6, ChainMoves DEF OnTheWay
  <2>2. Ordered(logQ') /\ In(logQ') = In(logQ) \cup {d}
    BY <1>2, <1>6, <1>10, <2>1, OrderedAppend DEF OnTheWay
  <2> QED
    BY <1>1, <1>7, <1>9, <2>1, <2>2 DEF OnTheWay, ToCome
<1>11. CASE logQ' = logQ
  <2>1. Chain(In(logged), Held("logger", "holds"), In(logQ), {}, In(detQ), ToCome)
    BY ChainShrinks DEF OnTheWay
  <2> QED
    BY <1>1, <1>7, <1>9, <1>11, <2>1 DEF OnTheWay, ToCome
<1> QED
  BY <1>1, <1>10, <1>11 DEF LogQueueTakes


(* Nothing new is on the way, and nothing passes anything.                 *)
LEMMA InOrderUntouched ==
    ASSUME OnTheWay, UNCHANGED <<logged, logQ, offered>>, detQ' = detQ \/ detQ' = <<>>,
           HeldByDecoder' \subseteq HeldByDecoder,
           Held("logger", "holds")' \subseteq Held("logger", "holds")
    PROVE  OnTheWay'
<1>1. In(detQ') \subseteq In(detQ) /\ Ordered(detQ')
  <2>1. CASE detQ' = <<>>
    BY <2>1 DEF In, Ordered
  <2> QED
    BY <2>1 DEF OnTheWay
<1>2. ToCome' = ToCome
  BY DEF ToCome
<1>3. Chain(In(logged), Held("logger", "holds")', In(logQ), HeldByDecoder', In(detQ'), ToCome)
  BY <1>1, ChainShrinks DEF OnTheWay
<1> QED
  BY <1>1, <1>2, <1>3 DEF OnTheWay

LEMMA InOrderDecode ==
    ASSUME IInv, OnTheWay, ~freed, tmStarts <= 1, NEW i \in TmRun, DecoderDecode(i)
    PROVE  OnTheWay'
<1> DEFINE d == task["decoder"][i].d
<1>1. /\ At("decoder", i, "got") /\ UNCHANGED <<logged, logQ, detQ, offered, tmStarts>>
      /\ Set("decoder", i, "send", d) \/ Set("decoder", i, "loop", NoDet)
  BY DEF DecoderDecode, feedVars
<1>2. TypeOK /\ NotCreatedYet
  BY DEF IInv
<1>3. /\ {"got", "send", "holds", "loop"} \subseteq Place \ {"off"}
      /\ {"decoder", "logger"} \subseteq Kind /\ {d, NoDet} \subseteq Detection \cup {NoDet}
  BY <1>2 DEF Place, Kind, TypeOK
<1>4. PICK place \in {"send", "loop"}, c \in {d, NoDet} :
         MovedTo("decoder", i, place, c) /\ (place = "send" => c = d)
  BY <1>1, <1>2, <1>3, Moved
<1>5. /\ Held("decoder", "got") = {d} /\ Held("decoder", "got")' = {}
      /\ Held("decoder", "send")' \subseteq {d}
  BY <1>1, <1>2, <1>3, <1>4, OneTaskMoves DEF At
<1>6. Held("logger", "holds")' = Held("logger", "holds")
  BY <1>3, <1>4, HeldElsewhere
<1> QED
  BY <1>1, <1>5, <1>6, InOrderUntouched DEF HeldByDecoder

LEMMA InOrderDequeue ==
    ASSUME IInv, OnTheWay, ~freed, tmStarts <= 1, NEW i \in TmRun, LoggerDequeue(i)
    PROVE  OnTheWay'
<1> DEFINE d == Head(logQ)
<1>1. /\ At("logger", i, "loop") /\ logQ # <<>> /\ Set("logger", i, "holds", d)
      /\ logQ' = Tail(logQ) /\ UNCHANGED <<logged, detQ, offered, tmStarts>>
  BY DEF LoggerDequeue, feedVars
<1>2. TypeOK /\ NotCreatedYet /\ logQ \in Seq(Detection)
  BY DEF IInv, TypeOK
<1>3. /\ {"got", "send", "holds", "loop"} \subseteq Place \ {"off"}
      /\ {"decoder", "logger"} \subseteq Kind /\ d \in Detection \cup {NoDet}
  BY <1>1, <1>2 DEF Place, Kind
<1>4. MovedTo("logger", i, "holds", d)
  BY <1>1, <1>2, <1>3, Moved
<1>5. Held("logger", "holds")' = {d}
  BY <1>1, <1>2, <1>3, <1>4, OneTaskMoves DEF At
<1>6. HeldByDecoder' = HeldByDecoder
  BY <1>3, <1>4, HeldElsewhere DEF HeldByDecoder
<1>7. Ordered(logQ') /\ Before({d}, In(logQ')) /\ In(logQ') \subseteq In(logQ) /\ d \in In(logQ)
  BY <1>1, <1>2, OrderedTail DEF OnTheWay
<1> HIDE DEF d
<1>8. Chain(In(logged), {d}, In(logQ'), HeldByDecoder, In(detQ), ToCome)
  BY <1>7, ChainMoves DEF OnTheWay
<1> QED
  BY <1>1, <1>5, <1>6, <1>7, <1>8 DEF OnTheWay, ToCome

LEMMA InOrderLog ==
    ASSUME IInv, OnTheWay, ~freed, tmStarts <= 1, NEW i \in TmRun, LoggerLog(i)
    PROVE  OnTheWay'
<1> DEFINE d == task["logger"][i].d
<1>1. /\ At("logger", i, "holds") /\ Set("logger", i, "loop", NoDet)
      /\ logged' = Append(logged, d) /\ UNCHANGED <<logQ, detQ, offered, tmStarts>>
  BY DEF LoggerLog, feedVars
<1>2. TypeOK /\ NotCreatedYet /\ logged \in Seq(Detection) /\ Flow
  BY DEF IInv, TypeOK
<1>3. /\ {"got", "send", "holds", "loop"} \subseteq Place \ {"off"}
      /\ {"decoder", "logger"} \subseteq Kind /\ NoDet \in Detection \cup {NoDet}
  BY DEF Place, Kind
<1>4. MovedTo("logger", i, "loop", NoDet)
  BY <1>1, <1>2, <1>3, Moved
<1>5. Held("logger", "holds") = {d} /\ Held("logger", "holds")' = {}
  BY <1>1, <1>2, <1>3, <1>4, OneTaskMoves DEF At
<1>6. HeldByDecoder' = HeldByDecoder /\ d \in Detection
  BY <1>2, <1>3, <1>4, <1>5, HeldElsewhere DEF HeldByDecoder, Flow, OnePlaceBefore
<1> HIDE DEF d
<1>7. /\ Chain(In(logged) \cup {d}, {}, In(logQ), HeldByDecoder, In(detQ), ToCome)
      /\ Before(In(logged), {d})
  BY <1>5, ChainMoves DEF OnTheWay
<1>8. Ordered(logged') /\ In(logged') = In(logged) \cup {d}
  BY <1>1, <1>2, <1>6, <1>7, OrderedAppend DEF OnTheWay
<1> QED
  BY <1>1, <1>5, <1>6, <1>7, <1>8 DEF OnTheWay, ToCome

LEMMA InOrderOffer ==
    ASSUME IInv, OnTheWay, ~freed, UNCHANGED pipeVars, NEW s \in Source, Offer(s)
    PROVE  OnTheWay'
<1> DEFINE d == <<s, offered[s] + 1>>
           L == In(logged)
           H == Held("logger", "holds")
           Q == In(logQ)
           D == HeldByDecoder
           F == In(detQ)
<1>1. /\ offered \in [Source -> 0..MaxDet] /\ offered[s] < MaxDet
      /\ offered' = [offered EXCEPT ![s] = offered[s] + 1]
      /\ detQ' = Append(detQ, d) \/ detQ' = detQ
      /\ detQ \in Seq(Detection) /\ MaxDet \in Nat /\ DetCap \in Nat
      /\ UNCHANGED <<logged, logQ>>
  BY FeedConstants DEF Offer, IInv, TypeOK, pipeVars, flow
<1>2. H' = H /\ D' = D
  BY DEF HeldByDecoder, Held, At, pipeVars, tmVars
<1>3. L \cup H \cup Q \cup D \cup F \subseteq Detection
  <2>1. L \subseteq Detection /\ Q \subseteq Detection /\ F \subseteq Detection
    BY DEF IInv, TypeOK, In
  <2>2. H \subseteq Detection /\ D \subseteq Detection
    BY DEF IInv, Flow, OnePlaceBefore
  <2> QED
    BY <2>1, <2>2
<1>4. d \in Detection /\ d \in ToCome /\ d[1] = s /\ d[2] = offered[s] + 1
  BY <1>1 DEF Detection, ToCome
<1>5. ASSUME NEW x \in Detection, Before({x}, ToCome) PROVE Before({x}, ToCome')
  <2>1. x \in Source \X (1..MaxDet)
    BY DEF Detection
  <2>2. SUFFICES ASSUME NEW y \in Source, x[1] = y PROVE x[2] < offered'[y] + 1
    BY DEF Before, ToCome
  <2>3. x[2] < offered[y] + 1
    <3> DEFINE e == <<y, offered[y] + 1>>
    <3>1. e \in ToCome /\ e[1] = y /\ e[2] = offered[y] + 1
      BY DEF ToCome
    <3> HIDE DEF e
    <3> QED
      BY <1>5, <2>2, <3>1 DEF Before
  <2>4. offered[y] \in Nat /\ offered'[y] \in Nat /\ offered[y] <= offered'[y] /\ x[2] \in Nat
    BY <1>1, <2>1
  <2> QED
    BY <2>3, <2>4
<1>6. Before({d}, ToCome')
  BY <1>1 DEF Before, ToCome
<1>7. \A A \in SUBSET Detection : Before(A, ToCome) => Before(A, ToCome')
  BY <1>5 DEF Before
<1> HIDE DEF d, L, H, Q, D, F
<1>8. Chain(L, H, Q, D, F, ToCome)
  BY DEF OnTheWay, L, H, Q, D, F
<1>9. Chain(L, H, Q, D, F \cup {d}, ToCome')
  <2>1. \A A \in {L, H, Q, D, F} : Before(A, ToCome) /\ A \subseteq Detection
    BY <1>3, <1>8 DEF Chain, Before
  <2>2. \A A \in {L, H, Q, D, F} : Before(A, ToCome') /\ Before(A, {d})
    BY <1>4, <1>7, <2>1 DEF Before
  <2> QED
    BY <1>6, <1>8, <2>2 DEF Chain, Before
<1>10. CASE detQ' = Append(detQ, d)
  <2>1. Ordered(detQ) /\ Before(In(detQ), {d})
    BY <1>4, <1>8 DEF Chain, Before, OnTheWay, F
  <2>2. Ordered(detQ') /\ In(detQ') = F \cup {d}
    BY <1>1, <1>4, <1>10, <2>1, OrderedAppend DEF F
  <2> QED
    BY <1>1, <1>2, <1>9, <2>2 DEF OnTheWay, L, H, Q, D
<1>11. CASE detQ' = detQ
  <2>1. Chain(L, H, Q, D, F, ToCome')
    BY <1>9, ChainShrinks
  <2> QED
    BY <1>1, <1>2, <1>11, <2>1 DEF OnTheWay, L, H, Q, D, F
<1> QED
  BY <1>1, <1>10, <1>11


LEMMA InOrderStep ==
    ASSUME IInv, OneLine, [Next]_vars
    PROVE  OneLine'
<1> SUFFICES ASSUME tmStarts' <= 1 PROVE OnTheWay'
  BY DEF OneLine
<1>1. TypeOK /\ NotCreatedYet
  BY DEF IInv
<1>2. tmStarts <= 1
  <2>1. tmStarts' = tmStarts \/ tmStarts' = tmStarts + 1
    BY DEF Next, vars, pipeVars, tmVars, TmApi, TmStartBegin, TmCreate, TmCreateFails, TmStopBegin,
           TmStopEnd, QueueDeleted, DecoderStep, DecoderReceive, DecoderDecode, DecoderEnqueue,
           LoggerStep, LoggerDequeue, LoggerLog, GpsUpdate, UiFrame, TaskExit
  <2>2. tmStarts \in Nat
    BY <1>1, TmConstants DEF TypeOK
  <2> QED
    BY <2>1, <2>2
<1>3. OnTheWay
  BY <1>2 DEF OneLine
<1>4. CASE UNCHANGED vars
  BY <1>3, <1>4, InOrderUntouched DEF vars, pipeVars, tmVars, flow, feedVars, HeldByDecoder, Held, At
<1>5. ASSUME ~freed, FeedStep, UNCHANGED pipeVars PROVE OnTheWay'
  <2>1. CASE Open \/ Start \/ Halt
    BY <1>3, <1>5, <2>1, InOrderUntouched
    DEF Open, Start, Halt, pipeVars, tmVars, flow, HeldByDecoder, Held, At
  <2> QED
    BY <1>3, <1>5, <2>1, InOrderOffer DEF FeedStep
<1>6. ASSUME ~freed, TmApi, UNCHANGED feedVars PROVE OnTheWay'
  <2>1. UNCHANGED <<logged, logQ, offered, detQ>>
    BY <1>6 DEF TmApi, TmStartBegin, TmCreate, TmCreateFails, TmStopBegin, TmStopEnd, flow, feedVars
  <2>2. \A kind \in Kind, i \in TmRun : /\ task'[kind][i].at \in {task[kind][i].at, "loop", "gone"}
                                        /\ task'[kind][i].at = task[kind][i].at
                                              => task'[kind][i].d = task[kind][i].d
                                                 \/ task[kind][i].at \in {"off", "loop", "gone"}
    <3>1. CASE TmStartBegin \/ TmCreateFails \/ TmStopBegin
      BY <3>1 DEF TmStartBegin, TmCreateFails, TmStopBegin
    <3>2. CASE TmCreate
      <4>1. tmCall \in 1..4 /\ tmStarts \in TmRun /\ Creation[tmCall] \in Kind
            /\ Set(Creation[tmCall], tmStarts, "loop", NoDet)
        BY <1>1, <3>2 DEF TmCreate, NotCreatedYet, TypeOK, TmRun, Creation, Kind
      <4>2. "loop" \in Place /\ NoDet \in Detection \cup {NoDet}
        BY DEF Place
      <4>3. MovedTo(Creation[tmCall], tmStarts, "loop", NoDet)
        BY <1>1, <4>1, <4>2, Moved
      <4> QED
        BY <4>3 DEF MovedTo
    <3>3. CASE TmStopEnd
      <4>1. task' = [kind \in Kind |-> [task[kind] EXCEPT ![tmStarts].at = "gone"]]
        BY <3>3 DEF TmStopEnd
      <4>2. task \in [Kind -> [TmRun -> [at : Place, d : Detection \cup {NoDet}]]]
        BY <1>1 DEF TypeOK
      <4> QED
        BY <4>1, <4>2
    <3> QED
      BY <1>6, <3>1, <3>2, <3>3 DEF TmApi
  <2>3. \A kind \in {"decoder", "logger"}, p \in {"got", "send", "holds"} :
           Held(kind, p)' \subseteq Held(kind, p)
    BY <2>2 DEF Held, At, Kind
  <2> QED
    BY <1>3, <2>1, <2>3, InOrderUntouched DEF HeldByDecoder
<1>7. CASE QueueDeleted
  BY <1>3, <1>7, InOrderUntouched DEF QueueDeleted, Close, tmVars, flow, HeldByDecoder, Held, At
<1>8. ASSUME ~freed, NEW i \in TmRun, DecoderStep(i) \/ LoggerStep(i) PROVE OnTheWay'
  BY <1>2, <1>3, <1>8, InOrderReceive, InOrderDecode, InOrderEnqueue, InOrderDequeue, InOrderLog
  DEF DecoderStep, LoggerStep
<1>9. ASSUME NEW i \in TmRun, GpsUpdate(i) \/ UiFrame(i) PROVE OnTheWay'
  BY <1>3, <1>9, InOrderUntouched DEF GpsUpdate, UiFrame, tmVars, flow, feedVars, HeldByDecoder, Held, At
<1>10. ASSUME NEW i \in TmRun, NEW kind \in Kind, TaskExit(kind, i) PROVE OnTheWay'
  <2>1. /\ UNCHANGED <<logged, logQ, offered, detQ>> /\ At(kind, i, "loop")
        /\ Set(kind, i, "gone", NoDet)
    BY <1>10 DEF TaskExit, flow, feedVars
  <2>2. "gone" \in Place /\ NoDet \in Detection \cup {NoDet}
    BY DEF Place
  <2>3. MovedTo(kind, i, "gone", NoDet)
    BY <1>1, <2>1, <2>2, Moved
  <2>4. \A k \in {"decoder", "logger"}, p \in {"got", "send", "holds"} : Held(k, p)' = Held(k, p)
    BY <2>1, <2>3, HeldElsewhere DEF At, Kind
  <2> QED
    BY <1>3, <2>1, <2>4, InOrderUntouched DEF HeldByDecoder
<1> QED
  BY <1>4, <1>5, <1>6, <1>7, <1>8, <1>9, <1>10 DEF Next

(* Each source's detections reach the data logger in the order they were   *)
(* made, whatever is lost on the way, as long as the tasks were started    *)
(* once (data_pipeline.c, task_manager.c).                                 *)
THEOREM LogKeepsOrder == Spec => []LoggedInOrder
<1>1. Init => OneLine
  <2> SUFFICES ASSUME Init PROVE OnTheWay
    BY DEF OneLine
  <2>1. detQ = <<>> /\ logQ = <<>> /\ logged = <<>>
    BY DEF Init, FeedInit
  <2>2. In(detQ) = {} /\ In(logQ) = {} /\ In(logged) = {}
        /\ Ordered(detQ) /\ Ordered(logQ) /\ Ordered(logged)
    BY <2>1 DEF In, Ordered
  <2>3. Held("logger", "holds") = {} /\ HeldByDecoder = {}
    BY DEF Init, Off, Held, HeldByDecoder, At, Kind
  <2> QED
    BY <2>2, <2>3 DEF OnTheWay, Chain, Before
<1>2. IInv /\ OneLine /\ [Next]_vars => OneLine'
  BY InOrderStep
<1>3. IInv /\ OneLine => LoggedInOrder
  <2> SUFFICES ASSUME IInv, tmStarts <= 1, OnTheWay PROVE LoggedInOrder
    BY DEF OneLine, LoggedInOrder
  <2>1. logged \in Seq(Detection) /\ DOMAIN logged = 1..Len(logged)
    BY DEF IInv, TypeOK
  <2> QED
    BY <2>1 DEF OnTheWay, Ordered, LoggedInOrder
<1> QED
  BY <1>1, <1>2, <1>3, Invariance, PTL DEF Spec


=============================================================================
