------------------------- MODULE AlertEngineProofs -------------------------
(***************************************************************************)
(* What the run of AlertEngine checks for three aircraft and two entries,  *)
(* proved for any number of aircraft, any size of the table and any        *)
(* repeat intervals; and, at the end, what the run of Buzzer checks of the  *)
(* driver the engine sounds its alerts with, for any number of playback    *)
(* tasks.                                                                  *)
(***************************************************************************)
EXTENDS AlertEngine, Buzzer, SequenceTheorems, TLAPS

Track == [a : Aircraft, last : 0..MaxTime]

(* Is a proximity notice for a on its way through the buzzer?              *)
Pending(a) == at # "idle" /\ call.kind = "prox" /\ call.a = a

(* An entry's time is that of the last notice shown, or of the one on its  *)
(* way, which is an interval later.  Nothing is known of an aircraft       *)
(* without an entry, and one with a notice on its way has an entry.        *)
EntriesAgree ==
    /\ \A i \in 1..Len(tracks) :
          LET b == tracks[i].a
          IN  IF Pending(b)
              THEN /\ tracks[i].last = call.time
                   /\ shown[b] = 0 \/ call.time - shown[b] >= call.every
              ELSE tracks[i].last = shown[b]
    /\ \A b \in Aircraft : ~Tracked(b) => shown[b] = 0
    /\ at # "idle" /\ call.kind = "prox" => Tracked(call.a) /\ call.time # 0 /\ call.every \in Intervals

IInv == TypeOK /\ EntriesAgree /\ WarnedWhenNear

-----------------------------------------------------------------------------
(* The table. *)

Table(t) ==
    /\ t \in Seq(Track) /\ Len(t) <= Slots
    /\ \A i, j \in 1..Len(t) : t[i].a = t[j].a => i = j

(* The search keeps the entries there are, and finds or makes one for the  *)
(* aircraft unless the table is full of others.                            *)
LEMMA Searching ==
    ASSUME Table(tracks), NEW a \in Aircraft
    PROVE  LET f == WithTrack(a)
           IN  /\ Table(f) /\ Len(f) \in Nat /\ Len(tracks) <= Len(f)
               /\ \A i \in 1..Len(tracks) : f[i] = tracks[i]
               /\ \A i \in 1..Len(f) : i \in 1..Len(tracks)
                                       \/ (f[i].a = a /\ f[i].last = 0 /\ ~Tracked(a))
               /\ (\E i \in 1..Len(f) : f[i].a = a)
                     \/ (f = tracks /\ ~Tracked(a) /\ Len(tracks) = Slots)
<1> DEFINE f == WithTrack(a)
           r == [a |-> a, last |-> 0]
           n == Len(tracks)
<1>1. n \in Nat /\ Slots \in Nat /\ n <= Slots
  BY AlertConstants DEF Table
<1>2. CASE Tracked(a) \/ n >= Slots
  <2>1. f = tracks
    BY <1>2 DEF WithTrack
  <2> QED
    BY <1>1, <1>2, <2>1 DEF Tracked
<1>3. CASE ~Tracked(a) /\ n < Slots
  <2>1. f = Append(tracks, r)
    BY <1>1, <1>3 DEF WithTrack
  <2>2. r \in Track /\ r.a = a /\ r.last = 0
    BY AlertConstants DEF Track
  <2> HIDE DEF r
  <2>3. /\ f \in Seq(Track) /\ Len(f) = n + 1 /\ f[n + 1] = r
        /\ \A i \in 1..n : f[i] = tracks[i]
    BY <2>1, <2>2 DEF Table
  <2> HIDE DEF f
  <2>4. ASSUME NEW i \in 1..Len(f), NEW j \in 1..Len(f), f[i].a = f[j].a
        PROVE  i = j
    <3>1. \A k \in 1..n : f[k].a # a
      BY <1>3, <2>3 DEF Tracked
    <3>2. CASE i \in 1..n /\ j \in 1..n
      BY <2>3, <2>4, <3>2 DEF Table
    <3>3. CASE i = n + 1 \/ j = n + 1
      BY <1>1, <2>2, <2>3, <2>4, <3>1, <3>3
    <3> QED
      BY <1>1, <2>3, <3>2, <3>3
  <2>5. \A i \in 1..Len(f) : i \in 1..n \/ (f[i].a = a /\ f[i].last = 0 /\ ~Tracked(a))
    BY <1>1, <1>3, <2>2, <2>3
  <2>6. \E i \in 1..Len(f) : f[i].a = a
    BY <1>1, <2>2, <2>3
  <2> QED
    BY <1>1, <1>3, <2>3, <2>4, <2>5, <2>6 DEF f, Table
<1> QED
  BY <1>1, <1>2, <1>3

(* Taking an entry out keeps every other.                                  *)
LEMMA Removing ==
    ASSUME NEW t, Table(t), NEW i \in 1..Len(t)
    PROVE  LET u == RemoveAt(t, i)
           IN  /\ Table(u)
               /\ \A k \in 1..Len(u) : \E j \in 1..Len(t) : j # i /\ u[k] = t[j]
               /\ \A j \in 1..Len(t) : j # i => \E k \in 1..Len(u) : u[k] = t[j]
<1> DEFINE u == RemoveAt(t, i)
           n == Len(t)
           EntryAt(k) == IF k < i THEN k ELSE k + 1
<1>1. n \in Nat /\ i \in 1..n /\ t \in Seq(Track)
  BY DEF Table
<1>2. u \in Seq(Track) /\ Len(u) = n - 1 /\ \A k \in 1..(n - 1) : u[k] = t[EntryAt(k)]
  <2> DEFINE x == SubSeq(t, 1, i - 1)
             y == SubSeq(t, i + 1, n)
  <2>1. x \in Seq(Track) /\ Len(x) = i - 1 /\ \A k \in 1..(i - 1) : x[k] = t[k]
    BY <1>1
  <2>2. y \in Seq(Track) /\ Len(y) = n - i /\ \A k \in 1..(n - i) : y[k] = t[i + k]
    BY <1>1
  <2>3. u = x \o y
    BY DEF RemoveAt
  <2> HIDE DEF x, y, u
  <2>4. u \in Seq(Track) /\ Len(u) = (i - 1) + (n - i)
        /\ \A k \in 1..Len(u) : u[k] = IF k <= i - 1 THEN x[k] ELSE y[k - (i - 1)]
    <3>1. x \in Seq(Track) /\ y \in Seq(Track)
      BY <2>1, <2>2
    <3>2. /\ u \in Seq(Track) /\ Len(u) = Len(x) + Len(y)
          /\ \A k \in 1..(Len(x) + Len(y)) :
                u[k] = IF k <= Len(x) THEN x[k] ELSE y[k - Len(x)]
      BY ONLY <2>3, <3>1, ConcatProperties, Zenon
    <3> QED
      BY <2>1, <2>2, <3>2
  <2>5. Len(u) = n - 1
    BY <1>1, <2>4
  <2>6. ASSUME NEW k \in 1..(n - 1) PROVE u[k] = t[EntryAt(k)]
    <3> HIDE DEF n
    <3>1. CASE k < i
      <4>1. k \in 1..Len(u) /\ k <= i - 1 /\ k \in 1..(i - 1) /\ EntryAt(k) = k
        BY <1>1, <2>5, <3>1
      <4> HIDE DEF EntryAt
      <4> QED
        BY <2>1, <2>4, <4>1
    <3>2. CASE k >= i
      <4>1. /\ k \in 1..Len(u) /\ ~(k <= i - 1) /\ k - (i - 1) \in 1..(n - i)
            /\ i + (k - (i - 1)) = EntryAt(k)
        BY <1>1, <2>5, <3>2
      <4> HIDE DEF EntryAt
      <4> QED
        BY <2>2, <2>4, <4>1
    <3> QED
      BY <1>1, <3>1, <3>2
  <2> QED
    BY <2>4, <2>5, <2>6
<1> HIDE DEF u
<1>3. \A k \in 1..(n - 1) : EntryAt(k) \in 1..n /\ EntryAt(k) # i
  BY <1>1
<1>4. \A k, l \in 1..(n - 1) : EntryAt(k) = EntryAt(l) => k = l
  BY <1>1
<1>5. \A j \in 1..n : j # i => \E k \in 1..(n - 1) : EntryAt(k) = j
  <2> SUFFICES ASSUME NEW j \in 1..n, j # i PROVE \E k \in 1..(n - 1) : EntryAt(k) = j
    OBVIOUS
  <2> WITNESS (IF j < i THEN j ELSE j - 1) \in 1..(n - 1)
  <2> QED
    BY <1>1
<1> HIDE DEF EntryAt
<1>6. Table(u)
  <2>1. Len(u) <= Slots
    BY <1>1, <1>2, AlertConstants DEF Table
  <2>2. ASSUME NEW k \in 1..Len(u), NEW l \in 1..Len(u), u[k].a = u[l].a PROVE k = l
    <3>1. k \in 1..(n - 1) /\ l \in 1..(n - 1)
      BY <1>2
    <3>2. EntryAt(k) = EntryAt(l)
      BY <1>2, <1>3, <2>2, <3>1 DEF Table
    <3> QED
      BY <1>4, <3>1, <3>2
  <2> QED
    BY <1>2, <2>1, <2>2 DEF Table
<1> QED
  BY <1>2, <1>3, <1>5, <1>6 DEF u

LEMMA TableOK == TypeOK => Table(tracks) /\ \A i \in 1..Len(tracks) : tracks[i].a \in Aircraft
<1> SUFFICES ASSUME TypeOK PROVE Table(tracks) /\ \A i \in 1..Len(tracks) : tracks[i].a \in Aircraft
  OBVIOUS
<1>1. tracks \in Seq(Track)
  BY DEF TypeOK, Track
<1>2. Table(tracks)
  BY <1>1 DEF TypeOK, Table
<1>3. \A i \in 1..Len(tracks) : tracks[i] \in Track
  BY <1>1
<1> QED
  BY <1>2, <1>3 DEF Track

-----------------------------------------------------------------------------
(* The steps. *)

(* Whatever is not the table, the call or a notice changes nothing of      *)
(* what the entries say.                                                   *)
LEMMA EntriesUntouched ==
    ASSUME EntriesAgree, WarnedWhenNear, UNCHANGED <<tracks, at, call, shown>>
    PROVE  (EntriesAgree /\ WarnedWhenNear)'
BY DEF EntriesAgree, WarnedWhenNear, Pending, Tracked

LEMMA ForgetStep ==
    ASSUME IInv, at = "idle", UNCHANGED <<at, fix, now>>, Forget, tracks' = <<>>,
           up' \in BOOLEAN, sound' \in BOOLEAN, every' \in Intervals, note' = "none"
    PROVE  IInv'
<1>1. call' = NoCall /\ shown' = [a \in Aircraft |-> 0]
  BY DEF Forget
<1>2. TypeOK'
  <2>1. tracks' \in Seq([a : Aircraft, last : 0..MaxTime]) /\ Len(tracks') = 0
    OBVIOUS
  <2>2. call' \in CallRecord
    BY <1>1, AlertConstants DEF NoCall, CallRecord, Time
  <2>3. shown' \in [Aircraft -> 0..MaxTime]
    BY <1>1, AlertConstants
  <2> QED
    BY <2>1, <2>2, <2>3, AlertConstants DEF IInv, TypeOK
<1>3. call'.kind = "none" /\ at' = "idle"
  BY <1>1 DEF NoCall
<1>4. EntriesAgree'
  BY <1>1, <1>3 DEF EntriesAgree, Pending, Tracked
<1>5. WarnedWhenNear'
  BY <1>3 DEF WarnedWhenNear
<1> QED
  BY <1>2, <1>4, <1>5 DEF IInv

LEMMA NewDetectionStep ==
    ASSUME IInv, NEW a \in Aircraft, NewDetection(a) PROVE IInv'
<1>1. /\ at = "idle" /\ call' = [NoCall EXCEPT !.kind = "new", !.a = a]
      /\ at' \in {"play", "show"}
      /\ UNCHANGED <<up, sound, every, note, tracks, shown, fix, now>>
  BY DEF NewDetection, Alert
<1>2. /\ call' \in CallRecord
      /\ call'.kind = "new"
  <2>1. call' = [kind |-> "new", a |-> a, near |-> FALSE, fixed |-> FALSE, time |-> 0,
              every |-> 0]
    BY <1>1 DEF NoCall
  <2> QED
    BY <2>1, AlertConstants DEF CallRecord, Time
<1>3. TypeOK'
  BY <1>1, <1>2 DEF IInv, TypeOK
<1>4. EntriesAgree'
  BY <1>1, <1>2 DEF IInv, EntriesAgree, Pending, Tracked
<1>5. WarnedWhenNear'
  BY <1>2 DEF WarnedWhenNear
<1> QED
  BY <1>3, <1>4, <1>5 DEF IInv

LEMMA ShowStep == ASSUME IInv, Show PROVE IInv'
<1>1. /\ at = "show" /\ note' = call.kind /\ at' = "idle"
      /\ shown' = IF call.kind = "prox" THEN [shown EXCEPT ![call.a] = call.time] ELSE shown
      /\ UNCHANGED <<up, sound, every, tracks, call, fix, now>>
  BY DEF Show
<1>2. call.kind \in {"none", "new", "prox"} /\ call.time \in 0..MaxTime
      /\ shown \in [Aircraft -> 0..MaxTime]
  BY AlertConstants DEF IInv, TypeOK, CallRecord, Time
<1>3. CASE call.kind = "prox"
  <2>1. Tracked(call.a) /\ call.time # 0 /\ call.every \in Intervals
    BY <1>1, <1>3 DEF IInv, EntriesAgree
  <2>2. call.a \in Aircraft
    BY <2>1, TableOK DEF IInv, Tracked
  <2>3. shown' \in [Aircraft -> 0..MaxTime] /\ shown'[call.a] = call.time
        /\ \A b \in Aircraft \ {call.a} : shown'[b] = shown[b]
    BY <1>1, <1>2, <1>3, <2>2
  <2>4. TypeOK'
    BY <1>1, <1>2, <2>3 DEF IInv, TypeOK
  <2>5. EntriesAgree'
    <3>1. ASSUME NEW i \in 1..Len(tracks) PROVE tracks[i].last = shown'[tracks[i].a]
      <4>1. tracks[i].a \in Aircraft
        BY TableOK DEF IInv
      <4>2. CASE tracks[i].a = call.a
        BY <1>1, <1>3, <2>3, <4>2 DEF IInv, EntriesAgree, Pending
      <4>3. CASE tracks[i].a # call.a
        BY <1>1, <1>3, <2>3, <4>1, <4>3 DEF IInv, EntriesAgree, Pending
      <4> QED
        BY <4>2, <4>3
    <3>2. \A b \in Aircraft : ~Tracked(b) => shown'[b] = 0
      BY <2>1, <2>3 DEF IInv, EntriesAgree
    <3> QED
      BY <1>1, <3>1, <3>2 DEF EntriesAgree, Pending, Tracked
  <2>6. WarnedWhenNear'
    <3>1. call.every \in Nat \ {0}
      BY ONLY <2>1, AlertConstants
    <3>2. call.time - call.time < call.every
      BY ONLY <1>2, <3>1
    <3> QED
      BY <1>1, <2>1, <2>3, <3>2 DEF WarnedWhenNear
  <2> QED
    BY <2>4, <2>5, <2>6 DEF IInv
<1>4. CASE call.kind # "prox"
  <2>1. UNCHANGED shown
    BY <1>1, <1>4
  <2>2. TypeOK'
    BY <1>1, <1>2, <2>1 DEF IInv, TypeOK
  <2>3. EntriesAgree' /\ WarnedWhenNear'
    BY <1>1, <1>4, <2>1 DEF IInv, EntriesAgree, WarnedWhenNear, Pending, Tracked
  <2> QED
    BY <2>2, <2>3 DEF IInv
<1> QED
  BY <1>3, <1>4

LEMMA ClearStep ==
    ASSUME IInv, NEW a \in Aircraft, ClearProximity(a) PROVE IInv'
<1>1. PICK i \in 1..Len(tracks) : tracks[i].a = a /\ tracks' = RemoveAt(tracks, i)
  BY DEF ClearProximity
<1>2. /\ at = "idle" /\ call' = NoCall /\ shown' = [shown EXCEPT ![a] = 0]
      /\ UNCHANGED <<up, sound, every, note, at, fix, now>>
  BY DEF ClearProximity
<1>3. Table(tracks)
  BY TableOK DEF IInv
<1>4. /\ Table(tracks')
      /\ \A k \in 1..Len(tracks') : \E j \in 1..Len(tracks) : j # i /\ tracks'[k] = tracks[j]
      /\ \A j \in 1..Len(tracks) : j # i => \E k \in 1..Len(tracks') : tracks'[k] = tracks[j]
  BY <1>1, <1>3, Removing
<1>5. shown' \in [Aircraft -> 0..MaxTime] /\ shown'[a] = 0
      /\ \A b \in Aircraft \ {a} : shown'[b] = shown[b]
  BY <1>2, AlertConstants DEF IInv, TypeOK
<1>6. TypeOK'
  <2>1. call' \in CallRecord
    BY <1>2, AlertConstants DEF NoCall, CallRecord, Time
  <2> QED
    BY <1>2, <1>4, <1>5, <2>1 DEF IInv, TypeOK, Table, Track
<1>7. call'.kind = "none" /\ at' = "idle"
  BY <1>2 DEF NoCall
<1>8. EntriesAgree'
  <2>1. ASSUME NEW k \in 1..Len(tracks') PROVE tracks'[k].last = shown'[tracks'[k].a]
    <3>1. PICK j \in 1..Len(tracks) : j # i /\ tracks'[k] = tracks[j]
      BY <1>4
    <3>2. tracks[j].a # a /\ tracks[j].a \in Aircraft
      BY <1>1, <3>1, TableOK DEF IInv, Table
    <3>3. tracks[j].last = shown[tracks[j].a]
      BY <1>2 DEF IInv, EntriesAgree, Pending
    <3> QED
      BY <1>5, <3>1, <3>2, <3>3
  <2>2. ASSUME NEW b \in Aircraft, \A k \in 1..Len(tracks') : tracks'[k].a # b PROVE shown'[b] = 0
    <3>1. CASE b = a
      BY <1>5, <3>1
    <3>2. CASE b # a
      <4>1. ~Tracked(b)
        <5> SUFFICES ASSUME NEW j \in 1..Len(tracks), tracks[j].a = b PROVE FALSE
          BY DEF Tracked
        <5>1. j # i
          BY <1>1, <3>2
        <5>2. PICK k \in 1..Len(tracks') : tracks'[k] = tracks[j]
          BY <1>4, <5>1
        <5> QED
          BY <2>2, <5>2
      <4> QED
        BY <1>5, <3>2, <4>1 DEF IInv, EntriesAgree
    <3> QED
      BY <3>1, <3>2
  <2> QED
    BY <1>7, <2>1, <2>2 DEF EntriesAgree, Pending, Tracked
<1>9. WarnedWhenNear'
  BY <1>7 DEF WarnedWhenNear
<1> QED
  BY <1>6, <1>8, <1>9 DEF IInv

LEMMA CheckStep ==
    ASSUME IInv, NEW a \in Aircraft, NEW near \in BOOLEAN, CheckProximity(a, near)
    PROVE  IInv'
<1> DEFINE f == IF fix THEN WithTrack(a) ELSE tracks
           alert == {i \in 1..Len(f) : fix /\ near /\ f[i].a = a /\ Due(f[i])}
           new(i) == IF i \in alert THEN [f[i] EXCEPT !.last = now] ELSE f[i]
<1>1. /\ at = "idle"
      /\ call' = [kind |-> "prox", a |-> a, near |-> near, fixed |-> fix, time |-> now,
                  every |-> every]
      /\ tracks' = [i \in 1..Len(f) |-> new(i)]
      /\ at' = IF alert = {} THEN "idle" ELSE Alert
      /\ UNCHANGED <<up, sound, every, note, shown, fix, now>>
  BY DEF CheckProximity
<1>2. now \in 1..MaxTime /\ fix \in BOOLEAN /\ shown \in [Aircraft -> 0..MaxTime]
  BY DEF IInv, TypeOK, Time
<1>3. Table(tracks)
  BY TableOK DEF IInv
<1>4. /\ Table(f) /\ Len(f) \in Nat /\ Len(tracks) <= Len(f)
      /\ \A i \in 1..Len(tracks) : f[i] = tracks[i]
      /\ \A i \in 1..Len(f) : i \in 1..Len(tracks)
                              \/ (f[i].a = a /\ f[i].last = 0 /\ ~Tracked(a))
      /\ fix => \/ \E i \in 1..Len(f) : f[i].a = a
                \/ f = tracks /\ ~Tracked(a) /\ Len(tracks) = Slots
  <2>1. CASE fix
    BY <1>3, <2>1, Searching
  <2>2. CASE ~fix
    BY <1>3, <2>2 DEF Table
  <2> QED
    BY <2>1, <2>2
<1>5. \A i \in 1..Len(f) : f[i].a \in Aircraft /\ f[i].last \in 0..MaxTime /\ f[i] \in Track
  <2>1. \A i \in 1..Len(f) : f[i] \in Track
    BY <1>4 DEF Table
  <2> HIDE DEF f
  <2> QED
    BY <2>1 DEF Track
<1>6. \A i \in 1..Len(f) : i \in alert <=> (fix /\ near /\ f[i].a = a /\ Due(f[i]))
  OBVIOUS
<1>7. alert \subseteq 1..Len(f)
  OBVIOUS
<1> HIDE DEF f, alert
<1>8. ASSUME NEW i \in 1..Len(f)
      PROVE  /\ new(i) \in Track /\ new(i).a = f[i].a
             /\ new(i).last = IF i \in alert THEN now ELSE f[i].last
  BY <1>2, <1>5 DEF Track
<1>9. /\ tracks' \in Seq(Track) /\ Len(tracks') = Len(f)
      /\ \A i \in 1..Len(f) : /\ tracks'[i].a = f[i].a
                              /\ tracks'[i].last = IF i \in alert THEN now ELSE f[i].last
  <2> HIDE DEF new
  <2> QED
    BY <1>1, <1>4, <1>8
<1> HIDE DEF new
<1>10. /\ call' \in CallRecord
       /\ call'.kind = "prox" /\ call'.a = a /\ call'.time = now
       /\ call'.near = near /\ call'.fixed = fix /\ call'.every = every
  BY <1>1, <1>2 DEF IInv, TypeOK, CallRecord, Time
<1>11. at' \in {"idle", "play", "show"} /\ (at' = "idle") = (alert = {})
  BY <1>1 DEF Alert
<1>12. TypeOK'
  <2>1. Len(tracks') <= Slots /\ \A i, j \in 1..Len(tracks') : tracks'[i].a = tracks'[j].a => i = j
    BY <1>4, <1>9 DEF Table
  <2> QED
    BY <1>1, <1>9, <1>10, <1>11, <2>1 DEF IInv, TypeOK, Track
<1>13. \A i \in 1..Len(f) : f[i].last = shown[f[i].a]
  <2> SUFFICES ASSUME NEW i \in 1..Len(f) PROVE f[i].last = shown[f[i].a]
    OBVIOUS
  <2>1. CASE i \in 1..Len(tracks)
    BY <1>1, <1>4, <2>1 DEF IInv, EntriesAgree, Pending
  <2>2. CASE i \notin 1..Len(tracks)
    BY <1>4, <2>2 DEF IInv, EntriesAgree
  <2> QED
    BY <2>1, <2>2
<1>14. EntriesAgree'
  <2>1. ASSUME NEW i \in 1..Len(f)
        PROVE  IF at' # "idle" /\ f[i].a = a
               THEN tracks'[i].last = now /\ (shown[a] = 0 \/ now - shown[a] >= every)
               ELSE tracks'[i].last = shown[f[i].a]
    <3>1. CASE i \in alert
      BY <1>6, <1>9, <1>11, <1>13, <3>1 DEF Due
    <3>2. CASE i \notin alert
      <4>1. tracks'[i].last = shown[f[i].a]
        BY <1>9, <1>13, <3>2
      <4>2. at' # "idle" => f[i].a # a
        BY <1>4, <1>6, <1>7, <1>11, <3>2 DEF Table
      <4> QED
        BY <4>1, <4>2
    <3> QED
      BY <3>1, <3>2
  <2>2. ASSUME NEW b \in Aircraft, \A i \in 1..Len(f) : f[i].a # b PROVE shown[b] = 0
    <3>1. ~Tracked(b)
      BY <1>4, <2>2 DEF Tracked, Table
    <3> QED
      BY <3>1 DEF IInv, EntriesAgree
  <2>3. at' # "idle" => (\E i \in 1..Len(f) : f[i].a = a) /\ now # 0
    BY <1>2, <1>6, <1>7, <1>11
  <2>4. every \in Intervals
    BY DEF IInv, TypeOK
  <2> QED
    <3>1. /\ call'.kind = "prox" /\ call'.a = a /\ call'.time = now /\ call'.every = every
          /\ shown' = shown /\ Len(tracks') = Len(f)
          /\ \A i \in 1..Len(f) : tracks'[i].a = f[i].a
      BY <1>1, <1>9, <1>10
    <3> QED
      BY <2>1, <2>2, <2>3, <2>4, <3>1 DEF EntriesAgree, Pending, Tracked
<1>15. WarnedWhenNear'
  <2> SUFFICES ASSUME at' = "idle", near, fix
               PROVE  \/ shown[a] # 0 /\ now - shown[a] < every
                      \/ (\A i \in 1..Len(f) : f[i].a # a) /\ Len(f) = Slots
    BY <1>1, <1>9, <1>10 DEF WarnedWhenNear, Tracked
  <2>1. CASE \E i \in 1..Len(f) : f[i].a = a
    <3>1. PICK i \in 1..Len(f) : f[i].a = a
      BY <2>1
    <3>2. ~Due(f[i])
      BY <1>6, <1>11, <3>1
    <3>3. every \in Nat \ {0}
      BY AlertConstants DEF IInv, TypeOK
    <3> QED
      BY <1>2, <1>13, <3>1, <3>2, <3>3 DEF Due
  <2>2. CASE f = tracks /\ ~Tracked(a) /\ Len(tracks) = Slots
    BY <2>2 DEF Tracked
  <2> QED
    BY <1>4, <2>1, <2>2
<1> QED
  BY <1>12, <1>14, <1>15 DEF IInv

-----------------------------------------------------------------------------
THEOREM Invariance == Spec => []IInv
<1>1. Init => IInv
  <2> SUFFICES ASSUME Init PROVE IInv
    OBVIOUS
  <2>1. tracks = <<>> /\ shown = [a \in Aircraft |-> 0] /\ at = "idle" /\ call = NoCall
    BY DEF Init
  <2>2. call.kind = "none"
    BY <2>1 DEF NoCall
  <2>3. TypeOK
    <3>1. call \in CallRecord
      BY <2>1, AlertConstants DEF NoCall, CallRecord, Time
    <3>2. tracks \in Seq([a : Aircraft, last : 0..MaxTime]) /\ Len(tracks) = 0
      BY <2>1
    <3> QED
      <4>1. shown \in [Aircraft -> 0..MaxTime] /\ now \in Time /\ Len(tracks) <= Slots
        BY <2>1, <3>2, AlertConstants DEF Init, Time
      <4>2. \A i, j \in 1..Len(tracks) : tracks[i].a = tracks[j].a => i = j
        BY <3>2
      <4> QED
        BY <3>1, <3>2, <4>1, <4>2 DEF Init, TypeOK
  <2>4. EntriesAgree
    BY <2>1, <2>2 DEF EntriesAgree, Pending, Tracked
  <2>5. WarnedWhenNear
    BY <2>2 DEF WarnedWhenNear
  <2> QED
    BY <2>3, <2>4, <2>5 DEF IInv
<1>2. IInv /\ [Next]_vars => IInv'
  <2> SUFFICES ASSUME IInv, [Next]_vars PROVE IInv'
    OBVIOUS
  <2>1. ASSUME NEW s \in BOOLEAN, NEW interval \in Intervals, EngineInit(s, interval) PROVE IInv'
    BY <2>1, ForgetStep DEF EngineInit
  <2>2. ASSUME NEW s \in BOOLEAN, NEW interval \in Intervals,
               SetSilent(s) \/ UpdateConfig(s, interval)
        PROVE  IInv'
    <3>1. sound' \in BOOLEAN /\ every' \in Intervals
      BY <2>2 DEF SetSilent, UpdateConfig, IInv, TypeOK
    <3>2. UNCHANGED <<up, note, tracks, at, call, shown, fix, now>>
      BY <2>2 DEF SetSilent, UpdateConfig
    <3>3. TypeOK'
      BY <3>1, <3>2 DEF IInv, TypeOK
    <3> QED
      BY <3>2, <3>3, EntriesUntouched DEF IInv
  <2>3. ASSUME EngineDeinit PROVE IInv'
    BY <2>3, ForgetStep DEF EngineDeinit, IInv, TypeOK
  <2>4. ASSUME PlayReturns PROVE IInv'
    <3>1. at = "play" /\ at' = "show" /\ UNCHANGED <<up, sound, every, note, tracks, call, shown, fix, now>>
      BY <2>4 DEF PlayReturns
    <3> QED
      BY <3>1 DEF IInv, TypeOK, EntriesAgree, WarnedWhenNear, Pending, Tracked
  <2>5. ASSUME Show PROVE IInv'
    BY <2>5, ShowStep
  <2>6. ASSUME FixChanges PROVE IInv'
    <3>1. fix' \in BOOLEAN
      BY <2>6 DEF FixChanges
    <3>2. TypeOK'
      BY <2>6, <3>1 DEF FixChanges, IInv, TypeOK
    <3> QED
      BY <2>6, <3>2, EntriesUntouched DEF FixChanges, IInv
  <2>7. ASSUME Tick PROVE IInv'
    <3>1. now' \in 1..MaxTime
      BY <2>7, AlertConstants DEF Tick, IInv, TypeOK, Time
    <3>2. TypeOK'
      BY <2>7, <3>1 DEF Tick, IInv, TypeOK, Time
    <3> QED
      BY <2>7, <3>2, EntriesUntouched DEF Tick, IInv
  <2>8. CASE UNCHANGED vars
    <3>1. TypeOK'
      BY <2>8 DEF vars, IInv, TypeOK
    <3> QED
      BY <2>8, <3>1, EntriesUntouched DEF vars, IInv
  <2>9. CASE \E s \in BOOLEAN, interval \in Intervals :
               EngineInit(s, interval) \/ UpdateConfig(s, interval)
    BY <2>1, <2>2, <2>9
  <2>10. CASE \E s \in BOOLEAN : SetSilent(s)
    <3>1. every \in Intervals
      BY DEF IInv, TypeOK
    <3> QED
      BY <2>2, <2>10, <3>1
  <2>11. CASE \E a \in Aircraft : NewDetection(a) \/ ClearProximity(a)
    BY <2>11, NewDetectionStep, ClearStep
  <2>12. CASE \E a \in Aircraft, near \in BOOLEAN : CheckProximity(a, near)
    BY <2>12, CheckStep
  <2> QED
    BY <2>3, <2>4, <2>5, <2>6, <2>7, <2>8, <2>9, <2>10, <2>11, <2>12 DEF Next
<1> QED
  BY <1>1, <1>2, PTL DEF Spec

(* The table stays in its size and names no aircraft twice, and every      *)
(* variable keeps its type.                                                *)
THEOREM TypeCorrect == Spec => []TypeOK
BY Invariance, PTL DEF IInv

(* A near aircraft is shown at least once per interval, whatever the       *)
(* buzzer answered, unless the table is full of others.                    *)
THEOREM NearIsWarned == Spec => []WarnedWhenNear
BY Invariance, PTL DEF IInv

(* And at most once per interval, although clears move the entries.        *)
THEOREM AlertsArePaced == Spec => AlertPace
<1> DEFINE Paced == \A a \in Aircraft :
              shown'[a] # shown[a] /\ shown'[a] # 0 /\ shown[a] # 0
                  => shown'[a] - shown[a] >= call.every
<1>1. IInv /\ [Next]_vars => [Paced]_vars
  <2> SUFFICES ASSUME IInv, Next, NEW a \in Aircraft,
                      shown'[a] # shown[a], shown'[a] # 0, shown[a] # 0
               PROVE  shown'[a] - shown[a] >= call.every
    OBVIOUS
  <2>1. shown \in [Aircraft -> 0..MaxTime]
    BY DEF IInv, TypeOK
  <2>2. ASSUME Show PROVE shown'[a] - shown[a] >= call.every
    <3>1. /\ call.kind = "prox" /\ at = "show"
          /\ shown' = [shown EXCEPT ![call.a] = call.time]
      BY <2>2 DEF Show
    <3>2. a = call.a /\ shown'[a] = call.time
      BY <2>1, <3>1
    <3>3. PICK i \in 1..Len(tracks) : tracks[i].a = a
      BY <3>1, <3>2 DEF IInv, EntriesAgree, Tracked
    <3> QED
      BY <3>1, <3>2, <3>3 DEF IInv, EntriesAgree, Pending
  <2>3. ASSUME Forget PROVE FALSE
    BY <2>3 DEF Forget
  <2>4. ASSUME NEW b \in Aircraft, ClearProximity(b) PROVE FALSE
    BY <2>1, <2>4 DEF ClearProximity
  <2> QED
    BY <2>2, <2>3, <2>4 DEF Next, EngineInit, EngineDeinit, SetSilent, UpdateConfig, PlayReturns,
       FixChanges, Tick, NewDetection, CheckProximity
<1>2. Spec => [][Paced]_vars
  BY <1>1, Invariance, PTL DEF Spec
<1> QED
  BY <1>2 DEF AlertPace

-----------------------------------------------------------------------------
(* The buzzer, which the engine calls (play_tone).  The modules have no     *)
(* variable in common, so that each invariant stands by itself.            *)

PastCheck == {"clear", "untimer", "disable"}

(* A driver that was not initialised is not entered beyond its checks.     *)
ReadyFirst ==
    /\ playing => ready
    /\ pc["task"] \notin {"idle", "play"} => ready

(* A start that failed has turned the amplifier off.                       *)
FailedIsOff == pc["task"] = "lower" => ~on

(* On without the flag that would make a later stop act: a stop past its   *)
(* check, or the start that is about to raise the flag.                    *)
UnflaggedEnds ==
    on /\ ~playing =>
        \/ \E t \in Thread : pc[t] \in PastCheck
        \/ pc["task"] = "raise"

(* On with the flag: also a running timer, its callback before the check,  *)
(* or a start that has not armed it.                                       *)
FlaggedEnds ==
    on /\ playing =>
        \/ \E t \in Thread : pc[t] \in PastCheck
        \/ pc["task"] \in {"raise", "create", "arm"}
        \/ armed
        \/ pc["timer"] = "stop"

ToneInv == BuzzerTypeOK /\ ReadyFirst /\ FailedIsOff /\ UnflaggedEnds /\ FlaggedEnds

-----------------------------------------------------------------------------
(* A buzzer just initialised, or not, satisfies the invariant.             *)
LEMMA ToneInitially == ASSUME BuzzerInit PROVE ToneInv
<1> USE DEF Thread
<1>1. pc \in [Thread -> Place] /\ pc["ui"] \in StopPlace /\ pc["timer"] \in StopPlace
  BY DEF BuzzerInit, Place, StopPlace
<1>2. players \in 0..MaxPlayers
  BY BuzzerConstants, SMT DEF BuzzerInit
<1>3. playing \in BOOLEAN /\ on \in BOOLEAN /\ armed \in BOOLEAN /\ ready \in BOOLEAN
  BY Zenon DEF BuzzerInit
<1>4. BuzzerTypeOK
  BY <1>1, <1>2, <1>3, Zenon DEF BuzzerTypeOK
<1>5. ReadyFirst /\ FailedIsOff /\ UnflaggedEnds /\ FlaggedEnds
  BY DEF BuzzerInit, ReadyFirst, FailedIsOff, UnflaggedEnds, FlaggedEnds
<1> QED
  BY <1>4, <1>5 DEF ToneInv

(* The types survive every step.                                           *)
LEMMA ToneTypeStep ==
  ASSUME BuzzerTypeOK, [BuzzerNext]_buzzerVars
  PROVE  BuzzerTypeOK'
<1> USE DEF Thread, BuzzerTypeOK, Place, StopPlace, AfterStop, At, GoTo
<1>1. ASSUME NEW t \in Thread, StopCheck(t) PROVE BuzzerTypeOK'
  BY <1>1 DEF StopCheck
<1>2. ASSUME NEW t \in Thread, StopClear(t) PROVE BuzzerTypeOK'
  BY <1>2 DEF StopClear
<1>3. ASSUME NEW t \in Thread, StopTimer(t) PROVE BuzzerTypeOK'
  BY <1>3 DEF StopTimer
<1>4. ASSUME NEW t \in Thread, StopDisable(t) PROVE BuzzerTypeOK'
  BY <1>4 DEF StopDisable
<1>5. CASE StopCall
  BY <1>5 DEF StopCall
<1>6. CASE TimerFires
  BY <1>6 DEF TimerFires
<1>7. CASE PlayCall
  BY <1>7 DEF PlayCall
<1>8. CASE PlayCheck
  BY <1>8 DEF PlayCheck
<1>9. CASE PlayEnable
  BY <1>9 DEF PlayEnable
<1>10. CASE PlayRaise
  BY <1>10 DEF PlayRaise
<1>11. CASE PlayCreate
  BY BuzzerConstants, <1>11 DEF PlayCreate
<1>12. CASE PlayCreateFails
  BY <1>12 DEF PlayCreateFails
<1>13. CASE PlayLower
  BY <1>13 DEF PlayLower
<1>14. CASE PlayArm
  BY <1>14 DEF PlayArm
<1>15. CASE PlayerLeaves
  BY BuzzerConstants, <1>15 DEF PlayerLeaves
<1>16. CASE UNCHANGED buzzerVars
  BY <1>16 DEF buzzerVars
<1> QED
  BY <1>1, <1>2, <1>3, <1>4, <1>5, <1>6, <1>7, <1>8, <1>9, <1>10, <1>11, <1>12, <1>13,
     <1>14, <1>15, <1>16
  DEF BuzzerNext, Play, Stop

(* The rest of the invariant survives every step: only a start raises the *)
(* flag or the channel, and each step that lowers one commits its thread   *)
(* to lowering the other.                                                  *)
LEMMA ToneInvStep ==
  ASSUME ToneInv, [BuzzerNext]_buzzerVars
  PROVE  ToneInv'
<1>0. BuzzerTypeOK'
  BY ToneTypeStep DEF ToneInv
<1> DEFINE Rest == ReadyFirst /\ FailedIsOff /\ UnflaggedEnds /\ FlaggedEnds
<1> SUFFICES Rest'
  BY <1>0 DEF ToneInv
<1> USE DEF ToneInv, Thread, BuzzerTypeOK, Place, StopPlace, AfterStop,
            At, GoTo, ReadyFirst, FailedIsOff, UnflaggedEnds, FlaggedEnds, PastCheck
<1>1. ASSUME NEW t \in Thread, StopCheck(t) PROVE Rest'
  BY <1>1 DEF StopCheck
<1>2. ASSUME NEW t \in Thread, StopClear(t) PROVE Rest'
  BY <1>2 DEF StopClear
<1>3. ASSUME NEW t \in Thread, StopTimer(t) PROVE Rest'
  BY <1>3 DEF StopTimer
<1>4. ASSUME NEW t \in Thread, StopDisable(t) PROVE Rest'
  BY <1>4 DEF StopDisable
<1>5. CASE StopCall
  BY <1>5 DEF StopCall
<1>6. CASE TimerFires
  BY <1>6 DEF TimerFires
<1>7. CASE PlayCall
  BY <1>7 DEF PlayCall
<1>8. CASE PlayCheck
  BY <1>8 DEF PlayCheck
<1>9. CASE PlayEnable
  BY <1>9 DEF PlayEnable
<1>10. CASE PlayRaise
  BY <1>10 DEF PlayRaise
<1>11. CASE PlayCreate
  BY BuzzerConstants, <1>11 DEF PlayCreate
<1>12. CASE PlayCreateFails
  BY <1>12 DEF PlayCreateFails
<1>13. CASE PlayLower
  BY <1>13 DEF PlayLower
<1>14. CASE PlayArm
  BY <1>14 DEF PlayArm
<1>15. CASE PlayerLeaves
  BY BuzzerConstants, <1>15 DEF PlayerLeaves
<1>16. CASE UNCHANGED buzzerVars
  BY <1>16 DEF buzzerVars
<1> QED
  BY <1>1, <1>2, <1>3, <1>4, <1>5, <1>6, <1>7, <1>8, <1>9, <1>10, <1>11, <1>12, <1>13,
     <1>14, <1>15, <1>16
  DEF BuzzerNext, Play, Stop

(* The strengthened invariant holds throughout.                            *)
THEOREM ToneInvariance == BuzzerSpec => []ToneInv
<1>1. BuzzerInit => ToneInv
  BY ToneInitially
<1>2. ToneInv /\ [BuzzerNext]_buzzerVars => ToneInv'
  BY ToneInvStep
<1> QED
  BY <1>1, <1>2, PTL DEF BuzzerSpec

(* The driver's flags and places keep to their ranges (buzzer_ctx).        *)
THEOREM ToneTypeCorrect == BuzzerSpec => []BuzzerTypeOK
<1>1. ToneInv => BuzzerTypeOK
  BY DEF ToneInv
<1> QED
  BY ToneInvariance, <1>1, PTL

(* The amplifier is never on with nobody left to turn it off, with any     *)
(* number of playback tasks and any delay between two steps of a thread    *)
(* (hal_buzzer_play_tone, hal_buzzer_stop).                                *)
THEOREM SomeoneEndsIt == BuzzerSpec => []EndIsOnItsWay
<1>1. ToneInv => EndIsOnItsWay
  BY DEF ToneInv, EndIsOnItsWay, EndPending, At, UnflaggedEnds, FlaggedEnds,
     PastCheck, Thread
<1> QED
  BY ToneInvariance, <1>1, PTL

=============================================================================
