------------------------ MODULE AircraftRegistryProofs ------------------------
(***************************************************************************)
(* What holds of the aircraft table for every number of slots and aircraft *)
(* and every timeout: one entry per aircraft, a count that is right, and    *)
(* entries that hold their own aircraft's data although they are written   *)
(* without the mutex.                                                      *)
(***************************************************************************)
EXTENDS AircraftRegistry, FiniteSetTheorems, WellFoundedInduction, TLAPS

-----------------------------------------------------------------------------
(* The inductive invariant.                                                *)

\* The parts of TypeOK, by variable.
EntriesTyped ==
    /\ entries \in [Slot -> Entry]
    /\ \A s \in Slot : Len(entries[s].history) <= HistoryLen

WriterRecord == [at : Step, id : Ids \cup {NoId}, slot : 0..SlotCount, stamp : Time]

\* A writer on its way points to an occupied slot, which is the one it looked up
\* unless the slot was recycled; an idle one points nowhere.
PointersHold ==
    \A w \in Writer :
        IF writer[w].at = "idle" THEN writer[w] = Idle
        ELSE /\ writer[w].slot \in Occupied(entries)
             /\ writer[w].id \in Ids
             /\ writer[w].slot \notin recycled =>
                   entries[writer[w].slot].id = writer[w].id

\* A slot that was judged silent is an aircraft's.
SweepHolds ==
    sweep.expired => sweep.slot \in Occupied(entries)

\* Every detection counted was a call.
TotalIsCalls == total <= calls

IInv ==
    /\ TypeOK /\ UniqueIds /\ CountMatches /\ EntryHoldsItsOwn
    /\ PointersHold /\ SweepHolds /\ TotalIsCalls

-----------------------------------------------------------------------------
(* One slot of the table is written.                                       *)

\* e takes the place of what was in slot s.
Put(s, e) ==
    /\ s \in Slot
    /\ e \in Entry /\ Len(e.history) <= HistoryLen /\ e.id \in Ids
    /\ entries' = [entries EXCEPT ![s] = e]

\* e still describes the aircraft of slot s.
Rewrite(s, e) ==
    /\ Put(s, e) /\ s \in Occupied(entries)
    /\ e.id = entries[s].id
    /\ UNCHANGED <<count, total, recycled>>

\* e describes an aircraft that had no entry, in a free slot.
Claim(s, e) ==
    /\ Put(s, e) /\ s \notin Occupied(entries)
    /\ Holding(entries, e.id) = {}
    /\ e.tel = NoId /\ e.history = <<>>
    /\ count' = count + 1 /\ total' = total + 1 /\ UNCHANGED recycled

\* e describes an aircraft that had no entry, in the place of another.
Replace(s, e) ==
    /\ Put(s, e) /\ s \in Occupied(entries)
    /\ Holding(entries, e.id) = {}
    /\ e.tel = NoId /\ e.history = <<>>
    /\ count' = count /\ total' = total + 1
    /\ recycled \subseteq recycled' /\ recycled' \subseteq Slot
    /\ \A w \in Writer : writer[w].slot = s => s \in recycled'

LEMMA NewEntryTyped ==
  ASSUME NEW id \in Ids
  PROVE  /\ NewEntry(id) \in Entry /\ NewEntry(id).id = id
         /\ NewEntry(id).tel = NoId /\ NewEntry(id).history = <<>>
<1>1. 0 \in Time /\ <<>> \in Seq(Sample)
  BY RegistryConstants DEF Time
<1>2. NewEntry(id) = [id |-> id, status |-> "active", seen |-> 0, tel |-> NoId,
                      history |-> <<>>]
  BY DEF NewEntry, FreeEntry
<1> QED
  BY <1>1, <1>2 DEF Entry, Status

\* What a write leaves of the table.
LEMMA PutTable ==
  ASSUME entries \in [Slot -> Entry], NEW s, NEW e, Put(s, e)
  PROVE  /\ entries' \in [Slot -> Entry] /\ entries'[s] = e
         /\ \A t \in Slot \ {s} : entries'[t] = entries[t]
         /\ Occupied(entries') = Occupied(entries) \cup {s}
<1>1. entries' \in [Slot -> Entry] /\ entries'[s] = e /\ e.id # NoId
      /\ \A t \in Slot \ {s} : entries'[t] = entries[t]
  BY RegistryConstants DEF Put
<1> QED
  BY <1>1 DEF Occupied, Put

LEMMA PutTyped ==
  ASSUME EntriesTyped, NEW s, NEW e, Put(s, e) PROVE EntriesTyped'
<1>1. entries \in [Slot -> Entry]
  BY DEF EntriesTyped
<1>2. /\ entries' \in [Slot -> Entry] /\ entries'[s] = e
      /\ \A t \in Slot \ {s} : entries'[t] = entries[t]
  BY <1>1, PutTable
<1> QED
  BY <1>2 DEF EntriesTyped, Put

\* Occupied slots are finitely many.
LEMMA OccupiedFinite ==
  /\ IsFiniteSet(Occupied(entries)) /\ Cardinality(Occupied(entries)) \in 0..SlotCount
  /\ IsFiniteSet(Occupied(entries)') /\ Cardinality(Occupied(entries)') \in 0..SlotCount
<1>1. IsFiniteSet(Slot) /\ Cardinality(Slot) = SlotCount /\ SlotCount \in Nat
  BY FS_Interval, RegistryConstants DEF Slot
<1>2. Occupied(entries) \subseteq Slot /\ Occupied(entries)' \subseteq Slot
  BY DEF Occupied
<1>3. /\ IsFiniteSet(Occupied(entries)) /\ IsFiniteSet(Occupied(entries)')
      /\ Cardinality(Occupied(entries)) <= SlotCount
      /\ Cardinality(Occupied(entries)') <= SlotCount
  BY <1>1, <1>2, FS_Subset
<1>4. Cardinality(Occupied(entries)) \in Nat /\ Cardinality(Occupied(entries)') \in Nat
  BY <1>3, FS_CardinalityType
<1> QED
  BY <1>1, <1>3, <1>4

\* A set of naturals has a least member: a table with no first free slot is full.
LEMMA HasLeast ==
  ASSUME NEW T, T \subseteq Nat, T # {}
  PROVE  \E x \in T : \A y \in T : x <= y
<1> DEFINE R == {ss \in Nat \X Nat : ss[1] < ss[2]}
<1>1. IsWellFoundedOn(R, Nat)
  BY NatLessThanWellFounded DEF OpToRel
<1> HIDE DEF R
<1>2. PICK x \in T : \A y \in T : ~ (<<y, x>> \in R)
  BY <1>1, WFMin
<1>3. \A y \in T : ~ (y < x)
  BY <1>2 DEF R
<1> QED
  BY <1>3

LEMMA NoneFree ==
  ASSUME EmptySlot(entries) = {} PROVE Occupied(entries) = Slot
<1> DEFINE Free == Slot \ Occupied(entries)
<1>1. Slot \subseteq Nat
  BY RegistryConstants DEF Slot
<1>2. ASSUME Free # {} PROVE FALSE
  <2>1. PICK s \in Free : \A t \in Free : s <= t
    BY <1>1, <1>2, HasLeast
  <2>2. \A t \in 1..(s - 1) : t \in Slot /\ t \notin Free
    BY <2>1, RegistryConstants DEF Slot
  <2>3. s \in EmptySlot(entries)
    BY <2>1, <2>2 DEF EmptySlot, Occupied
  <2> QED
    BY <2>3
<1> QED
  BY <1>2 DEF Occupied

-----------------------------------------------------------------------------
(* Every action that touches the table is one of the three.                *)

LEMMA FindingRewrites ==
  ASSUME IInv, NEW w \in Writer, FindExisting(w)
  PROVE  \E s \in Slot, e \in Entry, t \in Time :
            /\ Rewrite(s, e) /\ e.tel = entries[s].tel /\ e.history = entries[s].history
            /\ PointTo(w, e.id, s, t)
<1>1. entries \in [Slot -> Entry] /\ \A s \in Slot : Len(entries[s].history) <= HistoryLen
  BY DEF IInv, TypeOK
<1>2. PICK id \in IdsOf(w), t \in StampsOf(w) :
        \E s \in Holding(entries, id) :
            /\ entries' = [entries EXCEPT ![s].status = "active"]
            /\ PointTo(w, id, s, t)
  BY DEF FindExisting
<1>3. PICK s \in Holding(entries, id) :
        /\ entries' = [entries EXCEPT ![s].status = "active"]
        /\ PointTo(w, id, s, t)
  BY <1>2
<1>4. id \in Ids /\ s \in Slot /\ s \in Occupied(entries) /\ entries[s].id = id
  BY RegistryConstants DEF IdsOf, Holding, Occupied
<1>5. t \in Time
  BY RegistryConstants DEF StampsOf, IInv, TypeOK, Time
<1> DEFINE e == [entries[s] EXCEPT !.status = "active"]
<1>6. e \in Entry /\ e.id = id /\ e.tel = entries[s].tel /\ e.history = entries[s].history
  BY <1>1, <1>4 DEF Entry, Status
<1>7. entries' = [entries EXCEPT ![s] = e]
  BY <1>3
<1>8. UNCHANGED <<count, total, recycled>>
  BY DEF FindExisting
<1> HIDE DEF e
<1>9. Rewrite(s, e)
  BY <1>1, <1>4, <1>6, <1>7, <1>8 DEF Rewrite, Put
<1> QED
  BY <1>3, <1>4, <1>5, <1>6, <1>9

LEMMA CreationClaims ==
  ASSUME IInv, NEW w \in Writer, CreateInEmpty(w)
  PROVE  \E s \in Slot, e \in Entry, t \in Time : Claim(s, e) /\ PointTo(w, e.id, s, t)
<1>1. PICK id \in IdsOf(w), t \in StampsOf(w), s \in EmptySlot(entries) :
         /\ Holding(entries, id) = {}
         /\ entries' = [entries EXCEPT ![s] = NewEntry(id)]
         /\ PointTo(w, id, s, t)
  BY DEF CreateInEmpty
<1>2. id \in Ids /\ t \in Time /\ s \in Slot /\ s \notin Occupied(entries)
  BY RegistryConstants DEF IdsOf, StampsOf, EmptySlot, Occupied, IInv, TypeOK, Time
<1>3. count' = count + 1 /\ total' = total + 1 /\ UNCHANGED recycled
  BY DEF CreateInEmpty
<1>4. /\ NewEntry(id) \in Entry /\ NewEntry(id).id = id
      /\ NewEntry(id).tel = NoId /\ NewEntry(id).history = <<>>
  BY <1>2, NewEntryTyped
<1>5. Len(NewEntry(id).history) <= HistoryLen
  BY <1>4, RegistryConstants
<1>6. Claim(s, NewEntry(id))
  BY <1>1, <1>2, <1>3, <1>4, <1>5 DEF Claim, Put
<1> QED
  BY <1>1, <1>2, <1>4, <1>6

LEMMA EvictionReplaces ==
  ASSUME IInv, NEW w \in Writer, CreateByEviction(w)
  PROVE  \E s \in Slot, e \in Entry, t \in Time :
            /\ Replace(s, e) /\ PointTo(w, e.id, s, t)
            /\ EmptySlot(entries) = {} /\ s \in EvictionCandidate(entries)
<1>1. PICK id \in IdsOf(w), t \in StampsOf(w), s \in EvictionCandidate(entries) :
         /\ Holding(entries, id) = {}
         /\ entries' = [entries EXCEPT ![s] = NewEntry(id)]
         /\ PointTo(w, id, s, t)
         /\ recycled' = IF \E v \in Writer : writer[v].slot = s
                        THEN recycled \cup {s} ELSE recycled
  BY DEF CreateByEviction
<1>2. id \in Ids /\ t \in Time /\ s \in Slot /\ s \in Occupied(entries)
  BY RegistryConstants DEF IdsOf, StampsOf, EvictionCandidate, OutOfRange, Occupied, IInv,
     TypeOK, Time
<1>3. count' = count /\ total' = total + 1
  <2>1. count \in Int
    BY RegistryConstants DEF IInv, TypeOK
  <2> QED
    BY <2>1 DEF CreateByEviction, Evict
<1>4. /\ NewEntry(id) \in Entry /\ NewEntry(id).id = id
      /\ NewEntry(id).tel = NoId /\ NewEntry(id).history = <<>>
  BY <1>2, NewEntryTyped
<1>5. Len(NewEntry(id).history) <= HistoryLen
  BY <1>4, RegistryConstants
<1>6. /\ recycled \subseteq recycled' /\ recycled' \subseteq Slot
      /\ \A v \in Writer : writer[v].slot = s => s \in recycled'
  BY <1>1, <1>2 DEF IInv, TypeOK
<1>7. Replace(s, NewEntry(id))
  BY <1>1, <1>2, <1>3, <1>4, <1>5, <1>6 DEF Replace, Put
<1> QED
  BY <1>1, <1>2, <1>4, <1>7 DEF CreateByEviction

\* The history keeps its length and gains the writer's sample.
LEMMA PushKeeps ==
  ASSUME NEW h \in Seq(Sample), Len(h) <= HistoryLen, NEW x \in Sample
  PROVE  /\ Push(h, x) \in Seq(Sample) /\ Len(Push(h, x)) <= HistoryLen
         /\ \A k \in 1..Len(Push(h, x)) :
              Push(h, x)[k] = x \/ \E j \in 1..Len(h) : Push(h, x)[k] = h[j]
<1>1. HistoryLen \in Nat /\ HistoryLen >= 1
  BY RegistryConstants
<1>2. CASE Len(h) < HistoryLen
  <2>1. Push(h, x) = Append(h, x)
    BY <1>2 DEF Push
  <2> QED
    BY <1>1, <1>2, <2>1
<1>3. CASE Len(h) = HistoryLen
  <2>1. Push(h, x) = Append(Tail(h), x) /\ h # <<>>
    BY <1>1, <1>3 DEF Push
  <2>2. /\ Tail(h) \in Seq(Sample) /\ Len(Tail(h)) = HistoryLen - 1
        /\ \A k \in 1..(HistoryLen - 1) : Tail(h)[k] = h[k + 1]
    BY <1>1, <1>3, <2>1
  <2>3. /\ Append(Tail(h), x) \in Seq(Sample) /\ Len(Append(Tail(h), x)) = HistoryLen
        /\ Append(Tail(h), x)[HistoryLen] = x
        /\ \A k \in 1..(HistoryLen - 1) : Append(Tail(h), x)[k] = Tail(h)[k]
    BY <1>1, <2>2
  <2>4. \A k \in 1..HistoryLen : Append(Tail(h), x)[k] = x
          \/ \E j \in 1..Len(h) : Append(Tail(h), x)[k] = h[j]
    <3>1. ASSUME NEW k \in 1..HistoryLen, k # HistoryLen
          PROVE  k + 1 \in 1..Len(h) /\ Append(Tail(h), x)[k] = h[k + 1]
      BY <1>1, <1>3, <2>2, <2>3, <3>1
    <3> QED
      BY <2>3, <3>1
  <2> QED
    BY <1>1, <2>1, <2>3, <2>4
<1> QED
  BY <1>1, <1>2, <1>3

\* What an entry's own data is.
Own(e) == e.tel \in {NoId, e.id} /\ \A k \in 1..Len(e.history) : e.history[k].of = e.id

\* A writer's assignments, through its pointer.
LEMMA WritingRewrites ==
  ASSUME IInv, NEW w \in Writer, WriteEntry(w)
  PROVE  \E e \in Entry :
            /\ Rewrite(writer[w].slot, e)
            /\ entries[writer[w].slot].id = writer[w].id /\ Own(entries[writer[w].slot])
                  => Own(e)
<1> DEFINE s == writer[w].slot
           old == entries[s]
<1>1. writer[w] \in WriterRecord /\ writer[w].at # "idle"
  BY DEF IInv, TypeOK, WriterRecord, WriteEntry, WriteTelemetry, WriteSeen, WriteStatus,
     WriteHistory, Writing
<1>2. s \in Occupied(entries) /\ writer[w].id \in Ids /\ s \in Slot
  BY <1>1 DEF IInv, PointersHold, Occupied
<1>3. old \in Entry /\ Len(old.history) <= HistoryLen /\ old.id \in Ids
  BY <1>2 DEF IInv, TypeOK, Occupied, Entry
<1>4. UNCHANGED <<count, total, recycled>>
  BY DEF WriteEntry, WriteTelemetry, WriteSeen, WriteStatus, WriteHistory
<1>5. writer[w].stamp \in Time
  BY <1>1 DEF WriterRecord
<1> SUFFICES \E e \in Entry :
                /\ e.id = old.id /\ Len(e.history) <= HistoryLen
                /\ entries' = [entries EXCEPT ![s] = e]
                /\ old.id = writer[w].id /\ Own(old) => Own(e)
  BY <1>2, <1>3, <1>4 DEF Rewrite, Put
<1>6. CASE WriteTelemetry(w)
  <2> DEFINE e == [old EXCEPT !.tel = writer[w].id]
  <2>1. e \in Entry /\ e.id = old.id /\ e.history = old.history /\ e.tel = writer[w].id
    BY <1>2, <1>3 DEF Entry
  <2>2. entries' = [entries EXCEPT ![s] = e]
    BY <1>6 DEF WriteTelemetry
  <2> HIDE DEF e
  <2> QED
    BY <1>3, <2>1, <2>2 DEF Own
<1>7. CASE WriteSeen(w)
  <2> DEFINE e == [old EXCEPT !.seen = writer[w].stamp]
  <2>1. e \in Entry /\ e.id = old.id /\ e.history = old.history /\ e.tel = old.tel
    BY <1>3, <1>5 DEF Entry
  <2>2. entries' = [entries EXCEPT ![s] = e]
    BY <1>7 DEF WriteSeen
  <2> HIDE DEF e
  <2> QED
    BY <1>3, <2>1, <2>2 DEF Own
<1>8. CASE WriteStatus(w)
  <2> DEFINE e == [old EXCEPT !.status = "active"]
  <2>1. e \in Entry /\ e.id = old.id /\ e.history = old.history /\ e.tel = old.tel
    BY <1>3 DEF Entry, Status
  <2>2. entries' = [entries EXCEPT ![s] = e]
    BY <1>8 DEF WriteStatus
  <2> HIDE DEF e
  <2> QED
    BY <1>3, <2>1, <2>2 DEF Own
<1>9. CASE WriteHistory(w)
  <2> DEFINE x == [of |-> writer[w].id, at |-> writer[w].stamp]
             h == Push(old.history, x)
             e == [old EXCEPT !.history = h]
  <2>1. x \in Sample /\ x.of = writer[w].id
    BY <1>2, <1>5 DEF Sample
  <2>2. old.history \in Seq(Sample)
    BY <1>3 DEF Entry
  <2> HIDE DEF x
  <2>3. /\ h \in Seq(Sample) /\ Len(h) <= HistoryLen
        /\ \A k \in 1..Len(h) :
              h[k] = x \/ \E j \in 1..Len(old.history) : h[k] = old.history[j]
    BY <1>3, <2>1, <2>2, PushKeeps
  <2>4. entries' = [entries EXCEPT ![s] = e]
    BY <1>9 DEF WriteHistory, x
  <2> HIDE DEF h
  <2>5. e \in Entry /\ e.id = old.id /\ e.history = h /\ e.tel = old.tel
    BY <1>3, <2>3 DEF Entry
  <2> HIDE DEF e
  <2>6. old.id = writer[w].id /\ Own(old) => Own(e)
    BY <2>1, <2>3, <2>5 DEF Own
  <2> QED
    BY <2>3, <2>4, <2>5, <2>6
<1> QED
  BY <1>6, <1>7, <1>8, <1>9 DEF WriteEntry

LEMMA MarkingRewrites ==
  ASSUME IInv, SweepMark
  PROVE  \E s \in Slot, e \in Entry :
            /\ Rewrite(s, e) /\ e.tel = entries[s].tel /\ e.history = entries[s].history
            /\ UNCHANGED <<writer, calls, now>>
<1> DEFINE s == sweep.slot
           e == [entries[s] EXCEPT !.status = "outOfRange"]
<1>1. s \in Occupied(entries) /\ s \in Slot
  BY DEF IInv, SweepHolds, SweepMark, Occupied
<1>2. entries[s] \in Entry /\ Len(entries[s].history) <= HistoryLen /\ entries[s].id \in Ids
  BY <1>1 DEF IInv, TypeOK, Occupied, Entry
<1>3. e \in Entry /\ e.id = entries[s].id
      /\ e.tel = entries[s].tel /\ e.history = entries[s].history
  BY <1>2 DEF Entry, Status
<1>4. entries' = [entries EXCEPT ![s] = e]
  BY DEF SweepMark
<1>5. UNCHANGED <<count, total, recycled, writer, calls, now>>
  BY DEF SweepMark
<1> HIDE DEF e
<1> QED
  BY <1>1, <1>2, <1>3, <1>4, <1>5 DEF Rewrite, Put

\* Where a search leaves its writer.
LEMMA PointTyped ==
  ASSUME writer \in [Writer -> WriterRecord], NEW w \in Writer, NEW id \in Ids,
         NEW s \in Slot, NEW t \in Time, PointTo(w, id, s, t)
  PROVE  /\ writer' \in [Writer -> WriterRecord]
         /\ writer'[w].at # "idle" /\ writer'[w].id = id /\ writer'[w].slot = s
         /\ \A v \in Writer \ {w} : writer'[v] = writer[v]
<1> DEFINE r == [at |-> FirstStep(w), id |-> id, slot |-> s, stamp |-> t]
<1>1. FirstStep(w) \in Step /\ FirstStep(w) # "idle"
  BY DEF FirstStep, Step
<1>2. s \in 0..SlotCount
  BY RegistryConstants DEF Slot
<1>3. r \in WriterRecord /\ r.at # "idle" /\ r.id = id /\ r.slot = s
  BY <1>1, <1>2 DEF WriterRecord
<1>4. writer' = [writer EXCEPT ![w] = r]
  BY DEF PointTo
<1> HIDE DEF r
<1> QED
  BY <1>3, <1>4

\* Where an assignment leaves it.
LEMMA ProceedTyped ==
  ASSUME writer \in [Writer -> WriterRecord], NEW w \in Writer, Proceed(w)
  PROVE  /\ writer' \in [Writer -> WriterRecord]
         /\ \/ writer'[w] = Idle
            \/ writer'[w].at # "idle" /\ writer'[w].id = writer[w].id
               /\ writer'[w].slot = writer[w].slot
         /\ \A v \in Writer \ {w} : writer'[v] = writer[v]
<1>1. CASE After(w, writer[w].at) = "idle"
  <2>1. 0 \in 0..SlotCount /\ 0 \in Time
    BY RegistryConstants DEF Time
  <2>2. Idle \in WriterRecord
    BY <2>1 DEF Idle, WriterRecord, Step
  <2>3. writer' = [writer EXCEPT ![w] = Idle]
    BY <1>1 DEF Proceed
  <2> QED
    BY <2>2, <2>3
<1>2. CASE After(w, writer[w].at) # "idle"
  <2> DEFINE a == After(w, writer[w].at)
             r == [writer[w] EXCEPT !.at = a]
  <2>1. a \in Step
    BY DEF After, Step
  <2> HIDE DEF a
  <2>2. r \in WriterRecord /\ r.at = a /\ r.id = writer[w].id /\ r.slot = writer[w].slot
    BY <2>1 DEF WriterRecord
  <2>3. writer' = [writer EXCEPT ![w] = r]
    BY <1>2 DEF Proceed, a
  <2> HIDE DEF r
  <2> QED
    BY <1>2, <2>2, <2>3 DEF a
<1> QED
  BY <1>1, <1>2

-----------------------------------------------------------------------------
(* What each kind of step keeps.                                           *)

\* A rewrite keeps every id where it is.
LEMMA RewriteKeeps ==
  ASSUME IInv, NEW s, NEW e, Rewrite(s, e)
  PROVE  /\ EntriesTyped' /\ UniqueIds' /\ CountMatches'
         /\ Occupied(entries)' = Occupied(entries)
         /\ \A t \in Slot : entries'[t].id = entries[t].id
<1>1. EntriesTyped'
  BY PutTyped DEF Rewrite, IInv, TypeOK, EntriesTyped
<1>2. /\ entries'[s] = e /\ \A t \in Slot \ {s} : entries'[t] = entries[t]
      /\ Occupied(entries)' = Occupied(entries)
  <2>1. entries \in [Slot -> Entry] /\ Put(s, e) /\ s \in Occupied(entries)
    BY DEF Rewrite, IInv, TypeOK
  <2>2. Occupied(entries') = Occupied(entries) \cup {s}
    BY <2>1, PutTable
  <2> QED
    BY <2>1, <2>2, PutTable DEF Occupied
<1>3. \A t \in Slot : entries'[t].id = entries[t].id
  BY <1>2 DEF Rewrite
<1>4. UniqueIds'
  BY <1>2, <1>3 DEF IInv, UniqueIds, Occupied
<1>5. CountMatches'
  BY <1>2 DEF IInv, CountMatches, Rewrite
<1> QED
  BY <1>1, <1>2, <1>3, <1>4, <1>5

\* A new id is nowhere else in the table.
LEMMA NewIdUnique ==
  ASSUME IInv, NEW s, NEW e, Put(s, e), Holding(entries, e.id) = {}
  PROVE  UniqueIds' /\ Occupied(entries)' = Occupied(entries) \cup {s} /\ EntriesTyped'
<1>1. entries \in [Slot -> Entry] /\ EntriesTyped
  BY DEF IInv, TypeOK, EntriesTyped
<1>2. /\ entries'[s] = e /\ \A t \in Slot \ {s} : entries'[t] = entries[t]
      /\ Occupied(entries') = Occupied(entries) \cup {s}
  BY <1>1, PutTable
<1>3. \A t \in Occupied(entries) : entries[t].id # e.id
  BY DEF Holding
<1>4. UniqueIds'
  <2>1. \A t, u \in Occupied(entries) : entries[t].id = entries[u].id => t = u
    BY DEF IInv, UniqueIds
  <2>2. Occupied(entries) \subseteq Slot
    BY DEF Occupied
  <2>3. ASSUME NEW t \in Occupied(entries'), NEW u \in Occupied(entries'),
               entries'[t].id = entries'[u].id
        PROVE  t = u
    BY <1>2, <1>3, <2>1, <2>2, <2>3
  <2> QED
    BY <2>3 DEF UniqueIds
<1> QED
  BY <1>1, <1>2, <1>4, PutTyped DEF Occupied

LEMMA ClaimKeeps ==
  ASSUME IInv, NEW s, NEW e, Claim(s, e)
  PROVE  /\ EntriesTyped' /\ UniqueIds' /\ CountMatches'
         /\ Occupied(entries)' = Occupied(entries) \cup {s}
<1>1. EntriesTyped' /\ UniqueIds' /\ Occupied(entries)' = Occupied(entries) \cup {s}
  BY NewIdUnique DEF Claim
<1>2. Cardinality(Occupied(entries)') = Cardinality(Occupied(entries)) + 1
  BY <1>1, OccupiedFinite, FS_AddElement DEF Claim
<1>3. count' = count + 1 /\ total' = total + 1 /\ count = Cardinality(Occupied(entries))
      /\ count <= total /\ count \in Int /\ total \in Int
  BY RegistryConstants DEF Claim, IInv, CountMatches, TypeOK
<1>4. count' = Cardinality(Occupied(entries)') /\ count' <= total'
  BY <1>2, <1>3
<1> QED
  BY <1>1, <1>4 DEF CountMatches

LEMMA ReplaceKeeps ==
  ASSUME IInv, NEW s, NEW e, Replace(s, e)
  PROVE  /\ EntriesTyped' /\ UniqueIds' /\ CountMatches'
         /\ Occupied(entries)' = Occupied(entries)
<1>1. EntriesTyped' /\ UniqueIds' /\ Occupied(entries)' = Occupied(entries) \cup {s}
  BY NewIdUnique DEF Replace
<1>2. Occupied(entries)' = Occupied(entries)
  BY <1>1 DEF Replace
<1>3. count' = count /\ total' = total + 1 /\ count = Cardinality(Occupied(entries))
      /\ count <= total /\ count \in Int /\ total \in Int
  BY RegistryConstants DEF Replace, IInv, CountMatches, TypeOK
<1> QED
  BY <1>1, <1>2, <1>3 DEF CountMatches

\* Assembling the type invariant after a step.
LEMMA TypeFromParts ==
  ASSUME EntriesTyped', CountMatches', TotalIsCalls', total' \in Nat,
         now' \in Time, writer' \in [Writer -> WriterRecord],
         sweep' \in [slot : 0..SlotCount, time : Time, expired : BOOLEAN],
         calls' \in 0..MaxCalls, recycled' \subseteq Slot
  PROVE  TypeOK'
<1>1. count' \in 0..SlotCount
  BY OccupiedFinite DEF CountMatches
<1>2. total' \in 0..MaxCalls
  BY RegistryConstants DEF TotalIsCalls
<1> QED
  BY <1>1, <1>2 DEF TypeOK, EntriesTyped, WriterRecord

\* A search that found the aircraft.
LEMMA FindKeeps == ASSUME IInv, NEW w \in Writer, FindExisting(w) PROVE IInv'
<1>1. PICK s \in Slot, e \in Entry, t \in Time :
            /\ Rewrite(s, e) /\ e.tel = entries[s].tel /\ e.history = entries[s].history
            /\ PointTo(w, e.id, s, t)
  BY FindingRewrites
<1>2. /\ EntriesTyped' /\ UniqueIds' /\ CountMatches'
      /\ Occupied(entries)' = Occupied(entries)
      /\ \A u \in Slot : entries'[u].id = entries[u].id
  BY <1>1, RewriteKeeps
<1>3. e.id \in Ids /\ s \in Occupied(entries) /\ entries'[s] = e
      /\ \A u \in Slot \ {s} : entries'[u] = entries[u]
  BY <1>1, PutTable DEF Rewrite, Put, IInv, TypeOK
<1>4. /\ writer' \in [Writer -> WriterRecord]
      /\ writer'[w].at # "idle" /\ writer'[w].id = e.id /\ writer'[w].slot = s
      /\ \A v \in Writer \ {w} : writer'[v] = writer[v]
  BY <1>1, <1>3, PointTyped DEF IInv, TypeOK, WriterRecord
<1>5. /\ UNCHANGED <<now, count, total, sweep, recycled>>
      /\ calls' = calls + 1 /\ calls' \in 0..MaxCalls
  BY RegistryConstants DEF FindExisting, MayCall, IInv, TypeOK
<1>6. TotalIsCalls' /\ total' \in Nat
  BY <1>5, RegistryConstants DEF IInv, TypeOK, TotalIsCalls
<1>7. TypeOK'
  BY <1>2, <1>4, <1>5, <1>6, TypeFromParts DEF IInv, TypeOK
<1>8. PointersHold'
  <2>1. Occupied(entries) \subseteq Slot
    BY DEF Occupied
  <2> QED
    BY <1>2, <1>3, <1>4, <1>5, <2>1 DEF IInv, PointersHold
<1>9. SweepHolds'
  BY <1>2, <1>5 DEF IInv, SweepHolds
<1>10. EntryHoldsItsOwn'
  BY <1>1, <1>2, <1>3, <1>5 DEF IInv, EntryHoldsItsOwn, Occupied
<1> QED
  BY <1>2, <1>6, <1>7, <1>8, <1>9, <1>10 DEF IInv

\* A search that created an entry.
LEMMA CreateKeeps == ASSUME IInv, NEW w \in Writer, CreateInEmpty(w) PROVE IInv'
<1>1. PICK s \in Slot, e \in Entry, t \in Time : Claim(s, e) /\ PointTo(w, e.id, s, t)
  BY CreationClaims
<1>2. /\ EntriesTyped' /\ UniqueIds' /\ CountMatches'
      /\ Occupied(entries)' = Occupied(entries) \cup {s}
  BY <1>1, ClaimKeeps
<1>3. e.id \in Ids /\ s \notin Occupied(entries) /\ entries'[s] = e
      /\ \A u \in Slot \ {s} : entries'[u] = entries[u]
  BY <1>1, PutTable DEF Claim, Put, IInv, TypeOK
<1>4. /\ writer' \in [Writer -> WriterRecord]
      /\ writer'[w].at # "idle" /\ writer'[w].id = e.id /\ writer'[w].slot = s
      /\ \A v \in Writer \ {w} : writer'[v] = writer[v]
  BY <1>1, <1>3, PointTyped DEF IInv, TypeOK, WriterRecord
<1>5. /\ UNCHANGED <<now, sweep, recycled>>
      /\ calls' = calls + 1 /\ calls' \in 0..MaxCalls /\ total' = total + 1
  BY RegistryConstants DEF CreateInEmpty, MayCall, IInv, TypeOK
<1>6. TotalIsCalls' /\ total' \in Nat
  BY <1>5, RegistryConstants DEF IInv, TypeOK, TotalIsCalls
<1>7. TypeOK'
  BY <1>2, <1>4, <1>5, <1>6, TypeFromParts DEF IInv, TypeOK
<1>8. PointersHold'
  <2>1. Occupied(entries) \subseteq Slot
    BY DEF Occupied
  <2> QED
    BY <1>2, <1>3, <1>4, <1>5, <2>1 DEF IInv, PointersHold
<1>9. SweepHolds'
  BY <1>2, <1>5 DEF IInv, SweepHolds
<1>10. EntryHoldsItsOwn'
  <2>1. e.tel = NoId /\ Len(e.history) = 0
    BY <1>1 DEF Claim
  <2>2. Occupied(entries) \subseteq Slot
    BY DEF Occupied
  <2> QED
    BY <1>2, <1>3, <1>5, <2>1, <2>2 DEF IInv, EntryHoldsItsOwn
<1> QED
  BY <1>2, <1>6, <1>7, <1>8, <1>9, <1>10 DEF IInv

\* A search that evicted an entry.
LEMMA EvictKeeps == ASSUME IInv, NEW w \in Writer, CreateByEviction(w) PROVE IInv'
<1>1. PICK s \in Slot, e \in Entry, t \in Time : Replace(s, e) /\ PointTo(w, e.id, s, t)
  BY EvictionReplaces
<1>2. /\ EntriesTyped' /\ UniqueIds' /\ CountMatches'
      /\ Occupied(entries)' = Occupied(entries)
  BY <1>1, ReplaceKeeps
<1>3. /\ e.id \in Ids /\ s \in Occupied(entries) /\ entries'[s] = e
      /\ \A u \in Slot \ {s} : entries'[u] = entries[u]
      /\ recycled \subseteq recycled' /\ recycled' \subseteq Slot
      /\ \A v \in Writer : writer[v].slot = s => s \in recycled'
  BY <1>1, PutTable DEF Replace, Put, IInv, TypeOK
<1>4. /\ writer' \in [Writer -> WriterRecord]
      /\ writer'[w].at # "idle" /\ writer'[w].id = e.id /\ writer'[w].slot = s
      /\ \A v \in Writer \ {w} : writer'[v] = writer[v]
  BY <1>1, <1>3, PointTyped DEF IInv, TypeOK, WriterRecord
<1>5. /\ UNCHANGED <<now, sweep>>
      /\ calls' = calls + 1 /\ calls' \in 0..MaxCalls /\ total' = total + 1
  BY RegistryConstants DEF CreateByEviction, MayCall, IInv, TypeOK
<1>6. TotalIsCalls' /\ total' \in Nat
  BY <1>5, RegistryConstants DEF IInv, TypeOK, TotalIsCalls
<1>7. TypeOK'
  BY <1>2, <1>3, <1>4, <1>5, <1>6, TypeFromParts DEF IInv, TypeOK
<1>8. PointersHold'
  <2>1. Occupied(entries) \subseteq Slot
    BY DEF Occupied
  <2> QED
    BY <1>2, <1>3, <1>4, <2>1 DEF IInv, PointersHold
<1>9. SweepHolds'
  BY <1>2, <1>5 DEF IInv, SweepHolds
<1>10. EntryHoldsItsOwn'
  <2>1. e.tel = NoId /\ Len(e.history) = 0
    BY <1>1 DEF Replace
  <2>2. Occupied(entries) \subseteq Slot
    BY DEF Occupied
  <2> QED
    BY <1>2, <1>3, <2>1, <2>2 DEF IInv, EntryHoldsItsOwn
<1> QED
  BY <1>2, <1>6, <1>7, <1>8, <1>9, <1>10 DEF IInv

\* An assignment through the pointer.
LEMMA WriteKeeps == ASSUME IInv, NEW w \in Writer, WriteEntry(w) PROVE IInv'
<1> DEFINE s == writer[w].slot
<1>1. PICK e \in Entry :
        /\ Rewrite(s, e)
        /\ entries[s].id = writer[w].id /\ Own(entries[s]) => Own(e)
  BY WritingRewrites
<1>2. /\ EntriesTyped' /\ UniqueIds' /\ CountMatches'
      /\ Occupied(entries)' = Occupied(entries)
      /\ \A u \in Slot : entries'[u].id = entries[u].id
  BY <1>1, RewriteKeeps
<1>3. s \in Occupied(entries) /\ entries'[s] = e
      /\ \A u \in Slot \ {s} : entries'[u] = entries[u]
  BY <1>1, PutTable DEF Rewrite, IInv, TypeOK
<1>4. Proceed(w) /\ writer[w].at # "idle"
  BY DEF WriteEntry, WriteTelemetry, WriteSeen, WriteStatus, WriteHistory, Writing
<1>5. /\ writer' \in [Writer -> WriterRecord]
      /\ \/ writer'[w] = Idle
         \/ writer'[w].at # "idle" /\ writer'[w].id = writer[w].id /\ writer'[w].slot = s
      /\ \A v \in Writer \ {w} : writer'[v] = writer[v]
  BY <1>4, ProceedTyped DEF IInv, TypeOK, WriterRecord
<1>6. UNCHANGED <<now, count, total, sweep, calls, recycled>>
  BY DEF WriteEntry, WriteTelemetry, WriteSeen, WriteStatus, WriteHistory
<1>7. TotalIsCalls' /\ total' \in Nat
  BY <1>6, RegistryConstants DEF IInv, TypeOK, TotalIsCalls
<1>8. TypeOK'
  BY <1>2, <1>5, <1>6, <1>7, TypeFromParts DEF IInv, TypeOK
<1>9. PointersHold'
  <2>1. Occupied(entries) \subseteq Slot /\ Idle.at = "idle"
    BY DEF Occupied, Idle
  <2>2. writer[w].id \in Ids /\ (s \notin recycled => entries[s].id = writer[w].id)
    BY <1>4 DEF IInv, PointersHold
  <2> QED
    BY <1>2, <1>3, <1>5, <1>6, <2>1, <2>2 DEF IInv, PointersHold
<1>10. SweepHolds'
  BY <1>2, <1>6 DEF IInv, SweepHolds
<1>11. EntryHoldsItsOwn'
  <2>1. s \notin recycled => Own(e)
    BY <1>1, <1>3, <1>4 DEF IInv, PointersHold, EntryHoldsItsOwn, Own
  <2>2. Occupied(entries) \subseteq Slot
    BY DEF Occupied
  <2> QED
    BY <1>2, <1>3, <1>6, <2>1, <2>2 DEF IInv, EntryHoldsItsOwn, Own
<1> QED
  BY <1>2, <1>7, <1>8, <1>9, <1>10, <1>11 DEF IInv

SweepRecord == [slot : 0..SlotCount, time : Time, expired : BOOLEAN]

\* The sweep's own record keeps its type.
LEMMA NextSlotTyped ==
  ASSUME sweep \in SweepRecord, sweep.slot > 0
  PROVE  NextSlot \in SweepRecord /\ ~NextSlot.expired
<1>1. SlotCount \in Nat /\ sweep.slot \in 0..SlotCount /\ 0 \in 0..SlotCount /\ 0 \in Time
  BY RegistryConstants DEF SweepRecord, Time
<1>2. CASE sweep.slot = SlotCount
  BY <1>1, <1>2 DEF NextSlot, NoSweep, SweepRecord
<1>3. CASE sweep.slot # SlotCount
  <2>1. sweep.slot + 1 \in 0..SlotCount
    BY <1>1, <1>3
  <2>2. NextSlot = [slot |-> sweep.slot + 1, time |-> sweep.time, expired |-> FALSE]
    BY <1>3 DEF NextSlot, SweepRecord
  <2> QED
    BY <2>1, <2>2 DEF SweepRecord
<1> QED
  BY <1>2, <1>3

\* A slot is marked.
LEMMA MarkKeeps == ASSUME IInv, SweepMark PROVE IInv'
<1>1. PICK s \in Slot, e \in Entry :
            /\ Rewrite(s, e) /\ e.tel = entries[s].tel /\ e.history = entries[s].history
            /\ UNCHANGED <<writer, calls, now>>
  BY MarkingRewrites
<1>2. /\ EntriesTyped' /\ UniqueIds' /\ CountMatches'
      /\ Occupied(entries)' = Occupied(entries)
      /\ \A u \in Slot : entries'[u].id = entries[u].id
  BY <1>1, RewriteKeeps
<1>3. entries'[s] = e /\ \A u \in Slot \ {s} : entries'[u] = entries[u]
  BY <1>1, PutTable DEF Rewrite, IInv, TypeOK
<1>4. UNCHANGED <<now, total, writer, calls, recycled>>
  BY <1>1 DEF SweepMark
<1>5. sweep' \in SweepRecord /\ ~sweep'.expired
  BY NextSlotTyped DEF SweepMark, IInv, TypeOK, SweepRecord
<1>6. TotalIsCalls' /\ total' \in Nat
  BY <1>4, RegistryConstants DEF IInv, TypeOK, TotalIsCalls
<1>7. TypeOK'
  BY <1>2, <1>4, <1>5, <1>6, TypeFromParts DEF IInv, TypeOK, WriterRecord, SweepRecord
<1>8. PointersHold'
  <2>1. Occupied(entries) \subseteq Slot
    BY DEF Occupied
  <2> QED
    BY <1>2, <1>4, <2>1 DEF IInv, PointersHold
<1>9. SweepHolds'
  BY <1>5 DEF SweepHolds
<1>10. EntryHoldsItsOwn'
  BY <1>1, <1>2, <1>3, <1>4 DEF IInv, EntryHoldsItsOwn, Occupied
<1> QED
  BY <1>2, <1>6, <1>7, <1>8, <1>9, <1>10 DEF IInv

\* The steps that leave the table and the writers alone.
LEMMA OthersKeep ==
  ASSUME IInv,
         Tick \/ SweepBegin \/ SweepJudge \/ (\E w \in Writer : Refused(w))
           \/ UNCHANGED vars
  PROVE  IInv'
<1>1. UNCHANGED <<entries, count, total, writer, recycled>>
  BY DEF Tick, SweepBegin, SweepJudge, Refused, vars
<1>2. now' \in Time /\ calls' \in 0..MaxCalls /\ calls <= calls'
  <2>1. now \in 0..MaxTime /\ calls \in 0..MaxCalls /\ MaxTime \in Nat /\ MaxCalls \in Nat
    BY RegistryConstants DEF IInv, TypeOK, Time
  <2>2. \/ now' = now /\ calls' = calls
        \/ now' = now + 1 /\ now < MaxTime /\ calls' = calls
        \/ now' = now /\ calls' = calls + 1 /\ calls < MaxCalls
    BY DEF Tick, SweepBegin, SweepJudge, Refused, MayCall, vars
  <2> QED
    BY <2>1, <2>2 DEF Time
<1>3. sweep' \in SweepRecord /\ SweepHolds'
  <2>1. CASE SweepBegin
    <3>1. 1 \in 0..SlotCount /\ now \in Time
      BY RegistryConstants DEF IInv, TypeOK
    <3> QED
      BY <2>1, <3>1 DEF SweepBegin, SweepRecord, SweepHolds
  <2>2. CASE SweepJudge
    <3>1. CASE sweep' = NextSlot
      BY <2>2, <3>1, NextSlotTyped DEF SweepJudge, IInv, TypeOK, SweepRecord, SweepHolds
    <3>2. CASE sweep' # NextSlot
      <4>1. sweep' = [sweep EXCEPT !.expired = TRUE] /\ entries[sweep.slot].id # NoId
            /\ sweep.slot \in 0..SlotCount /\ sweep.slot > 0 /\ sweep \in SweepRecord
        BY <2>2, <3>2 DEF SweepJudge, IInv, TypeOK, SweepRecord
      <4>2. sweep' \in SweepRecord /\ sweep'.slot = sweep.slot
        BY <4>1 DEF SweepRecord
      <4>3. sweep.slot \in Occupied(entries)
        BY <4>1, RegistryConstants DEF Occupied, Slot
      <4> QED
        BY <1>1, <4>2, <4>3 DEF SweepHolds, Occupied
    <3> QED
      BY <3>1, <3>2
  <2>3. CASE sweep' = sweep
    BY <1>1, <2>3 DEF IInv, TypeOK, SweepRecord, SweepHolds, Occupied
  <2> QED
    BY <2>1, <2>2, <2>3 DEF Tick, Refused, vars
<1>4. TotalIsCalls'
  BY <1>1, <1>2, RegistryConstants DEF IInv, TypeOK, TotalIsCalls
<1>5. TypeOK'
  BY <1>1, <1>2, <1>3 DEF IInv, TypeOK, SweepRecord
<1>6. UniqueIds' /\ CountMatches' /\ EntryHoldsItsOwn' /\ PointersHold'
  BY <1>1 DEF IInv, UniqueIds, CountMatches, EntryHoldsItsOwn, PointersHold, Occupied
<1> QED
  BY <1>3, <1>4, <1>5, <1>6 DEF IInv

-----------------------------------------------------------------------------
(* The theorems.                                                           *)

LEMMA InitInv == Init => IInv
<1> SUFFICES ASSUME Init PROVE IInv
  OBVIOUS
<1>1. Occupied(entries) = {} /\ recycled = {} /\ sweep = NoSweep /\ total = 0 /\ calls = 0
      /\ count = 0 /\ \A w \in Writer : writer[w] = Idle
  BY DEF Init, Occupied, FreeEntry
<1>2. 0 \in Time /\ 0 \in 0..SlotCount /\ 0 \in 0..MaxCalls /\ <<>> \in Seq(Sample)
      /\ 0 <= HistoryLen
  BY RegistryConstants DEF Time
<1>3. FreeEntry \in Entry /\ Len(FreeEntry.history) = 0
  BY <1>2 DEF FreeEntry, Entry, Status
<1>4. Idle \in WriterRecord
  BY <1>2 DEF Idle, WriterRecord, Step
<1>5. sweep \in SweepRecord /\ ~sweep.expired
  BY <1>1, <1>2 DEF NoSweep, SweepRecord
<1>6. EntriesTyped
  BY <1>2, <1>3 DEF Init, EntriesTyped
<1>7. writer \in [Writer -> WriterRecord] /\ now \in Time
  BY <1>2, <1>4 DEF Init
<1>8. TypeOK
  BY <1>1, <1>2, <1>5, <1>6, <1>7 DEF TypeOK, EntriesTyped, WriterRecord, SweepRecord
<1>9. CountMatches
  BY <1>1, FS_EmptySet DEF CountMatches
<1>10. UniqueIds /\ EntryHoldsItsOwn /\ SweepHolds /\ TotalIsCalls
  BY <1>1, <1>5 DEF UniqueIds, EntryHoldsItsOwn, SweepHolds, TotalIsCalls
<1>11. PointersHold
  BY <1>1 DEF PointersHold, Idle
<1> QED
  BY <1>8, <1>9, <1>10, <1>11 DEF IInv

\* The invariant holds in every state: IInv is inductive.
THEOREM Invariance == Spec => []IInv
<1>1. Init => IInv
  BY InitInv
<1>2. IInv /\ [Next]_vars => IInv'
  BY FindKeeps, CreateKeeps, EvictKeeps, WriteKeeps, MarkKeeps, OthersKeep
     DEF Next, FindOrCreate, Sweep
<1> QED
  BY <1>1, <1>2, PTL DEF Spec

\* Every variable keeps its type, the count the size of the table.
THEOREM TypeCorrect == Spec => []TypeOK
<1>1. IInv => TypeOK
  BY DEF IInv
<1> QED
  BY <1>1, Invariance, PTL

\* However searches, writes and sweeps interleave, no aircraft has two entries.
THEOREM OneEntryEach == Spec => []UniqueIds
<1>1. IInv => UniqueIds
  BY DEF IInv
<1> QED
  BY <1>1, Invariance, PTL

\* reg->count is the number of occupied slots, for every size of the table.
THEOREM CountIsRight == Spec => []CountMatches
<1>1. IInv => CountMatches
  BY DEF IInv
<1> QED
  BY <1>1, Invariance, PTL

\* Only a slot that was evicted under a writer's pointer may mix two aircraft.
THEOREM OwnData == Spec => []EntryHoldsItsOwn
<1>1. IInv => EntryHoldsItsOwn
  BY DEF IInv
<1> QED
  BY <1>1, Invariance, PTL

\* An aircraft in range never loses its entry, and of the others the one silent
\* for longest is displaced, only when the table is full.
THEOREM OnlyTheSilentYield == Spec => DisplacesLongestSilent
<1> DEFINE Yields ==
             \A s \in Occupied(entries) :
               entries'[s].id # entries[s].id =>
                 /\ entries[s].status = "outOfRange"
                 /\ Occupied(entries) = Slot
                 /\ \A t \in OutOfRange(entries) : entries[s].seen <= entries[t].seen
<1>1. ASSUME IInv, Next PROVE Yields
  <2>1. ASSUME NEW w \in Writer, CreateByEviction(w) PROVE Yields
    <3>1. PICK s \in Slot, e \in Entry, u \in Time :
            /\ Replace(s, e) /\ EmptySlot(entries) = {} /\ s \in EvictionCandidate(entries)
      BY <1>1, <2>1, EvictionReplaces
    <3>2. \A t \in Slot \ {s} : entries'[t] = entries[t]
      BY <1>1, <3>1, PutTable DEF Replace, IInv, TypeOK
    <3>3. \A t \in Occupied(entries) : entries[t].seen \in Int
      BY <1>1, RegistryConstants DEF IInv, TypeOK, Occupied, Entry, Time
    <3>4. entries[s].status = "outOfRange"
          /\ \A t \in OutOfRange(entries) : entries[s].seen <= entries[t].seen
      BY <3>1, <3>3 DEF EvictionCandidate, OutOfRange
    <3>5. Occupied(entries) = Slot
      BY <3>1, NoneFree
    <3> QED
      BY <3>2, <3>4, <3>5 DEF Occupied
  <2>2. ASSUME NEW w \in Writer, CreateInEmpty(w) PROVE Yields
    <3>1. PICK s \in Slot, e \in Entry, u \in Time : Claim(s, e)
      BY <1>1, <2>2, CreationClaims
    <3>2. \A t \in Slot \ {s} : entries'[t] = entries[t]
      BY <1>1, <3>1, PutTable DEF Claim, IInv, TypeOK
    <3> QED
      BY <3>1, <3>2 DEF Claim, Occupied
  <2>3. ASSUME NEW s, NEW e, Rewrite(s, e) PROVE Yields
    BY <1>1, <2>3, RewriteKeeps DEF Occupied
  <2>4. CASE entries' = entries
    BY <2>4
  <2> QED
    BY <1>1, <2>1, <2>2, <2>3, <2>4, FindingRewrites, WritingRewrites, MarkingRewrites
       DEF Next, FindOrCreate, Sweep, Tick, SweepBegin, SweepJudge, Refused
<1>2. IInv /\ [Next]_vars => [Yields]_vars
  BY <1>1
<1> QED
  BY <1>2, Invariance, PTL DEF Spec, DisplacesLongestSilent
=============================================================================
