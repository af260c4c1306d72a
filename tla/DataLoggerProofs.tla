-------------------------- MODULE DataLoggerProofs --------------------------
(***************************************************************************)
(* What holds of the data logger for every buffer size, file limit,        *)
(* failure limit and bound: its types, that a card it gave up on will be   *)
(* tried again, the bound on its files, that no record it accepted is ever *)
(* dropped without being counted; and, in the second half, the order of    *)
(* the buffer, how often a record is on the card, and that rotation takes  *)
(* a fresh file.                                                           *)
(***************************************************************************)
EXTENDS DataLogger, FiniteSetTheorems, TLAPS

-----------------------------------------------------------------------------
(* The inductive invariant.                                                *)

\* A running logger has a session id, and only a running one flushes.
SessionStarted ==
    /\ up => csv.session >= 1
    /\ pc = "flush" => up

\* The loop index stays within the buffer, which no step of a flush changes.
FlushInRange ==
    pc = "flush" => flush.i <= ring.count

\* A slot in use holds a record; until the buffer is full the slots in use are
\* those before the head.
Used(rb, s) == s < rb.count \/ rb.count = BufferSize

WellShaped(rb) ==
    /\ rb.count < BufferSize => rb.head = rb.count
    /\ \A s \in Slot : Used(rb, s) => rb.slots[s] \in Record

RingShape == WellShaped(ring)

\* An open file is as long as its size says, and none is over the limit.
SizeMatches ==
    /\ csv.open => csv.size = Len(files[PathOf(csv)]) + 1
    /\ FilesBounded

\* What the flush has passed is on the card, unless a truncation took it since.
FlushedPrefix ==
    pc = "flush" =>
        \A k \in 0..(flush.i - 1) : RecordAt(ring, k) \in OnCard \cup lost.truncated

IInv ==
    /\ TypeOK
    /\ SessionStarted
    /\ FlushInRange
    /\ RingShape
    /\ SizeMatches
    /\ GivingUpIsRecoverable
    /\ FlushedPrefix
    /\ EveryRecordAccounted

-----------------------------------------------------------------------------
(* Arithmetic of the ring indices, and the ring as a set.                  *)

\* A remainder is a slot, and one lap around the ring is no change.
LEMMA ModFacts ==
    ASSUME NEW N \in Nat \ {0}, NEW a \in Nat
    PROVE  /\ a % N \in 0..(N - 1)
           /\ a < N => a % N = a
           /\ a < N => (a + N) % N = a
  OBVIOUS

\* The k-th oldest record sits in a slot in use.
LEMMA RecordAtSlot ==
    ASSUME NEW rb \in Ring, WellShaped(rb), NEW k \in Nat, k < rb.count
    PROVE  /\ (Start(rb) + k) % BufferSize \in Slot
           /\ Used(rb, (Start(rb) + k) % BufferSize)
           /\ RecordAt(rb, k) \in Record
  <1>1. /\ BufferSize \in Nat \ {0}
        /\ rb.count \in 0..BufferSize
        /\ rb.head \in 0..(BufferSize - 1)
    BY ConstantsOK DEF Ring, Slot
  <1>2. Start(rb) + k \in Nat
    BY <1>1 DEF Start
  <1>3. (Start(rb) + k) % BufferSize \in Slot
    BY <1>1, <1>2, ModFacts DEF Slot
  <1>4. Used(rb, (Start(rb) + k) % BufferSize)
    <2>1. CASE rb.count = BufferSize
      BY <2>1 DEF Used
    <2>2. CASE rb.count # BufferSize
      <3>1. Start(rb) + k = k /\ k < BufferSize
        BY <2>2, <1>1 DEF Start
      <3>2. k % BufferSize = k
        BY <3>1, <1>1, ModFacts
      <3>3. QED
        BY <3>1, <3>2 DEF Used
    <2>3. QED
      BY <2>1, <2>2
  <1>5. QED
    BY <1>3, <1>4 DEF WellShaped, RecordAt

\* Reading from the oldest record on meets every slot in use.
LEMMA SlotIsBuffered ==
    ASSUME NEW rb \in Ring, WellShaped(rb), NEW s \in Slot, Used(rb, s)
    PROVE  \E k \in 0..(rb.count - 1) : (Start(rb) + k) % BufferSize = s
  <1>1. /\ BufferSize \in Nat \ {0}
        /\ rb.count \in 0..BufferSize
        /\ rb.head \in 0..(BufferSize - 1)
        /\ s \in 0..(BufferSize - 1)
    BY ConstantsOK DEF Ring, Slot
  <1>2. CASE rb.count # BufferSize
    <2>1. s < rb.count /\ Start(rb) = 0
      BY <1>2 DEF Used, Start
    <2>2. s % BufferSize = s
      BY <1>1, ModFacts
    <2>3. QED
      BY <2>1, <2>2, <1>1
  <1>3. CASE rb.count = BufferSize /\ s >= rb.head
    <2>1. Start(rb) + (s - rb.head) = s
      BY <1>3, <1>1 DEF Start
    <2>2. s % BufferSize = s
      BY <1>1, ModFacts
    <2>3. s - rb.head \in 0..(rb.count - 1)
      BY <1>3, <1>1
    <2>4. QED
      BY <2>1, <2>2, <2>3
  <1>4. CASE rb.count = BufferSize /\ s < rb.head
    <2>1. Start(rb) + (s + BufferSize - rb.head) = s + BufferSize
      BY <1>4, <1>1 DEF Start
    <2>2. (s + BufferSize) % BufferSize = s
      BY <1>1, ModFacts
    <2>3. s + BufferSize - rb.head \in 0..(rb.count - 1)
      BY <1>4, <1>1
    <2>4. QED
      BY <2>1, <2>2, <2>3
  <1>5. QED
    BY <1>1, <1>2, <1>3, <1>4

\* The records the buffer holds are those of the slots in use.
InUse(rb) == { rb.slots[s] : s \in { x \in Slot : Used(rb, x) } }

LEMMA ContentsInUse ==
    ASSUME NEW rb \in Ring, WellShaped(rb)
    PROVE  ToSet(Contents(rb)) = InUse(rb)
  <1>0. rb.count \in Nat
    BY ConstantsOK DEF Ring
  <1>1. ASSUME NEW r \in ToSet(Contents(rb))
        PROVE  r \in InUse(rb)
    <2>1. PICK k \in 1..rb.count : r = RecordAt(rb, k - 1)
      BY <1>1 DEF ToSet, Contents
    <2>2. k - 1 \in Nat /\ k - 1 < rb.count
      BY <1>0
    <2>3. QED
      BY <2>1, <2>2, RecordAtSlot DEF InUse, RecordAt
  <1>2. ASSUME NEW r \in InUse(rb)
        PROVE  r \in ToSet(Contents(rb))
    <2>1. PICK s \in Slot : Used(rb, s) /\ r = rb.slots[s]
      BY <1>2 DEF InUse
    <2>2. PICK k \in 0..(rb.count - 1) : (Start(rb) + k) % BufferSize = s
      BY <2>1, SlotIsBuffered
    <2>3. k + 1 \in 1..rb.count /\ Contents(rb)[k + 1] = r
      BY <2>1, <2>2, <1>0 DEF Contents, RecordAt
    <2>4. QED
      BY <2>3 DEF ToSet, Contents
  <1>3. QED
    BY <1>1, <1>2

\* buffer_push keeps the shape, takes the record in, and lets go of no record but
\* the one it overwrites.
LEMMA BufferPushSound ==
    ASSUME NEW rb \in Ring, WellShaped(rb), NEW r \in Record
    PROVE  /\ BufferPush(rb, r) \in Ring
           /\ WellShaped(BufferPush(rb, r))
           /\ ToSet(Contents(rb)) \cup {r}
                \subseteq ToSet(Contents(BufferPush(rb, r))) \cup Overwrites(rb)
           /\ Overwrites(rb) \in SUBSET Record
  <1> DEFINE nb == BufferPush(rb, r)
  <1>1. /\ BufferSize \in Nat \ {0}
        /\ rb.count \in 0..BufferSize
        /\ rb.head \in 0..(BufferSize - 1)
        /\ rb.slots \in [Slot -> 0..MaxRecords]
        /\ r \in 1..MaxRecords /\ MaxRecords \in Nat
    BY ConstantsOK DEF Ring, Slot, Record
  <1>2. rb.head \in Slot
    BY <1>1 DEF Slot
  <1>3. /\ nb.slots = [rb.slots EXCEPT ![rb.head] = r]
        /\ nb.head = (rb.head + 1) % BufferSize
        /\ nb.count = IF rb.count < BufferSize THEN rb.count + 1 ELSE rb.count
    BY DEF BufferPush
  <1>4. (rb.head + 1) % BufferSize \in 0..(BufferSize - 1)
    <2>1. rb.head + 1 \in Nat
      BY <1>1
    <2>2. QED
      BY <1>1, <2>1, ModFacts
  <1>5. /\ nb.slots \in [Slot -> 0..MaxRecords]
        /\ nb.slots[rb.head] = r
        /\ \A s \in Slot : s # rb.head => nb.slots[s] = rb.slots[s]
    BY <1>1, <1>2, <1>3
  <1>6. nb.count \in 0..BufferSize
    BY <1>1, <1>3
  <1>7. nb \in Ring
    <2>1. nb = [slots |-> nb.slots, head |-> nb.head, count |-> nb.count]
      BY DEF BufferPush
    <2>2. nb.head \in Slot
      BY <1>3, <1>4 DEF Slot
    <2>3. QED
      BY <2>1, <2>2, <1>5, <1>6 DEF Ring
  <1> HIDE DEF nb
  <1>8. WellShaped(nb)
    <2>1. ASSUME nb.count < BufferSize
          PROVE  nb.head = nb.count
      <3>1. rb.count < BufferSize /\ rb.head = rb.count /\ nb.count = rb.count + 1
        BY <2>1, <1>1, <1>3 DEF WellShaped
      <3>2. (rb.head + 1) % BufferSize = rb.head + 1
        BY <2>1, <3>1, <1>1, ModFacts
      <3>3. QED
        BY <3>1, <3>2, <1>3
    <2>2. ASSUME NEW s \in Slot, Used(nb, s), s # rb.head
          PROVE  Used(rb, s)
      BY <2>2, <1>1, <1>3 DEF Used, WellShaped, Slot
    <2>3. ASSUME NEW s \in Slot, Used(nb, s)
          PROVE  nb.slots[s] \in Record
      BY <2>2, <2>3, <1>5 DEF WellShaped
    <2>4. QED
      BY <2>1, <2>3 DEF WellShaped
  <1>9. InUse(rb) \cup {r} \subseteq InUse(nb) \cup Overwrites(rb)
    <2>1. r \in InUse(nb)
      <3>1. Used(nb, rb.head)
        BY <1>1, <1>3 DEF Used, WellShaped
      <3>2. QED
        BY <3>1, <1>2, <1>5 DEF InUse
    <2>2. ASSUME NEW s \in Slot, Used(rb, s)
          PROVE  rb.slots[s] \in InUse(nb) \cup Overwrites(rb)
      <3>1. CASE s = rb.head
        <4>1. rb.count = BufferSize
          BY <2>2, <3>1, <1>1 DEF Used, WellShaped
        <4>2. QED
          BY <3>1, <4>1 DEF Overwrites
      <3>2. CASE s # rb.head
        <4>1. \/ rb.count = BufferSize /\ nb.count = BufferSize
              \/ s < rb.count /\ nb.count = rb.count + 1
          BY <2>2, <1>1, <1>3 DEF Used
        <4>2. Used(nb, s)
          BY <4>1, <1>1 DEF Used, Slot
        <4>3. QED
          BY <3>2, <4>2, <1>5 DEF InUse
      <3>3. QED
        BY <3>1, <3>2
    <2>3. QED
      BY <2>1, <2>2 DEF InUse
  <1>10. Overwrites(rb) \in SUBSET Record
    BY <1>2 DEF Overwrites, WellShaped, Used
  <1>11. QED
    BY <1>7, <1>8, <1>9, <1>10, ContentsInUse DEF nb

-----------------------------------------------------------------------------
(* What the helpers of the C file return.                                  *)

\* The handle and the card agree: the size counts the header and the lines.
Consistent(c, f) ==
    /\ c.open => c.size = Len(f[PathOf(c)]) + 1
    /\ \A p \in Path : Len(f[p]) <= MaxFileSize

\* An outcome on card content f: well typed, consistent, and whatever left the
\* card is in its cut.
Sound(o, f) ==
    /\ o.ok \in BOOLEAN
    /\ o.csv \in Csv
    /\ o.csv.session >= 1
    /\ o.files \in Files
    /\ o.cut \in SUBSET Record
    /\ o.cost \in 0..1
    /\ Consistent(o.csv, o.files)
    /\ Stored(f) \subseteq Stored(o.files) \cup o.cut

\* The updates of the handle stay handles.
LEMMA CloseFileIsCsv ==
    ASSUME NEW c \in Csv
    PROVE  /\ CloseFile(c) \in Csv
           /\ ~CloseFile(c).open /\ ~CloseFile(c).stale
           /\ CloseFile(c).session = c.session
           /\ PathOf(CloseFile(c)) = PathOf(c)
  BY DEF Csv, CloseFile, PathOf

LEMMA SizedIsCsv ==
    ASSUME NEW c \in Csv, NEW n \in 0..(MaxFileSize + 1)
    PROVE  /\ [c EXCEPT !.size = n] \in Csv
           /\ [c EXCEPT !.size = n].size = n
           /\ [c EXCEPT !.size = n].open = c.open
           /\ [c EXCEPT !.size = n].session = c.session
           /\ PathOf([c EXCEPT !.size = n]) = PathOf(c)
  BY DEF Csv, PathOf

LEMMA OpenedIsCsv ==
    ASSUME NEW c \in Csv
    PROVE  LET d == [c EXCEPT !.open = TRUE, !.size = 1]
           IN  /\ d \in Csv
               /\ d.open /\ d.size = 1 /\ d.stale = c.stale
               /\ d.session = c.session
               /\ PathOf(d) = PathOf(c)
  <1> DEFINE d == [c EXCEPT !.open = TRUE, !.size = 1]
  <1>1. 1 \in 0..(MaxFileSize + 1) BY ConstantsOK
  <1>2. d \in Csv BY <1>1 DEF Csv
  <1>3. d.open /\ d.size = 1 /\ d.stale = c.stale /\ d.session = c.session /\ d.rot = c.rot
    BY DEF Csv
  <1> QED BY <1>2, <1>3 DEF PathOf

LEMMA RotatedIsCsv ==
    ASSUME NEW c \in Csv, c.session < MaxSession, c.session >= 1
    PROVE  Rotated(c) \in Csv /\ Rotated(c).session >= 1
  <1>1. /\ c.session \in 0..MaxSession
        /\ c.rot \in 0..MaxRotationFiles
    BY DEF Csv
  <1>2. CASE c.rot + 1 > MaxRotationFiles
    <2> DEFINE d == [c EXCEPT !.session = @ + 1, !.rot = 0]
    <2>1. Rotated(c) = d
      BY <1>2 DEF Rotated
    <2>2. c.session + 1 \in 0..MaxSession /\ 0 \in 0..MaxRotationFiles
      BY <1>1, ConstantsOK
    <2>3. d \in Csv
      BY <2>2 DEF Csv
    <2>4. d.session = c.session + 1
      BY DEF Csv
    <2>5. QED
      BY <2>1, <2>3, <2>4, <1>1
  <1>3. CASE ~(c.rot + 1 > MaxRotationFiles)
    <2> DEFINE d == [c EXCEPT !.rot = @ + 1]
    <2>1. Rotated(c) = d
      BY <1>3 DEF Rotated
    <2>2. c.rot + 1 \in 0..MaxRotationFiles
      BY <1>1, <1>3, ConstantsOK
    <2>3. d \in Csv /\ d.session = c.session
      BY <2>2 DEF Csv
    <2>4. QED
      BY <2>1, <2>3
  <1>4. QED
    BY <1>2, <1>3

\* The path of a started session is one of the card's.
LEMMA PathOfIsPath ==
    ASSUME NEW c \in Csv, c.session >= 1
    PROVE  PathOf(c) \in Path
  BY ConstantsOK DEF Csv, Path, PathOf

\* open_new_file loses from the card only what it cuts; success leaves an empty
\* open file.
LEMMA OpenNewFileSound ==
    ASSUME NEW c \in Csv, NEW f \in Files, c.session >= 1,
           \A p \in Path : Len(f[p]) <= MaxFileSize,
           NEW o \in OpenNewFile(c, f)
    PROVE  /\ Sound(o, f)
           /\ o.ok => o.csv.open /\ ~o.csv.stale /\ o.csv.size = 1
  <1> DEFINE p == PathOf(c)
             closed == CloseFile(c)
             empty == [f EXCEPT ![p] = <<>>]
  <1>1. /\ p \in Path
        /\ closed \in Csv /\ ~closed.open /\ ~closed.stale
        /\ closed.session = c.session /\ PathOf(closed) = p
        /\ f[p] \in Seq(Record)
    BY PathOfIsPath, CloseFileIsCsv DEF Files
  <1>2. /\ empty \in Files
        /\ empty[p] = <<>>
        /\ \A q \in Path : q # p => empty[q] = f[q]
    BY <1>1 DEF Files
  <1>3. ToSet(f[p]) \in SUBSET Record
    BY <1>1 DEF ToSet
  <1>4. Stored(f) \subseteq Stored(empty) \cup ToSet(f[p])
    BY <1>2 DEF Stored
  <1>5. \A q \in Path : Len(empty[q]) <= MaxFileSize
    BY <1>2, ConstantsOK
  <1> HIDE DEF p, closed, empty
  <1>6. CASE o = Outcome(FALSE, closed, f, {}, 1)
    BY <1>6, <1>1 DEF Outcome, Sound, Consistent
  <1>7. CASE o = Outcome(FALSE, [closed EXCEPT !.size = 0], empty, ToSet(f[p]), 1)
    <2> DEFINE d == [closed EXCEPT !.size = 0]
    <2>1. d \in Csv /\ ~d.open /\ d.session = c.session
      <3>1. 0 \in 0..(MaxFileSize + 1)
        BY ConstantsOK
      <3>2. QED
        BY <1>1, <3>1, SizedIsCsv
    <2> HIDE DEF d
    <2>2. /\ o.ok = FALSE /\ o.csv = d /\ o.files = empty /\ o.cut = ToSet(f[p])
          /\ o.cost = 1
      BY <1>7 DEF Outcome, d
    <2>3. Consistent(o.csv, o.files)
      BY <2>1, <2>2, <1>5 DEF Consistent
    <2>4. /\ o.ok \in BOOLEAN
          /\ ~o.ok
          /\ o.cost \in 0..1
      <3>1. o.ok \in BOOLEAN /\ ~o.ok
        BY <2>2, Zenon
      <3>2. QED
        BY <2>2, <3>1
    <2>5. o.csv \in Csv /\ o.csv.session >= 1
      BY <2>1, <2>2
    <2>6. o.files \in Files /\ o.cut \in SUBSET Record
      BY <2>2, <1>2, <1>3
    <2>7. Stored(f) \subseteq Stored(o.files) \cup o.cut
      BY <2>2, <1>4
    <2>8. QED
      BY <2>3, <2>4, <2>5, <2>6, <2>7 DEF Sound
  <1>8. CASE o = Outcome(TRUE, [closed EXCEPT !.open = TRUE, !.size = 1], empty,
                         ToSet(f[p]), 0)
    <2> DEFINE d == [closed EXCEPT !.open = TRUE, !.size = 1]
    <2>1. /\ d \in Csv /\ PathOf(d) = p /\ d.size = 1 /\ d.open /\ ~d.stale
          /\ d.session = c.session
      BY <1>1, OpenedIsCsv
    <2> HIDE DEF d
    <2>2. d.size = Len(empty[PathOf(d)]) + 1
      BY <2>1, <1>2
    <2>3. /\ o.ok = TRUE /\ o.csv = d /\ o.files = empty /\ o.cut = ToSet(f[p])
          /\ o.cost = 0
      BY <1>8 DEF Outcome, d
    <2>4. Consistent(o.csv, o.files)
      BY <2>1, <2>2, <2>3, <1>5 DEF Consistent
    <2>5. o.csv.session >= 1
      BY <2>1, <2>3
    <2>6. o.ok \in BOOLEAN /\ o.cost \in 0..1
      <3>1. o.ok \in BOOLEAN
        BY <2>3, Zenon
      <3>2. QED
        BY <2>3, <3>1
    <2>7. o.csv \in Csv /\ o.csv.open /\ ~o.csv.stale /\ o.csv.size = 1
      BY <2>1, <2>3
    <2>8. o.files \in Files /\ o.cut \in SUBSET Record
      BY <2>3, <1>2, <1>3
    <2>9. Stored(f) \subseteq Stored(o.files) \cup o.cut
      BY <2>3, <1>4
    <2>10. QED
      BY <2>4, <2>5, <2>6, <2>7, <2>8, <2>9 DEF Sound
  <1>9. QED
    BY <1>6, <1>7, <1>8 DEF OpenNewFile, p, closed, empty

\* Before the write the file is open, within the limit, or the call has failed.
LEMMA ReadyFileSound ==
    ASSUME NEW c \in Csv, NEW f \in Files, c.session >= 1, c.session < MaxSession,
           Consistent(c, f), NEW o \in ReadyFile(c, f)
    PROVE  /\ Sound(o, f)
           /\ o.ok => o.csv.open /\ o.csv.size <= MaxFileSize
  <1>1. CASE ~c.open
    BY <1>1, OpenNewFileSound, ConstantsOK DEF ReadyFile, Consistent
  <1>2. CASE c.open /\ c.size > MaxFileSize
    <2>1. Rotated(c) \in Csv /\ Rotated(c).session >= 1
      BY RotatedIsCsv
    <2>2. o \in OpenNewFile(Rotated(c), f)
      BY <1>2 DEF ReadyFile
    <2>3. QED
      BY <2>1, <2>2, OpenNewFileSound, ConstantsOK DEF Consistent
  <1>3. CASE c.open /\ ~(c.size > MaxFileSize)
    <2>1. o = Outcome(TRUE, c, f, {}, 0)
      BY <1>3 DEF ReadyFile
    <2>2. c.size <= MaxFileSize
      BY <1>3, ConstantsOK DEF Csv
    <2>3. QED
      BY <1>3, <2>1, <2>2 DEF Outcome, Sound
  <1>4. QED
    BY <1>1, <1>2, <1>3

\* A successful line is on the card; nothing else leaves it but what was cut.
LEMMA WriteCsvLineSound ==
    ASSUME NEW c \in Csv, NEW f \in Files, c.session >= 1, c.session < MaxSession,
           Consistent(c, f), NEW r \in Record, NEW o \in WriteCsvLine(c, f, r)
    PROVE  /\ Sound(o, f)
           /\ o.ok => r \in Stored(o.files)
  <1>1. CASE o \in ReadyFile(c, f) /\ ~o.ok
    BY <1>1, ReadyFileSound
  <1>2. CASE \E x \in ReadyFile(c, f) :
               x.ok /\ o = [x EXCEPT !.ok = FALSE, !.cost = IF x.csv.stale THEN 0 ELSE 1]
    <2>1. PICK x \in ReadyFile(c, f) :
               x.ok /\ o = [x EXCEPT !.ok = FALSE, !.cost = IF x.csv.stale THEN 0 ELSE 1]
      BY <1>2
    <2>2. Sound(x, f)
      BY ReadyFileSound
    <2>3. /\ o.csv = x.csv /\ o.files = x.files /\ o.cut = x.cut
          /\ o.ok = FALSE /\ o.cost \in 0..1
      BY <2>1 DEF ReadyFile, OpenNewFile, Outcome
    <2>4. QED
      BY <2>2, <2>3 DEF Sound
  <1>3. CASE \E x \in ReadyFile(c, f) :
               /\ x.ok /\ ~x.csv.stale
               /\ o = [x EXCEPT !.csv.size = @ + 1, !.files[PathOf(x.csv)] = Append(@, r)]
    <2>1. PICK x \in ReadyFile(c, f) :
               /\ x.ok /\ ~x.csv.stale
               /\ o = [x EXCEPT !.csv.size = @ + 1, !.files[PathOf(x.csv)] = Append(@, r)]
      BY <1>3
    <2> DEFINE p == PathOf(x.csv)
    <2>2. Sound(x, f) /\ x.csv.open /\ x.csv.size <= MaxFileSize
      BY <2>1, ReadyFileSound
    <2>3. /\ o.ok = x.ok /\ o.cut = x.cut /\ o.cost = x.cost
          /\ o.csv = [x.csv EXCEPT !.size = @ + 1]
          /\ o.files = [x.files EXCEPT ![p] = Append(@, r)]
      BY <2>1 DEF ReadyFile, OpenNewFile, Outcome
    <2>4. /\ p \in Path /\ x.files \in Files /\ x.files[p] \in Seq(Record)
          /\ x.csv \in Csv
      BY <2>2, ConstantsOK DEF Sound, Csv, Path, PathOf, Files
    <2>5. /\ o.csv \in Csv /\ PathOf(o.csv) = p /\ o.csv.size = x.csv.size + 1
          /\ o.csv.session = x.csv.session
      <3>1. x.csv.size + 1 \in 0..(MaxFileSize + 1)
        BY <2>2, <2>4, ConstantsOK DEF Csv
      <3>2. QED
        BY <2>3, <2>4, <3>1, SizedIsCsv
    <2>6. /\ o.files \in Files
          /\ o.files[p] = Append(x.files[p], r)
          /\ \A q \in Path : q # p => o.files[q] = x.files[q]
      BY <2>3, <2>4 DEF Files
    <2>7. /\ Len(o.files[p]) = Len(x.files[p]) + 1
          /\ ToSet(x.files[p]) \subseteq ToSet(o.files[p])
          /\ r \in ToSet(o.files[p])
      <3>1. Len(o.files[p]) = Len(x.files[p]) + 1
        BY <2>4, <2>6
      <3>2. \A k \in 1..Len(x.files[p]) : o.files[p][k] = x.files[p][k]
        BY <2>4, <2>6
      <3>3. o.files[p][Len(x.files[p]) + 1] = r
        BY <2>4, <2>6
      <3>4. /\ DOMAIN x.files[p] = 1..Len(x.files[p])
            /\ DOMAIN o.files[p] = 1..(Len(x.files[p]) + 1)
            /\ Len(x.files[p]) \in Nat
        BY <2>4, <2>6
      <3>5. ToSet(x.files[p]) \subseteq ToSet(o.files[p])
        BY <3>2, <3>4 DEF ToSet
      <3>6. r \in ToSet(o.files[p])
        <4>1. Len(x.files[p]) + 1 \in DOMAIN o.files[p]
          BY <3>4
        <4>2. QED
          BY <3>3, <4>1 DEF ToSet
      <3>7. QED
        BY <3>1, <3>5, <3>6
    <2>8. x.csv.size = Len(x.files[p]) + 1 /\ \A q \in Path : Len(x.files[q]) <= MaxFileSize
      BY <2>2 DEF Sound, Consistent
    <2>9. Consistent(o.csv, o.files)
      <3>1. o.csv.size = Len(o.files[p]) + 1
        BY <2>5, <2>7, <2>8
      <3>2. Len(o.files[p]) <= MaxFileSize
        BY <2>2, <2>4, <2>7, <2>8, ConstantsOK DEF Csv
      <3>3. QED
        BY <3>1, <3>2, <2>5, <2>6, <2>8 DEF Consistent
    <2>10. Stored(x.files) \subseteq Stored(o.files) /\ r \in Stored(o.files)
      BY <2>4, <2>6, <2>7 DEF Stored
    <2>11. QED
      BY <2>2, <2>3, <2>5, <2>6, <2>9, <2>10 DEF Sound
  <1>4. QED
    BY <1>1, <1>2, <1>3 DEF WriteCsvLine

\* The handle an outcome leaves may be closed at once.
LEMMA ClosedIsConsistent ==
    ASSUME NEW o, NEW f, Sound(o, f)
    PROVE  /\ CloseFile(o.csv) \in Csv
           /\ CloseFile(o.csv).session >= 1
           /\ Consistent(CloseFile(o.csv), o.files)
  <1>1. /\ CloseFile(o.csv) \in Csv
        /\ ~CloseFile(o.csv).open
        /\ CloseFile(o.csv).session = o.csv.session
    BY CloseFileIsCsv DEF Sound
  <1>2. QED
    BY <1>1 DEF Sound, Consistent

-----------------------------------------------------------------------------
(* Every step keeps the invariant.                                         *)

\* A step that writes: the handle and the card it leaves are sound, and what
\* the card lost is in lost.truncated.
WroteSoundly(c) ==
    /\ csv' = c /\ c \in Csv /\ c.session >= 1
    /\ files' \in Files
    /\ Consistent(c, files')
    /\ faults' \in 0..MaxFaults
    /\ lost'.truncated \in SUBSET Record
    /\ OnCard \subseteq OnCard' \cup lost'.truncated
    /\ lost.truncated \subseteq lost'.truncated

LEMMA ApplyIsSound ==
    ASSUME TypeOK, NEW o, NEW c, Sound(o, files), Apply(o, c),
           c = o.csv \/ c = CloseFile(o.csv),
           lost'.truncated = lost.truncated \cup o.cut
    PROVE  WroteSoundly(c)
  <1>1. c \in Csv /\ c.session >= 1 /\ Consistent(c, o.files)
    BY ClosedIsConsistent DEF Sound
  <1>2. /\ csv' = c /\ files' = o.files /\ faults' = faults + o.cost
        /\ faults + o.cost <= MaxFaults
    BY DEF Apply
  <1>3. faults' \in 0..MaxFaults
    BY <1>2, ConstantsOK DEF TypeOK, Sound
  <1>4. lost.truncated \in SUBSET Record /\ o.cut \in SUBSET Record
    BY DEF TypeOK, Sound, Losses
  <1>5. OnCard \subseteq Stored(o.files) \cup o.cut
    BY DEF Sound, OnCard
  <1>6. OnCard' = Stored(o.files)
    BY <1>2 DEF OnCard
  <1>7. QED
    BY <1>1, <1>2, <1>3, <1>4, <1>5, <1>6 DEF WroteSoundly, Sound

\* Nothing accounted for is forgotten by a step that writes and keeps the buffer.
LEMMA WriteKeepsAccount ==
    ASSUME EveryRecordAccounted, NEW c, WroteSoundly(c),
           ToSet(Buffered) \subseteq Accounted(files', ring', lost'),
           lost.overwritten \subseteq lost'.overwritten,
           lost.volatile \subseteq lost'.volatile
    PROVE  1..(next - 1) \subseteq Accounted(files', ring', lost')
  BY DEF EveryRecordAccounted, Accounted, WroteSoundly, OnCard, Buffered

LEMMA InitEstablishes == Init => IInv
  <1> SUFFICES ASSUME Init PROVE IInv
    OBVIOUS
  <1>1. /\ ring = EmptyRing /\ ring.count = 0 /\ ring.head = 0
        /\ ring.slots = [i \in Slot |-> 0]
    BY DEF Init, EmptyRing
  <1>2. EmptyRing \in Ring /\ WellShaped(EmptyRing)
    BY ConstantsOK DEF EmptyRing, Ring, WellShaped, Used, Slot
  <1>3. ClosedCsv \in Csv /\ ClosedCsv.open = FALSE
    BY ConstantsOK DEF ClosedCsv, Csv
  <1>4. files \in Files /\ \A p \in Path : Len(files[p]) = 0
    BY DEF Init, Files
  <1>5. lost \in Losses
    BY DEF Init, NoLoss, Losses
  <1>6. flush \in [for : Caller, i : 0..BufferSize]
    BY ConstantsOK DEF Init, NoFlush, Caller
  <1>7. TypeOK
    <2>1. /\ 0 \in 0..CounterMax /\ 0 \in 0..MaxFaults /\ 0 \in 0..MaxBoots
          /\ 0 \in 0..MaxRemounts /\ 1 \in 1..(MaxRecords + 1) /\ 0 \in Nat
      BY ConstantsOK
    <2>2. up \in BOOLEAN /\ mounted \in BOOLEAN /\ wasAvail \in BOOLEAN
      BY DEF Init
    <2>3. ring \in Ring /\ csv \in Csv
      BY <1>2, <1>3 DEF Init
    <2>4. QED
      BY <2>1, <2>2, <2>3, <1>4, <1>5, <1>6 DEF Init, TypeOK
  <1>8. SizeMatches
    BY <1>3, <1>4, ConstantsOK DEF Init, SizeMatches, FilesBounded
  <1>9. QED
    BY <1>2, <1>7, <1>8 DEF Init, IInv, SessionStarted, FlushInRange, RingShape,
       GivingUpIsRecoverable, FlushedPrefix, EveryRecordAccounted

\* What the invariant says where data_logger_log starts to write a line.
LEMMA LoggingFacts ==
    ASSUME IInv, up, pc = "idle", next <= MaxRecords, SessionRoom
    PROVE  /\ TypeOK /\ SessionStarted /\ RingShape /\ SizeMatches
           /\ GivingUpIsRecoverable /\ EveryRecordAccounted
           /\ up /\ pc = "idle" /\ next \in Record /\ csv.session < MaxSession
           /\ csv \in Csv /\ files \in Files /\ csv.session >= 1
           /\ Consistent(csv, files)
           /\ ring \in Ring /\ WellShaped(ring)
  <1>1. /\ TypeOK /\ SessionStarted /\ RingShape /\ SizeMatches
        /\ GivingUpIsRecoverable /\ EveryRecordAccounted
    BY DEF IInv
  <1>2. csv \in Csv /\ files \in Files /\ ring \in Ring /\ next \in 1..(MaxRecords + 1)
    BY <1>1 DEF TypeOK
  <1>3. next \in Record
    BY <1>2, ConstantsOK DEF Record
  <1>4. Consistent(csv, files)
    BY <1>1 DEF SizeMatches, FilesBounded, Consistent
  <1>5. QED
    BY <1>1, <1>2, <1>3, <1>4 DEF SessionStarted, SessionRoom, RingShape

LEMMA LogToCardKeeps == IInv /\ LogToCard => IInv'
  <1> SUFFICES ASSUME IInv, LogToCard PROVE IInv'
    OBVIOUS
  <1>0. /\ TypeOK /\ SessionStarted /\ RingShape /\ SizeMatches
        /\ GivingUpIsRecoverable /\ EveryRecordAccounted
        /\ up /\ pc = "idle" /\ next \in Record /\ csv.session < MaxSession
        /\ csv \in Csv /\ files \in Files /\ csv.session >= 1 /\ Consistent(csv, files)
    BY LoggingFacts DEF LogToCard
  <1>1. PICK o \in WriteCsvLine(csv, files, next) :
          /\ o.ok
          /\ Apply(o, o.csv)
          /\ lost' = [lost EXCEPT !.truncated = @ \cup o.cut]
    BY DEF LogToCard
  <1>2. Sound(o, files) /\ next \in Stored(o.files)
    BY <1>0, <1>1, WriteCsvLineSound
  <1>3. /\ lost' \in Losses
        /\ lost'.truncated = lost.truncated \cup o.cut
        /\ lost'.overwritten = lost.overwritten
        /\ lost'.volatile = lost.volatile
    BY <1>0, <1>1, <1>2 DEF TypeOK, Losses, Sound
  <1>4. WroteSoundly(o.csv)
    BY <1>0, <1>1, <1>2, <1>3, ApplyIsSound
  <1>5. /\ failures' = 0 /\ next' = next + 1
        /\ UNCHANGED <<up, wasAvail, ring, pc, flush, torn, mounted, boots, remounts,
                       bootFirst>>
    BY DEF LogToCard, card
  <1>6. TypeOK'
    <2>1. next' \in 1..(MaxRecords + 1) /\ failures' \in 0..CounterMax
      BY <1>0, <1>5, ConstantsOK DEF Record
    <2>2. QED
      BY <1>0, <1>3, <1>4, <1>5, <2>1 DEF TypeOK, WroteSoundly
  <1>7. EveryRecordAccounted'
    <2>1. 1..(next - 1) \subseteq Accounted(files', ring', lost')
      BY <1>0, <1>3, <1>4, <1>5, WriteKeepsAccount DEF Accounted, Buffered
    <2>2. next \in Accounted(files', ring', lost')
      BY <1>1, <1>2 DEF Apply, Accounted
    <2>3. 1..(next' - 1) = 1..(next - 1) \cup {next}
      BY <1>0, <1>5, ConstantsOK DEF Record
    <2>4. QED
      BY <2>1, <2>2, <2>3 DEF EveryRecordAccounted
  <1>8. SizeMatches'
    BY <1>4 DEF WroteSoundly, Consistent, SizeMatches, FilesBounded
  <1>9. SessionStarted' /\ GivingUpIsRecoverable'
    BY <1>0, <1>4, <1>5, ConstantsOK DEF SessionStarted, WroteSoundly, GivingUpIsRecoverable
  <1>10. RingShape' /\ FlushInRange' /\ FlushedPrefix'
    BY <1>0, <1>5 DEF RingShape, FlushInRange, FlushedPrefix
  <1>11. QED
    BY <1>6, <1>7, <1>8, <1>9, <1>10 DEF IInv

LEMMA LogFailsKeeps == IInv /\ LogFails => IInv'
  <1> SUFFICES ASSUME IInv, LogFails PROVE IInv'
    OBVIOUS
  <1>0. /\ TypeOK /\ SessionStarted /\ RingShape /\ SizeMatches
        /\ GivingUpIsRecoverable /\ EveryRecordAccounted
        /\ up /\ pc = "idle" /\ next \in Record /\ csv.session < MaxSession
        /\ csv \in Csv /\ files \in Files /\ csv.session >= 1 /\ Consistent(csv, files)
        /\ ring \in Ring /\ WellShaped(ring)
    BY LoggingFacts DEF LogFails
  <1> DEFINE kept(o) == IF GivesUp(failures') THEN CloseFile(o.csv) ELSE o.csv
  <1>1. PICK o \in WriteCsvLine(csv, files, next) :
          /\ ~o.ok
          /\ Apply(o, kept(o))
          /\ lost' = [lost EXCEPT !.truncated = @ \cup o.cut,
                                  !.overwritten = @ \cup Overwrites(ring)]
    BY DEF LogFails
  <1>2. Sound(o, files)
    BY <1>0, <1>1, WriteCsvLineSound
  <1>3. /\ ring' \in Ring /\ WellShaped(ring')
        /\ ToSet(Contents(ring)) \cup {next} \subseteq ToSet(Contents(ring')) \cup Overwrites(ring)
        /\ Overwrites(ring) \in SUBSET Record
    BY <1>0, BufferPushSound DEF LogFails
  <1>4. /\ lost' \in Losses
        /\ lost'.truncated = lost.truncated \cup o.cut
        /\ lost'.overwritten = lost.overwritten \cup Overwrites(ring)
        /\ lost'.volatile = lost.volatile
    BY <1>0, <1>1, <1>2, <1>3 DEF TypeOK, Losses, Sound
  <1>5. WroteSoundly(kept(o))
    BY <1>0, <1>1, <1>2, <1>4, ApplyIsSound
  <1>6. /\ failures' = IF failures < CounterMax THEN failures + 1 ELSE failures
        /\ wasAvail' = (wasAvail /\ ~GivesUp(failures'))
        /\ next' = next + 1
        /\ UNCHANGED <<up, pc, flush, torn, mounted, boots, remounts, bootFirst>>
    BY DEF LogFails, card
  <1>7. TypeOK'
    <2>1. next' \in 1..(MaxRecords + 1) /\ failures' \in 0..CounterMax
      BY <1>0, <1>6, ConstantsOK DEF Record, TypeOK
    <2>2. wasAvail' \in BOOLEAN
      BY <1>6
    <2>3. QED
      BY <1>0, <1>3, <1>4, <1>5, <1>6, <2>1, <2>2 DEF TypeOK, WroteSoundly
  <1>8. EveryRecordAccounted'
    <2>1. ToSet(Buffered) \cup {next} \subseteq Accounted(files', ring', lost')
      BY <1>3, <1>4 DEF Accounted, Buffered
    <2>2. 1..(next - 1) \subseteq Accounted(files', ring', lost')
      BY <1>0, <1>4, <1>5, <2>1, WriteKeepsAccount
    <2>3. 1..(next' - 1) = 1..(next - 1) \cup {next}
      BY <1>0, <1>6, ConstantsOK DEF Record
    <2>4. QED
      BY <2>1, <2>2, <2>3 DEF EveryRecordAccounted
  <1>9. SizeMatches'
    BY <1>5 DEF WroteSoundly, Consistent, SizeMatches, FilesBounded
  <1>10. SessionStarted' /\ GivingUpIsRecoverable'
    BY <1>0, <1>5, <1>6 DEF SessionStarted, WroteSoundly, GivingUpIsRecoverable, GivesUp
  <1>11. RingShape' /\ FlushInRange' /\ FlushedPrefix'
    BY <1>0, <1>3, <1>6 DEF RingShape, FlushInRange, FlushedPrefix
  <1>12. QED
    BY <1>7, <1>8, <1>9, <1>10, <1>11 DEF IInv

LEMMA LogToBufferKeeps == IInv /\ LogToBuffer => IInv'
  <1> SUFFICES ASSUME IInv, LogToBuffer PROVE IInv'
    OBVIOUS
  <1>0. /\ TypeOK /\ SessionStarted /\ RingShape /\ SizeMatches
        /\ GivingUpIsRecoverable /\ EveryRecordAccounted
        /\ up /\ pc = "idle" /\ next \in Record /\ ring \in Ring /\ WellShaped(ring)
    BY ConstantsOK DEF IInv, LogToBuffer, TypeOK, Record, RingShape
  <1>1. /\ ring' \in Ring /\ WellShaped(ring')
        /\ ToSet(Contents(ring)) \cup {next} \subseteq ToSet(Contents(ring')) \cup Overwrites(ring)
        /\ Overwrites(ring) \in SUBSET Record
    BY <1>0, BufferPushSound DEF LogToBuffer
  <1>2. lost' = [lost EXCEPT !.overwritten = @ \cup Overwrites(ring)]
    BY DEF LogToBuffer
  <1>3. /\ lost' \in Losses
        /\ lost'.truncated = lost.truncated
        /\ lost'.overwritten = lost.overwritten \cup Overwrites(ring)
        /\ lost'.volatile = lost.volatile
    BY <1>0, <1>1, <1>2 DEF TypeOK, Losses
  <1>4. /\ next' = next + 1
        /\ UNCHANGED <<up, wasAvail, failures, csv, files, pc, flush, faults, torn,
                       mounted, boots, remounts, bootFirst>>
    BY DEF LogToBuffer, card
  <1>5. TypeOK'
    <2>1. next' \in 1..(MaxRecords + 1)
      BY <1>0, <1>4, ConstantsOK DEF Record
    <2>2. QED
      BY <1>0, <1>1, <1>3, <1>4, <2>1 DEF TypeOK
  <1>6. EveryRecordAccounted'
    <2>1. 1..(next' - 1) = 1..(next - 1) \cup {next}
      BY <1>0, <1>4, ConstantsOK DEF Record
    <2>2. Accounted(files, ring, lost) \cup {next} \subseteq Accounted(files', ring', lost')
      BY <1>1, <1>3, <1>4 DEF Accounted
    <2>3. QED
      BY <1>0, <2>1, <2>2 DEF EveryRecordAccounted
  <1>7. RingShape' /\ FlushInRange' /\ FlushedPrefix'
    BY <1>0, <1>1, <1>4 DEF RingShape, FlushInRange, FlushedPrefix
  <1>8. SizeMatches' /\ SessionStarted' /\ GivingUpIsRecoverable'
    BY <1>0, <1>4 DEF SizeMatches, FilesBounded, SessionStarted, GivingUpIsRecoverable
  <1>9. QED
    BY <1>5, <1>6, <1>7, <1>8 DEF IInv

\* The state data_logger_init and a power cut restart from.
LEMMA FreshState ==
    /\ EmptyRing \in Ring /\ WellShaped(EmptyRing)
    /\ ClosedCsv \in Csv /\ ~ClosedCsv.open
    /\ NoFlush \in [for : Caller, i : 0..BufferSize]
  BY ConstantsOK DEF EmptyRing, Ring, WellShaped, Used, Slot, ClosedCsv, Csv, NoFlush,
     Caller

LEMMA NewSessionIsCsv ==
    ASSUME NEW c \in Csv, c.session < MaxStarts
    PROVE  /\ NewSession(c) \in Csv
           /\ ~NewSession(c).open
           /\ NewSession(c).session >= 1
  <1>1. c.session \in Nat /\ c.session + 1 \in 0..MaxSession
    BY ConstantsOK DEF Csv
  <1>2. NewSession(c) = [ClosedCsv EXCEPT !.session = c.session + 1]
    BY DEF NewSession
  <1>3. NewSession(c) \in Csv
    BY <1>1, <1>2, FreshState DEF Csv
  <1>4. NewSession(c).session = c.session + 1 /\ ~NewSession(c).open
    BY <1>2 DEF ClosedCsv
  <1>5. QED
    BY <1>1, <1>3, <1>4

LEMMA InitWithoutCardKeeps == IInv /\ InitWithoutCard => IInv'
  <1> SUFFICES ASSUME IInv, InitWithoutCard PROVE IInv'
    OBVIOUS
  <1>0. /\ TypeOK /\ SizeMatches /\ SessionStarted /\ EveryRecordAccounted
        /\ ~up /\ pc = "idle" /\ csv \in Csv /\ csv.session < MaxStarts
        /\ ring \in Ring /\ WellShaped(ring)
    BY DEF IInv, InitWithoutCard, TypeOK, SessionStarted, RingShape
  <1>1. /\ csv' \in Csv /\ ~csv'.open /\ csv'.session >= 1
    BY <1>0, NewSessionIsCsv DEF InitWithoutCard
  <1>2. ToSet(Buffered) \in SUBSET Record
    BY <1>0, ContentsInUse DEF Buffered, InUse, WellShaped
  <1>3. lost' = [lost EXCEPT !.volatile = @ \cup ToSet(Buffered)]
    BY DEF InitWithoutCard
  <1>4. /\ lost' \in Losses
        /\ lost'.truncated = lost.truncated
        /\ lost'.overwritten = lost.overwritten
        /\ lost'.volatile = lost.volatile \cup ToSet(Buffered)
    BY <1>0, <1>2, <1>3 DEF TypeOK, Losses
  <1>5. /\ up' = TRUE /\ wasAvail' = FALSE /\ failures' = 0 /\ ring' = EmptyRing
        /\ UNCHANGED <<files, pc, flush, next, faults, torn, mounted, boots, remounts,
                       bootFirst>>
    BY DEF InitWithoutCard, card
  <1>6. TypeOK'
    <2>1. failures' \in 0..CounterMax
      BY <1>5, ConstantsOK
    <2>2. up' \in BOOLEAN /\ wasAvail' \in BOOLEAN
      BY <1>5
    <2>3. ring' \in Ring
      BY <1>5, FreshState
    <2>4. QED
      BY <1>0, <1>1, <1>4, <1>5, <2>1, <2>2, <2>3 DEF TypeOK
  <1>7. EveryRecordAccounted'
    BY <1>0, <1>4, <1>5 DEF EveryRecordAccounted, Accounted, Buffered
  <1>8. QED
    BY <1>0, <1>1, <1>5, <1>6, <1>7, FreshState DEF IInv, SessionStarted, FlushInRange,
       RingShape, SizeMatches, FilesBounded, GivingUpIsRecoverable, FlushedPrefix

LEMMA InitWithCardKeeps == IInv /\ InitWithCard => IInv'
  <1> SUFFICES ASSUME IInv, InitWithCard PROVE IInv'
    OBVIOUS
  <1>0. /\ TypeOK /\ SizeMatches /\ SessionStarted /\ EveryRecordAccounted
        /\ ~up /\ pc = "idle" /\ csv \in Csv /\ csv.session < MaxStarts /\ files \in Files
        /\ ring \in Ring /\ WellShaped(ring)
        /\ \A p \in Path : Len(files[p]) <= MaxFileSize
    BY DEF IInv, InitWithCard, TypeOK, SessionStarted, RingShape, SizeMatches,
       FilesBounded
  <1>1. PICK o \in OpenNewFile(NewSession(csv), files) :
          /\ Apply(o, o.csv)
          /\ wasAvail' = o.ok
          /\ lost' = [lost EXCEPT !.volatile = @ \cup ToSet(Buffered),
                                  !.truncated = @ \cup o.cut]
    BY DEF InitWithCard
  <1>2. Sound(o, files)
    BY <1>0, <1>1, NewSessionIsCsv, OpenNewFileSound
  <1>3. ToSet(Buffered) \in SUBSET Record
    BY <1>0, ContentsInUse DEF Buffered, InUse, WellShaped
  <1>4. /\ lost' \in Losses
        /\ lost'.truncated = lost.truncated \cup o.cut
        /\ lost'.overwritten = lost.overwritten
        /\ lost'.volatile = lost.volatile \cup ToSet(Buffered)
    BY <1>0, <1>1, <1>2, <1>3 DEF TypeOK, Losses, Sound
  <1>5. WroteSoundly(o.csv)
    BY <1>0, <1>1, <1>2, <1>4, ApplyIsSound
  <1>6. /\ up' = TRUE /\ failures' = 0 /\ ring' = EmptyRing
        /\ UNCHANGED <<pc, flush, next, torn, mounted, boots, remounts, bootFirst>>
    BY DEF InitWithCard, card
  <1>7. TypeOK'
    <2>1. failures' \in 0..CounterMax
      BY <1>6, ConstantsOK
    <2>2. up' \in BOOLEAN /\ wasAvail' \in BOOLEAN
      BY <1>1, <1>2, <1>6 DEF Sound
    <2>3. ring' \in Ring
      BY <1>6, FreshState
    <2>4. QED
      BY <1>0, <1>4, <1>5, <1>6, <2>1, <2>2, <2>3 DEF TypeOK, WroteSoundly
  <1>8. EveryRecordAccounted'
    <2>1. ToSet(Buffered) \subseteq Accounted(files', ring', lost')
      BY <1>4 DEF Accounted
    <2>2. 1..(next - 1) \subseteq Accounted(files', ring', lost')
      BY <1>0, <1>4, <1>5, <2>1, WriteKeepsAccount
    <2>3. QED
      BY <1>6, <2>2 DEF EveryRecordAccounted
  <1>9. SizeMatches'
    BY <1>5 DEF WroteSoundly, Consistent, SizeMatches, FilesBounded
  <1>10. SessionStarted' /\ FlushInRange' /\ FlushedPrefix' /\ RingShape'
    BY <1>0, <1>5, <1>6, FreshState DEF SessionStarted, WroteSoundly, FlushInRange,
       FlushedPrefix, RingShape
  <1>11. GivingUpIsRecoverable'
    BY <1>6, ConstantsOK DEF GivingUpIsRecoverable
  <1>12. QED
    BY <1>7, <1>8, <1>9, <1>10, <1>11 DEF IInv

\* check_sd and deinit steps that write nothing.
LEMMA QuietStepsKeep ==
    IInv /\ (CheckSdNoTransition \/ FlushBuffer \/ DeinitFlush \/ Deinit) => IInv'
  <1> SUFFICES ASSUME IInv,
                      CheckSdNoTransition \/ FlushBuffer \/ DeinitFlush \/ Deinit
               PROVE  IInv'
    OBVIOUS
  <1>0. /\ TypeOK /\ SizeMatches /\ SessionStarted /\ EveryRecordAccounted /\ RingShape
        /\ GivingUpIsRecoverable
    BY DEF IInv
  <1>1. /\ UNCHANGED <<failures, ring, files, next, faults, torn, lost, mounted, boots,
                       remounts, bootFirst>>
        /\ csv' = csv \/ (csv' = CloseFile(csv) /\ ~up')
        /\ up /\ up' \in BOOLEAN
    BY DEF CheckSdNoTransition, FlushBuffer, DeinitFlush, Deinit, card
  <1>2. /\ csv' \in Csv /\ csv'.session = csv.session /\ PathOf(csv') = PathOf(csv)
        /\ csv'.open => csv.open /\ csv'.size = csv.size
    BY <1>0, <1>1, CloseFileIsCsv DEF TypeOK
  <1>3. /\ pc' \in {"idle", "flush"}
        /\ flush' \in [for : Caller, i : 0..BufferSize]
        /\ pc' = "flush" => up' /\ flush'.i = 0
        /\ wasAvail' \in BOOLEAN
    <2>1. CASE CheckSdNoTransition \/ Deinit
      BY <2>1, <1>0 DEF CheckSdNoTransition, Deinit, TypeOK
    <2>2. CASE FlushBuffer \/ DeinitFlush
      BY <2>2, <1>0, ConstantsOK DEF FlushBuffer, DeinitFlush, TypeOK, Caller
    <2>3. QED
      BY <2>1, <2>2
  <1>4. GivingUpIsRecoverable'
    BY <1>0, <1>1 DEF GivingUpIsRecoverable, CheckSdNoTransition, FlushBuffer, DeinitFlush,
       Deinit
  <1>5. TypeOK'
    BY <1>0, <1>1, <1>2, <1>3 DEF TypeOK
  <1>6. SizeMatches'
    BY <1>0, <1>1, <1>2 DEF SizeMatches, FilesBounded
  <1>7. SessionStarted' /\ RingShape' /\ EveryRecordAccounted'
    BY <1>0, <1>1, <1>2, <1>3 DEF SessionStarted, RingShape, EveryRecordAccounted
  <1>8. FlushInRange' /\ FlushedPrefix'
    <2>1. ring.count \in Nat
      BY <1>0, ConstantsOK DEF TypeOK, Ring
    <2>2. QED
      BY <1>1, <1>3, <2>1 DEF FlushInRange, FlushedPrefix
  <1>9. QED
    BY <1>4, <1>5, <1>6, <1>7, <1>8 DEF IInv

\* check_sd on a card that became available: the file is reopened or not.
LEMMA CheckSdOpensKeeps == IInv /\ (CheckSdOpenFails \/ CheckSdFlush) => IInv'
  <1> SUFFICES ASSUME IInv, CheckSdOpenFails \/ CheckSdFlush PROVE IInv'
    OBVIOUS
  <1>0. /\ TypeOK /\ SizeMatches /\ SessionStarted /\ EveryRecordAccounted /\ RingShape
        /\ GivingUpIsRecoverable
        /\ up /\ csv \in Csv /\ csv.session >= 1 /\ files \in Files
        /\ \A p \in Path : Len(files[p]) <= MaxFileSize
        /\ ring.count \in Nat
    BY ConstantsOK DEF IInv, CheckSdOpenFails, CheckSdFlush, TypeOK, SessionStarted,
       SizeMatches, FilesBounded, Ring
  <1>1. /\ UNCHANGED <<up, wasAvail, failures, ring, next, torn, mounted, boots, remounts,
                       bootFirst>>
    BY DEF CheckSdOpenFails, CheckSdFlush, card
  <1>2. /\ pc' \in {"idle", "flush"}
        /\ flush' \in [for : Caller, i : 0..BufferSize]
        /\ pc' = "flush" => flush'.i = 0
    <2>1. CASE CheckSdOpenFails
      BY <2>1, <1>0 DEF CheckSdOpenFails, TypeOK
    <2>2. CASE CheckSdFlush
      BY <2>2, ConstantsOK DEF CheckSdFlush, Caller
    <2>3. QED
      BY <2>1, <2>2
  <1>3. CASE UNCHANGED <<csv, files, faults, lost>>
    <2>1. TypeOK'
      BY <1>0, <1>1, <1>2, <1>3 DEF TypeOK
    <2>2. /\ SizeMatches' /\ SessionStarted' /\ RingShape' /\ EveryRecordAccounted'
          /\ GivingUpIsRecoverable'
      BY <1>0, <1>1, <1>3 DEF SizeMatches, FilesBounded, SessionStarted, RingShape,
         EveryRecordAccounted, GivingUpIsRecoverable
    <2>3. FlushInRange' /\ FlushedPrefix'
      BY <1>0, <1>1, <1>2 DEF FlushInRange, FlushedPrefix
    <2>4. QED
      BY <2>1, <2>2, <2>3 DEF IInv
  <1>4. CASE \E o \in OpenNewFile(csv, files) :
               /\ Apply(o, o.csv)
               /\ lost' = [lost EXCEPT !.truncated = @ \cup o.cut]
    <2>1. PICK o \in OpenNewFile(csv, files) :
               /\ Apply(o, o.csv)
               /\ lost' = [lost EXCEPT !.truncated = @ \cup o.cut]
      BY <1>4
    <2>2. Sound(o, files)
      BY <1>0, OpenNewFileSound
    <2>3. /\ lost' \in Losses
          /\ lost'.truncated = lost.truncated \cup o.cut
          /\ lost'.overwritten = lost.overwritten
          /\ lost'.volatile = lost.volatile
      BY <1>0, <2>1, <2>2 DEF TypeOK, Losses, Sound
    <2>4. WroteSoundly(o.csv)
      BY <1>0, <2>1, <2>2, <2>3, ApplyIsSound
    <2>5. TypeOK'
      BY <1>0, <1>1, <1>2, <2>3, <2>4 DEF TypeOK, WroteSoundly
    <2>6. EveryRecordAccounted'
      <3>1. 1..(next - 1) \subseteq Accounted(files', ring', lost')
        BY <1>0, <1>1, <2>3, <2>4, WriteKeepsAccount DEF Accounted, Buffered
      <3>2. QED
        BY <1>1, <3>1 DEF EveryRecordAccounted
    <2>7. SizeMatches'
      BY <2>4 DEF WroteSoundly, Consistent, SizeMatches, FilesBounded
    <2>8. SessionStarted' /\ RingShape' /\ GivingUpIsRecoverable'
      BY <1>0, <1>1, <1>2, <2>4 DEF SessionStarted, WroteSoundly, RingShape,
         GivingUpIsRecoverable
    <2>9. FlushInRange' /\ FlushedPrefix'
      BY <1>0, <1>1, <1>2 DEF FlushInRange, FlushedPrefix
    <2>10. QED
      BY <2>5, <2>6, <2>7, <2>8, <2>9 DEF IInv
  <1>5. QED
    BY <1>3, <1>4 DEF CheckSdOpenFails, CheckSdFlush

\* The two outcomes of a line of the flush loop.
LEMMA FlushWritesKeeps == IInv /\ (FlushLine \/ FlushFails) => IInv'
  <1> SUFFICES ASSUME IInv, FlushLine \/ FlushFails PROVE IInv'
    OBVIOUS
  <1>0. /\ TypeOK /\ SizeMatches /\ SessionStarted /\ EveryRecordAccounted /\ RingShape
        /\ GivingUpIsRecoverable /\ FlushedPrefix
        /\ up /\ pc = "flush" /\ csv \in Csv /\ csv.session >= 1 /\ csv.session < MaxSession
        /\ files \in Files /\ Consistent(csv, files)
        /\ ring \in Ring /\ WellShaped(ring)
        /\ ring.count \in 0..BufferSize /\ flush.i \in Nat /\ flush.i < ring.count
    <2>1. pc = "flush" /\ csv.session < MaxSession /\ flush.i < ring.count
      BY DEF FlushLine, FlushFails, SessionRoom
    <2>2. /\ TypeOK /\ SizeMatches /\ SessionStarted /\ EveryRecordAccounted /\ RingShape
          /\ GivingUpIsRecoverable /\ FlushedPrefix
      BY DEF IInv
    <2>3. csv \in Csv /\ files \in Files /\ ring \in Ring /\ flush.i \in Nat
      BY <2>2, ConstantsOK DEF TypeOK
    <2>4. ring.count \in 0..BufferSize
      BY <2>3 DEF Ring
    <2>5. Consistent(csv, files)
      BY <2>2 DEF SizeMatches, FilesBounded, Consistent
    <2>6. QED
      BY <2>1, <2>2, <2>3, <2>4, <2>5 DEF SessionStarted, RingShape
  <1> DEFINE r == RecordAt(ring, flush.i)
  <1>1. r \in Record
    BY <1>0, RecordAtSlot
  <1>2. PICK o \in WriteCsvLine(csv, files, r) :
          /\ \E c \in {o.csv, CloseFile(o.csv)} : Apply(o, c)
          /\ lost' = [lost EXCEPT !.truncated = @ \cup o.cut]
          /\ FlushLine => o.ok
    <2>1. CASE FlushLine
      BY <2>1 DEF FlushLine
    <2>2. CASE FlushFails /\ ~FlushLine
      BY <2>2 DEF FlushFails
    <2>3. QED
      BY <2>1, <2>2
  <1>3. Sound(o, files) /\ (o.ok => r \in Stored(o.files))
    BY <1>0, <1>1, WriteCsvLineSound
  <1>4. /\ lost' \in Losses
        /\ lost'.truncated = lost.truncated \cup o.cut
        /\ lost'.overwritten = lost.overwritten
        /\ lost'.volatile = lost.volatile
    BY <1>0, <1>2, <1>3 DEF TypeOK, Losses, Sound
  <1> PICK c \in {o.csv, CloseFile(o.csv)} : Apply(o, c)
    BY <1>2
  <1>5. WroteSoundly(c)
    BY <1>0, <1>2, <1>3, <1>4, ApplyIsSound
  <1>6. UNCHANGED <<wasAvail, failures, ring, next, mounted, boots, remounts, bootFirst>>
    BY DEF FlushLine, FlushFails, card
  <1>7. /\ up' \in BOOLEAN
        /\ torn' \in Nat
        /\ pc' \in {"idle", "flush"}
        /\ flush' \in [for : Caller, i : 0..BufferSize]
        /\ pc' = "flush" => FlushLine /\ up' /\ flush'.i = flush.i + 1
    <2>1. CASE FlushLine
      <3>1. flush.i + 1 \in 0..BufferSize
        BY <1>0, ConstantsOK
      <3>2. QED
        BY <2>1, <1>0, <3>1 DEF FlushLine, TypeOK
    <2>2. CASE FlushFails
      BY <2>2, <1>0, FreshState DEF FlushFails, TypeOK
    <2>3. QED
      BY <2>1, <2>2
  <1>8. TypeOK'
    BY <1>0, <1>4, <1>5, <1>6, <1>7 DEF TypeOK, WroteSoundly
  <1>9. EveryRecordAccounted'
    <2>1. 1..(next - 1) \subseteq Accounted(files', ring', lost')
      BY <1>0, <1>4, <1>5, <1>6, WriteKeepsAccount DEF Accounted, Buffered
    <2>2. QED
      BY <1>6, <2>1 DEF EveryRecordAccounted
  <1>10. SizeMatches'
    BY <1>5 DEF WroteSoundly, Consistent, SizeMatches, FilesBounded
  <1>11. SessionStarted' /\ RingShape' /\ GivingUpIsRecoverable'
    BY <1>0, <1>5, <1>6, <1>7 DEF SessionStarted, WroteSoundly, RingShape,
       GivingUpIsRecoverable
  <1>12. FlushInRange'
    BY <1>0, <1>6, <1>7 DEF FlushInRange
  <1>13. FlushedPrefix'
    <2> SUFFICES ASSUME pc' = "flush", NEW k \in 0..(flush'.i - 1)
                 PROVE  RecordAt(ring', k) \in OnCard' \cup lost'.truncated
      BY DEF FlushedPrefix
    <2>1. ring' = ring /\ o.ok /\ k \in 0..flush.i
      BY <1>0, <1>2, <1>6, <1>7
    <2>2. CASE k = flush.i
      BY <2>1, <2>2, <1>2, <1>3 DEF Apply, OnCard
    <2>3. CASE k # flush.i
      <3>1. RecordAt(ring, k) \in OnCard \cup lost.truncated
        BY <1>0, <2>1, <2>3 DEF FlushedPrefix
      <3>2. QED
        BY <2>1, <3>1, <1>5 DEF WroteSoundly
    <2>4. QED
      BY <2>2, <2>3
  <1>14. QED
    BY <1>8, <1>9, <1>10, <1>11, <1>12, <1>13 DEF IInv

LEMMA FlushDoneKeeps == IInv /\ FlushDone => IInv'
  <1> SUFFICES ASSUME IInv, FlushDone PROVE IInv'
    OBVIOUS
  <1>0. /\ TypeOK /\ SizeMatches /\ SessionStarted /\ EveryRecordAccounted /\ RingShape
        /\ GivingUpIsRecoverable /\ FlushedPrefix
        /\ up /\ pc = "flush" /\ csv \in Csv /\ flush.i = ring.count
        /\ ring \in Ring /\ ring.count \in Nat
    BY ConstantsOK DEF IInv, FlushDone, TypeOK, SessionStarted, Ring
  <1>1. /\ ring' = [ring EXCEPT !.head = 0, !.count = 0]
        /\ UNCHANGED <<files, next, faults, torn, lost, mounted, boots, remounts, bootFirst>>
        /\ csv' = csv \/ csv' = CloseFile(csv)
        /\ up' \in BOOLEAN /\ wasAvail' \in BOOLEAN
        /\ pc' = "idle" /\ flush' = NoFlush
        /\ \/ failures' = 0
           \/ failures' = failures /\ wasAvail' = wasAvail
    BY <1>0 DEF FlushDone, card, TypeOK
  <1>2. ring' \in Ring /\ WellShaped(ring')
    <2>1. /\ 0 \in Slot /\ 0 \in 0..BufferSize
          /\ BufferSize # 0 /\ \A s \in Slot : ~(s < 0)
      BY ConstantsOK DEF Slot
    <2>2. /\ ring'.slots = ring.slots /\ ring'.head = 0 /\ ring'.count = 0
          /\ ring' = [slots |-> ring.slots, head |-> 0, count |-> 0]
          /\ ring.slots \in [Slot -> 0..MaxRecords]
      BY <1>0, <1>1 DEF Ring
    <2>3. ring' \in Ring
      BY <2>1, <2>2 DEF Ring
    <2>4. QED
      BY <2>1, <2>2, <2>3 DEF WellShaped, Used
  <1>3. /\ csv' \in Csv /\ csv'.session = csv.session /\ PathOf(csv') = PathOf(csv)
        /\ csv'.open => csv.open /\ csv'.size = csv.size
    BY <1>0, <1>1, CloseFileIsCsv
  <1>4. failures' \in 0..CounterMax
    BY <1>0, <1>1, ConstantsOK DEF TypeOK
  <1>5. TypeOK'
    BY <1>0, <1>1, <1>2, <1>3, <1>4, FreshState DEF TypeOK
  <1>6. EveryRecordAccounted'
    <2>1. ASSUME NEW x \in ToSet(Contents(ring))
          PROVE  x \in Stored(files) \cup lost.truncated
      <3>1. PICK k \in 1..ring.count : x = RecordAt(ring, k - 1)
        BY <2>1 DEF ToSet, Contents
      <3>2. k - 1 \in 0..(flush.i - 1)
        BY <1>0, <3>1
      <3>3. QED
        BY <1>0, <3>1, <3>2 DEF FlushedPrefix, OnCard
    <2>2. Accounted(files, ring, lost) \subseteq Accounted(files', ring', lost')
      BY <1>1, <2>1 DEF Accounted
    <2>3. QED
      BY <1>0, <1>1, <2>2 DEF EveryRecordAccounted
  <1>7. SizeMatches'
    BY <1>0, <1>1, <1>3 DEF SizeMatches, FilesBounded
  <1>8. SessionStarted' /\ RingShape' /\ FlushInRange' /\ FlushedPrefix'
    BY <1>0, <1>1, <1>2, <1>3 DEF SessionStarted, RingShape, FlushInRange, FlushedPrefix
  <1>9. GivingUpIsRecoverable'
    BY <1>0, <1>1, ConstantsOK DEF GivingUpIsRecoverable
  <1>10. QED
    BY <1>5, <1>6, <1>7, <1>8, <1>9 DEF IInv

LEMMA PowerCycleKeeps == IInv /\ PowerCycle => IInv'
  <1> SUFFICES ASSUME IInv, PowerCycle PROVE IInv'
    OBVIOUS
  <1>0. /\ TypeOK /\ SizeMatches /\ EveryRecordAccounted
        /\ ring \in Ring /\ WellShaped(ring)
        /\ next \in 1..(MaxRecords + 1)
    BY DEF IInv, TypeOK, RingShape
  <1>1. ToSet(Buffered) \in SUBSET Record
    BY <1>0, ContentsInUse DEF Buffered, InUse, WellShaped
  <1>2. lost' = [lost EXCEPT !.volatile = @ \cup ToSet(Buffered)]
    BY DEF PowerCycle
  <1>3. /\ lost' \in Losses
        /\ lost'.truncated = lost.truncated
        /\ lost'.overwritten = lost.overwritten
        /\ lost'.volatile = lost.volatile \cup ToSet(Buffered)
    BY <1>0, <1>1, <1>2 DEF TypeOK, Losses
  <1>4. /\ up' = FALSE /\ wasAvail' = FALSE /\ failures' = 0 /\ ring' = EmptyRing
        /\ csv' = ClosedCsv /\ pc' = "idle" /\ flush' = NoFlush
        /\ bootFirst' = next /\ mounted' \in BOOLEAN
        /\ UNCHANGED <<files, next, faults, remounts, torn>>
    BY DEF PowerCycle
  <1>5. boots' \in 0..MaxBoots /\ failures' \in 0..CounterMax
    BY <1>0, <1>4, ConstantsOK DEF PowerCycle, TypeOK
  <1>6. TypeOK'
    <2>1. up' \in BOOLEAN /\ wasAvail' \in BOOLEAN
      BY <1>4
    <2>2. ring' \in Ring /\ csv' \in Csv /\ flush' \in [for : Caller, i : 0..BufferSize]
      BY <1>4, FreshState
    <2>3. QED
      BY <1>0, <1>3, <1>4, <1>5, <2>1, <2>2 DEF TypeOK
  <1>7. EveryRecordAccounted'
    BY <1>0, <1>3, <1>4 DEF EveryRecordAccounted, Accounted, Buffered
  <1>8. SizeMatches'
    BY <1>0, <1>4, FreshState DEF SizeMatches, FilesBounded
  <1>9. QED
    BY <1>4, <1>6, <1>7, <1>8, FreshState DEF IInv, SessionStarted, RingShape,
       FlushInRange, FlushedPrefix, GivingUpIsRecoverable

LEMMA RemountKeeps == IInv /\ Remount => IInv'
  <1> SUFFICES ASSUME IInv, Remount PROVE IInv'
    OBVIOUS
  <1>0. TypeOK /\ csv \in Csv /\ mounted \in BOOLEAN
    BY DEF IInv, TypeOK
  <1>1. /\ csv' = [csv EXCEPT !.stale = @ \/ csv.open]
        /\ mounted' = ~mounted
        /\ UNCHANGED <<up, wasAvail, failures, ring, files, pc, flush, next, bootFirst,
                       faults, boots, torn, lost>>
    BY DEF Remount
  <1>2. csv' \in Csv
    BY <1>0, <1>1 DEF Csv
  <1>3. /\ csv'.open = csv.open /\ csv'.size = csv.size /\ csv'.session = csv.session
        /\ csv'.rot = csv.rot
    BY <1>0, <1>1 DEF Csv
  <1>4. remounts' \in 0..MaxRemounts
    BY <1>0, ConstantsOK DEF Remount, TypeOK
  <1>5. TypeOK'
    BY <1>0, <1>1, <1>2, <1>4 DEF TypeOK
  <1>6. PathOf(csv') = PathOf(csv)
    BY <1>3 DEF PathOf
  <1>7. SizeMatches'
    BY <1>1, <1>3, <1>6 DEF IInv, SizeMatches, FilesBounded
  <1>8. QED
    BY <1>1, <1>3, <1>5, <1>7 DEF IInv, SessionStarted, FlushInRange, RingShape,
       GivingUpIsRecoverable, FlushedPrefix, OnCard, EveryRecordAccounted

-----------------------------------------------------------------------------
(* The theorems.                                                           *)

LEMMA NextKeeps == IInv /\ [Next]_vars => IInv'
  <1>1. IInv /\ LogRecord => IInv'
    BY LogToCardKeeps, LogFailsKeeps, LogToBufferKeeps DEF LogRecord
  <1>2. IInv /\ CheckSd => IInv'
    BY QuietStepsKeep, CheckSdOpensKeeps DEF CheckSd
  <1>3. IInv /\ FlushStep => IInv'
    BY FlushWritesKeeps, FlushDoneKeeps DEF FlushStep
  <1>4. IInv /\ UNCHANGED vars => IInv'
    BY DEF vars, IInv, TypeOK, SessionStarted, FlushInRange, RingShape, SizeMatches,
       FilesBounded, GivingUpIsRecoverable, FlushedPrefix, OnCard, EveryRecordAccounted
  <1>5. QED
    BY <1>1, <1>2, <1>3, <1>4, InitWithoutCardKeeps, InitWithCardKeeps, QuietStepsKeep,
       PowerCycleKeeps, RemountKeeps DEF Next

\* The strengthened invariant holds in every reachable state.
THEOREM Invariance == Spec => []IInv
  BY InitEstablishes, NextKeeps, PTL DEF Spec

\* Types: every variable of data_logger.c keeps its range, whatever the card does.
THEOREM TypeCorrect == Spec => []TypeOK
  <1>1. IInv => TypeOK
    BY DEF IInv
  <1>2. QED
    BY <1>1, Invariance, PTL

\* data_logger_log loses no record unseen: each is on the card, in the RAM buffer
\* or in one of the three named losses, for every buffer and file size.
THEOREM NoRecordUnaccounted == Spec => []EveryRecordAccounted
  <1>1. IInv => EveryRecordAccounted
    BY DEF IInv
  <1>2. QED
    BY <1>1, Invariance, PTL

\* After data_logger_log gave up on the card, data_logger_check_sd will see it as
\* newly available.
THEOREM GiveUpRecoverable == Spec => []GivingUpIsRecoverable
  <1>1. IInv => GivingUpIsRecoverable
    BY DEF IInv
  <1>2. QED
    BY <1>1, Invariance, PTL

\* write_csv_line's check before the write bounds every file of the card.
THEOREM FileSizesBounded == Spec => []FilesBounded
  <1>1. IInv => FilesBounded
    BY DEF IInv, SizeMatches
  <1>2. QED
    BY <1>1, Invariance, PTL

-----------------------------------------------------------------------------
(* The order of the buffer, the copies on the card and its files: what the *)
(* invariant above does not say of one record compared with another.       *)

\* The buffered records, oldest first, are in the order they were logged; the
\* overwritten ones are older than all of them, and the next one is new.
InOrder(rb, gone, n) ==
    /\ \A j, k \in 0..(rb.count - 1) : j < k => RecordAt(rb, j) < RecordAt(rb, k)
    /\ \A k \in 0..(rb.count - 1) : RecordAt(rb, k) < n
    /\ \A r \in gone : r < n
    /\ \A r \in gone, k \in 0..(rb.count - 1) : r < RecordAt(rb, k)

BufferOrdered == InOrder(ring, lost.overwritten, next)

\* Where the card content f holds a record.
Places(f, r) ==
    { x \in Path \X (1..MaxFileSize) : x[2] <= Len(f[x[1]]) /\ f[x[1]][x[2]] = r }

\* What is not logged yet is nowhere on the card.
CardIsOld ==
    \A r \in Record : r >= next => Places(files, r) = {}

\* The records the buffer still has to write; a flush has passed the others.
ToWrite ==
    { RecordAt(ring, k) : k \in { j \in 0..(ring.count - 1) : pc = "flush" => j >= flush.i } }

\* Such a record has copies on the card only from the flushes that broke off; one
\* that was written since has one more.
CopiesBounded ==
    /\ CopiesExplained
    /\ \A r \in ToWrite : Copies(r) <= torn

\* Paths in the order rotation takes them.
Later(p, q) == p[1] > q[1] \/ (p[1] = q[1] /\ p[2] > q[2])

\* What a later path holds was written before this boot.
LaterPathsOld ==
    \A p \in Path : Later(p, PathOf(csv)) => \A r \in ToSet(files[p]) : r < bootFirst

HistoryInv == BufferOrdered /\ CardIsOld /\ CopiesBounded /\ LaterPathsOld

\* After the last slot comes the first.
LEMMA LapIsNoChange ==
    ASSUME NEW N \in Nat \ {0}
    PROVE  N % N = 0
  <1>1. (0 + N) % N = 0
    BY ModFacts, 0 \in Nat, 0 < N
  <1>2. 0 + N = N
    OBVIOUS
  <1>3. QED
    BY <1>1, <1>2

\* What buffer_push does to the order of reading: below the limit the record is
\* read last; at the limit every record moves one place up and the oldest goes.
LEMMA PushedBelowLimit ==
    ASSUME NEW rb \in Ring, WellShaped(rb), NEW r \in Record, rb.count < BufferSize
    PROVE  LET nb == BufferPush(rb, r)
           IN  /\ nb.count = rb.count + 1
               /\ RecordAt(nb, rb.count) = r
               /\ \A k \in 0..(rb.count - 1) : RecordAt(nb, k) = RecordAt(rb, k)
               /\ Overwrites(rb) = {}
  <1> DEFINE nb == BufferPush(rb, r)
             n == rb.count
  <1>1. /\ BufferSize \in Nat \ {0} /\ n \in Nat /\ n < BufferSize /\ rb.head = n
        /\ n \in Slot /\ rb.slots \in [Slot -> 0..MaxRecords]
    BY ConstantsOK DEF Ring, WellShaped, Slot
  <1>2. /\ nb.slots = [rb.slots EXCEPT ![n] = r]
        /\ nb.head = (n + 1) % BufferSize
        /\ nb.count = n + 1
    BY <1>1 DEF BufferPush
  <1>3. nb.slots[n] = r /\ \A s \in Slot : s # n => nb.slots[s] = rb.slots[s]
    BY <1>1, <1>2
  <1> HIDE DEF nb
  <1>4. Start(rb) = 0
    BY <1>1 DEF Start
  <1>5. Start(nb) = 0
    <2>1. CASE n + 1 = BufferSize
      <3>1. BufferSize % BufferSize = 0
        BY <1>1, LapIsNoChange
      <3>2. QED
        BY <1>2, <2>1, <3>1 DEF Start
    <2>2. CASE n + 1 # BufferSize
      BY <1>2, <2>2 DEF Start
    <2>3. QED
      BY <2>1, <2>2
  <1>6. ASSUME NEW k \in 0..n
        PROVE  k % BufferSize = k /\ k \in Slot
    <2>1. k \in Nat /\ k < BufferSize
      BY <1>1
    <2>2. k % BufferSize = k
      BY <1>1, <2>1, ModFacts
    <2>3. QED
      BY <1>1, <2>1, <2>2 DEF Slot
  <1>7. RecordAt(nb, n) = r
    <2>1. RecordAt(nb, n) = nb.slots[(0 + n) % BufferSize]
      BY <1>5 DEF RecordAt
    <2>2. 0 + n = n /\ n \in 0..n
      BY <1>1
    <2>3. QED
      BY <1>3, <1>6, <2>1, <2>2
  <1>8. ASSUME NEW k \in 0..(n - 1)
        PROVE  RecordAt(nb, k) = RecordAt(rb, k)
    <2>1. k \in 0..n /\ k # n /\ 0 + k = k
      BY <1>1
    <2>2. RecordAt(nb, k) = nb.slots[k] /\ RecordAt(rb, k) = rb.slots[k]
      BY <1>4, <1>5, <1>6, <2>1 DEF RecordAt
    <2>3. QED
      BY <1>3, <1>6, <2>1, <2>2
  <1>9. Overwrites(rb) = {}
    BY <1>1 DEF Overwrites
  <1>10. QED
    BY <1>2, <1>7, <1>8, <1>9 DEF nb

LEMMA PushedAtLimit ==
    ASSUME NEW rb \in Ring, WellShaped(rb), NEW r \in Record, rb.count = BufferSize
    PROVE  LET nb == BufferPush(rb, r)
           IN  /\ nb.count = BufferSize
               /\ RecordAt(nb, BufferSize - 1) = r
               /\ \A k \in 0..(BufferSize - 2) : RecordAt(nb, k) = RecordAt(rb, k + 1)
               /\ Overwrites(rb) = {RecordAt(rb, 0)}
  <1> DEFINE nb == BufferPush(rb, r)
             h == rb.head
             B == BufferSize
  <1>1. B \in Nat \ {0} /\ h \in 0..(B - 1) /\ h \in Slot /\ rb.slots \in [Slot -> 0..MaxRecords]
    BY ConstantsOK DEF Ring, Slot
  <1>2. /\ nb.slots = [rb.slots EXCEPT ![h] = r]
        /\ nb.head = (h + 1) % B
        /\ nb.count = B
    BY <1>1 DEF BufferPush
  <1>3. nb.slots[h] = r /\ \A s \in Slot : s # h => nb.slots[s] = rb.slots[s]
    BY <1>1, <1>2
  <1> HIDE DEF nb
  <1>4. Start(rb) = h /\ Start(nb) = (h + 1) % B
    BY <1>2 DEF Start
  <1>5. (h + 1) % B = IF h + 1 = B THEN 0 ELSE h + 1
    <2>1. CASE h + 1 = B
      <3>1. B % B = 0
        BY <1>1, LapIsNoChange
      <3>2. QED
        BY <2>1, <3>1
    <2>2. CASE h + 1 # B
      <3>1. h + 1 \in Nat /\ h + 1 < B
        BY <1>1, <2>2
      <3>2. QED
        BY <1>1, <2>2, <3>1, ModFacts
    <2>3. QED
      BY <2>1, <2>2
  <1>6. ASSUME NEW a \in 0..(B - 1)
        PROVE  a % B = a /\ (a + B) % B = a
    <2>1. a \in Nat /\ a < B
      BY <1>1
    <2>2. QED
      BY <1>1, <2>1, ModFacts
  <1>7. h + 0 = h /\ (h + 0) % B = h
    BY <1>1, <1>6
  <1>8. Overwrites(rb) = {RecordAt(rb, 0)}
    BY <1>4, <1>7 DEF Overwrites, RecordAt
  <1>9. RecordAt(nb, B - 1) = r
    <2>1. (((h + 1) % B) + (B - 1)) % B = h
      <3>1. CASE h + 1 = B
        <4>1. ((h + 1) % B) + (B - 1) = h
          BY <1>1, <1>5, <3>1
        <4>2. QED
          BY <1>1, <1>6, <4>1
      <3>2. CASE h + 1 # B
        <4>1. ((h + 1) % B) + (B - 1) = h + B
          BY <1>1, <1>5, <3>2
        <4>2. QED
          BY <1>1, <1>6, <4>1
      <3>3. QED
        BY <3>1, <3>2
    <2>2. QED
      BY <1>3, <1>4, <2>1 DEF RecordAt
  <1>10. ASSUME NEW k \in 0..(B - 2)
         PROVE  RecordAt(nb, k) = RecordAt(rb, k + 1)
    <2> DEFINE s == (h + (k + 1)) % B
    <2>1. (((h + 1) % B) + k) % B = s /\ s \in Slot /\ s # h
      <3>1. CASE h + 1 = B
        <4>1. ((h + 1) % B) + k = k /\ h + (k + 1) = k + B /\ k \in 0..(B - 1) /\ k # h
          BY <1>1, <1>5, <3>1
        <4>2. QED
          BY <1>6, <4>1 DEF Slot
      <3>2. CASE h + 1 # B /\ h + 1 + k < B
        <4>1. /\ ((h + 1) % B) + k = h + (k + 1) /\ h + (k + 1) \in 0..(B - 1)
              /\ h + (k + 1) # h
          BY <1>1, <1>5, <3>2
        <4>2. QED
          BY <1>6, <4>1 DEF Slot
      <3>3. CASE h + 1 # B /\ ~(h + 1 + k < B)
        <4> DEFINE a == h + 1 + k - B
        <4>1. /\ ((h + 1) % B) + k = a + B /\ h + (k + 1) = a + B /\ a \in 0..(B - 1)
              /\ a # h
          BY <1>1, <1>5, <3>3
        <4> HIDE DEF a
        <4>2. QED
          BY <1>6, <4>1 DEF Slot
      <3>4. QED
        BY <3>1, <3>2, <3>3
    <2> HIDE DEF s
    <2>2. RecordAt(nb, k) = nb.slots[s]
      BY <1>4, <2>1 DEF RecordAt
    <2>3. RecordAt(rb, k + 1) = rb.slots[s]
      BY <1>4 DEF RecordAt, s
    <2>4. QED
      BY <1>3, <2>1, <2>2, <2>3
  <1>11. QED
    BY <1>2, <1>8, <1>9, <1>10 DEF nb

LEMMA PushKeepsOrder ==
    ASSUME NEW rb \in Ring, WellShaped(rb), NEW r \in Record, NEW gone \in SUBSET Record,
           InOrder(rb, gone, r)
    PROVE  InOrder(BufferPush(rb, r), gone \cup Overwrites(rb), r + 1)
  <1> DEFINE nb == BufferPush(rb, r)
             out == gone \cup Overwrites(rb)
             n == rb.count
  <1>1. /\ BufferSize \in Nat \ {0} /\ n \in 0..BufferSize /\ r \in Nat
        /\ \A x \in gone : x \in Nat
    BY ConstantsOK DEF Ring, Record
  <1>2. \A k \in 0..(n - 1) : RecordAt(rb, k) \in Nat
    BY <1>1, RecordAtSlot DEF Record
  <1>3. /\ \A j, k \in 0..(n - 1) : j < k => RecordAt(rb, j) < RecordAt(rb, k)
        /\ \A k \in 0..(n - 1) : RecordAt(rb, k) < r
        /\ \A x \in gone : x < r
        /\ \A x \in gone, k \in 0..(n - 1) : x < RecordAt(rb, k)
    BY DEF InOrder
  <1>4. CASE n < BufferSize
    <2>1. /\ nb.count = n + 1 /\ RecordAt(nb, n) = r /\ out = gone
          /\ \A k \in 0..(n - 1) : RecordAt(nb, k) = RecordAt(rb, k)
      BY <1>4, PushedBelowLimit
    <2> HIDE DEF nb, out, n
    <2>2. \A k \in 0..n : k = n \/ k \in 0..(n - 1)
      BY <1>1
    <2>3. ASSUME NEW k \in 0..n
          PROVE  /\ RecordAt(nb, k) < r + 1
                 /\ \A j \in 0..n : j < k => RecordAt(nb, j) < RecordAt(nb, k)
                 /\ \A x \in gone : x < RecordAt(nb, k)
      <3>1. CASE k = n
        <4>1. \A j \in 0..n : j < k => j \in 0..(n - 1)
          BY <1>1, <3>1
        <4>2. QED
          BY <1>1, <1>3, <2>1, <3>1, <4>1
      <3>2. CASE k \in 0..(n - 1)
        <4>1. \A j \in 0..n : j < k => j \in 0..(n - 1)
          BY <1>1, <3>2
        <4>2. RecordAt(nb, k) < r + 1
          BY <1>1, <1>2, <1>3, <2>1, <3>2
        <4>3. QED
          BY <1>3, <2>1, <3>2, <4>1, <4>2
      <3>3. QED
        BY <2>2, <3>1, <3>2
    <2>4. \A x \in gone : x < r + 1
      BY <1>1, <1>3
    <2>5. 0..(nb.count - 1) = 0..n
      BY <1>1, <2>1
    <2>6. InOrder(nb, out, r + 1)
      BY <2>1, <2>3, <2>4, <2>5 DEF InOrder
    <2>7. QED
      BY <2>6 DEF nb, out
  <1>5. CASE n = BufferSize
    <2>1. /\ nb.count = n /\ RecordAt(nb, n - 1) = r /\ out = gone \cup {RecordAt(rb, 0)}
          /\ \A k \in 0..(n - 2) : RecordAt(nb, k) = RecordAt(rb, k + 1)
      BY <1>5, PushedAtLimit
    <2> HIDE DEF nb, out, n
    <2>2. \A k \in 0..(n - 1) : k = n - 1 \/ (k \in 0..(n - 2) /\ k + 1 \in 0..(n - 1))
      BY <1>1
    <2>3. ASSUME NEW k \in 0..(n - 1)
          PROVE  /\ RecordAt(nb, k) < r + 1
                 /\ \A j \in 0..(n - 1) : j < k => RecordAt(nb, j) < RecordAt(nb, k)
                 /\ \A x \in out : x < RecordAt(nb, k)
      <3>1. \A j \in 0..(n - 1) : j < k => j \in 0..(n - 2) /\ j + 1 \in 0..(n - 1)
        BY <1>1
      <3>2. 0 \in 0..(n - 1)
        BY <1>1, <1>5
      <3>3. CASE k = n - 1
        <4>1. \A j \in 0..(n - 1) : j < k => RecordAt(nb, j) < RecordAt(nb, k)
          BY <1>3, <2>1, <3>1, <3>3
        <4>2. \A x \in out : x < RecordAt(nb, k)
          BY <1>3, <2>1, <3>2, <3>3
        <4>3. QED
          BY <1>1, <2>1, <3>3, <4>1, <4>2
      <3>4. CASE k \in 0..(n - 2) /\ k + 1 \in 0..(n - 1)
        <4>1. RecordAt(nb, k) < r + 1
          BY <1>1, <1>2, <1>3, <2>1, <3>4
        <4>2. \A j \in 0..(n - 1) : j < k => RecordAt(nb, j) < RecordAt(nb, k)
          <5>1. ASSUME NEW j \in 0..(n - 1), j < k
                PROVE  j + 1 < k + 1
            BY <5>1
          <5>2. QED
            BY <1>3, <2>1, <3>1, <3>4, <5>1
        <4>3. \A x \in out : x < RecordAt(nb, k)
          <5>1. 0 < k + 1
            BY <3>4
          <5>2. QED
            BY <1>3, <2>1, <3>2, <3>4, <5>1
        <4>4. QED
          BY <4>1, <4>2, <4>3
      <3>5. QED
        BY <2>2, <3>3, <3>4
    <2>4. \A x \in out : x < r + 1
      <3>1. 0 \in 0..(n - 1)
        BY <1>1, <1>5
      <3>2. QED
        BY <1>1, <1>2, <1>3, <2>1, <3>1
    <2>5. InOrder(nb, out, r + 1)
      BY <2>1, <2>3, <2>4 DEF InOrder
    <2>6. QED
      BY <2>5 DEF nb, out
  <1>6. QED
    BY <1>1, <1>4, <1>5

\* Every step keeps the order: the buffer is pushed to, emptied, or left alone.
LEMMA OrderStep == IInv /\ BufferOrdered /\ [Next]_vars => BufferOrdered'
  <1> SUFFICES ASSUME IInv, BufferOrdered, [Next]_vars PROVE BufferOrdered'
    OBVIOUS
  <1>1. /\ TypeOK /\ ring \in Ring /\ WellShaped(ring) /\ next \in Nat
        /\ lost \in Losses /\ lost.overwritten \in SUBSET Record
        /\ ring.count \in Nat
    BY ConstantsOK DEF IInv, TypeOK, RingShape, Losses, Ring
  <1>2. CASE LogFails \/ LogToBuffer
    <2>1. next' = next + 1 /\ ring' = BufferPush(ring, next) /\ next <= MaxRecords
      BY <1>2 DEF LogFails, LogToBuffer
    <2>0. next \in Record
      BY <1>1, <2>1, ConstantsOK DEF Record, TypeOK
    <2>2. lost'.overwritten = lost.overwritten \cup Overwrites(ring)
      <3>1. CASE LogFails
        <4>1. PICK o : lost' = [lost EXCEPT !.truncated = @ \cup o.cut,
                                            !.overwritten = @ \cup Overwrites(ring)]
          BY <3>1 DEF LogFails
        <4>2. QED
          BY <1>1, <4>1 DEF Losses
      <3>2. CASE LogToBuffer
        BY <1>1, <3>2 DEF LogToBuffer, Losses
      <3>3. QED
        BY <1>2, <3>1, <3>2
    <2>3. QED
      BY <1>1, <2>0, <2>1, <2>2, PushKeepsOrder DEF BufferOrdered
  <1>3. CASE InitWithoutCard \/ InitWithCard \/ FlushDone \/ PowerCycle
    <2>1. ring'.count = 0 /\ next' = next
      <3>1. /\ next' = next
            /\ ring' = EmptyRing \/ ring' = [ring EXCEPT !.head = 0, !.count = 0]
        BY <1>3 DEF InitWithoutCard, InitWithCard, FlushDone, PowerCycle
      <3>2. EmptyRing.count = 0
        BY DEF EmptyRing
      <3>3. [ring EXCEPT !.head = 0, !.count = 0].count = 0
        BY <1>1 DEF Ring
      <3>4. QED
        BY <3>1, <3>2, <3>3
    <2>2. lost'.overwritten = lost.overwritten
      <3>1. CASE InitWithCard
        <4>1. PICK o : lost' = [lost EXCEPT !.volatile = @ \cup ToSet(Buffered),
                                            !.truncated = @ \cup o.cut]
          BY <3>1 DEF InitWithCard
        <4>2. QED
          BY <1>1, <4>1 DEF Losses
      <3>2. CASE InitWithoutCard \/ FlushDone \/ PowerCycle
        BY <1>1, <3>2 DEF InitWithoutCard, FlushDone, PowerCycle, Losses
      <3>3. QED
        BY <1>3, <3>1, <3>2
    <2>3. \A k \in 0..(0 - 1) : FALSE
      OBVIOUS
    <2>4. QED
      BY <2>1, <2>2, <2>3 DEF BufferOrdered, InOrder
  <1>4. CASE LogToCard
    <2>1. ring' = ring /\ lost'.overwritten = lost.overwritten /\ next' = next + 1
      BY <1>1, <1>4 DEF LogToCard, Losses
    <2>2. \A k \in 0..(ring.count - 1) : RecordAt(ring, k) \in Nat
      BY <1>1, RecordAtSlot DEF Record
    <2>3. \A x \in lost.overwritten : x \in Nat
      BY <1>1 DEF Record
    <2>4. QED
      BY <1>1, <2>1, <2>2, <2>3 DEF BufferOrdered, InOrder
  <1>5. CASE \/ CheckSd \/ FlushBuffer \/ DeinitFlush \/ Deinit \/ FlushLine
             \/ FlushFails \/ Remount \/ UNCHANGED vars
    <2>1. ring' = ring /\ lost'.overwritten = lost.overwritten /\ next' = next
      BY <1>1, <1>5 DEF CheckSd, CheckSdNoTransition, CheckSdOpenFails, CheckSdFlush,
         FlushBuffer, DeinitFlush, Deinit, FlushLine, FlushFails, Remount, vars, card, Losses
    <2>2. QED
      BY <2>1 DEF BufferOrdered
  <1>6. QED
    BY <1>2, <1>3, <1>4, <1>5 DEF Next, LogRecord, FlushStep

-----------------------------------------------------------------------------
(* What an outcome does to the files, place by place.                      *)

\* Card content g holds a record nowhere f did not, but for one copy of r.
AddsNothing(g, f) == \A q \in Record : Places(g, q) \subseteq Places(f, q)

AddsOnly(g, f, r) ==
    /\ \A q \in Record \ {r} : Places(g, q) \subseteq Places(f, q)
    /\ \E x : Places(g, r) \subseteq Places(f, r) \cup {x}

\* An outcome works on the path of its handle, which never goes back.
Advances(o, c, f) ==
    /\ PathOf(o.csv) = PathOf(c) \/ Later(PathOf(o.csv), PathOf(c))
    /\ \A p \in Path \ {PathOf(o.csv)} : o.files[p] = f[p]

LEMMA EmptiedAddsNothing ==
    ASSUME NEW f \in Files, NEW p \in Path
    PROVE  AddsNothing([f EXCEPT ![p] = <<>>], f)
  <1> DEFINE g == [f EXCEPT ![p] = <<>>]
  <1>1. g[p] = <<>> /\ \A q \in Path : q # p => g[q] = f[q]
    BY DEF Files
  <1> HIDE DEF g
  <1> SUFFICES ASSUME NEW r \in Record, NEW x \in Places(g, r)
               PROVE  x \in Places(f, r)
    BY DEF AddsNothing, g
  <1>2. x \in Path \X (1..MaxFileSize) /\ x[2] <= Len(g[x[1]]) /\ g[x[1]][x[2]] = r
    BY DEF Places
  <1>3. x[1] \in Path /\ x[2] \in 1..MaxFileSize
    BY <1>2
  <1>4. x[1] # p
    <2>1. Len(<<>>) = 0
      OBVIOUS
    <2>2. ~(x[2] <= 0)
      BY <1>3, ConstantsOK
    <2>3. QED
      BY <1>1, <1>2, <2>1, <2>2
  <1>5. QED
    BY <1>1, <1>2, <1>3, <1>4 DEF Places

LEMMA AppendedAddsOnly ==
    ASSUME NEW f \in Files, NEW p \in Path, NEW r \in Record
    PROVE  AddsOnly([f EXCEPT ![p] = Append(@, r)], f, r)
  <1> DEFINE g == [f EXCEPT ![p] = Append(@, r)]
             n == Len(f[p])
  <1>1. /\ g[p] = Append(f[p], r) /\ \A q \in Path : q # p => g[q] = f[q]
        /\ f[p] \in Seq(Record)
    BY DEF Files
  <1>2. /\ n \in Nat /\ Len(g[p]) = n + 1 /\ g[p][n + 1] = r
        /\ \A k \in 1..n : g[p][k] = f[p][k]
    BY <1>1
  <1> HIDE DEF g, n
  <1>3. ASSUME NEW q \in Record, NEW x \in Places(g, q), x # <<p, n + 1>>
        PROVE  x \in Places(f, q)
    <2>1. x \in Path \X (1..MaxFileSize) /\ x[2] <= Len(g[x[1]]) /\ g[x[1]][x[2]] = q
      BY DEF Places
    <2>2. x[1] \in Path /\ x[2] \in 1..MaxFileSize /\ x = <<x[1], x[2]>>
      BY <2>1
    <2>3. CASE x[1] # p
      BY <1>1, <2>1, <2>2, <2>3 DEF Places
    <2>4. CASE x[1] = p
      <3>1. x[2] # n + 1
        BY <1>3, <2>2, <2>4
      <3>2. x[2] \in 1..n
        BY <1>2, <2>1, <2>2, <2>4, <3>1, ConstantsOK
      <3>3. x[2] <= Len(f[x[1]]) /\ f[x[1]][x[2]] = q
        BY <1>2, <2>1, <2>4, <3>2 DEF n
      <3>4. QED
        BY <2>1, <3>3 DEF Places
    <2>5. QED
      BY <2>3, <2>4
  <1>4. ASSUME NEW q \in Record \ {r}, NEW x \in Places(g, q)
        PROVE  x \in Places(f, q)
    <2>1. g[x[1]][x[2]] = q
      BY DEF Places
    <2>2. CASE x = <<p, n + 1>>
      <3>1. x[1] = p /\ x[2] = n + 1
        BY <2>2
      <3>2. QED
        BY <1>2, <2>1, <3>1
    <2>3. QED
      BY <1>3, <2>2
  <1>5. Places(g, r) \subseteq Places(f, r) \cup {<<p, n + 1>>}
    BY <1>3
  <1>6. AddsOnly(g, f, r)
    BY <1>4, <1>5 DEF AddsOnly
  <1>7. QED
    BY <1>6 DEF g

\* open_new_file works on the file of its handle alone and copies nothing.
LEMMA OpenNewFileTouches ==
    ASSUME NEW c \in Csv, NEW f \in Files, c.session >= 1, NEW o \in OpenNewFile(c, f)
    PROVE  /\ PathOf(o.csv) = PathOf(c)
           /\ \A p \in Path \ {PathOf(c)} : o.files[p] = f[p]
           /\ AddsNothing(o.files, f)
  <1> DEFINE p == PathOf(c)
             closed == CloseFile(c)
             empty == [f EXCEPT ![p] = <<>>]
  <1>1. p \in Path /\ closed \in Csv /\ PathOf(closed) = p
    BY CloseFileIsCsv, PathOfIsPath
  <1>2. PathOf([closed EXCEPT !.size = 0]) = p
    BY <1>1, SizedIsCsv, ConstantsOK
  <1>3. PathOf([closed EXCEPT !.open = TRUE, !.size = 1]) = p
    BY <1>1, OpenedIsCsv
  <1>4. (o.files = f \/ o.files = empty) /\ PathOf(o.csv) = p
    BY <1>1, <1>2, <1>3 DEF OpenNewFile, Outcome
  <1>5. \A q \in Path \ {p} : empty[q] = f[q]
    BY <1>1 DEF Files
  <1>6. AddsNothing(empty, f) /\ AddsNothing(f, f)
    BY <1>1, EmptiedAddsNothing DEF AddsNothing
  <1>7. QED
    BY <1>4, <1>5, <1>6

\* rotate_file's next path is a later one.
LEMMA RotatedIsLater ==
    ASSUME NEW c \in Csv, c.session < MaxSession, c.session >= 1
    PROVE  Later(PathOf(Rotated(c)), PathOf(c))
  <1>1. /\ c.session \in 0..MaxSession /\ c.rot \in 0..MaxRotationFiles
        /\ MaxSession \in Nat /\ MaxRotationFiles \in Nat
    BY ConstantsOK DEF Csv
  <1>2. PathOf(c)[1] = c.session /\ PathOf(c)[2] = c.rot
    BY DEF PathOf
  <1>3. CASE c.rot + 1 > MaxRotationFiles
    <2> DEFINE d == [c EXCEPT !.session = @ + 1, !.rot = 0]
    <2>1. Rotated(c) = d /\ d.session = c.session + 1
      BY <1>3 DEF Rotated, Csv
    <2> HIDE DEF d
    <2>2. PathOf(d)[1] = c.session + 1
      BY <2>1 DEF PathOf
    <2>3. QED
      BY <1>1, <1>2, <2>1, <2>2 DEF Later
  <1>4. CASE ~(c.rot + 1 > MaxRotationFiles)
    <2> DEFINE d == [c EXCEPT !.rot = @ + 1]
    <2>1. Rotated(c) = d /\ d.session = c.session /\ d.rot = c.rot + 1
      BY <1>4 DEF Rotated, Csv
    <2> HIDE DEF d
    <2>2. PathOf(d)[1] = c.session /\ PathOf(d)[2] = c.rot + 1
      BY <2>1 DEF PathOf
    <2>3. QED
      BY <1>1, <1>2, <2>1, <2>2 DEF Later
  <1>5. QED
    BY <1>3, <1>4

LEMMA ReadyFileTouches ==
    ASSUME NEW c \in Csv, NEW f \in Files, c.session >= 1, c.session < MaxSession,
           NEW o \in ReadyFile(c, f)
    PROVE  Advances(o, c, f) /\ AddsNothing(o.files, f)
  <1>1. CASE ~c.open
    <2>1. o \in OpenNewFile(c, f)
      BY <1>1 DEF ReadyFile
    <2>2. QED
      BY <2>1, OpenNewFileTouches DEF Advances
  <1>2. CASE c.open /\ c.size > MaxFileSize
    <2>1. Rotated(c) \in Csv /\ Rotated(c).session >= 1
      BY RotatedIsCsv
    <2>2. o \in OpenNewFile(Rotated(c), f)
      BY <1>2 DEF ReadyFile
    <2>3. QED
      BY <2>1, <2>2, OpenNewFileTouches, RotatedIsLater DEF Advances
  <1>3. CASE c.open /\ ~(c.size > MaxFileSize)
    <2>1. o = Outcome(TRUE, c, f, {}, 0)
      BY <1>3 DEF ReadyFile
    <2>2. o.csv = c /\ o.files = f
      BY <2>1 DEF Outcome
    <2>3. QED
      BY <2>2 DEF Advances, AddsNothing
  <1>4. QED
    BY <1>1, <1>2, <1>3

\* write_csv_line works on one file, the current one or the next of the rotation;
\* a line that succeeds is there once more, one that fails is not.
LEMMA WriteCsvLineTouches ==
    ASSUME NEW c \in Csv, NEW f \in Files, c.session >= 1, c.session < MaxSession,
           Consistent(c, f), NEW r \in Record, NEW o \in WriteCsvLine(c, f, r)
    PROVE  /\ Advances(o, c, f)
           /\ AddsOnly(o.files, f, r)
           /\ ~o.ok => AddsNothing(o.files, f)
  <1>0. ASSUME NEW g, AddsNothing(g, f)
        PROVE  AddsOnly(g, f, r)
    <2>1. Places(g, r) \subseteq Places(f, r) \cup {0}
      BY <1>0 DEF AddsNothing
    <2>2. QED
      BY <1>0, <2>1 DEF AddsNothing, AddsOnly
  <1>1. CASE o \in ReadyFile(c, f) /\ ~o.ok
    BY <1>0, <1>1, ReadyFileTouches
  <1>2. CASE \E x \in ReadyFile(c, f) :
               x.ok /\ o = [x EXCEPT !.ok = FALSE, !.cost = IF x.csv.stale THEN 0 ELSE 1]
    <2>1. PICK x \in ReadyFile(c, f) :
               x.ok /\ o = [x EXCEPT !.ok = FALSE, !.cost = IF x.csv.stale THEN 0 ELSE 1]
      BY <1>2
    <2>2. Advances(x, c, f) /\ AddsNothing(x.files, f)
      BY ReadyFileTouches
    <2>3. o.csv = x.csv /\ o.files = x.files
      BY <2>1
    <2>4. QED
      BY <1>0, <2>2, <2>3 DEF Advances
  <1>3. CASE \E x \in ReadyFile(c, f) :
               /\ x.ok /\ ~x.csv.stale
               /\ o = [x EXCEPT !.csv.size = @ + 1, !.files[PathOf(x.csv)] = Append(@, r)]
    <2>1. PICK x \in ReadyFile(c, f) :
               /\ x.ok /\ ~x.csv.stale
               /\ o = [x EXCEPT !.csv.size = @ + 1, !.files[PathOf(x.csv)] = Append(@, r)]
      BY <1>3
    <2> DEFINE p == PathOf(x.csv)
    <2>2. /\ Sound(x, f) /\ x.csv.open /\ x.csv.size <= MaxFileSize
          /\ Advances(x, c, f) /\ AddsNothing(x.files, f)
      BY <2>1, ReadyFileSound, ReadyFileTouches
    <2>3. /\ o.ok = x.ok
          /\ o.csv = [x.csv EXCEPT !.size = @ + 1]
          /\ o.files = [x.files EXCEPT ![p] = Append(@, r)]
      <3>1. o = [x EXCEPT !.csv = [x.csv EXCEPT !.size = @ + 1],
                          !.files = [x.files EXCEPT ![p] = Append(@, r)]]
        BY <2>1
      <3>2. DOMAIN x = {"ok", "csv", "files", "cut", "cost"}
        BY DEF ReadyFile, OpenNewFile, Outcome
      <3>3. QED
        BY <3>1, <3>2
    <2>4. p \in Path /\ x.files \in Files /\ x.csv \in Csv
      BY <2>2, PathOfIsPath DEF Sound
    <2>5. PathOf(o.csv) = p
      BY <2>3, <2>4 DEF Csv, PathOf
    <2>6. \A q \in Path : q # p => o.files[q] = x.files[q]
      BY <2>3, <2>4 DEF Files
    <2>7. Advances(o, c, f)
      BY <2>2, <2>5, <2>6 DEF Advances
    <2>8. AddsOnly(o.files, x.files, r)
      BY <2>3, <2>4, AppendedAddsOnly
    <2>9. AddsOnly(o.files, f, r)
      BY <2>2, <2>8 DEF AddsOnly, AddsNothing
    <2>10. QED
      BY <2>1, <2>3, <2>7, <2>9
  <1>4. QED
    BY <1>1, <1>2, <1>3 DEF WriteCsvLine

\* A step within a boot works on one file, on the current path or a later one.
CardMoves ==
    /\ bootFirst' = bootFirst
    /\ PathOf(csv') = PathOf(csv) \/ Later(PathOf(csv'), PathOf(csv))
    /\ \A p \in Path \ {PathOf(csv')} : files'[p] = files[p]

\* What the invariant says of the handle and the card.
LEMMA CardFacts ==
    ASSUME IInv
    PROVE  /\ csv \in Csv /\ files \in Files /\ Consistent(csv, files)
           /\ up => csv.session >= 1
           /\ pc = "flush" => up
           /\ ring \in Ring /\ WellShaped(ring)
  BY DEF IInv, TypeOK, SizeMatches, FilesBounded, Consistent, SessionStarted, RingShape

LEMMA LineMoves ==
    ASSUME IInv, up, SessionRoom, NEW r \in Record, NEW o \in WriteCsvLine(csv, files, r),
           NEW c \in {o.csv, CloseFile(o.csv)}, Apply(o, c), bootFirst' = bootFirst
    PROVE  /\ CardMoves
           /\ AddsOnly(files', files, r)
           /\ ~o.ok => AddsNothing(files', files)
  <1>1. /\ csv \in Csv /\ files \in Files /\ Consistent(csv, files)
        /\ csv.session >= 1 /\ csv.session < MaxSession
    BY CardFacts DEF SessionRoom
  <1>2. /\ Advances(o, csv, files) /\ AddsOnly(o.files, files, r) /\ o.csv \in Csv
        /\ ~o.ok => AddsNothing(o.files, files)
    BY <1>1, WriteCsvLineSound, WriteCsvLineTouches DEF Sound
  <1>3. files' = o.files /\ PathOf(csv') = PathOf(o.csv)
    BY <1>2, CloseFileIsCsv DEF Apply
  <1>4. QED
    BY <1>2, <1>3 DEF Advances, CardMoves

\* The card is untouched, and the handle keeps its path.
LEMMA QuietMoves ==
    ASSUME IInv, files' = files, bootFirst' = bootFirst, PathOf(csv') = PathOf(csv)
    PROVE  CardMoves /\ AddsNothing(files', files)
  BY DEF CardMoves, AddsNothing

\* What each step does to the card: only the two that write a line add to it.
LEMMA CardSteps ==
    ASSUME IInv, [Next]_vars
    PROVE  \/ PowerCycle
           \/ /\ CardMoves
              /\ \/ LogToCard /\ AddsOnly(files', files, next)
                 \/ FlushLine /\ AddsOnly(files', files, RecordAt(ring, flush.i))
                 \/ AddsNothing(files', files)
  <1>1. /\ csv \in Csv /\ files \in Files /\ ring \in Ring /\ WellShaped(ring)
        /\ up => csv.session >= 1
        /\ pc = "flush" => up
        /\ next \in 1..(MaxRecords + 1) /\ flush.i \in Nat
    BY CardFacts, ConstantsOK DEF IInv, TypeOK
  <1>2. CASE LogToCard \/ LogFails
    <2>1. up /\ SessionRoom /\ next \in Record /\ bootFirst' = bootFirst
      <3>1. up /\ SessionRoom /\ next <= MaxRecords /\ bootFirst' = bootFirst
        BY <1>2 DEF LogToCard, LogFails, card
      <3>2. QED
        BY <1>1, <3>1, ConstantsOK DEF Record
    <2>2. PICK o \in WriteCsvLine(csv, files, next) :
            /\ \E c \in {o.csv, CloseFile(o.csv)} : Apply(o, c)
            /\ ~o.ok \/ LogToCard
      BY <1>2 DEF LogToCard, LogFails
    <2>3. /\ CardMoves
          /\ AddsOnly(files', files, next)
          /\ ~o.ok => AddsNothing(files', files)
      BY <2>1, <2>2, LineMoves
    <2>4. QED
      BY <2>2, <2>3
  <1>3. CASE FlushLine \/ FlushFails
    <2>1. up /\ SessionRoom /\ RecordAt(ring, flush.i) \in Record /\ bootFirst' = bootFirst
      <3>1. pc = "flush" /\ SessionRoom /\ flush.i < ring.count /\ bootFirst' = bootFirst
        BY <1>3 DEF FlushLine, FlushFails, card
      <3>2. QED
        BY <1>1, <3>1, RecordAtSlot
    <2>2. PICK o \in WriteCsvLine(csv, files, RecordAt(ring, flush.i)) :
            /\ \E c \in {o.csv, CloseFile(o.csv)} : Apply(o, c)
            /\ ~o.ok \/ FlushLine
      BY <1>3 DEF FlushLine, FlushFails
    <2>3. /\ CardMoves
          /\ AddsOnly(files', files, RecordAt(ring, flush.i))
          /\ ~o.ok => AddsNothing(files', files)
      BY <2>1, <2>2, LineMoves
    <2>4. QED
      BY <2>2, <2>3
  <1>4. CASE InitWithoutCard \/ InitWithCard
    <2> DEFINE s == NewSession(csv)
    <2>1. /\ bootFirst' = bootFirst /\ csv.session < MaxStarts
      BY <1>4 DEF InitWithoutCard, InitWithCard, card
    <2>2. s \in Csv /\ s.session >= 1
      BY <1>1, <2>1, NewSessionIsCsv
    <2>3. Later(PathOf(s), PathOf(csv))
      <3>1. s.session = csv.session + 1 /\ csv.session \in Nat
        BY <1>1, ConstantsOK DEF NewSession, ClosedCsv, Csv
      <3>2. PathOf(s)[1] = s.session /\ PathOf(csv)[1] = csv.session
        BY DEF PathOf
      <3>3. QED
        BY <3>1, <3>2 DEF Later
    <2> HIDE DEF s
    <2>4. CASE InitWithoutCard
      BY <2>1, <2>3, <2>4 DEF InitWithoutCard, CardMoves, AddsNothing, s
    <2>5. CASE InitWithCard
      <3>1. PICK o \in OpenNewFile(s, files) : Apply(o, o.csv)
        BY <2>5 DEF InitWithCard, s
      <3>2. /\ PathOf(o.csv) = PathOf(s)
            /\ \A p \in Path \ {PathOf(s)} : o.files[p] = files[p]
            /\ AddsNothing(o.files, files)
        BY <1>1, <2>2, <3>1, OpenNewFileTouches
      <3>3. csv' = o.csv /\ files' = o.files
        BY <3>1 DEF Apply
      <3>4. QED
        BY <2>1, <2>3, <3>2, <3>3 DEF CardMoves
    <2>6. QED
      BY <1>4, <2>4, <2>5
  <1>5. CASE CheckSdOpenFails \/ CheckSdFlush
    <2>1. up /\ bootFirst' = bootFirst
      BY <1>5 DEF CheckSdOpenFails, CheckSdFlush, card
    <2>2. CASE UNCHANGED <<csv, files>>
      BY <2>1, <2>2, QuietMoves
    <2>3. CASE \E o \in OpenNewFile(csv, files) : Apply(o, o.csv)
      <3>1. PICK o \in OpenNewFile(csv, files) : Apply(o, o.csv)
        BY <2>3
      <3>2. /\ PathOf(o.csv) = PathOf(csv)
            /\ \A p \in Path \ {PathOf(csv)} : o.files[p] = files[p]
            /\ AddsNothing(o.files, files)
        BY <1>1, <2>1, <3>1, OpenNewFileTouches
      <3>3. csv' = o.csv /\ files' = o.files
        BY <3>1 DEF Apply
      <3>4. QED
        BY <2>1, <3>2, <3>3 DEF CardMoves
    <2>4. QED
      BY <1>5, <2>2, <2>3 DEF CheckSdOpenFails, CheckSdFlush
  <1>6. CASE LogToBuffer \/ CheckSdNoTransition \/ FlushBuffer \/ DeinitFlush \/ UNCHANGED vars
    BY <1>6, QuietMoves DEF LogToBuffer, CheckSdNoTransition, FlushBuffer, DeinitFlush,
       vars, card
  <1>7. CASE Deinit \/ FlushDone
    <2>1. /\ files' = files /\ bootFirst' = bootFirst
          /\ csv' = csv \/ csv' = CloseFile(csv)
      BY <1>7 DEF Deinit, FlushDone, card
    <2>2. PathOf(csv') = PathOf(csv)
      BY <1>1, <2>1, CloseFileIsCsv
    <2>3. QED
      BY <2>1, <2>2, QuietMoves
  <1>8. CASE Remount
    <2>1. /\ files' = files /\ bootFirst' = bootFirst
          /\ csv' = [csv EXCEPT !.stale = @ \/ csv.open]
      BY <1>8 DEF Remount
    <2>2. PathOf(csv') = PathOf(csv)
      BY <1>1, <2>1 DEF Csv, PathOf
    <2>3. QED
      BY <2>1, <2>2, QuietMoves
  <1>9. QED
    BY <1>2, <1>3, <1>4, <1>5, <1>6, <1>7, <1>8 DEF Next, LogRecord, CheckSd, FlushStep

-----------------------------------------------------------------------------
(* What is on the card is older than what comes, and every step keeps it.  *)

LEMMA NextGrows ==
    ASSUME [Next]_vars
    PROVE  (next' = next \/ next' = next + 1) /\ (LogToCard => next' = next + 1)
  BY DEF Next, vars, LogRecord, CheckSd, FlushStep, InitWithoutCard, InitWithCard,
     LogToCard, LogFails, LogToBuffer, CheckSdNoTransition, CheckSdOpenFails, CheckSdFlush,
     FlushBuffer, DeinitFlush, Deinit, FlushLine, FlushFails, FlushDone, PowerCycle, Remount

\* The record a flush line writes is one the buffer holds, and an old one.
LEMMA FlushLineFacts ==
    ASSUME IInv, FlushLine
    PROVE  /\ pc = "flush" /\ flush.i \in 0..(ring.count - 1) /\ ring.count \in Nat
           /\ RecordAt(ring, flush.i) \in Record
           /\ ring' = ring /\ pc' = pc /\ torn' = torn /\ next' = next
           /\ flush'.i = flush.i + 1
  <1>1. /\ pc = "flush" /\ flush.i < ring.count
        /\ ring' = ring /\ pc' = pc /\ torn' = torn /\ next' = next
        /\ flush' = [flush EXCEPT !.i = @ + 1]
    BY DEF FlushLine
  <1>2. /\ flush \in [for : Caller, i : 0..BufferSize] /\ flush.i \in Nat
        /\ ring \in Ring /\ ring.count \in Nat /\ WellShaped(ring)
    BY ConstantsOK DEF IInv, TypeOK, Ring, RingShape
  <1>3. flush.i \in 0..(ring.count - 1)
    BY <1>1, <1>2
  <1>4. flush'.i = flush.i + 1
    BY <1>1, <1>2
  <1>5. QED
    BY <1>1, <1>2, <1>3, <1>4, RecordAtSlot

LEMMA CardIsOldStep == IInv /\ BufferOrdered /\ CardIsOld /\ [Next]_vars => CardIsOld'
  <1> SUFFICES ASSUME IInv, BufferOrdered, CardIsOld, [Next]_vars,
                      NEW r \in Record, r >= next'
               PROVE  Places(files', r) = {}
    BY DEF CardIsOld
  <1>1. next \in Nat /\ r \in Nat
    BY DEF IInv, TypeOK, Record
  <1>2. Places(files, r) = {}
    BY <1>1, NextGrows DEF CardIsOld
  <1>3. CASE PowerCycle
    BY <1>2, <1>3 DEF PowerCycle
  <1>4. CASE LogToCard /\ AddsOnly(files', files, next)
    <2>1. r # next
      BY <1>1, <1>4, NextGrows
    <2>2. QED
      BY <1>2, <1>4, <2>1 DEF AddsOnly
  <1>5. CASE FlushLine /\ AddsOnly(files', files, RecordAt(ring, flush.i))
    <2>1. RecordAt(ring, flush.i) < next /\ next' = next
      BY <1>5, FlushLineFacts DEF BufferOrdered, InOrder
    <2>2. r # RecordAt(ring, flush.i)
      BY <1>1, <2>1
    <2>3. QED
      BY <1>2, <1>5, <2>2 DEF AddsOnly
  <1>6. CASE AddsNothing(files', files)
    BY <1>2, <1>6 DEF AddsNothing
  <1>7. QED
    BY <1>3, <1>4, <1>5, <1>6, CardSteps

LEMMA CardHoldsOld ==
    ASSUME IInv, CardIsOld, NEW p \in Path, NEW r \in ToSet(files[p])
    PROVE  r < next
  <1>1. /\ files[p] \in Seq(Record) /\ Len(files[p]) <= MaxFileSize /\ next \in Nat
        /\ MaxFileSize \in Nat
    BY ConstantsOK DEF IInv, TypeOK, Files, SizeMatches, FilesBounded
  <1>2. PICK k \in 1..Len(files[p]) : files[p][k] = r
    BY <1>1 DEF ToSet
  <1>3. r \in Record /\ k \in 1..MaxFileSize
    BY <1>1, <1>2
  <1> DEFINE x == <<p, k>>
  <1>4. /\ x \in Path \X (1..MaxFileSize) /\ x[1] = p /\ x[2] = k
        /\ k <= Len(files[p])
    BY <1>2, <1>3
  <1> HIDE DEF x
  <1>5. x \in Places(files, r)
    BY <1>2, <1>4 DEF Places
  <1>6. ~(r >= next)
    BY <1>3, <1>5 DEF CardIsOld
  <1>7. QED
    BY <1>1, <1>3, <1>6 DEF Record

LEMMA LaterPathsStep ==
    IInv /\ CardIsOld /\ LaterPathsOld /\ [Next]_vars => LaterPathsOld'
  <1> SUFFICES ASSUME IInv, CardIsOld, LaterPathsOld, [Next]_vars, NEW p \in Path,
                      Later(p, PathOf(csv')), NEW r \in ToSet(files'[p])
               PROVE  r < bootFirst'
    BY DEF LaterPathsOld
  <1>1. CASE PowerCycle
    BY <1>1, CardHoldsOld DEF PowerCycle
  <1>2. CASE CardMoves
    <2>1. csv \in Csv /\ csv' \in Csv
      BY NextKeeps, CardFacts DEF IInv, TypeOK
    <2>2. p # PathOf(csv')
      <3>1. /\ p[1] \in Int /\ p[2] \in Int
        BY ConstantsOK DEF Path
      <3>2. QED
        BY <3>1 DEF Later
    <2>3. files'[p] = files[p] /\ bootFirst' = bootFirst
      BY <1>2, <2>2 DEF CardMoves
    <2>4. CASE PathOf(csv') = PathOf(csv)
      BY <2>3, <2>4 DEF LaterPathsOld
    <2>5. CASE Later(PathOf(csv'), PathOf(csv))
      <3>1. Later(p, PathOf(csv))
        <4>1. /\ p[1] \in Int /\ p[2] \in Int
              /\ PathOf(csv')[1] \in Int /\ PathOf(csv')[2] \in Int
              /\ PathOf(csv)[1] \in Int /\ PathOf(csv)[2] \in Int
          BY <2>1, ConstantsOK DEF Path, PathOf, Csv
        <4>2. QED
          BY <2>5, <4>1 DEF Later
      <3>2. QED
        BY <2>3, <3>1 DEF LaterPathsOld
    <2>6. QED
      BY <1>2, <2>4, <2>5 DEF CardMoves
  <1>3. QED
    BY <1>1, <1>2, CardSteps

-----------------------------------------------------------------------------
(* The copies of a record.                                                 *)

LEMMA PlacesAreFinite ==
    ASSUME NEW f, NEW r
    PROVE  IsFiniteSet(Places(f, r)) /\ Cardinality(Places(f, r)) \in Nat
  <1>1. /\ IsFiniteSet(1..MaxSession) /\ IsFiniteSet(0..MaxRotationFiles)
        /\ IsFiniteSet(1..MaxFileSize)
    BY FS_Interval, ConstantsOK
  <1>2. IsFiniteSet(Path)
    BY <1>1, FS_Product DEF Path
  <1>3. IsFiniteSet(Path \X (1..MaxFileSize))
    BY <1>1, <1>2, FS_Product
  <1>4. Places(f, r) \subseteq Path \X (1..MaxFileSize)
    BY DEF Places
  <1>5. IsFiniteSet(Places(f, r))
    BY <1>3, <1>4, FS_Subset
  <1>6. QED
    BY <1>5, FS_CardinalityType

LEMMA FewerPlaces ==
    ASSUME NEW f, NEW g, NEW r, Places(g, r) \subseteq Places(f, r)
    PROVE  Cardinality(Places(g, r)) <= Cardinality(Places(f, r))
  BY PlacesAreFinite, FS_Subset

LEMMA OneMorePlace ==
    ASSUME NEW f, NEW g, NEW r, NEW x, Places(g, r) \subseteq Places(f, r) \cup {x}
    PROVE  Cardinality(Places(g, r)) <= Cardinality(Places(f, r)) + 1
  <1> DEFINE A == Places(f, r)
             B == Places(g, r)
  <1>1. IsFiniteSet(A) /\ Cardinality(A) \in Nat /\ Cardinality(B) \in Nat
    BY PlacesAreFinite
  <1> HIDE DEF A, B
  <1>2. /\ IsFiniteSet(A \cup {x})
        /\ Cardinality(A \cup {x}) = Cardinality(A) \/ Cardinality(A \cup {x}) = Cardinality(A) + 1
    BY <1>1, FS_AddElement
  <1>3. Cardinality(B) <= Cardinality(A \cup {x})
    BY <1>2, FS_Subset DEF A, B
  <1>4. QED
    BY <1>1, <1>2, <1>3 DEF A, B

LEMMA CopiesArePlaces ==
    ASSUME NEW r
    PROVE  /\ Copies(r) = Cardinality(Places(files, r))
           /\ Copies(r)' = Cardinality(Places(files', r))
  BY DEF Copies, Places

\* What a step adds to the records still to be written: the one just logged.  A
\* line that was written leaves them, and a flush that broke off is counted.
LEMMA ToWriteMoves ==
    ASSUME IInv, BufferOrdered, [Next]_vars
    PROVE  /\ ToWrite' \subseteq Record
           /\ \/ FlushFails /\ torn' = torn + 1
              \/ /\ torn' = torn
                 /\ ToWrite' \subseteq ToWrite \cup {next}
                 /\ LogToCard => next \notin ToWrite'
                 /\ FlushLine => RecordAt(ring, flush.i) \notin ToWrite'
  <1>1. /\ IInv' /\ BufferOrdered'
        /\ ring \in Ring /\ WellShaped(ring) /\ ring.count \in 0..BufferSize
        /\ BufferSize \in Nat /\ flush.i \in Nat /\ next \in Nat
        /\ ring' \in Ring /\ WellShaped(ring') /\ ring'.count \in Nat
    BY NextKeeps, OrderStep, ConstantsOK DEF IInv, TypeOK, Ring, RingShape
  <1>2. ToWrite' \subseteq Record
    BY <1>1, RecordAtSlot DEF ToWrite
  <1>3. CASE LogFails \/ LogToBuffer
    <2>1. /\ pc = "idle" /\ pc' = "idle" /\ ring' = BufferPush(ring, next)
          /\ next <= MaxRecords /\ torn' = torn
      BY <1>3 DEF LogFails, LogToBuffer
    <2>2. next \in Record
      BY <2>1, ConstantsOK DEF IInv, TypeOK, Record
    <2>3. ASSUME NEW k \in 0..(ring'.count - 1)
          PROVE  RecordAt(ring', k) \in ToWrite \cup {next}
      <3>1. CASE ring.count < BufferSize
        <4>1. k = ring.count \/ k \in 0..(ring.count - 1)
          BY <1>1, <2>1, <2>2, <3>1, PushedBelowLimit
        <4>2. CASE k = ring.count
          BY <1>1, <2>1, <2>2, <3>1, <4>2, PushedBelowLimit
        <4>3. CASE k \in 0..(ring.count - 1)
          <5>1. RecordAt(ring', k) = RecordAt(ring, k)
            BY <1>1, <2>1, <2>2, <3>1, <4>3, PushedBelowLimit
          <5>2. QED
            BY <2>1, <4>3, <5>1 DEF ToWrite
        <4>4. QED
          BY <4>1, <4>2, <4>3
      <3>2. CASE ring.count = BufferSize
        <4>1. \/ k = BufferSize - 1
              \/ k \in 0..(BufferSize - 2) /\ k + 1 \in 0..(ring.count - 1)
          BY <1>1, <2>1, <2>2, <3>2, PushedAtLimit
        <4>2. CASE k = BufferSize - 1
          BY <1>1, <2>1, <2>2, <3>2, <4>2, PushedAtLimit
        <4>3. CASE k \in 0..(BufferSize - 2) /\ k + 1 \in 0..(ring.count - 1)
          <5>1. RecordAt(ring', k) = RecordAt(ring, k + 1)
            BY <1>1, <2>1, <2>2, <3>2, <4>3, PushedAtLimit
          <5>2. QED
            BY <2>1, <4>3, <5>1 DEF ToWrite
        <4>4. QED
          BY <4>1, <4>2, <4>3
      <3>3. QED
        BY <1>1, <3>1, <3>2
    <2>4. ToWrite' \subseteq ToWrite \cup {next}
      BY <2>3 DEF ToWrite
    <2>5. ~LogToCard /\ ~FlushLine
      <3>1. ~FlushLine
        BY <2>1, FlushLineFacts
      <3>2. LogToCard => ring' = ring /\ next' = next + 1
        BY DEF LogToCard
      <3>3. ASSUME LogToCard PROVE FALSE
        <4>1. BufferPush(ring, next) = ring
          BY <2>1, <3>2, <3>3
        <4>2. CASE ring.count < BufferSize
          BY <1>1, <2>2, <4>1, <4>2, PushedBelowLimit
        <4>3. CASE ring.count = BufferSize
          <5>1. RecordAt(ring, BufferSize - 1) = next /\ BufferSize - 1 \in 0..(ring.count - 1)
            BY <1>1, <2>2, <4>1, <4>3, PushedAtLimit, ConstantsOK
          <5>2. RecordAt(ring, BufferSize - 1) < next
            BY <5>1 DEF BufferOrdered, InOrder
          <5>3. QED
            BY <1>1, <5>1, <5>2
        <4>4. QED
          BY <1>1, <4>2, <4>3
      <3>4. QED
        BY <3>1, <3>3
    <2>6. QED
      BY <1>2, <2>1, <2>4, <2>5
  <1>4. CASE FlushLine
    <2> DEFINE i == flush.i
    <2>1. /\ pc = "flush" /\ pc' = "flush" /\ ring' = ring /\ torn' = torn
          /\ flush'.i = i + 1 /\ i \in 0..(ring.count - 1) /\ next' = next
      BY <1>4, FlushLineFacts
    <2>2. ASSUME NEW k \in 0..(ring'.count - 1), k >= flush'.i
          PROVE  /\ RecordAt(ring', k) \in ToWrite
                 /\ RecordAt(ring, i) < RecordAt(ring', k)
                 /\ RecordAt(ring, i) \in Nat /\ RecordAt(ring', k) \in Nat
      <3>1. k \in 0..(ring.count - 1) /\ k >= i /\ i < k
        BY <1>1, <2>1, <2>2
      <3>2. RecordAt(ring, k) \in ToWrite
        BY <2>1, <3>1 DEF ToWrite
      <3>3. RecordAt(ring, i) < RecordAt(ring, k)
        BY <2>1, <3>1 DEF BufferOrdered, InOrder
      <3>4. RecordAt(ring, i) \in Nat /\ RecordAt(ring, k) \in Nat
        BY <1>1, <2>1, <3>1, RecordAtSlot DEF Record
      <3>5. QED
        BY <2>1, <3>2, <3>3, <3>4
    <2>3. ToWrite' \subseteq ToWrite
      BY <2>1, <2>2 DEF ToWrite
    <2>4. RecordAt(ring, i) \notin ToWrite'
      BY <2>1, <2>2 DEF ToWrite
    <2>5. ~LogToCard
      BY <1>1, <2>1, NextGrows
    <2>6. QED
      BY <1>2, <2>1, <2>3, <2>4, <2>5
  <1>5. CASE FlushFails
    <2>1. /\ pc = "flush" /\ pc' = "idle" /\ ring' = ring /\ next' = next
          /\ torn' = IF flush.i > 0 THEN torn + 1 ELSE torn
      BY <1>5 DEF FlushFails
    <2>2. CASE flush.i > 0
      BY <1>2, <1>5, <2>1, <2>2
    <2>3. CASE ~(flush.i > 0)
      <3>1. \A k \in 0..(ring.count - 1) : k >= flush.i
        BY <1>1, <2>3
      <3>2. ToWrite' \subseteq ToWrite
        BY <2>1, <3>1 DEF ToWrite
      <3>3. ~LogToCard /\ ~FlushLine
        <4>1. ~LogToCard
          BY <1>1, <2>1, NextGrows
        <4>2. ~FlushLine
          BY <2>1, FlushLineFacts
        <4>3. QED
          BY <4>1, <4>2
      <3>4. QED
        BY <1>2, <2>1, <2>3, <3>2, <3>3
    <2>4. QED
      BY <2>2, <2>3
  <1>6. CASE LogToCard
    <2>1. pc = "idle" /\ pc' = "idle" /\ ring' = ring /\ torn' = torn
      BY <1>6 DEF LogToCard
    <2>2. ToWrite' = ToWrite
      BY <2>1 DEF ToWrite
    <2>3. next \notin ToWrite
      <3>1. \A k \in 0..(ring.count - 1) : RecordAt(ring, k) < next
        BY DEF BufferOrdered, InOrder
      <3>2. \A k \in 0..(ring.count - 1) : RecordAt(ring, k) # next
        BY <1>1, <3>1
      <3>3. QED
        BY <3>2 DEF ToWrite
    <2>4. ~FlushLine
      BY <2>1, FlushLineFacts
    <2>5. QED
      BY <1>2, <2>1, <2>2, <2>3, <2>4
  <1>7. CASE \/ InitWithoutCard \/ InitWithCard \/ FlushDone \/ PowerCycle
             \/ CheckSd \/ FlushBuffer \/ DeinitFlush \/ Deinit \/ Remount
             \/ UNCHANGED vars
    <2>1. torn' = torn /\ next' = next
      BY <1>7 DEF InitWithoutCard, InitWithCard, FlushDone, PowerCycle, CheckSd,
         CheckSdNoTransition, CheckSdOpenFails, CheckSdFlush, FlushBuffer, DeinitFlush,
         Deinit, Remount, vars
    <2>2. ~LogToCard
      BY <1>1, <2>1, NextGrows
    <2>3. ToWrite' \subseteq ToWrite /\ ~FlushLine
      <3>1. CASE InitWithoutCard \/ InitWithCard \/ PowerCycle
        <4>1. ring' = EmptyRing /\ EmptyRing.count = 0
          BY <3>1 DEF InitWithoutCard, InitWithCard, PowerCycle, EmptyRing
        <4>2. \A k \in 0..(0 - 1) : FALSE
          OBVIOUS
        <4>3. ToWrite' = {}
          BY <4>1, <4>2 DEF ToWrite
        <4>4. ~FlushLine
          BY <3>1, FlushLineFacts DEF InitWithoutCard, InitWithCard, PowerCycle, IInv,
             SessionStarted
        <4>5. QED
          BY <4>3, <4>4
      <3>2. CASE FlushDone
        <4>1. ring' = [ring EXCEPT !.head = 0, !.count = 0] /\ pc = "flush" /\ pc' = "idle"
          BY <3>2 DEF FlushDone
        <4>2. ring'.count = 0
          BY <1>1, <4>1 DEF Ring
        <4>3. \A k \in 0..(0 - 1) : FALSE
          OBVIOUS
        <4>4. ToWrite' = {}
          BY <4>2, <4>3 DEF ToWrite
        <4>5. ~FlushLine
          BY <4>1, FlushLineFacts
        <4>6. QED
          BY <4>4, <4>5
      <3>3. CASE CheckSd \/ FlushBuffer \/ DeinitFlush \/ Deinit \/ Remount
        <4>1. /\ ring' = ring /\ pc = "idle"
              /\ pc' = "idle" \/ flush' \in [for : {"check_sd", "api", "deinit"}, i : {0}]
          BY <3>3 DEF CheckSd, CheckSdNoTransition, CheckSdOpenFails, CheckSdFlush,
             FlushBuffer, DeinitFlush, Deinit, Remount
        <4>2. QED
          BY <4>1, FlushLineFacts DEF ToWrite
      <3>4. CASE UNCHANGED vars
        <4>1. ring' = ring /\ pc' = pc /\ flush' = flush
          BY <3>4 DEF vars
        <4>2. ~FlushLine
          BY <1>1, <4>1, FlushLineFacts
        <4>3. QED
          BY <4>1, <4>2 DEF ToWrite
      <3>5. QED
        BY <1>7, <3>1, <3>2, <3>3, <3>4
    <2>4. QED
      BY <1>2, <2>1, <2>2, <2>3
  <1>8. QED
    BY <1>3, <1>4, <1>5, <1>6, <1>7 DEF Next, LogRecord, FlushStep

LEMMA CopiesStep ==
    IInv /\ BufferOrdered /\ CardIsOld /\ CopiesBounded /\ [Next]_vars => CopiesBounded'
  <1> SUFFICES ASSUME IInv, BufferOrdered, CardIsOld, CopiesBounded, [Next]_vars
               PROVE  CopiesBounded'
    OBVIOUS
  <1> DEFINE before(q) == Cardinality(Places(files, q))
             after(q)  == Cardinality(Places(files', q))
  <1>1. \A q : before(q) \in Nat /\ after(q) \in Nat
    BY PlacesAreFinite
  <1>2. torn \in Nat /\ torn' \in Nat /\ next \in Nat
    BY NextKeeps DEF IInv, TypeOK
  <1>3. /\ \A q \in Record : before(q) <= 1 + torn
        /\ \A q \in ToWrite : before(q) <= torn
    BY CopiesArePlaces DEF CopiesBounded, CopiesExplained
  <1>4. next \in Record => before(next) = 0
    <2>1. next \in Record => Places(files, next) = {}
      BY <1>2 DEF CardIsOld
    <2>2. QED
      BY <2>1, FS_EmptySet
  <1>5. /\ ToWrite' \subseteq Record
        /\ \/ FlushFails /\ torn' = torn + 1
           \/ /\ torn' = torn
              /\ ToWrite' \subseteq ToWrite \cup {next}
              /\ LogToCard => next \notin ToWrite'
              /\ FlushLine => RecordAt(ring, flush.i) \notin ToWrite'
    BY ToWriteMoves
  <1>6. \/ PowerCycle \/ AddsNothing(files', files)
        \/ LogToCard /\ AddsOnly(files', files, next)
        \/ FlushLine /\ AddsOnly(files', files, RecordAt(ring, flush.i))
    BY CardSteps
  <1> HIDE DEF before, after
  <1>7. CASE PowerCycle \/ AddsNothing(files', files)
    <2>1. \A q \in Record : after(q) <= before(q)
      <3>1. AddsNothing(files', files)
        BY <1>7 DEF PowerCycle, AddsNothing
      <3>2. QED
        BY <3>1, FewerPlaces DEF AddsNothing, before, after
    <2>2. \A q \in Record : after(q) <= 1 + torn'
      BY <1>1, <1>2, <1>3, <1>5, <2>1
    <2>3. \A q \in ToWrite' : after(q) <= torn'
      BY <1>1, <1>2, <1>3, <1>4, <1>5, <2>1
    <2>4. QED
      BY <2>2, <2>3, CopiesArePlaces DEF CopiesBounded, CopiesExplained, after
  <1>8. ASSUME NEW r, AddsOnly(files', files, r),
               \/ LogToCard /\ r = next
               \/ FlushLine /\ r = RecordAt(ring, flush.i)
        PROVE  CopiesBounded'
    <2>1. /\ \A q \in Record \ {r} : after(q) <= before(q)
          /\ after(r) <= before(r) + 1
      <3>1. \A q \in Record \ {r} : after(q) <= before(q)
        BY <1>8, FewerPlaces DEF AddsOnly, before, after
      <3>2. PICK x : Places(files', r) \subseteq Places(files, r) \cup {x}
        BY <1>8 DEF AddsOnly
      <3>3. QED
        BY <3>1, <3>2, OneMorePlace DEF before, after
    <2>2. torn' = torn
      BY <1>8, FlushLineFacts DEF LogToCard
    <2>3. /\ ToWrite' \subseteq (ToWrite \cup {next}) \ {r}
          /\ ToWrite' \subseteq Record
      BY <1>2, <1>5, <1>8, <2>2
    <2>4. r \in Record => before(r) <= torn
      <3>1. CASE LogToCard /\ r = next
        BY <1>2, <1>4, <3>1
      <3>2. CASE FlushLine /\ r = RecordAt(ring, flush.i)
        <4>1. flush.i \in 0..(ring.count - 1) /\ flush.i >= flush.i
          BY <3>2, FlushLineFacts
        <4>2. r \in ToWrite
          BY <3>2, <4>1 DEF ToWrite
        <4>3. QED
          BY <1>3, <4>2
      <3>3. QED
        BY <1>8, <3>1, <3>2
    <2>5. \A q \in Record : after(q) <= 1 + torn'
      BY <1>1, <1>2, <1>3, <2>1, <2>2, <2>4
    <2>6. \A q \in ToWrite' : after(q) <= torn'
      BY <1>1, <1>2, <1>3, <1>4, <2>1, <2>2, <2>3
    <2>7. QED
      BY <2>5, <2>6, CopiesArePlaces DEF CopiesBounded, CopiesExplained, after
  <1>9. QED
    BY <1>6, <1>7, <1>8

-----------------------------------------------------------------------------
(* The theorems on the history.                                            *)

LEMMA HistoryStarts == Init => HistoryInv
  <1> SUFFICES ASSUME Init PROVE HistoryInv
    OBVIOUS
  <1>1. /\ ring.count = 0 /\ lost.overwritten = {} /\ torn = 0
        /\ \A p \in Path : files[p] = <<>>
    BY DEF Init, EmptyRing, NoLoss
  <1>2. \A k \in 0..(0 - 1) : FALSE
    OBVIOUS
  <1>3. BufferOrdered
    BY <1>1, <1>2 DEF BufferOrdered, InOrder
  <1>4. \A r : Places(files, r) = {}
    <2> SUFFICES ASSUME NEW r, NEW x \in Places(files, r) PROVE FALSE
      OBVIOUS
    <2>1. x[1] \in Path /\ x[2] \in 1..MaxFileSize /\ x[2] <= Len(files[x[1]])
      BY DEF Places
    <2>2. Len(files[x[1]]) = 0
      BY <1>1, <2>1
    <2>3. QED
      BY <2>1, <2>2, ConstantsOK
  <1>5. CardIsOld
    BY <1>4 DEF CardIsOld
  <1>6. \A r : Copies(r) = 0
    BY <1>4, CopiesArePlaces, FS_EmptySet
  <1>7. CopiesBounded
    BY <1>1, <1>2, <1>6 DEF CopiesBounded, CopiesExplained, ToWrite
  <1>8. LaterPathsOld
    BY <1>1 DEF LaterPathsOld, ToSet
  <1>9. QED
    BY <1>3, <1>5, <1>7, <1>8 DEF HistoryInv

LEMMA HistoryStep == IInv /\ HistoryInv /\ [Next]_vars => HistoryInv'
  BY OrderStep, CardIsOldStep, CopiesStep, LaterPathsStep DEF HistoryInv

LEMMA HistoryInvariance == Spec => [](IInv /\ HistoryInv)
  BY InitEstablishes, NextKeeps, HistoryStarts, HistoryStep, PTL DEF Spec

\* buffer_push and data_logger_flush_buffer together keep the buffer in the order
\* of logging over every wrap, flush and power cycle, and only ever give up records
\* older than all those kept, for every buffer size.
THEOREM BufferOrder == Spec => []BufferKeepsNewestInOrder
  <1>1. IInv /\ HistoryInv => BufferKeepsNewestInOrder
    <2> SUFFICES ASSUME IInv, HistoryInv PROVE BufferKeepsNewestInOrder
      OBVIOUS
    <2>1. ring.count \in Nat
      BY ConstantsOK DEF IInv, TypeOK, Ring
    <2>2. \A k \in 1..ring.count : k - 1 \in 0..(ring.count - 1)
      BY <2>1
    <2>3. \A k \in 1..ring.count : Buffered[k] = RecordAt(ring, k - 1)
      BY DEF Buffered, Contents
    <2>4. \A j, k \in 1..ring.count : j < k => j - 1 < k - 1
      BY <2>1
    <2>5. QED
      BY <2>2, <2>3, <2>4 DEF HistoryInv, BufferOrdered, InOrder, BufferKeepsNewestInOrder
  <1>2. QED
    BY <1>1, HistoryInvariance, PTL

\* A record is on the card twice only for a flush that broke off after part of the
\* buffer was written (the early return of data_logger_flush_buffer keeps it all).
THEOREM CopiesCounted == Spec => []CopiesExplained
  <1>1. HistoryInv => CopiesExplained
    BY DEF HistoryInv, CopiesBounded
  <1>2. QED
    BY <1>1, HistoryInvariance, PTL

\* rotate_file and a restart of the logger take a path that held nothing of this
\* boot, and no file but the new one changes with it.
THEOREM RotationIsFresh == Spec => RotationKeepsFiles
  <1> DEFINE Moves == (up' /\ PathOf(csv') # PathOf(csv))
                        => /\ \A r \in ToSet(files[PathOf(csv')]) : r < bootFirst
                           /\ \A p \in Path \ {PathOf(csv')} : files'[p] = files[p]
  <1>1. IInv /\ HistoryInv /\ [Next]_vars => [Moves]_vars
    <2> SUFFICES ASSUME IInv, HistoryInv, [Next]_vars, up', PathOf(csv') # PathOf(csv)
                 PROVE  /\ \A r \in ToSet(files[PathOf(csv')]) : r < bootFirst
                        /\ \A p \in Path \ {PathOf(csv')} : files'[p] = files[p]
      OBVIOUS
    <2>1. CardMoves
      BY CardSteps DEF PowerCycle
    <2>2. PathOf(csv') \in Path
      <3>1. IInv'
        BY NextKeeps
      <3>2. csv' \in Csv /\ csv'.session >= 1
        BY <3>1 DEF IInv, TypeOK, SessionStarted
      <3>3. QED
        BY <3>2, PathOfIsPath
    <2>3. QED
      BY <2>1, <2>2 DEF CardMoves, HistoryInv, LaterPathsOld
  <1>2. QED
    BY <1>1, HistoryInvariance, PTL DEF Spec, RotationKeepsFiles

=============================================================================
