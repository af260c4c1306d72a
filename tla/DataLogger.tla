----------------------------- MODULE DataLogger -----------------------------
(***************************************************************************)
(* The CSV data logger of components/services/src/data_logger.c: the       *)
(* session file on the SD card, its rotation, the circular RAM buffer that *)
(* takes records while the card refuses them, the write-failure counter    *)
(* and the check that flushes the buffer when the card comes back.         *)
(*                                                                         *)
(* One task (main/task_manager.c, task_logger) calls data_logger_log and   *)
(* data_logger_check_sd in turn, so the calls do not interleave; a power   *)
(* cut can come between any two steps, and between two lines of a flush.   *)
(* The card (hal_sd.c and the FAT file system below it) is the             *)
(* environment: every open, header write and line write may fail.          *)
(*                                                                         *)
(* A record is the number of the data_logger_log call that carried it.  A  *)
(* file is the sequence of the records it holds, and its size counts the   *)
(* header and each record as one unit.                                     *)
(***************************************************************************)
EXTENDS Integers, Sequences, FiniteSets, SequencesExt

CONSTANTS
    BufferSize,        \* DATA_LOGGER_BUFFER_SIZE: slots of the RAM buffer
    MaxFileSize,       \* DATA_LOGGER_MAX_FILE_SIZE, in lines
    MaxRotationFiles,  \* MAX_ROTATION_FILES
    FailureLimit,      \* MAX_CONSECUTIVE_SD_WRITE_FAILURES
    CounterMax,        \* UINT8_MAX: where the failure counter saturates
    MaxRemounts,       \* bound: hal_sd_deinit or hal_sd_init under the logger
    MaxRecords,        \* bound: records logged in a behaviour
    MaxFaults,         \* bound: failures of the card in a behaviour
    MaxStarts,         \* bound: session id from which data_logger_init stops
    MaxSession,        \* bound: largest session id
    MaxBoots           \* bound: power cycles

ASSUME ConstantsOK ==
    /\ BufferSize \in Nat \ {0}
    /\ MaxFileSize \in Nat \ {0}
    /\ MaxRotationFiles \in Nat
    /\ FailureLimit \in Nat \ {0}
    /\ CounterMax \in Nat
    /\ CounterMax >= FailureLimit
    /\ MaxRemounts \in Nat
    /\ MaxRecords \in Nat
    /\ MaxFaults \in Nat
    /\ MaxSession \in Nat \ {0}
    /\ MaxStarts \in 1..MaxSession
    /\ MaxBoots \in Nat

VARIABLES
    up,         \* s_initialized
    mounted,    \* hal_sd_is_mounted()
    wasAvail,   \* s_sd_was_available
    failures,   \* s_consecutive_write_failures
    ring,       \* s_buffer: slots, head, count
    csv,        \* the current file: open, stale, size, session, rot
    files,      \* what the card holds: path -> sequence of records
    pc,         \* "idle", or "flush" inside data_logger_flush_buffer
    flush,      \* the flush in progress: its caller and its loop index
    next,       \* history: number of the next record
    bootFirst,  \* history: first record of this boot
    faults,     \* history: card failures so far
    boots,      \* history: power cycles so far
    remounts,   \* history: mounts and unmounts under the logger so far
    torn,       \* history: flushes that failed after writing a line
    lost        \* history: the records lost, by the way they were lost

vars == <<up, mounted, wasAvail, failures, ring, csv, files, pc, flush, next,
          bootFirst, faults, boots, remounts, torn, lost>>

\* What the logger's own steps leave alone.
card == <<mounted, boots, remounts, bootFirst>>

-----------------------------------------------------------------------------
(* Types and views of the state.                                           *)

Record  == 1..MaxRecords
Slot    == 0..(BufferSize - 1)
Path    == (1..MaxSession) \X (0..MaxRotationFiles)
Caller  == {"check_sd", "deinit", "api"}
Files   == [Path -> Seq(Record)]
Csv     == [open : BOOLEAN, stale : BOOLEAN, size : 0..(MaxFileSize + 1),
            session : 0..MaxSession, rot : 0..MaxRotationFiles]
Losses  == [overwritten : SUBSET Record, truncated : SUBSET Record,
            volatile : SUBSET Record]
Ring    == [slots : [Slot -> 0..MaxRecords], head : Slot, count : 0..BufferSize]

EmptyRing == [slots |-> [i \in Slot |-> 0], head |-> 0, count |-> 0]
ClosedCsv == [open |-> FALSE, stale |-> FALSE, size |-> 0, session |-> 0,
              rot |-> 0]
NoFlush   == [for |-> "api", i |-> 0]
NoLoss    == [overwritten |-> {}, truncated |-> {}, volatile |-> {}]

\* Seeded fault: the loop always starts at slot 0.
Start_AtZero(rb) == 0

\* Where the flush loop starts reading: the oldest record.
Start(rb) == IF rb.count = BufferSize THEN rb.head ELSE 0

\* The k-th oldest buffered record, k from 0.
RecordAt(rb, k) == rb.slots[(Start(rb) + k) % BufferSize]

\* The buffer as the flush loop reads it.
Contents(rb) == [k \in 1..rb.count |-> RecordAt(rb, k - 1)]

Buffered == Contents(ring)

\* The records some file holds.
Stored(f) == UNION { ToSet(f[p]) : p \in Path }

OnCard == Stored(files)

\* generate_filename: the path of the current session and rotation.
PathOf(c) == <<c.session, c.rot>>

\* The records that are somewhere, or known to be lost.
Accounted(f, rb, l) ==
    Stored(f) \cup ToSet(Contents(rb)) \cup l.overwritten \cup l.truncated
              \cup l.volatile

\* How many times the card holds a record.
Copies(r) ==
    Cardinality({ x \in Path \X (1..MaxFileSize) :
                    x[2] <= Len(files[x[1]]) /\ files[x[1]][x[2]] = r })

-----------------------------------------------------------------------------
(* Helpers of the C file.  Each returns the set of outcomes the card       *)
(* allows: whether it succeeded, the file handle, the card's content, the  *)
(* records a truncating open removed, and the card failures it took.       *)

Outcome(ok, c, f, cut, cost) ==
    [ok |-> ok, csv |-> c, files |-> f, cut |-> cut, cost |-> cost]

\* The handle data_logger_init starts from: a new session, nothing open.
NewSession(c) == [ClosedCsv EXCEPT !.session = c.session + 1]

\* hal_sd_close and s_file_open = false.
CloseFile(c) == [c EXCEPT !.open = FALSE, !.stale = FALSE]

\* Enough consecutive failures to treat the card as unavailable.
GivesUp(n) == n >= FailureLimit

\* open_new_file: closes the current file, then fopen(path, "w").
OpenNewFile(c, f) ==
    LET p      == PathOf(c)
        closed == CloseFile(c)
        empty  == [f EXCEPT ![p] = <<>>]
        cut    == ToSet(f[p])
    IN  { Outcome(FALSE, closed, f, {}, 1),                       \* fopen fails
          Outcome(FALSE, [closed EXCEPT !.size = 0], empty, cut, 1), \* header fails
          Outcome(TRUE, [closed EXCEPT !.open = TRUE, !.size = 1], empty, cut, 0) }

\* Seeded fault: the index wraps within the same session id.
Rotated_SameSession(c) ==
    [c EXCEPT !.rot = IF @ + 1 > MaxRotationFiles THEN 0 ELSE @ + 1]

\* rotate_file's next path: a new session id once the index is exhausted.
Rotated(c) ==
    IF c.rot + 1 > MaxRotationFiles
    THEN [c EXCEPT !.session = @ + 1, !.rot = 0]
    ELSE [c EXCEPT !.rot = @ + 1]

\* write_csv_line up to the write: open if closed, rotate if over the limit.
ReadyFile(c, f) ==
    IF ~c.open THEN OpenNewFile(c, f)
    ELSE IF c.size > MaxFileSize THEN OpenNewFile(Rotated(c), f)
    ELSE { Outcome(TRUE, c, f, {}, 0) }

\* write_csv_line: a handle that outlived an unmount never takes a line.
WriteCsvLine(c, f, r) ==
    LET ready == ReadyFile(c, f)
    IN  { o \in ready : ~o.ok }
        \cup { [o EXCEPT !.ok = FALSE, !.cost = IF o.csv.stale THEN 0 ELSE 1] :
                 o \in { x \in ready : x.ok } }
        \cup { [o EXCEPT !.csv.size = @ + 1,
                         !.files[PathOf(o.csv)] = Append(@, r)] :
                 o \in { x \in ready : x.ok /\ ~x.csv.stale } }

\* buffer_push: at the head; a full buffer loses its oldest record.
BufferPush(rb, r) ==
    [slots |-> [rb.slots EXCEPT ![rb.head] = r],
     head  |-> (rb.head + 1) % BufferSize,
     count |-> IF rb.count < BufferSize THEN rb.count + 1 ELSE rb.count]

\* The record a push overwrites.
Overwrites(rb) == IF rb.count = BufferSize THEN { rb.slots[rb.head] } ELSE {}

\* An outcome happens, and leaves the handle c.
Apply(o, c) ==
    /\ faults + o.cost <= MaxFaults
    /\ faults' = faults + o.cost
    /\ csv' = c
    /\ files' = o.files

\* Bound: room for one more session id, so that Path covers every rotation.
SessionRoom == csv.session < MaxSession

-----------------------------------------------------------------------------
(* Initial state: power-on, before data_logger_init; hal_sd_init has run.  *)

Init ==
    /\ up = FALSE
    /\ mounted \in BOOLEAN
    /\ wasAvail = FALSE
    /\ failures = 0
    /\ ring = EmptyRing
    /\ csv = ClosedCsv
    /\ files = [p \in Path |-> <<>>]
    /\ pc = "idle"
    /\ flush = NoFlush
    /\ next = 1
    /\ bootFirst = 1
    /\ faults = 0
    /\ boots = 0
    /\ remounts = 0
    /\ torn = 0
    /\ lost = NoLoss

-----------------------------------------------------------------------------
(* data_logger_init.                                                       *)

\* No card: buffer mode.
InitWithoutCard ==
    /\ ~up /\ csv.session < MaxStarts /\ ~mounted
    /\ up' = TRUE
    /\ wasAvail' = FALSE
    /\ failures' = 0
    /\ ring' = EmptyRing
    /\ csv' = NewSession(csv)
    /\ lost' = [lost EXCEPT !.volatile = @ \cup ToSet(Buffered)]
    /\ UNCHANGED <<files, pc, flush, next, faults, torn, card>>

\* The card is mounted: open the first file; if that fails, buffer mode.
InitWithCard ==
    /\ ~up /\ csv.session < MaxStarts /\ mounted
    /\ up' = TRUE
    /\ failures' = 0
    /\ ring' = EmptyRing
    /\ \E o \in OpenNewFile(NewSession(csv), files) :
         /\ Apply(o, o.csv)
         /\ wasAvail' = o.ok
         /\ lost' = [lost EXCEPT !.volatile = @ \cup ToSet(Buffered),
                                 !.truncated = @ \cup o.cut]
    /\ UNCHANGED <<pc, flush, next, torn, card>>

-----------------------------------------------------------------------------
(* data_logger_log.                                                        *)

\* The line reaches the card.
LogToCard ==
    /\ up /\ pc = "idle" /\ next <= MaxRecords /\ SessionRoom
    /\ mounted
    /\ \E o \in WriteCsvLine(csv, files, next) :
         /\ o.ok
         /\ Apply(o, o.csv)
         /\ lost' = [lost EXCEPT !.truncated = @ \cup o.cut]
    /\ failures' = 0
    /\ next' = next + 1
    /\ UNCHANGED <<up, wasAvail, ring, pc, flush, torn, card>>

\* Seeded fault: the file is closed but the card stays marked available.
LogFails_StaysAvailable ==
    /\ up /\ pc = "idle" /\ next <= MaxRecords /\ SessionRoom
    /\ mounted
    /\ failures' = IF failures < CounterMax THEN failures + 1 ELSE failures
    /\ \E o \in WriteCsvLine(csv, files, next) :
         /\ ~o.ok
         /\ Apply(o, IF GivesUp(failures') THEN CloseFile(o.csv) ELSE o.csv)
         /\ lost' = [lost EXCEPT !.truncated = @ \cup o.cut,
                                 !.overwritten = @ \cup Overwrites(ring)]
    /\ ring' = BufferPush(ring, next)
    /\ next' = next + 1
    /\ UNCHANGED <<up, wasAvail, pc, flush, torn, card>>

\* The card refuses: count the failure; at the limit stop trusting the card
\* and close the file.  The record falls into the buffer either way.
LogFails ==
    /\ up /\ pc = "idle" /\ next <= MaxRecords /\ SessionRoom
    /\ mounted
    /\ failures' = IF failures < CounterMax THEN failures + 1 ELSE failures
    /\ \E o \in WriteCsvLine(csv, files, next) :
         /\ ~o.ok
         /\ Apply(o, IF GivesUp(failures') THEN CloseFile(o.csv) ELSE o.csv)
         /\ lost' = [lost EXCEPT !.truncated = @ \cup o.cut,
                                 !.overwritten = @ \cup Overwrites(ring)]
    /\ wasAvail' = (wasAvail /\ ~GivesUp(failures'))
    /\ ring' = BufferPush(ring, next)
    /\ next' = next + 1
    /\ UNCHANGED <<up, pc, flush, torn, card>>

\* No card mounted.
LogToBuffer ==
    /\ up /\ pc = "idle" /\ next <= MaxRecords
    /\ ~mounted
    /\ ring' = BufferPush(ring, next)
    /\ lost' = [lost EXCEPT !.overwritten = @ \cup Overwrites(ring)]
    /\ next' = next + 1
    /\ UNCHANGED <<up, wasAvail, failures, csv, files, pc, flush, faults, torn,
                   card>>

-----------------------------------------------------------------------------
(* data_logger_check_sd, data_logger_flush_buffer, data_logger_deinit.     *)

\* check_sd outside a transition to available: follow the mount state.
CheckSdNoTransition ==
    /\ up /\ pc = "idle"
    /\ ~(mounted /\ ~wasAvail)
    /\ wasAvail' = mounted
    /\ UNCHANGED <<up, failures, ring, csv, files, pc, flush, next, faults, torn,
                   lost, card>>

\* Seeded fault: the card counts as available although nothing was flushed.
CheckSdOpenFails_MarksAvailable ==
    /\ up /\ pc = "idle" /\ SessionRoom
    /\ mounted /\ ~wasAvail /\ ~csv.open
    /\ wasAvail' = TRUE
    /\ \E o \in OpenNewFile(csv, files) :
         /\ ~o.ok
         /\ Apply(o, o.csv)
         /\ lost' = [lost EXCEPT !.truncated = @ \cup o.cut]
    /\ UNCHANGED <<up, failures, ring, pc, flush, next, torn, card>>

\* The card became available and the file cannot be opened: retry next time.
CheckSdOpenFails ==
    /\ up /\ pc = "idle" /\ SessionRoom
    /\ mounted /\ ~wasAvail /\ ~csv.open
    /\ \E o \in OpenNewFile(csv, files) :
         /\ ~o.ok
         /\ Apply(o, o.csv)
         /\ lost' = [lost EXCEPT !.truncated = @ \cup o.cut]
    /\ UNCHANGED <<up, wasAvail, failures, ring, pc, flush, next, torn, card>>

\* The card became available: (re)open the file and enter the flush.
CheckSdFlush ==
    /\ up /\ pc = "idle" /\ SessionRoom
    /\ mounted /\ ~wasAvail
    /\ IF csv.open
       THEN UNCHANGED <<csv, files, faults, lost>>
       ELSE \E o \in OpenNewFile(csv, files) :
              /\ o.ok
              /\ Apply(o, o.csv)
              /\ lost' = [lost EXCEPT !.truncated = @ \cup o.cut]
    /\ pc' = "flush"
    /\ flush' = [for |-> "check_sd", i |-> 0]
    /\ UNCHANGED <<up, wasAvail, failures, ring, next, torn, card>>

\* data_logger_flush_buffer called directly through the API.
FlushBuffer ==
    /\ up /\ pc = "idle" /\ SessionRoom
    /\ mounted /\ ring.count > 0
    /\ pc' = "flush"
    /\ flush' = [for |-> "api", i |-> 0]
    /\ UNCHANGED <<up, wasAvail, failures, ring, csv, files, next, faults, torn,
                   lost, card>>

\* data_logger_deinit with records to flush first.
DeinitFlush ==
    /\ up /\ pc = "idle" /\ SessionRoom
    /\ mounted /\ ring.count > 0
    /\ pc' = "flush"
    /\ flush' = [for |-> "deinit", i |-> 0]
    /\ UNCHANGED <<up, wasAvail, failures, ring, csv, files, next, faults, torn,
                   lost, card>>

\* data_logger_deinit with nothing it can flush.
Deinit ==
    /\ up /\ pc = "idle"
    /\ ~(mounted /\ ring.count > 0)
    /\ up' = FALSE
    /\ csv' = CloseFile(csv)
    /\ UNCHANGED <<wasAvail, failures, ring, files, pc, flush, next, faults, torn,
                   lost, card>>

\* One round of the flush loop: the next oldest record is written.
FlushLine ==
    /\ pc = "flush" /\ SessionRoom
    /\ flush.i < ring.count
    /\ \E o \in WriteCsvLine(csv, files, RecordAt(ring, flush.i)) :
         /\ o.ok
         /\ Apply(o, o.csv)
         /\ lost' = [lost EXCEPT !.truncated = @ \cup o.cut]
    /\ flush' = [flush EXCEPT !.i = @ + 1]
    /\ UNCHANGED <<up, wasAvail, failures, ring, pc, next, torn, card>>

\* Seeded fault: the buffer is cleared although the flush broke off.
FlushFails_Clears ==
    /\ pc = "flush" /\ SessionRoom
    /\ flush.i < ring.count
    /\ \E o \in WriteCsvLine(csv, files, RecordAt(ring, flush.i)) :
         /\ ~o.ok
         /\ Apply(o, IF flush.for = "deinit" THEN CloseFile(o.csv) ELSE o.csv)
         /\ lost' = [lost EXCEPT !.truncated = @ \cup o.cut]
    /\ ring' = [ring EXCEPT !.head = 0, !.count = 0]
    /\ up' = (flush.for # "deinit")
    /\ pc' = "idle"
    /\ flush' = NoFlush
    /\ torn' = IF flush.i > 0 THEN torn + 1 ELSE torn
    /\ UNCHANGED <<wasAvail, failures, next, card>>

\* A line fails: the flush returns at once and keeps the whole buffer.
\* data_logger_deinit closes all the same.
FlushFails ==
    /\ pc = "flush" /\ SessionRoom
    /\ flush.i < ring.count
    /\ \E o \in WriteCsvLine(csv, files, RecordAt(ring, flush.i)) :
         /\ ~o.ok
         /\ Apply(o, IF flush.for = "deinit" THEN CloseFile(o.csv) ELSE o.csv)
         /\ lost' = [lost EXCEPT !.truncated = @ \cup o.cut]
    /\ up' = (flush.for # "deinit")
    /\ pc' = "idle"
    /\ flush' = NoFlush
    /\ torn' = IF flush.i > 0 THEN torn + 1 ELSE torn
    /\ UNCHANGED <<wasAvail, failures, ring, next, card>>

\* Seeded fault: the buffer keeps what was just written.
FlushDone_KeepsBuffer ==
    /\ pc = "flush"
    /\ flush.i = ring.count
    /\ up' = (flush.for # "deinit")
    /\ csv' = IF flush.for = "deinit" THEN CloseFile(csv) ELSE csv
    /\ wasAvail' = (flush.for = "check_sd" \/ wasAvail)
    /\ failures' = IF flush.for = "check_sd" THEN 0 ELSE failures
    /\ pc' = "idle"
    /\ flush' = NoFlush
    /\ UNCHANGED <<ring, files, next, faults, torn, lost, card>>

\* The loop is over: the buffer is cleared, the caller goes on.
FlushDone ==
    /\ pc = "flush"
    /\ flush.i = ring.count
    /\ ring' = [ring EXCEPT !.head = 0, !.count = 0]
    /\ up' = (flush.for # "deinit")
    /\ csv' = IF flush.for = "deinit" THEN CloseFile(csv) ELSE csv
    /\ wasAvail' = (flush.for = "check_sd" \/ wasAvail)
    /\ failures' = IF flush.for = "check_sd" THEN 0 ELSE failures
    /\ pc' = "idle"
    /\ flush' = NoFlush
    /\ UNCHANGED <<files, next, faults, torn, lost, card>>

-----------------------------------------------------------------------------
(* The environment.                                                        *)

\* A power cut at any moment: RAM is gone, statics restart from zero; the
\* card keeps its files (the model is kind here: lines fwrite still held
\* count as written).  hal_sd_init runs again and may find no card.
PowerCycle ==
    /\ boots < MaxBoots
    /\ boots' = boots + 1
    /\ bootFirst' = next
    /\ mounted' \in BOOLEAN
    /\ up' = FALSE
    /\ wasAvail' = FALSE
    /\ failures' = 0
    /\ ring' = EmptyRing
    /\ csv' = ClosedCsv
    /\ pc' = "idle"
    /\ flush' = NoFlush
    /\ lost' = [lost EXCEPT !.volatile = @ \cup ToSet(Buffered)]
    /\ UNCHANGED <<files, next, faults, remounts, torn>>

\* hal_sd_deinit / hal_sd_init by another caller, between two logger calls:
\* a file handle open across the unmount is dead.
Remount ==
    /\ remounts < MaxRemounts /\ pc = "idle"
    /\ remounts' = remounts + 1
    /\ mounted' = ~mounted
    /\ csv' = [csv EXCEPT !.stale = @ \/ csv.open]
    /\ UNCHANGED <<up, wasAvail, failures, ring, files, pc, flush, next, bootFirst,
                   faults, boots, torn, lost>>

-----------------------------------------------------------------------------
LogRecord == LogToCard \/ LogFails \/ LogToBuffer

CheckSd == CheckSdNoTransition \/ CheckSdOpenFails \/ CheckSdFlush

FlushStep == FlushLine \/ FlushFails \/ FlushDone

Next ==
    \/ InitWithoutCard \/ InitWithCard
    \/ LogRecord
    \/ CheckSd
    \/ FlushBuffer \/ DeinitFlush \/ Deinit
    \/ FlushStep
    \/ PowerCycle
    \/ Remount

Spec == Init /\ [][Next]_vars

\* task_logger runs for ever: it calls data_logger_check_sd at least every
\* 500 ms and a call it is in goes on.  Nothing makes records arrive.
FairSpec == Spec /\ WF_vars(CheckSd) /\ WF_vars(FlushStep)

-----------------------------------------------------------------------------
(* Properties.                                                             *)

\* Flags, counters and indices of data_logger.c keep to their ranges: the failure
\* counter saturates, the ring never holds more than it has slots for.
TypeOK ==
    /\ up \in BOOLEAN
    /\ mounted \in BOOLEAN
    /\ wasAvail \in BOOLEAN
    /\ failures \in 0..CounterMax
    /\ ring \in Ring
    /\ csv \in Csv
    /\ files \in Files
    /\ pc \in {"idle", "flush"}
    /\ flush \in [for : Caller, i : 0..BufferSize]
    /\ next \in 1..(MaxRecords + 1)
    /\ bootFirst \in 1..(MaxRecords + 1)
    /\ faults \in 0..MaxFaults
    /\ boots \in 0..MaxBoots
    /\ remounts \in 0..MaxRemounts
    /\ torn \in Nat
    /\ lost \in Losses

\* data_logger_log says ESP_OK for every record, so each one is somewhere: on
\* the card, in the RAM buffer, or lost in one of three ways: overwritten in
\* the full buffer, truncated with the file it was in, or in RAM at a power
\* cut or a failed final flush.  No path drops one unseen, in particular not
\* the early return in the middle of a flush.
EveryRecordAccounted ==
    1..(next - 1) \subseteq Accounted(files, ring, lost)

\* The buffer holds its records in the order they came and gives up only the
\* oldest: whatever wrapped away is older than all that stayed, over every
\* mix of pushes, wraps, completed and interrupted flushes.
BufferKeepsNewestInOrder ==
    /\ \A j, k \in 1..ring.count : j < k => Buffered[j] < Buffered[k]
    /\ \A r \in lost.overwritten, k \in 1..ring.count : r < Buffered[k]

\* The size check before each line keeps every file of the card within the
\* limit plus the line that crosses it (the header is one unit of the limit).
FilesBounded ==
    \A p \in Path : Len(files[p]) <= MaxFileSize

\* Once the logger gave up on the card, check_sd still sees the card as newly
\* available: giving up never leaves the flags so that no flush will be tried.
GivingUpIsRecoverable ==
    up /\ failures >= FailureLimit => ~wasAvail

\* A record is on the card twice only because a flush broke off after writing
\* part of the buffer: each such flush explains one more copy.
CopiesExplained ==
    \A r \in Record : Copies(r) <= 1 + torn

\* Within a boot a new path is a fresh path: when rotation or a restart of the
\* logger changes the path, whether the index advanced or wrapped into a new
\* session id, the new path held no record of this boot, and every other file is
\* as it was.  (Records of an earlier boot are another matter: session ids
\* restart with the power, see NewFilePerSession.)
RotationKeepsFiles ==
    [][ (up' /\ PathOf(csv') # PathOf(csv))
          => /\ \A r \in ToSet(files[PathOf(csv')]) : r < bootFirst
             /\ \A p \in Path \ {PathOf(csv')} : files'[p] = files[p] ]_vars

\* When the card was given up or came late and does not fail for ever, the
\* task's periodic check gets it back in use with the buffer written out, unless
\* it is unmounted again.  (A handle left open across an unmount is excluded: no
\* check replaces it, only FailureLimit failing log calls do.)
CardRecovered ==
    (up /\ mounted /\ ~wasAvail /\ ~csv.stale)
      ~> (~up \/ ~mounted \/ (wasAvail /\ ring.count = 0))

-----------------------------------------------------------------------------
(* What the documents promise and the code does not keep.                  *)

\* Requirement 11.1: a new file per session of operation.  s_session_id is a
\* static that starts from 0 at every boot, so a later boot reopens the paths of
\* the earlier one with mode "w".
NewFilePerSession ==
    [][ \A r \in OnCard : r < bootFirst /\ bootFirst' = bootFirst => r \in OnCard' ]_vars
=============================================================================
