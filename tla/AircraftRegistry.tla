-------------------------- MODULE AircraftRegistry --------------------------
(***************************************************************************)
(* The table of detected aircraft: components/domain/src/                  *)
(* aircraft_registry.c and the two tasks that write its entries, the       *)
(* decoder (telemetry_decoder.c, update_registry) and the simulation       *)
(* (simulation_service.c, simulation_service_tick on the UI task).         *)
(*                                                                         *)
(* registry_find_or_create and registry_update_status hold reg->mutex; the *)
(* pointer the first returns outlives it, and a writer fills the entry in  *)
(* with the mutex free.  The model interleaves those writes with the other *)
(* writer, with searches and with each slot of a status sweep.             *)
(***************************************************************************)
EXTENDS Integers, Sequences, FiniteSets

CONSTANTS
    SlotCount,    \* MAX_AIRCRAFT
    HistoryLen,   \* TELEMETRY_HISTORY_LEN
    Timeout,      \* AIRCRAFT_TIMEOUT_MS, in ticks
    Ids,          \* aircraft ids the radios can report
    SimIds,       \* the ids of s_drone_templates
    NoId,         \* the id of a free slot
    StatusSweep,  \* whether some caller uses registry_update_status (the tests do)
    MaxTime,      \* bound: the clock
    MaxDetect,    \* bound: the last tick at which anything transmits
    MaxCalls      \* bound: calls of registry_find_or_create

ASSUME RegistryConstants ==
    /\ SlotCount \in Nat \ {0}
    /\ HistoryLen \in Nat \ {0}
    /\ Timeout \in Nat
    /\ IsFiniteSet(Ids) /\ SimIds \subseteq Ids /\ NoId \notin Ids
    /\ StatusSweep \in BOOLEAN
    /\ MaxTime \in Nat /\ MaxDetect \in 0..MaxTime
    /\ MaxCalls \in Nat

VARIABLES
    now,       \* esp_timer, in ticks
    entries,   \* reg->entries
    count,     \* reg->count
    total,     \* reg->total_detected
    writer,    \* where each writing task is, and the entry it points to
    sweep,     \* registry_update_status: its time, its slot, what it decided
    calls,     \* history: calls of registry_find_or_create
    recycled   \* history: slots evicted under a writer that points to them

vars == <<now, entries, count, total, writer, sweep, calls, recycled>>

-----------------------------------------------------------------------------
Slot   == 1..SlotCount
Time   == 0..MaxTime
Writer == {"decoder", "simulation"}
Status == {"active", "outOfRange"}
Sample == [of : Ids, at : Time]

\* tel is the id whose telemetry the entry holds; a free slot has id NoId.
Entry == [id : Ids \cup {NoId}, status : Status, seen : Time,
          tel : Ids \cup {NoId}, history : Seq(Sample)]

FreeEntry == [id |-> NoId, status |-> "active", seen |-> 0, tel |-> NoId,
              history |-> <<>>]

\* Steps of a writer after the search, in the order of its assignments.
Step   == {"idle", "status", "seen", "telemetry", "history"}
Idle   == [at |-> "idle", id |-> NoId, slot |-> 0, stamp |-> 0]
NoSweep == [slot |-> 0, time |-> 0, expired |-> FALSE]

Occupied(e) == { s \in Slot : e[s].id # NoId }
OutOfRange(e) == { s \in Occupied(e) : e[s].status = "outOfRange" }

-----------------------------------------------------------------------------
(* aircraft_registry.c.                                                    *)

\* Seeded fault: an OUT_OF_RANGE entry is not recognised.
Holding_ActiveOnly(e, id) ==
    { s \in Occupied(e) : e[s].id = id /\ e[s].status = "active" }

\* The entries the search of registry_find_or_create matches.
Holding(e, id) == { s \in Occupied(e) : e[s].id = id }

\* find_empty_slot: the first free slot.
EmptySlot(e) ==
    { s \in Slot : e[s].id = NoId /\ \A t \in 1..(s - 1) : e[t].id # NoId }

\* Seeded fault: the status of a candidate is not looked at.
EvictionCandidate_AnyStatus(e) ==
    { s \in Occupied(e) :
        \A t \in Occupied(e) \ {s} :
            e[s].seen < e[t].seen \/ (e[s].seen = e[t].seen /\ s < t) }

\* find_eviction_candidate: the OUT_OF_RANGE entry seen longest ago, the first
\* of equals.
EvictionCandidate(e) ==
    { s \in OutOfRange(e) :
        \A t \in OutOfRange(e) \ {s} :
            e[s].seen < e[t].seen \/ (e[s].seen = e[t].seen /\ s < t) }

\* init_slot.
NewEntry(id) == [FreeEntry EXCEPT !.id = id]

\* The count when an occupied slot is replaced: once down, once up.
Evict(n) == (n - 1) + 1

\* registry_update_status: silent for longer than the timeout, with the guard
\* against a clock that precedes the entry.
Expired(e, t) == t >= e.seen /\ t - e.seen > Timeout

-----------------------------------------------------------------------------
Init ==
    /\ now = 0
    /\ entries = [s \in Slot |-> FreeEntry]
    /\ count = 0
    /\ total = 0
    /\ writer = [w \in Writer |-> Idle]
    /\ sweep = NoSweep
    /\ calls = 0
    /\ recycled = {}

\* Time passes.
Tick ==
    /\ now < MaxTime
    /\ now' = now + 1
    /\ UNCHANGED <<entries, count, total, writer, sweep, calls, recycled>>

\* A writer's first assignment: telemetry for the decoder, status for the
\* simulation.
FirstStep(w) == IF w = "decoder" THEN "telemetry" ELSE "status"

\* The ids a writer deals with, and the stamps of what it reports: the decoder
\* gets detections that waited in a queue.
IdsOf(w)    == IF w = "decoder" THEN Ids ELSE SimIds
StampsOf(w) == IF w = "decoder" THEN { t \in {now - 1, now} : t >= 0 } ELSE {now}

\* The mutex is free and the writer calls registry_find_or_create.
MayCall(w) ==
    /\ writer[w].at = "idle" /\ sweep = NoSweep
    /\ now <= MaxDetect /\ calls < MaxCalls

\* The writer leaves the search with a pointer to slot s.
PointTo(w, id, s, t) ==
    writer' = [writer EXCEPT
                 ![w] = [at |-> FirstStep(w), id |-> id, slot |-> s, stamp |-> t]]

\* registry_find_or_create, an entry with the id: reactivated if need be.
FindExisting(w) ==
    /\ MayCall(w)
    /\ \E id \in IdsOf(w), t \in StampsOf(w) :
         \E s \in Holding(entries, id) :
            /\ entries' = [entries EXCEPT ![s].status = "active"]
            /\ PointTo(w, id, s, t)
    /\ calls' = calls + 1
    /\ UNCHANGED <<now, count, total, sweep, recycled>>

\* registry_find_or_create, no entry with the id: the first free slot.
CreateInEmpty(w) ==
    /\ MayCall(w)
    /\ \E id \in IdsOf(w), t \in StampsOf(w), s \in EmptySlot(entries) :
         /\ Holding(entries, id) = {}
         /\ entries' = [entries EXCEPT ![s] = NewEntry(id)]
         /\ PointTo(w, id, s, t)
    /\ count' = count + 1
    /\ total' = total + 1
    /\ calls' = calls + 1
    /\ UNCHANGED <<now, sweep, recycled>>

\* Seeded fault: init_slot sets the id and the status and clears nothing.
CreateByEviction_KeepsContents(w) ==
    /\ MayCall(w)
    /\ EmptySlot(entries) = {}
    /\ \E id \in IdsOf(w), t \in StampsOf(w), s \in EvictionCandidate(entries) :
         /\ Holding(entries, id) = {}
         /\ entries' = [entries EXCEPT ![s].id = id, ![s].status = "active"]
         /\ PointTo(w, id, s, t)
         /\ recycled' = IF \E v \in Writer : writer[v].slot = s
                        THEN recycled \cup {s} ELSE recycled
    /\ count' = Evict(count)
    /\ total' = total + 1
    /\ calls' = calls + 1
    /\ UNCHANGED <<now, sweep>>

\* registry_find_or_create, no free slot: an OUT_OF_RANGE entry is replaced.
CreateByEviction(w) ==
    /\ MayCall(w)
    /\ EmptySlot(entries) = {}
    /\ \E id \in IdsOf(w), t \in StampsOf(w), s \in EvictionCandidate(entries) :
         /\ Holding(entries, id) = {}
         /\ entries' = [entries EXCEPT ![s] = NewEntry(id)]
         /\ PointTo(w, id, s, t)
         /\ recycled' = IF \E v \in Writer : writer[v].slot = s
                        THEN recycled \cup {s} ELSE recycled
    /\ count' = Evict(count)
    /\ total' = total + 1
    /\ calls' = calls + 1
    /\ UNCHANGED <<now, sweep>>

\* registry_find_or_create returns NULL: the writer drops what it had.
Refused(w) ==
    /\ MayCall(w)
    /\ EmptySlot(entries) = {} /\ EvictionCandidate(entries) = {}
    /\ \E id \in IdsOf(w) : Holding(entries, id) = {}
    /\ calls' = calls + 1
    /\ UNCHANGED <<now, entries, count, total, writer, sweep, recycled>>

-----------------------------------------------------------------------------
(* The writes through the pointer, with the mutex free.                    *)

\* Where the writer goes after each assignment.  The decoder writes telemetry,
\* last_seen, status, history; the simulation status, last_seen, telemetry.
After(w, step) ==
    CASE w = "decoder"    /\ step = "telemetry" -> "seen"
      [] w = "decoder"    /\ step = "seen"      -> "status"
      [] w = "decoder"    /\ step = "status"    -> "history"
      [] w = "simulation" /\ step = "status"    -> "seen"
      [] w = "simulation" /\ step = "seen"      -> "telemetry"
      [] OTHER                                  -> "idle"

Proceed(w) ==
    writer' = IF After(w, writer[w].at) = "idle"
              THEN [writer EXCEPT ![w] = Idle]
              ELSE [writer EXCEPT ![w].at = After(w, @)]

Writing(w, step) == writer[w].at = step

WriteTelemetry(w) ==
    /\ Writing(w, "telemetry")
    /\ entries' = [entries EXCEPT ![writer[w].slot].tel = writer[w].id]
    /\ Proceed(w)
    /\ UNCHANGED <<now, count, total, sweep, calls, recycled>>

WriteSeen(w) ==
    /\ Writing(w, "seen")
    /\ entries' = [entries EXCEPT ![writer[w].slot].seen = writer[w].stamp]
    /\ Proceed(w)
    /\ UNCHANGED <<now, count, total, sweep, calls, recycled>>

WriteStatus(w) ==
    /\ Writing(w, "status")
    /\ entries' = [entries EXCEPT ![writer[w].slot].status = "active"]
    /\ Proceed(w)
    /\ UNCHANGED <<now, count, total, sweep, calls, recycled>>

\* The RSSI history: append, or shift left by one and write the last.
Push(h, x) ==
    IF Len(h) < HistoryLen THEN Append(h, x) ELSE Append(Tail(h), x)

WriteHistory(w) ==
    /\ Writing(w, "history")
    /\ entries' = [entries EXCEPT
                     ![writer[w].slot].history =
                         Push(@, [of |-> writer[w].id, at |-> writer[w].stamp])]
    /\ Proceed(w)
    /\ UNCHANGED <<now, count, total, sweep, calls, recycled>>

-----------------------------------------------------------------------------
(* registry_update_status: the mutex is held over the whole loop; each slot*)
(* is judged and then marked.                                              *)

SweepBegin ==
    /\ StatusSweep /\ sweep = NoSweep
    /\ sweep' = [slot |-> 1, time |-> now, expired |-> FALSE]
    /\ UNCHANGED <<now, entries, count, total, writer, calls, recycled>>

\* The loop goes to the next slot, or the mutex is given back.
NextSlot ==
    IF sweep.slot = SlotCount THEN NoSweep
    ELSE [sweep EXCEPT !.slot = @ + 1, !.expired = FALSE]

SweepJudge ==
    /\ sweep.slot > 0 /\ ~sweep.expired
    /\ LET e == entries[sweep.slot]
       IN  sweep' = IF e.id # NoId /\ e.status = "active" /\ Expired(e, sweep.time)
                    THEN [sweep EXCEPT !.expired = TRUE] ELSE NextSlot
    /\ UNCHANGED <<now, entries, count, total, writer, calls, recycled>>

SweepMark ==
    /\ sweep.slot > 0 /\ sweep.expired
    /\ entries' = [entries EXCEPT ![sweep.slot].status = "outOfRange"]
    /\ sweep' = NextSlot
    /\ UNCHANGED <<now, count, total, writer, calls, recycled>>

-----------------------------------------------------------------------------
FindOrCreate(w) ==
    FindExisting(w) \/ CreateInEmpty(w) \/ CreateByEviction(w) \/ Refused(w)

WriteEntry(w) ==
    WriteTelemetry(w) \/ WriteSeen(w) \/ WriteStatus(w) \/ WriteHistory(w)

Sweep == SweepBegin \/ SweepJudge \/ SweepMark

Next ==
    \/ Tick
    \/ \E w \in Writer : FindOrCreate(w) \/ WriteEntry(w)
    \/ Sweep

Spec == Init /\ [][Next]_vars

-----------------------------------------------------------------------------
(* Properties.                                                             *)

\* The table, its count and the writers keep to their ranges; no signal history is
\* longer than the array (aircraft_registry.c, telemetry_decoder.c).
TypeOK ==
    /\ now \in Time
    /\ entries \in [Slot -> Entry]
    /\ \A s \in Slot : Len(entries[s].history) <= HistoryLen
    /\ count \in 0..SlotCount
    /\ total \in 0..MaxCalls
    /\ writer \in [Writer -> [at : Step, id : Ids \cup {NoId}, slot : 0..SlotCount,
                              stamp : Time]]
    /\ sweep \in [slot : 0..SlotCount, time : Time, expired : BOOLEAN]
    /\ calls \in 0..MaxCalls
    /\ recycled \subseteq Slot

\* One entry per aircraft, over two tasks that search and create and a sweep that
\* changes what the search sees: no id is ever in two slots.
UniqueIds ==
    \A s, t \in Occupied(entries) : entries[s].id = entries[t].id => s = t

\* reg->count is the number of occupied slots through every eviction, and no more
\* than were ever detected.
CountMatches ==
    /\ count = Cardinality(Occupied(entries))
    /\ count <= total

\* A writer fills in the entry of the aircraft it looked up, although it writes
\* with the mutex free: what an entry holds is its own aircraft's, unless the slot
\* was given to another one under the writer's pointer.
EntryHoldsItsOwn ==
    \A s \in Occupied(entries) \ recycled :
        /\ entries[s].tel \in {NoId, entries[s].id}
        /\ \A k \in 1..Len(entries[s].history) : entries[s].history[k].of = entries[s].id

\* An aircraft loses its entry only when the table is full and every other
\* OUT_OF_RANGE aircraft was seen since; one in range never does.
DisplacesLongestSilent ==
    [][ \A s \in Occupied(entries) :
          entries'[s].id # entries[s].id =>
             /\ entries[s].status = "outOfRange"
             /\ Occupied(entries) = Slot
             /\ \A t \in OutOfRange(entries) : entries[s].seen <= entries[t].seen ]_vars
=============================================================================
