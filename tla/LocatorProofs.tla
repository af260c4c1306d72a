--------------------------- MODULE LocatorProofs ---------------------------
(***************************************************************************)
(* What the runs of PilotLocator check for a few places and readings,      *)
(* proved for any number of them: of the GPS driver under it, that the     *)
(* place shown is the last valid one and that a fix is supported; of the   *)
(* locator, that an entry holds the newest readings and that an answer     *)
(* from signal strength is one from those.                                 *)
(***************************************************************************)
EXTENDS PilotLocator, FiniteSetTheorems, TLAPS

(* A position has its five fields.  What a sentence puts into them does    *)
(* not matter to what is proved here.                                      *)
IsPosition(p) == DOMAIN p = {"place", "altitude", "satellites", "hdop", "fix_valid"}

Supported(p) == p.fix_valid => EvaluateFix(p)

(* Between the two writes of the reader the position is the one it parsed; *)
(* without a driver there is no reader.                                    *)
ReaderStores ==
    /\ parsed # Idle => current = parsed.pos
    /\ ~initialized => parsed = Idle

GpsInv ==
    /\ IsPosition(current) /\ current.fix_valid \in BOOLEAN
    /\ Supported(current)
    /\ ReaderStores
    /\ PlaceIsLastValid

-----------------------------------------------------------------------------
(* Parsing. *)

(* Whatever a sentence says, what it leaves is a position whose fix is     *)
(* supported by the satellites and the dilution in it.                     *)
LEMMA Parsing ==
    ASSUME NEW l, NEW pos, IsPosition(pos), pos.fix_valid \in BOOLEAN, Supported(pos)
    PROVE  LET p == ParseSentence(l, pos)
           IN  IsPosition(p) /\ p.fix_valid \in BOOLEAN /\ Supported(p)
<1> DEFINE s == l.of
<1>1. ASSUME NEW q, IsPosition(q)
      PROVE  LET r == [q EXCEPT !.fix_valid = EvaluateFix(q)]
             IN  IsPosition(r) /\ r.fix_valid \in BOOLEAN /\ Supported(r)
  <2> DEFINE f == EvaluateFix(q)
             r == [q EXCEPT !.fix_valid = f]
  <2>1. f \in BOOLEAN
    BY DEF EvaluateFix
  <2>2. r.satellites = q.satellites /\ r.hdop = q.hdop /\ r.fix_valid = f /\ IsPosition(r)
    <3> HIDE DEF f
    <3> QED
      BY <1>1 DEF IsPosition
  <2>3. EvaluateFix(r) = f
    <3> HIDE DEF r
    <3> QED
      BY <2>2 DEF EvaluateFix
  <2>4. Supported(r)
    <3> HIDE DEF r, f
    <3> QED
      BY <2>2, <2>3 DEF Supported
  <2> QED
    BY <2>1, <2>2, <2>4
<1>2. CASE l.of.type = "GGA" /\ ~s.valid
  <2>1. ParseSentence(l, pos) = [pos EXCEPT !.satellites = 0, !.hdop = NoHdop, !.fix_valid = FALSE]
    BY <1>2 DEF ParseSentence, ParseGga
  <2> QED
    BY <2>1 DEF IsPosition, Supported
<1>3. CASE l.of.type = "GGA" /\ s.valid
  <2> DEFINE q == [pos EXCEPT !.satellites = s.sats, !.hdop = Given(s.hdop, @),
                              !.place = Given(s.place, @), !.altitude = Given(s.place, @)]
  <2>1. ParseSentence(l, pos) = [q EXCEPT !.fix_valid = EvaluateFix(q)]
    BY <1>3 DEF ParseSentence, ParseGga
  <2>2. IsPosition(q)
    BY DEF IsPosition
  <2> HIDE DEF q
  <2> QED
    BY <1>1, <2>1, <2>2
<1>4. CASE l.of.type # "GGA" /\ s.valid
  <2> DEFINE x == Given(s.place, pos.place)
  <2>1. ParseSentence(l, pos) = [pos EXCEPT !.place = x]
    BY <1>4 DEF ParseSentence, ParseRmc, IsPosition
  <2> HIDE DEF x
  <2> QED
    BY <2>1 DEF IsPosition, Supported, EvaluateFix
<1>5. CASE l.of.type # "GGA" /\ ~s.valid
  <2>1. ParseSentence(l, pos) = pos
    BY <1>5 DEF ParseSentence, ParseRmc
  <2> QED
    BY <2>1
<1> QED
  BY <1>2, <1>3, <1>4, <1>5

-----------------------------------------------------------------------------
(* The driver. *)

LEMMA GpsInitially == GpsInit => GpsInv
BY DEF GpsInit, GpsInv, IsPosition, Supported, ReaderStores, PlaceIsLastValid,
       ZeroPosition, Idle

LEMMA GpsStep == ASSUME GpsInv, GpsNext PROVE GpsInv'
<1> USE DEF GpsInv
<1>1. ASSUME EndLine PROVE GpsInv'
  <2>1. PICK line :
          /\ mutex' = "reader"
          /\ parsed' = [ok |-> TRUE, pos |-> ParseSentence(line, current)]
          /\ current' = parsed'.pos
          /\ initialized /\ initialized' = initialized
    BY <1>1 DEF EndLine, Reading
  <2>2. current' = ParseSentence(line, current)
    BY <2>1
  <2>3. IsPosition(current') /\ current'.fix_valid \in BOOLEAN /\ Supported(current')
    BY <2>2, Parsing
  <2>4. ReaderStores' /\ PlaceIsLastValid'
    BY <2>1 DEF ReaderStores, PlaceIsLastValid
  <2> QED
    BY <2>3, <2>4
<1>2. ASSUME Settle PROVE GpsInv'
  <2>1. parsed' = Idle /\ initialized' = initialized /\ current = parsed.pos
    BY <1>2 DEF Settle, ReaderStores
  <2>2. CASE parsed.pos.fix_valid
    <3>1. current' = current /\ last_valid' = [place |-> current.place, altitude |-> current.altitude]
      BY <1>2, <2>1, <2>2 DEF Settle
    <3> QED
      BY <2>1, <3>1 DEF ReaderStores, PlaceIsLastValid
  <2>3. CASE ~parsed.pos.fix_valid /\ ever
    <3>1. current' = [current EXCEPT !.place = last_valid.place,
                        !.altitude = last_valid.altitude, !.fix_valid = FALSE]
      BY <1>2, <2>3 DEF Settle
    <3>2. last_valid' = last_valid
      BY <1>2, <2>3 DEF Settle
    <3>3. IsPosition(current') /\ current'.fix_valid = FALSE
          /\ current'.place = last_valid.place /\ current'.altitude = last_valid.altitude
      BY <3>1 DEF IsPosition
    <3> QED
      BY <2>1, <3>2, <3>3 DEF ReaderStores, PlaceIsLastValid, Supported
  <2>4. CASE ~parsed.pos.fix_valid /\ ~ever
    <3>1. current' = current /\ ever' = ever
      BY <1>2, <2>4 DEF Settle
    <3> QED
      BY <2>1, <2>4, <3>1 DEF ReaderStores, PlaceIsLastValid
  <2> QED
    BY <2>2, <2>3, <2>4
<1>3. ASSUME HalGpsInit PROVE GpsInv'
  <2>1. current' = NoPosition /\ ever' = FALSE /\ parsed' = Idle
    BY <1>3 DEF HalGpsInit, ReaderStores
  <2>2. IsPosition(NoPosition) /\ NoPosition.fix_valid = FALSE
    BY DEF NoPosition, ZeroPosition, IsPosition
  <2> QED
    BY <2>1, <2>2 DEF ReaderStores, PlaceIsLastValid, Supported
<1>4. ASSUME HalGpsDeinit PROVE GpsInv'
  BY <1>4 DEF HalGpsDeinit, ReaderStores, PlaceIsLastValid
<1>5. ASSUME GeoInit PROVE GpsInv'
  BY <1>5 DEF GeoInit, ReaderStores, PlaceIsLastValid
<1> QED
  BY <1>1, <1>2, <1>3, <1>4, <1>5 DEF GpsNext, Reader, GpsCalls

(* The locator reads the driver and writes none of it.                     *)
LEMMA GpsUntouched ==
    ASSUME GpsInv, UNCHANGED <<current, initialized, parsed, mutex, ever, last_valid>>
    PROVE  GpsInv'
BY DEF GpsInv, ReaderStores, PlaceIsLastValid

LEMMA LocateLeavesGps ==
    ASSUME Locate
    PROVE  UNCHANGED <<current, initialized, parsed, mutex, ever, last_valid, status, geo_ready>>
BY DEF Locate, Update, AddOnly, SetOperator, SetHome, GetPosition, Reset, Call, gpsVars

(* What is true of the driver stays true under the locator.                *)
THEOREM GpsHolds == Spec => []GpsInv
<1>1. Init => GpsInv
  BY GpsInitially DEF Init
<1>2. GpsInv /\ [Next]_vars => GpsInv'
  <2> SUFFICES ASSUME GpsInv, [Next]_vars PROVE GpsInv'
    OBVIOUS
  <2>1. CASE Next
    BY <2>1, GpsStep, LocateLeavesGps, GpsUntouched DEF Next
  <2>2. CASE UNCHANGED vars
    BY <2>2, GpsUntouched DEF vars, gpsVars
  <2> QED
    BY <2>1, <2>2
<1> QED
  BY <1>1, <1>2, PTL DEF Spec

(* A fix that is shown is supported by the satellites and the dilution     *)
(* shown with it, whatever sentences came, whole, damaged or merged, and   *)
(* whatever was called in between.                                         *)
THEOREM FixSupported == Spec => []FixIsSupported
<1>1. GpsInv => FixIsSupported
  BY DEF GpsInv, Supported, FixIsSupported
<1> QED
  BY <1>1, GpsHolds, PTL

(* Whoever has the mutex sees the place of the last valid position.        *)
THEOREM LastValidPlace == Spec => []PlaceIsLastValid
<1>1. GpsInv => PlaceIsLastValid
  BY DEF GpsInv
<1> QED
  BY <1>1, GpsHolds, PTL

-----------------------------------------------------------------------------
(* The readings of an aircraft. *)

IsEntry(e) == DOMAIN e = {"operator", "home", "readings", "position"}

Newest(s) ==
    LET k == IF Len(s) < MaxReadings THEN Len(s) ELSE MaxReadings
    IN  SubSeq(s, Len(s) - k + 1, Len(s))

ReadingsInv ==
    /\ DOMAIN noted = Aircraft /\ DOMAIN tracking \subseteq Aircraft
    /\ \A a \in Aircraft : \E S : noted[a] \in Seq(S)
    /\ \A a \in Aircraft \ DOMAIN tracking : noted[a] = <<>>
    /\ \A a \in DOMAIN tracking : IsEntry(tracking[a]) /\ tracking[a].readings = Newest(noted[a])

(* Of a sequence that grows by one, the newest are those before, without   *)
(* the oldest once they are MaxReadings, and the one that came.            *)
LEMMA NewestGrows ==
    ASSUME NEW S, NEW s \in Seq(S), NEW x
    PROVE  /\ Len(Newest(s)) \in Nat /\ Len(Newest(s)) <= MaxReadings
           /\ Newest(Append(s, x)) =
                IF Len(Newest(s)) < MaxReadings THEN Append(Newest(s), x)
                ELSE Append(Tail(Newest(s)), x)
<1> DEFINE T == S \cup {x}
           n == Len(s)
           u == Append(s, x)
<1>1. MaxReadings \in Nat \ {0}
  BY LocatorAssumption
<1>2. s \in Seq(T) /\ u \in Seq(T) /\ Len(u) = n + 1 /\ n \in Nat
  OBVIOUS
<1>3. \A i \in 1..n : u[i] = s[i]
  OBVIOUS
<1>4. u[n + 1] = x
  OBVIOUS
<1>5. CASE n < MaxReadings
  <2>1. Newest(s) = SubSeq(s, 1, n)
    BY <1>5, <1>1, <1>2 DEF Newest
  <2>2. Newest(s) = s
    BY <2>1
  <2>3. Newest(u) = SubSeq(u, 1, n + 1)
    <3> HIDE DEF u
    <3>1. (IF Len(u) < MaxReadings THEN Len(u) ELSE MaxReadings) = n + 1 /\ (n + 1) - (n + 1) + 1 = 1
      BY <1>5, <1>1, <1>2
    <3> QED
      BY <3>1, <1>2 DEF Newest
  <2>4. Newest(u) = u
    BY <2>3, <1>2
  <2> QED
    BY <2>2, <2>4, <1>5, <1>1, <1>2
<1>6. CASE n >= MaxReadings
  <2> DEFINE v == SubSeq(s, n - MaxReadings + 1, n)
             w == SubSeq(u, n - MaxReadings + 2, n + 1)
  <2>1. Newest(s) = v /\ Newest(u) = w
    <3> HIDE DEF u
    <3>1. (IF Len(s) < MaxReadings THEN Len(s) ELSE MaxReadings) = MaxReadings
          /\ (IF Len(u) < MaxReadings THEN Len(u) ELSE MaxReadings) = MaxReadings
          /\ (n + 1) - MaxReadings + 1 = n - MaxReadings + 2
      BY <1>6, <1>1, <1>2
    <3> QED
      BY <3>1, <1>2 DEF Newest
  <2>2. v \in Seq(T) /\ Len(v) = MaxReadings /\ \A i \in 1..MaxReadings : v[i] = s[n - MaxReadings + i]
    BY <1>6, <1>1, <1>2
  <2>3. w \in Seq(T) /\ Len(w) = MaxReadings
        /\ \A i \in 1..MaxReadings : w[i] = u[n - MaxReadings + 1 + i]
    BY <1>6, <1>1, <1>2
  <2> HIDE DEF v, w
  <2> DEFINE y == Append(Tail(v), x)
  <2>4. Tail(v) \in Seq(T) /\ Len(Tail(v)) = MaxReadings - 1
        /\ \A i \in 1..(MaxReadings - 1) : Tail(v)[i] = v[i + 1]
    BY <2>2, <1>1
  <2>5. y \in Seq(T) /\ Len(y) = MaxReadings /\ y[MaxReadings] = x
        /\ \A i \in 1..(MaxReadings - 1) : y[i] = v[i + 1]
    BY <2>4, <1>1
  <2> HIDE DEF y, u
  <2>6. ASSUME NEW i \in 1..(MaxReadings - 1) PROVE w[i] = y[i]
    <3>1. w[i] = u[n - MaxReadings + 1 + i]
      BY <2>3, <1>1
    <3>2. y[i] = s[n - MaxReadings + (i + 1)]
      BY <2>2, <2>5, <1>1
    <3>3. n - MaxReadings + 1 + i \in 1..n /\ n - MaxReadings + (i + 1) = n - MaxReadings + 1 + i
      BY <1>1, <1>2, <1>6
    <3> QED
      BY <3>1, <3>2, <3>3, <1>3
  <2>7. w[MaxReadings] = y[MaxReadings]
    <3>1. n - MaxReadings + 1 + MaxReadings = n + 1 /\ MaxReadings \in 1..MaxReadings
      BY <1>1, <1>2
    <3> QED
      BY <2>3, <2>5, <1>4, <3>1
  <2>8. w = y
    BY <2>3, <2>5, <2>6, <2>7, <1>1
  <2> QED
    BY <2>1, <2>2, <2>8, <1>1 DEF y, u
<1> QED
  BY <1>5, <1>6, <1>1, <1>2

(* Resolving changes the position of an entry and nothing else, and        *)
(* estimates only from readings that bear it.                              *)
LEMMA Resolving ==
    ASSUME NEW e, IsEntry(e), NEW from
    PROVE  LET r == ResolveBestPosition(e, from)
           IN  /\ IsEntry(r)
               /\ r.readings = e.readings
               /\ r.position.source = "RSSI" =>
                     Triangulated(e.readings) /\ r.position.places = Range(e.readings)
<1> DEFINE p == IF e.operator # Empty THEN Found("OPERATOR", "CONFIRMED", {e.operator}, from)
                ELSE IF e.home # Empty THEN Found("HOME", "ESTIMATED", {e.home}, from)
                ELSE IF Triangulated(e.readings)
                THEN Found("RSSI", "ESTIMATED", Range(e.readings), from)
                ELSE Unknown
           r == [e EXCEPT !.position = p]
<1>1. ResolveBestPosition(e, from) = r
  BY DEF ResolveBestPosition
<1>2. p.source = "RSSI" => Triangulated(e.readings) /\ p.places = Range(e.readings)
  BY DEF Found, Unknown
<1> HIDE DEF p
<1>3. /\ IsEntry(r) /\ r.position = p
      /\ r.readings = e.readings
  BY DEF IsEntry
<1> HIDE DEF r
<1> QED
  BY <1>1, <1>2, <1>3

(* The entry an operation starts from, an old or a new one, holds the      *)
(* newest readings of its aircraft.                                        *)
LEMMA EntryKnown ==
    ASSUME ReadingsInv, NEW a \in Aircraft
    PROVE  IsEntry(EntryOf(a)) /\ EntryOf(a).readings = Newest(noted[a])
<1>1. CASE a \in DOMAIN tracking
  BY <1>1 DEF EntryOf, ReadingsInv
<1>2. CASE a \notin DOMAIN tracking
  <2>1. EntryOf(a) = NewEntry /\ noted[a] = <<>>
    BY <1>2 DEF EntryOf, ReadingsInv
  <2>2. IsEntry(NewEntry) /\ NewEntry.readings = <<>>
    BY DEF NewEntry, IsEntry
  <2>3. Newest(<<>>) = <<>>
    BY LocatorAssumption DEF Newest
  <2> QED
    BY <2>1, <2>2, <2>3
<1> QED
  BY <1>1, <1>2

(* An operation that stores an entry with the newest readings of its       *)
(* aircraft disturbs no other.                                             *)
LEMMA StoreKeeps ==
    ASSUME ReadingsInv, NEW a \in Aircraft, NEW e, Store(a, e), IsEntry(e),
           NEW S, noted'[a] \in Seq(S), e.readings = Newest(noted'[a]),
           DOMAIN noted' = Aircraft, \A b \in Aircraft \ {a} : noted'[b] = noted[b]
    PROVE  ReadingsInv'
<1>1. /\ DOMAIN tracking' = DOMAIN tracking \cup {a} /\ tracking'[a] = e
      /\ \A b \in DOMAIN tracking \ {a} : tracking'[b] = tracking[b]
  BY DEF Store
<1>2. \A b \in Aircraft : \E T : noted'[b] \in Seq(T)
  BY DEF ReadingsInv
<1>3. \A b \in Aircraft \ DOMAIN tracking' : noted'[b] = <<>>
  BY <1>1 DEF ReadingsInv
<1>4. \A b \in DOMAIN tracking' : IsEntry(tracking'[b]) /\ tracking'[b].readings = Newest(noted'[b])
  <2> TAKE b \in DOMAIN tracking'
  <2>1. CASE b = a
    BY <1>1, <2>1
  <2>2. CASE b # a
    BY <1>1, <2>2 DEF ReadingsInv
  <2> QED
    BY <2>1, <2>2
<1> QED
  BY <1>1, <1>2, <1>3, <1>4 DEF ReadingsInv

(* The same, when no reading is made.                                      *)
LEMMA StoreOnly ==
    ASSUME ReadingsInv, NEW a \in Aircraft, NEW e, Store(a, e), IsEntry(e),
           e.readings = Newest(noted[a]), UNCHANGED noted
    PROVE  ReadingsInv'
<1>1. PICK S : noted[a] \in Seq(S)
  BY DEF ReadingsInv
<1>2. DOMAIN noted' = Aircraft
  BY DEF ReadingsInv
<1> QED
  BY <1>1, <1>2, StoreKeeps

(* The same, when one is.                                                  *)
LEMMA StoreReading ==
    ASSUME ReadingsInv, NEW a \in Aircraft, NEW e, NEW x, Store(a, e), IsEntry(e),
           e.readings = AddReading(EntryOf(a), x).readings,
           noted' = [noted EXCEPT ![a] = Append(@, x)]
    PROVE  ReadingsInv'
<1>1. PICK S : noted[a] \in Seq(S)
  BY DEF ReadingsInv
<1>2. noted'[a] = Append(noted[a], x) /\ DOMAIN noted' = Aircraft
      /\ \A b \in Aircraft \ {a} : noted'[b] = noted[b]
  BY DEF ReadingsInv
<1>3. noted'[a] \in Seq(S \cup {x})
  BY <1>1, <1>2
<1>4. IsEntry(EntryOf(a)) /\ EntryOf(a).readings = Newest(noted[a])
  BY EntryKnown
<1>5. e.readings = IF Len(Newest(noted[a])) < MaxReadings THEN Append(Newest(noted[a]), x)
                   ELSE Append(Tail(Newest(noted[a])), x)
  BY <1>4 DEF AddReading, IsEntry
<1>6. e.readings = Newest(noted'[a])
  BY <1>1, <1>2, <1>5, NewestGrows
<1> QED
  BY <1>2, <1>3, <1>6, StoreKeeps

-----------------------------------------------------------------------------
(* The operations of the locator. *)

(* What an operation that resolves and stores leaves, when it changed      *)
(* nothing of the readings.                                                *)
LEMMA ResolvedOnly ==
    ASSUME ReadingsInv, NEW a \in Aircraft, NEW e, IsEntry(e),
           e.readings = Newest(noted[a]), ResolveAndStore(a, e), UNCHANGED noted
    PROVE  ReadingsInv'
<1> DEFINE r == ResolveBestPosition(e, geo_ready /\ monitor')
<1>1. IsEntry(r) /\ r.readings = e.readings
  BY Resolving
<1>2. Store(a, r)
  BY DEF ResolveAndStore
<1> HIDE DEF r
<1> QED
  BY <1>1, <1>2, StoreOnly

LEMMA LocateStep == ASSUME ReadingsInv, Locate PROVE ReadingsInv'
<1>1. ASSUME NEW a \in Aircraft, Update(a) PROVE ReadingsInv'
  <2>1. PICK pos \in Stamps, measured \in BOOLEAN :
          IF ~Trackable(a) THEN UNCHANGED <<tracking, noted, monitor>>
          ELSE IF measured /\ pos.fix_valid
          THEN /\ noted' = [noted EXCEPT ![a] = Append(@, pos.place)]
               /\ ResolveAndStore(a, AddReading(EntryOf(a), pos.place))
          ELSE ResolveAndStore(a, EntryOf(a)) /\ UNCHANGED noted
    BY <1>1 DEF Update
  <2>2. CASE ~Trackable(a)
    BY <2>1, <2>2 DEF ReadingsInv
  <2>3. CASE Trackable(a) /\ measured /\ pos.fix_valid
    <3> DEFINE e == AddReading(EntryOf(a), pos.place)
               r == ResolveBestPosition(e, geo_ready /\ monitor')
    <3>1. IsEntry(e)
      BY EntryKnown DEF AddReading, IsEntry
    <3>2. IsEntry(r) /\ r.readings = e.readings
      <4> HIDE DEF e
      <4> QED
        BY <3>1, Resolving
    <3>3. Store(a, r) /\ noted' = [noted EXCEPT ![a] = Append(@, pos.place)]
      BY <2>1, <2>3 DEF ResolveAndStore
    <3> HIDE DEF r
    <3> QED
      BY <3>2, <3>3, StoreReading
  <2>4. CASE Trackable(a) /\ ~(measured /\ pos.fix_valid)
    BY <2>1, <2>4, EntryKnown, ResolvedOnly
  <2> QED
    BY <2>2, <2>3, <2>4
<1>2. ASSUME NEW a \in Aircraft, AddOnly(a) PROVE ReadingsInv'
  <2>1. PICK pos \in Stamps :
          IF ~pos.fix_valid \/ ~Trackable(a) THEN UNCHANGED <<tracking, noted>>
          ELSE /\ noted' = [noted EXCEPT ![a] = Append(@, pos.place)]
               /\ Store(a, AddReading(EntryOf(a), pos.place))
    BY <1>2 DEF AddOnly
  <2>2. CASE ~pos.fix_valid \/ ~Trackable(a)
    BY <2>1, <2>2 DEF ReadingsInv
  <2>3. CASE pos.fix_valid /\ Trackable(a)
    <3> DEFINE e == AddReading(EntryOf(a), pos.place)
    <3>1. IsEntry(e)
      BY EntryKnown DEF AddReading, IsEntry
    <3>2. Store(a, e) /\ noted' = [noted EXCEPT ![a] = Append(@, pos.place)]
          /\ e.readings = AddReading(EntryOf(a), pos.place).readings
      BY <2>1, <2>3
    <3> HIDE DEF e
    <3> QED
      BY <3>1, <3>2, StoreReading
  <2> QED
    BY <2>2, <2>3
<1>3. ASSUME NEW a \in Aircraft, SetOperator(a) PROVE ReadingsInv'
  <2>1. CASE ~Trackable(a)
    BY <1>3, <2>1 DEF SetOperator, ReadingsInv
  <2>2. CASE Trackable(a)
    <3>1. PICK p \in PilotPlaces : ResolveAndStore(a, [EntryOf(a) EXCEPT !.operator = p])
      BY <1>3, <2>2 DEF SetOperator
    <3> DEFINE e == [EntryOf(a) EXCEPT !.operator = p]
    <3>2. IsEntry(e) /\ e.readings = Newest(noted[a])
      BY EntryKnown DEF IsEntry
    <3>3. UNCHANGED noted
      BY <1>3 DEF SetOperator
    <3> HIDE DEF e
    <3> QED
      BY <3>1, <3>2, <3>3, ResolvedOnly DEF e
  <2> QED
    BY <2>1, <2>2
<1>4. ASSUME NEW a \in Aircraft, SetHome(a) PROVE ReadingsInv'
  <2>1. CASE ~Trackable(a)
    BY <1>4, <2>1 DEF SetHome, ReadingsInv
  <2>2. CASE Trackable(a)
    <3>1. PICK p \in PilotPlaces : ResolveAndStore(a, [EntryOf(a) EXCEPT !.home = p])
      BY <1>4, <2>2 DEF SetHome
    <3> DEFINE e == [EntryOf(a) EXCEPT !.home = p]
    <3>2. IsEntry(e) /\ e.readings = Newest(noted[a])
      BY EntryKnown DEF IsEntry
    <3>3. UNCHANGED noted
      BY <1>4 DEF SetHome
    <3> HIDE DEF e
    <3> QED
      BY <3>1, <3>2, <3>3, ResolvedOnly DEF e
  <2> QED
    BY <2>1, <2>2
<1>5. ASSUME NEW a \in Aircraft, GetPosition(a) PROVE ReadingsInv'
  <2>1. ResolveAndStore(a, tracking[a]) /\ UNCHANGED noted /\ a \in DOMAIN tracking
    BY <1>5 DEF GetPosition
  <2>2. IsEntry(tracking[a]) /\ tracking[a].readings = Newest(noted[a])
    BY <2>1 DEF ReadingsInv
  <2> QED
    BY <2>1, <2>2, ResolvedOnly
<1>6. ASSUME Reset PROVE ReadingsInv'
  <2>1. tracking' = << >> /\ noted' = [a \in Aircraft |-> <<>>]
    BY <1>6 DEF Reset
  <2>2. \A a \in Aircraft : noted'[a] \in Seq({}) /\ noted'[a] = <<>>
    BY <2>1
  <2> QED
    BY <2>1, <2>2 DEF ReadingsInv
<1> QED
  BY <1>1, <1>2, <1>3, <1>4, <1>5, <1>6 DEF Locate

THEOREM ReadingsHold == Spec => []ReadingsInv
<1>1. Init => ReadingsInv
  <2> SUFFICES ASSUME Init PROVE ReadingsInv
    OBVIOUS
  <2>1. tracking = << >> /\ noted = [a \in Aircraft |-> <<>>]
    BY DEF Init
  <2>2. \A a \in Aircraft : noted[a] \in Seq({}) /\ noted[a] = <<>>
    BY <2>1
  <2> QED
    BY <2>1, <2>2 DEF ReadingsInv
<1>2. ReadingsInv /\ [Next]_vars => ReadingsInv'
  <2> SUFFICES ASSUME ReadingsInv, [Next]_vars PROVE ReadingsInv'
    OBVIOUS
  <2>1. CASE Locate
    BY <2>1, LocateStep
  <2>2. CASE UNCHANGED locVars
    BY <2>2 DEF ReadingsInv, locVars
  <2> QED
    BY <2>1, <2>2 DEF Next, vars
<1> QED
  BY <1>1, <1>2, PTL DEF Spec

(* The readings an entry triangulates from are the newest made for its     *)
(* aircraft, for any number of aircraft, slots and readings.               *)
THEOREM NewestReadings == Spec => []ReadingsAreNewest
<1>1. ReadingsInv => ReadingsAreNewest
  BY DEF ReadingsInv, ReadingsAreNewest, Newest
<1> QED
  BY <1>1, ReadingsHold, PTL

(* Readings that bear an estimate: three of them, not all in one place.    *)
LEMMA Bearing ==
    ASSUME NEW readings, Triangulated(readings)
    PROVE  /\ Len(readings) >= MinReadings
           /\ \E x, y \in Range(readings) : Apart(x, y)
<1>1. Len(readings) >= MinReadings /\ Cardinality(SeparatedReadings(readings)) >= MinReadings
  BY DEF Triangulated
<1>2. SeparatedReadings(readings) # {}
  BY <1>1, FS_EmptySet DEF MinReadings
<1>3. PICK i \in DOMAIN readings, j \in DOMAIN readings : Apart(readings[i], readings[j])
  BY <1>2 DEF SeparatedReadings
<1> QED
  BY <1>1, <1>3 DEF Range

(* An answer from signal strength is one from the newest readings of the   *)
(* aircraft, however many were added and pushed out since the last update, *)
(* and those are three or more and not all of one place.                   *)
THEOREM SignalAnswers == Spec => SignalAnswersAreCurrent
<1> DEFINE Current(a) ==
        tracking'[a].position.source = "RSSI" =>
            LET n == Len(noted[a])
                k == IF n < MaxReadings THEN n ELSE MaxReadings
                newest == SubSeq(noted[a], n - k + 1, n)
            IN  /\ tracking'[a].position.places = Range(newest)
                /\ k >= MinReadings
                /\ \E x, y \in Range(newest) : Apart(x, y)
           Answered == \A a \in Aircraft : GetPosition(a) => Current(a)
<1>1. ReadingsInv /\ [Next]_vars => [Answered]_vars
  <2> SUFFICES ASSUME ReadingsInv, NEW a \in Aircraft, GetPosition(a)
               PROVE  Current(a)
    OBVIOUS
  <2> DEFINE e == tracking[a]
             r == ResolveBestPosition(e, geo_ready /\ monitor')
             n == Len(noted[a])
             k == IF n < MaxReadings THEN n ELSE MaxReadings
             newest == SubSeq(noted[a], n - k + 1, n)
  <2>1. IsEntry(e) /\ e.readings = Newest(noted[a]) /\ Store(a, r)
    BY DEF GetPosition, ResolveAndStore, ReadingsInv
  <2>2. tracking'[a] = r
    BY <2>1 DEF Store
  <2>3. e.readings = newest
    BY <2>1 DEF Newest
  <2>4. Len(newest) = k
    <3>1. PICK S : noted[a] \in Seq(S)
      BY DEF ReadingsInv
    <3>2. n \in Nat /\ k \in Nat /\ k <= n
      BY <3>1, LocatorAssumption
    <3> HIDE DEF n, k
    <3> QED
      BY <3>1, <3>2 DEF n
  <2>5. r.position.source = "RSSI" =>
           Triangulated(newest) /\ r.position.places = Range(newest)
    <3> HIDE DEF e, newest
    <3> QED
      BY <2>1, <2>3, Resolving DEF r
  <2>6. Triangulated(newest) => Len(newest) >= MinReadings /\ \E x, y \in Range(newest) : Apart(x, y)
    <3> HIDE DEF newest
    <3> QED
      BY Bearing
  <2>7. tracking'[a].position.source = "RSSI" =>
           /\ tracking'[a].position.places = Range(newest)
           /\ k >= MinReadings
           /\ \E x, y \in Range(newest) : Apart(x, y)
    <3> HIDE DEF r, newest, k
    <3> QED
      BY <2>2, <2>4, <2>5, <2>6
  <2> QED
    BY <2>7
<1>2. Spec => [][Answered]_vars
  BY <1>1, ReadingsHold, PTL DEF Spec
<1> QED
  BY <1>2 DEF SignalAnswersAreCurrent

-----------------------------------------------------------------------------
(* Slots and flags. *)

Slots == IsFiniteSet(DOMAIN tracking) /\ Cardinality(DOMAIN tracking) <= MaxTracked

Flags == {monitor, geo_ready, initialized, ever} \subseteq BOOLEAN

LEMMA SlotsStored ==
    ASSUME Slots, NEW a, NEW e, Trackable(a), Store(a, e)
    PROVE  Slots'
<1>1. DOMAIN tracking' = DOMAIN tracking \cup {a}
  BY DEF Store
<1>2. IsFiniteSet(DOMAIN tracking')
      /\ Cardinality(DOMAIN tracking') = IF a \in DOMAIN tracking THEN Cardinality(DOMAIN tracking)
                                         ELSE Cardinality(DOMAIN tracking) + 1
  BY <1>1, FS_AddElement DEF Slots
<1>3. Cardinality(DOMAIN tracking) \in Nat
  BY FS_CardinalityType DEF Slots
<1> QED
  BY <1>2, <1>3, LocatorAssumption DEF Slots, Trackable

LEMMA SlotsStep == ASSUME Slots, Locate PROVE Slots'
<1>1. ASSUME NEW a \in Aircraft, Update(a) \/ AddOnly(a) \/ SetOperator(a) \/ SetHome(a) \/ GetPosition(a)
      PROVE  Slots'
  <2>1. UNCHANGED tracking \/ (Trackable(a) /\ \E e : Store(a, e))
    BY <1>1 DEF Update, AddOnly, SetOperator, SetHome, GetPosition, ResolveAndStore, Trackable
  <2> QED
    BY <2>1, SlotsStored DEF Slots
<1>2. ASSUME Reset PROVE Slots'
  <2>1. DOMAIN tracking' = {}
    BY <1>2 DEF Reset
  <2> QED
    BY <2>1, FS_EmptySet, LocatorAssumption DEF Slots
<1> QED
  BY <1>1, <1>2 DEF Locate

LEMMA FlagsStep == ASSUME Flags, current.fix_valid \in BOOLEAN, Next PROVE Flags'
<1>1. Refreshed \subseteq BOOLEAN /\ Copied(FALSE, current.fix_valid) \subseteq BOOLEAN
  BY DEF Flags, Refreshed, Copied
<1>2. ASSUME NEW a \in Aircraft, NEW e, ResolveAndStore(a, e) PROVE monitor' \in BOOLEAN
  BY <1>1, <1>2 DEF ResolveAndStore, Flags
<1>3. ASSUME Locate PROVE Flags'
  <2>1. UNCHANGED <<geo_ready, initialized, ever>>
    BY <1>3, LocateLeavesGps
  <2>2. monitor' \in BOOLEAN
    BY <1>2, <1>3 DEF Locate, Update, AddOnly, SetOperator, SetHome, GetPosition, Reset,
                      gpsVars, Flags
  <2> QED
    BY <2>1, <2>2 DEF Flags
<1>4. ASSUME GpsNext PROVE Flags'
  <2>1. ASSUME Reader PROVE Flags'
    BY <2>1 DEF Reader, EndLine, Settle, Flags
  <2>2. ASSUME GpsCalls PROVE Flags'
    BY <2>2, <1>1 DEF GpsCalls, HalGpsInit, HalGpsDeinit, GeoInit, Flags
  <2> QED
    BY <1>4, <2>1, <2>2 DEF GpsNext
<1> QED
  BY <1>3, <1>4 DEF Next

(* No more aircraft than slots, no more readings of one than the ring      *)
(* holds, and flags that are Boolean.                                      *)
THEOREM LocTypeCorrect == Spec => []LocTypeOK
<1>1. Init => Slots /\ Flags
  <2> SUFFICES ASSUME Init PROVE Slots /\ Flags
    OBVIOUS
  <2>1. DOMAIN tracking = {}
    BY DEF Init
  <2>2. Slots
    BY <2>1, FS_EmptySet, LocatorAssumption DEF Slots
  <2>3. Flags
    BY DEF Init, GpsInit, Flags
  <2> QED
    BY <2>2, <2>3
<1>2. GpsInv /\ Slots /\ Flags /\ [Next]_vars => (Slots /\ Flags)'
  <2> SUFFICES ASSUME GpsInv, Slots, Flags, [Next]_vars PROVE (Slots /\ Flags)'
    OBVIOUS
  <2>1. CASE UNCHANGED vars
    BY <2>1 DEF vars, gpsVars, locVars, Slots, Flags
  <2>2. CASE Next
    <3>1. Flags'
      BY <2>2, FlagsStep DEF GpsInv
    <3>2. Slots'
      BY <2>2, SlotsStep DEF Next, locVars, Slots
    <3> QED
      BY <3>1, <3>2
  <2> QED
    BY <2>1, <2>2
<1>3. ReadingsInv /\ Slots /\ Flags => LocTypeOK
  <2> SUFFICES ASSUME ReadingsInv, NEW a \in DOMAIN tracking
               PROVE  Len(tracking[a].readings) <= MaxReadings
    BY DEF LocTypeOK, Slots, Flags
  <2>1. PICK S : noted[a] \in Seq(S)
    BY DEF ReadingsInv
  <2> QED
    BY <2>1, NewestGrows DEF ReadingsInv
<1> QED
  BY <1>1, <1>2, <1>3, GpsHolds, ReadingsHold, PTL DEF Spec

=============================================================================
