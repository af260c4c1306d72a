----------------------------- MODULE Signatures -----------------------------
(***************************************************************************)
(* The protocol signature table of components/domain/src/                  *)
(* protocol_signatures.c and the classifier that reads it,                 *)
(* components/services/src/protocol_classifier.c: the CSV text a table is  *)
(* loaded from and saved to, and the two searches through it.              *)
(*                                                                         *)
(* A byte is the set of its bits, so that & is \cap.  Frequencies are in   *)
(* kHz where the code has Hz; a CSV line gives them in MHz.  A line is the *)
(* record of its fields after trimming; "absent" says that the line ends   *)
(* before the field, and a field that is no hex number is BadHex.          *)
(***************************************************************************)
EXTENDS Integers, Sequences, FiniteSets, SequencesExt

CONSTANT MaxSigs     \* SIGNATURES_MAX_COUNT

ASSUME MaxSigsAssumption == MaxSigs \in Nat \ {0}

Bit    == 0..7
FF     == Bit

HeaderMax == 16              \* SIGNATURE_HEADER_MAX_LEN
MHz       == 1000            \* kHz in a MHz
Word      == 4294967         \* 2^32 Hz, in kHz

(* Stands for what is no hex number: it is refused like one too long. *)
BadHex == [b \in 1..(HeaderMax + 1) |-> {}]

Protocol == {"ELRS", "DJI", "WIFI", "MAVLINK", "CROSSFIRE", "FRSKY",
             "REMOTEID", "UNKNOWN"}

Sig(protocol, pattern, mask, min, max, modulation) ==
    [protocol |-> protocol, pattern |-> pattern, mask |-> mask,
     min |-> min, max |-> max, modulation |-> modulation]

(* The table built into the firmware. *)
DefaultSignatures ==
    << Sig("ELRS",      <<{}>>,            <<2..7>>,  862000,  928000, "LORA"),
       Sig("ELRS",      <<{}>>,            <<2..7>>, 2400000, 2500000, "LORA"),
       Sig("MAVLINK",   <<1..7>>,          <<FF>>,         0,       0, "ANY"),
       Sig("MAVLINK",   <<{0} \cup 2..7>>, <<FF>>,         0,       0, "ANY"),
       Sig("DJI",       <<{0, 2, 4, 6}>>,  <<FF>>,   2400000, 2500000, "OFDM"),
       Sig("CROSSFIRE", <<{3, 6, 7}>>,     <<FF>>,    862000,  928000, "LORA"),
       Sig("FRSKY",     <<1..6>>,          <<FF>>,   2400000, 2500000, "FHSS") >>

-----------------------------------------------------------------------------
(* From a line of text to a signature and back. *)

CsvLine ==
    [protocol : STRING, header : Seq(SUBSET Bit), mask : Seq(SUBSET Bit), len : Nat,
     min : Nat, max : Nat, modulation : STRING]

FreqFromMHz(mhz) == (mhz * MHz) % Word

(* A mask may be left out, and one shorter than the header is padded. *)
MaskOf(l) ==
    [b \in 1..l.len |->
        IF b <= Len(l.mask) THEN l.mask[b] ELSE FF]

ParseOK(l) ==
    /\ l.protocol \in Protocol
    /\ Len(l.header) \in 1..HeaderMax
    /\ Len(l.mask) <= HeaderMax
    /\ l.len \in 1..HeaderMax
    /\ Len(l.header) >= l.len
    /\ l.modulation # "absent"

ParseLine(l) ==
    Sig(l.protocol, SubSeq(l.header, 1, l.len), MaskOf(l),
        FreqFromMHz(l.min), FreqFromMHz(l.max), l.modulation)

(* The k-th of a set of numbers. *)
Nth(S, k) == CHOOSE i \in S : Cardinality({j \in S : j <= i}) = k

(* Lines that do not parse are skipped (the header row is one of them), and *)
(* so are those the table has no room for.                                  *)
LoadCsv(text) ==
    LET good == {i \in DOMAIN text : ParseOK(text[i])}
        room == IF Cardinality(good) < MaxSigs THEN Cardinality(good) ELSE MaxSigs
    IN  IF good = {}
        THEN [err |-> TRUE, table |-> DefaultSignatures]
        ELSE [err |-> FALSE, table |-> [k \in 1..room |-> ParseLine(text[Nth(good, k)])]]

HeaderRow ==
    [protocol |-> "protocol", header |-> BadHex, mask |-> BadHex, len |-> 0,
     min |-> 0, max |-> 0, modulation |-> "modulation"]

\* Seeded fault: the mask is left out whenever one of its bytes is FF.
SigLine_MaskDropped(s) ==
    [protocol |-> s.protocol, header |-> s.pattern,
     mask |-> IF \E b \in DOMAIN s.mask : s.mask[b] = FF THEN <<>> ELSE s.mask,
     len |-> Len(s.pattern), min |-> s.min \div MHz, max |-> s.max \div MHz,
     modulation |-> IF s.modulation = "" THEN "absent" ELSE s.modulation]

(* A mask of FF bytes is left out; a modulation that is blank leaves the   *)
(* line without its last field.                                            *)
SigLine(s) ==
    [protocol |-> s.protocol, header |-> s.pattern,
     mask |-> IF \A b \in DOMAIN s.mask : s.mask[b] = FF THEN <<>> ELSE s.mask,
     len |-> Len(s.pattern), min |-> s.min \div MHz, max |-> s.max \div MHz,
     modulation |-> IF s.modulation = "" THEN "absent" ELSE s.modulation]

SerializeCsv(table) == <<HeaderRow>> \o [i \in DOMAIN table |-> SigLine(table[i])]

-----------------------------------------------------------------------------
(* Searching the table: for the header of a packet and its frequency. *)

HeaderMatches(s, hdr) ==
    /\ Len(hdr) >= Len(s.pattern)
    /\ \A b \in DOMAIN s.pattern :
          (hdr[b] \cap s.mask[b]) = (s.pattern[b] \cap s.mask[b])

AnyFrequency(s) == s.min = 0 /\ s.max = 0
InBand(s, freq) == ~AnyFrequency(s) /\ freq >= s.min /\ freq <= s.max

NoSig == Sig("UNKNOWN", <<>>, <<>>, 0, 0, "")

Fitting(table, hdr)      == {i \in DOMAIN table : HeaderMatches(table[i], hdr)}
FittingIn(table, hdr, f) == {i \in Fitting(table, hdr) : InBand(table[i], f)}

(* The first entry of those that hit. *)
FirstSig(table, hits) ==
    IF hits = {} THEN NoSig ELSE table[CHOOSE i \in hits : \A j \in hits : i <= j]

(* signatures_find_match: the first that fits header and frequency. *)
FindMatch(table, hdr, freq) ==
    FirstSig(table, {i \in Fitting(table, hdr) :
                        AnyFrequency(table[i]) \/ InBand(table[i], freq)})

\* Seeded fault: the first header match decides, whatever its band.
Classify_HeaderFirst(table, hdr, freq) ==
    LET s == FirstSig(table, Fitting(table, hdr))
    IN  IF hdr = <<>> THEN [protocol |-> "UNKNOWN", confidence |-> "LOW"]
        ELSE [protocol |-> s.protocol,
              confidence |-> IF s # NoSig /\ InBand(s, freq) THEN "HIGH" ELSE "LOW"]

(* classifier_classify: an entry whose band fits wins with confidence      *)
(* HIGH; failing that, the first whose header fits, with confidence LOW.   *)
Classify(table, hdr, freq) ==
    LET inBand == FirstSig(table, FittingIn(table, hdr, freq))
        header == FirstSig(table, Fitting(table, hdr))
    IN  IF hdr = <<>> THEN [protocol |-> "UNKNOWN", confidence |-> "LOW"]
        ELSE IF inBand # NoSig
             THEN [protocol |-> inBand.protocol, confidence |-> "HIGH"]
             ELSE [protocol |-> header.protocol, confidence |-> "LOW"]

-----------------------------------------------------------------------------
(* What the table must satisfy. *)

(* A table whose entries a CSV line can say, a modulation that is not      *)
(* blank and whole MHz, and at least one of them.                          *)
Writable(table) ==
    table # <<>> /\ \A i \in DOMAIN table :
        /\ table[i].modulation # ""
        /\ table[i].min % MHz = 0 /\ table[i].max % MHz = 0

(* Saving a writable table and loading the text gives the table back, in   *)
(* order, masks and bands included (signatures_serialize_csv and           *)
(* signatures_load_csv agree on every convention of the format).           *)
SavedIsReloaded(table) ==
    Writable(table) /\ Len(table) <= MaxSigs
        => LoadCsv(SerializeCsv(table)) = [err |-> FALSE, table |-> table]

(* The two searches agree.  What signatures_find_match finds in its band   *)
(* the classifier names with confidence HIGH; where it finds nothing the   *)
(* classifier is never sure; and the classifier names every packet whose   *)
(* header the table knows.                                                 *)
SearchesAgree(table, hdr, freq) ==
    LET m == FindMatch(table, hdr, freq)
        c == Classify(table, hdr, freq)
    IN  hdr # <<>> =>
            /\ m # NoSig /\ ~AnyFrequency(m)
                  => c = [protocol |-> m.protocol, confidence |-> "HIGH"]
            /\ c.confidence = "HIGH" => m # NoSig
            /\ c.confidence = "HIGH" \/ m = NoSig \/ AnyFrequency(m)
=============================================================================
