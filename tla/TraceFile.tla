------------------------------ MODULE TraceFile -----------------------------
(***************************************************************************)
(* Traces on disk: the writers of pcapcie.c (CSV, pcap), the GUI's loading *)
(* and saving (MainWindow.cpp), and the summary of pshark.c, all over one  *)
(* path.  No writer looks at the result of a write, so a full disk leaves  *)
(* the lines of a CSV file up to some point.  A payload is the bytes up to *)
(* its last that is not zero; text fields are what they tell apart.        *)
(***************************************************************************)
EXTENDS Naturals, SequencesExt, FiniteSetsExt, TlpFilter

CONSTANTS
    Record,        \* [direction, type, payload]
    LiveRow,       \* rows from the emulator's trace
    MaxRecords,    \* bound: records, and rows of the GUI
    MaxWrites      \* bound: files written

VARIABLES
    records,       \* the library's trace
    file,          \* [kind, lines, at, of, whole]: at are the positions of
                   \* the records of a pcap file; of and whole are history:
                   \* what was written, and whether there was room for it
    rows,          \* the GUI's table
    loaded,        \* History: the rows are those of the file as it is
    shark,         \* pshark's [total, tx, rx] for the file as it is, or None
    writes

vars == <<records, file, rows, loaded, shark, writes>>

None == [total |-> 0, tx |-> 0, rx |-> 0]
NoFile == [kind |-> "none", lines |-> << >>, at |-> << >>, of |-> << >>, whole |-> TRUE]

Init == /\ records = << >> /\ file = NoFile /\ rows = << >>
        /\ loaded = FALSE /\ shark = None /\ writes = 0

pcie_trace_append(r) == /\ Len(records) < MaxRecords
                        /\ records' = Append(records, r)
                        /\ UNCHANGED <<file, rows, loaded, shark, writes>>

Write(kind, lines, at, of, whole) ==
    /\ writes < MaxWrites /\ writes' = writes + 1
    /\ file' = [kind |-> kind, lines |-> lines, at |-> at, of |-> of, whole |-> whole]
    /\ loaded' = FALSE /\ shark' = None

-----------------------------------------------------------------------------
(* pcie_trace_write_csv.  The payload ends before its first zero byte.      *)
Printed(payload) ==
    LET zeros == {k \in DOMAIN payload : payload[k] = 0}
    IN  IF zeros = {} THEN payload ELSE SubSeq(payload, 1, Min(zeros) - 1)

CsvLine(r) == [kind |-> "csv", fields |-> 9, dir |-> r.direction, type |-> r.type,
               payload |-> Printed(r.payload)]

Header == [kind |-> "header", fields |-> 9]

(* How a line may end where the disk is full: within its second or eighth   *)
(* field, or within its payload.  (Half a header, as a whole one without a  *)
(* record behind it, shows no reader a packet.)                             *)
Cuts(line) == {[line EXCEPT !.fields = f, !.payload = << >>] : f \in {2, 8}}
                \cup {[line EXCEPT !.payload = SubSeq(@, 1, k)] : k \in 0..Len(line.payload)}

Csv == <<Header>> \o [k \in DOMAIN records |-> CsvLine(records[k])]

pcie_trace_write_csv ==
    /\ \/ Write("csv", Csv, << >>, records, TRUE)
       \/ \E n \in 0..Len(records) : Write("csv", SubSeq(Csv, 1, n), << >>, records, FALSE)
       \/ \E k \in DOMAIN records : \E cut \in Cuts(CsvLine(records[k])) :
              Write("csv", SubSeq(Csv, 1, k) \o <<cut>>, << >>, records, FALSE)
    /\ UNCHANGED <<records, rows>>

(* pcie_trace_write_pcap: seven words of header; of a record its header,    *)
(* then direction (an enum), type, two ids, tag, length, address, payload.  *)
HeaderBytes == 7 * 4
RecordBytes == 4 + 1 + 2 + 2 + 1 + 2 + 8 + 256
InclLen     == 2 * 1 + 3 * 2 + 8 + 256

pcie_trace_write_pcap ==
    /\ Write("pcap", << >>,
             [k \in DOMAIN records |-> HeaderBytes + (k - 1) * (16 + RecordBytes)],
             records, TRUE)
    /\ UNCHANGED <<records, rows>>

-----------------------------------------------------------------------------
(* The GUI.  A row is [dir, type, ids, payload]; the ids of an emulator's   *)
(* device are "bdf", those of the library are "numbers".                    *)
decodeTypeName(type) == CASE type = MEM_READ  -> "MemRd" [] type = MEM_WRITE -> "MemWr"
                          [] type = CFG_READ  -> "CfgRd" [] type = CFG_WRITE -> "CfgWr"
                          [] type = CPL       -> "Cpl"   [] OTHER -> "code"

CsvRow(line) == [dir |-> line.dir, type |-> decodeTypeName(line.type),
                 ids |-> "numbers", payload |-> line.payload]

(* Mutant: an empty field does not count (as with strtok).                  *)
CompleteMutant(line) == line.kind = "csv" /\ line.fields = 9 /\ line.payload # << >>
Complete(line) == line.kind = "csv" /\ line.fields = 9

(* saveTrace's line, and what parseRawTraceLine accepts and makes of it.    *)
Op(row) == IF row.type = "CfgWr" \/ row.dir = "TX" THEN "write" ELSE "read"

RawLine(row) == [kind |-> "raw", fields |-> 1, op |-> Op(row), ids |-> row.ids,
                 payload |-> row.payload]
Parses(line) == line.kind = "raw" /\ line.ids = "bdf"
RawRow(line) == [dir |-> IF line.op = "write" THEN "TX" ELSE "RX",
                 type |-> IF line.op = "write" THEN "CfgWr" ELSE "CfgRd",
                 ids |-> line.ids, payload |-> line.payload]

(* Which lines become rows, and the rows of the first k lines.              *)
IsCsv == Header \in ToSet(file.lines)
Reads(line) == IF IsCsv THEN Complete(line) ELSE Parses(line)
RowOf(line) == IF IsCsv THEN CsvRow(line) ELSE RawRow(line)

RowsRead[k \in 0..Len(file.lines)] ==
    IF k = 0 THEN << >>
    ELSE IF Reads(file.lines[k]) THEN Append(RowsRead[k - 1], RowOf(file.lines[k]))
    ELSE RowsRead[k - 1]

loadCsv ==
    /\ file.kind # "none"
    /\ rows' = RowsRead[Len(file.lines)]
    /\ loaded' = TRUE
    /\ UNCHANGED <<records, file, shark, writes>>

pollLiveTrace(row) ==
    /\ Len(rows) < MaxRecords
    /\ rows' = Append(rows, row) /\ loaded' = FALSE
    /\ UNCHANGED <<records, file, shark, writes>>

saveTrace ==
    /\ rows # << >>
    /\ Write("raw", [k \in DOMAIN rows |-> RawLine(rows[k])], << >>, rows, TRUE)
    /\ UNCHANGED <<records, rows>>

-----------------------------------------------------------------------------
(* pshark --summary: lines with a direction and a type.                     *)
Counted(line) == line.kind # "raw" /\ line.fields >= 3

Lines == {k \in DOMAIN file.lines : Counted(file.lines[k])}
With(dir) == Cardinality({k \in Lines : /\ file.lines[k].kind = "csv"
                                        /\ file.lines[k].dir = dir})

print_summary ==
    /\ file.kind \in {"csv", "raw"} /\ file.lines # << >>
    /\ shark' = [total |-> Cardinality(Lines), tx |-> With("TX"), rx |-> With("RX")]
    /\ UNCHANGED <<records, file, rows, loaded, writes>>

Next == \/ \E r \in Record : pcie_trace_append(r)
        \/ pcie_trace_write_csv \/ pcie_trace_write_pcap
        \/ loadCsv \/ saveTrace \/ (\E row \in LiveRow : pollLiveTrace(row))
        \/ print_summary

Spec == Init /\ [][Next]_vars

-----------------------------------------------------------------------------
(* Properties                                                               *)

Shown(r) == [dir |-> r.direction, type |-> decodeTypeName(r.type), ids |-> "numbers",
             payload |-> Printed(r.payload)]

(* A CSV file of the library shows as its records, all of them and in their *)
(* order, payloads up to the first zero byte; if the disk got full, as the  *)
(* first ones, of the last perhaps less of the payload.                     *)
CsvReloaded ==
    loaded /\ file.kind = "csv" =>
        /\ Len(rows) <= Len(file.of)
        /\ file.whole => Len(rows) = Len(file.of)
        /\ \A k \in DOMAIN rows :
               /\ [rows[k] EXCEPT !.payload = << >>]
                      = [Shown(file.of[k]) EXCEPT !.payload = << >>]
               /\ IsPrefix(rows[k].payload, Printed(file.of[k].payload))
               /\ rows[k] = Shown(file.of[k]) \/ (~file.whole /\ k = Len(rows))

(* An emulator's trace that is saved and loaded is the same one.            *)
RawReplayed == loaded /\ file.kind = "raw" /\ ToSet(file.of) \subseteq LiveRow =>
                   rows = file.of

(* pshark and the GUI count the same packets of either direction in a file, *)
(* up to one whose line the full disk has cut.                              *)
Shows(dir) == Cardinality({k \in DOMAIN rows : rows[k].dir = dir})
SameCounts ==
    loaded /\ file.kind = "csv" /\ shark # None =>
        IF file.whole THEN shark.tx = Shows("TX") /\ shark.rx = Shows("RX")
        ELSE LET n == Shows("TX") + Shows("RX") IN shark.tx + shark.rx \in {n, n + 1}

(* A file tells all its readers what was written.                           *)
ReadersAgree == CsvReloaded /\ RawReplayed /\ SameCounts
=============================================================================
