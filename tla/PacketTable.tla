---------------------------- MODULE PacketTable -----------------------------
(***************************************************************************)
(* The GUI's table of packets (MainWindow.cpp): the filter, the counts     *)
(* under it, the selection and the decoded packet beside it, through every *)
(* operation that changes the rows.  Qt runs one event at a time.  The     *)
(* value of a row is a sequence of bytes in the order of the text, or, in  *)
(* a row of the emulator's trace ("live"), of hexadecimal digits.          *)
(***************************************************************************)
EXTENDS Naturals, SequencesExt, FiniteSetsExt, TlpFilter

CONSTANTS
    Row,          \* of files and traces: [origin, dir, type, found, value]; type
                  \* is the text in the table; found: so is the search text
    Registers,    \* the values the registers of a device can have
    Enumerated,   \* registers that enumeratePciDevice reads (8)
    MaxRows       \* bound: rows

VARIABLES
    rows,
    hidden,       \* tableView's hidden rows
    filter,       \* [type, dir, search]; "all" stands for any
    labels,       \* [total, tx, rx, visible]
    current,      \* the selected row, 0 if none
    details,      \* [type, register] shown for it
    stale         \* History: the latest change of the rows was by an operation
                  \* that did not refresh the display

vars == <<rows, hidden, filter, labels, current, details, stale>>

Filters == [type : {"all", "CfgRd"}, dir : {"all", "TX"}, search : BOOLEAN]
NoDetails == [type |-> UNKNOWN, register |-> << >>]

Init == /\ rows = << >> /\ hidden = {} /\ current = 0 /\ details = NoDetails
        /\ filter = [type |-> "all", dir |-> "all", search |-> FALSE]
        /\ labels = [total |-> 0, tx |-> 0, rx |-> 0, visible |-> 0]
        /\ stale = FALSE

-----------------------------------------------------------------------------
(* applyFilter and updateSummaryStats.                                      *)
Matches(row, f) == /\ f.type \in {"all", row.type}
                   /\ f.dir \in {"all", row.dir}
                   /\ f.search => row.found

Hidden(rs, f) == {k \in DOMAIN rs : ~Matches(rs[k], f)}

With(rs, dir) == Cardinality({k \in DOMAIN rs : rs[k].dir = dir})
Labels(rs, hid) == [total |-> Len(rs), tx |-> With(rs, "TX"), rx |-> With(rs, "RX"),
                    visible |-> Len(rs) - Cardinality(hid)]

(* showPacketDetails.  The type's text is read as a hexadecimal code; that  *)
(* of a name is 0.  The digits of a value are read from the last one back,  *)
(* and the x of its prefix is skipped, so that the 0 before it counts.      *)
Named == {"MemRd", "MemWr", "CfgRd", "CfgWr", "Cpl", "Unknown"}
TypeShown(row) == IF row.type \in Named THEN MEM_READ ELSE UNKNOWN

Pairs(digits) == LET even == IF Len(digits) % 2 = 0 THEN digits ELSE <<0>> \o digits
                 IN  [k \in 1..(Len(even) \div 2) |-> 16 * even[2 * k - 1] + even[2 * k]]
Bytes(row) == IF row.origin = "live" THEN Pairs(<<0>> \o row.value) ELSE row.value

(* The register of the first four bytes, least significant first.           *)
Register(bytes) == SubSeq(bytes, 1, 4)

Details(rs, k) ==
    IF k = 0 THEN NoDetails
    ELSE [type |-> TypeShown(rs[k]),
          register |-> IF rs[k].type \in {"CfgRd", "CfgWr"} /\ Len(Bytes(rs[k])) >= 4
                       THEN Register(Bytes(rs[k])) ELSE << >>]

(* Filter, then select row k, then count.                                   *)
Refresh(k) == /\ hidden' = Hidden(rows', filter')
              /\ current' = k /\ details' = Details(rows', k)
              /\ labels' = Labels(rows', hidden')
              /\ stale' = FALSE

(* No refresh: removeRows took the selection and what was hidden, the       *)
(* labels are old.                                                          *)
BreakOff == /\ hidden' = {} /\ current' = 0 /\ details' = NoDetails
            /\ stale' = TRUE
            /\ UNCHANGED labels

-----------------------------------------------------------------------------
(* A file without a first line is refused after the old rows are gone.      *)
loadCsv(rs) == /\ rows' = rs /\ UNCHANGED filter
               /\ \/ Refresh(IF rs = << >> THEN 0 ELSE 1)
                  \/ rs = << >> /\ BreakOff

(* Mutant: the new rows are not run through the filter.                     *)
PollMutant(rs) ==
    /\ Len(rows) + Len(rs) <= MaxRows
    /\ rows' = rows \o rs
    /\ current' = Len(rows') /\ details' = Details(rows', Len(rows'))
    /\ labels' = Labels(rows', hidden)
    /\ UNCHANGED <<hidden, filter, stale>>

pollLiveTrace(rs) ==
    /\ Len(rows) + Len(rs) <= MaxRows
    /\ rows' = rows \o rs /\ UNCHANGED filter
    /\ Refresh(Len(rows'))

EnumeratedRow(register) == [origin |-> "device", dir |-> "TX", type |-> "CfgRd",
                            found |-> FALSE, value |-> register]

(* n of the device's registers could be read.                               *)
enumeratePciDevice(device, n) ==
    /\ rows' = [k \in 1..n |-> EnumeratedRow(device[k])] /\ UNCHANGED filter
    /\ IF n = Enumerated THEN Refresh(1) ELSE BreakOff

(* The AI dialog's "Enumerate complete flow" empties the table for a new    *)
(* trace and refreshes nothing; the first lines of the trace will.          *)
enumerateTopology == rows' = << >> /\ UNCHANGED filter /\ BreakOff

applyFilter(f) == /\ filter' = f
                  /\ UNCHANGED rows
                  /\ Refresh(current)

Select(k) == /\ current' = k /\ details' = Details(rows, k)
             /\ UNCHANGED <<rows, hidden, filter, labels, stale>>

Live == {row \in Row : row.origin = "live"}

Next == \/ \E rs \in SeqOf(Row, 2) : loadCsv(rs)
        \/ \E rs \in SeqOf(Live, 2) \ {<< >>} : pollLiveTrace(rs)
        \/ \E n \in 0..Enumerated, d \in [1..Enumerated -> Registers] :
               enumeratePciDevice(d, n)
        \/ enumerateTopology
        \/ \E f \in Filters : applyFilter(f)
        \/ \E k \in DOMAIN rows \ hidden : Select(k)

Spec == Init /\ [][Next]_vars

-----------------------------------------------------------------------------
(* Properties                                                               *)

Rejected(k) == \/ filter.type \notin {"all", rows[k].type}
               \/ filter.dir \notin {"all", rows[k].dir}
               \/ filter.search /\ ~rows[k].found

(* What is hidden is what the filter rejects.  Three operations change the  *)
(* rows and return without a refresh: an empty file (MainWindow.cpp:1087),  *)
(* an enumeration of a device broken off (1224) and the launch of a         *)
(* topology run (1589).  Until the next refresh what the filter rejects may *)
(* then be on display; what it accepts is not hidden even so.               *)
FilterHolds == /\ \A k \in hidden : k \in DOMAIN rows /\ Rejected(k)
               /\ ~stale => \A k \in DOMAIN rows : Rejected(k) => k \in hidden

(* The counts are those of the rows, and the visible ones those on display, *)
(* but for the same three, which leave the counts of the rows before.       *)
CountsTrue ==
    ~stale => /\ labels.total = Len(rows)
              /\ labels.visible = Cardinality(DOMAIN rows \ hidden)
              /\ labels.tx + labels.rx <= labels.total

(* The packet decoded beside the table is the selected row of the table as  *)
(* it is now, never of rows that have gone, and the register shown for an   *)
(* enumerated row is what the device returned: after those three, too.      *)
PacketShown ==
    /\ current \in 0..Len(rows) /\ details = Details(rows, current)
    /\ current # 0 /\ rows[current].origin = "device" =>
           details.register = rows[current].value

(* What is on display is the table, and the device.                         *)
DisplayTrue == FilterHolds /\ CountsTrue /\ PacketShown
=============================================================================
