------------------------------ MODULE Desktop -------------------------------
(***************************************************************************)
(* The programs around the library on a user's desktop: the runner script, *)
(* the GUI's live trace, its table of packets, and the files that carry a  *)
(* trace from one program to another.  Each has state of its own, and what *)
(* one takes from another is stated where it is used (LiveTrace relies on  *)
(* JobEnded of the runner); so a behaviour is one of a chosen part, and    *)
(* the others stay as they begin.                                          *)
(***************************************************************************)
EXTENDS ZephyrRunner, Sequences

CONSTANTS
    Part,        \* the parts of this instance
    Text, Noise, CutOf, MaxLaunch, MaxLines,
    Row, Registers, Enumerated, MaxRows,
    Record, LiveRow, MaxRecords, MaxWrites

(* A trace line that is cut short reads as another trace line.              *)
ASSUME TextAssumption == CutOf \in [Text -> Text]

(* A register has four bytes; of the rows, those of a device are only what  *)
(* the enumeration makes of it.                                             *)
ASSUME RowAssumption ==
    /\ Registers \subseteq [1..4 -> 0..255] /\ Enumerated \in Nat \ {0}
    /\ \A row \in Row : row.origin # "device"

(* What a record and a row of an emulator's trace are.                      *)
ASSUME RecordAssumption ==
    /\ \A r \in Record : r.direction \in {"TX", "RX"} /\ r.payload \in Seq(0..255)
    /\ \A row \in LiveRow : LET bytes == row.payload IN
          row \in {[dir |-> "TX", type |-> "CfgWr", ids |-> "bdf", payload |-> bytes],
                  [dir |-> "RX", type |-> "CfgRd", ids |-> "bdf", payload |-> bytes]}

VARIABLES
    part,
    proc, run, script, file, seen, rows, timer, suppress, closed, touched,
    swallowed, unreleased, summary,
    table, hidden, filter, labels, current, details, stale,
    records, saved, loadedRows, loaded, shark, writes

Live   == INSTANCE LiveTrace
Packet == INSTANCE PacketTable WITH rows <- table
File   == INSTANCE TraceFile WITH file <- saved, rows <- loadedRows

liveVars   == <<proc, run, script, file, seen, rows, timer, suppress, closed,
                touched, swallowed, unreleased, summary>>
packetVars == <<table, hidden, filter, labels, current, details, stale>>
fileVars   == <<records, saved, loadedRows, loaded, shark, writes>>

vars == <<part, runnerVars, liveVars, packetVars, fileVars>>

(* A part that is not chosen stays in one of its initial states.            *)
Elsewhere(p) == part # p

Init ==
    /\ part \in Part
    /\ RunnerInit
    /\ Elsewhere("runner") => opt = [r \in Run |-> [ls |-> FALSE, timed |-> FALSE]]
    /\ Live!Init
    /\ Elsewhere("live") => ~file.exists
    /\ Packet!Init /\ File!Init

Others(p) == /\ UNCHANGED part
             /\ IF p = "runner" THEN TRUE ELSE UNCHANGED runnerVars
             /\ IF p = "live"   THEN TRUE ELSE UNCHANGED liveVars
             /\ IF p = "packet" THEN TRUE ELSE UNCHANGED packetVars
             /\ IF p = "file"   THEN TRUE ELSE UNCHANGED fileVars

RunnerStep == part = "runner" /\ RunnerNext  /\ Others("runner")
LiveStep   == part = "live"   /\ Live!Next   /\ Others("live")
PacketStep == part = "packet" /\ Packet!Next /\ Others("packet")
FileStep   == part = "file"   /\ File!Next   /\ Others("file")

Next == RunnerStep \/ LiveStep \/ PacketStep \/ FileStep

(* The runs that nobody starts are under no obligation; the timer and the   *)
(* finished handler of the GUI have nothing to do at rest.                  *)
Spec == /\ Init /\ [][Next]_vars
        /\ \A r \in Run : WF_runnerVars(part = "runner" /\ Script(r))
        /\ Live!Fairness

-----------------------------------------------------------------------------
(* Properties that the parts state, under the names of this module.         *)

(* What comes into the table in a run follows the file.                     *)
RowsFollowFile == Live!RowsFollowFile

(* A run that wrote anything is summarised by what it wrote.                *)
SummaryOfRun == Live!SummaryOfRun

(* The poll lets go of a run only when the table has every line of it.      *)
CaughtUp == Live!CaughtUp

(* A run that has ended is let go of, if there is a file.                   *)
Released == Live!Released

(* The end of a run is reported, but for those launched over a dead one.    *)
Reported == Live!Reported

(* What is on display is the table, and the device.                         *)
DisplayTrue == Packet!DisplayTrue

(* A file tells all its readers what was written.                           *)
ReadersAgree == File!ReadersAgree
=============================================================================
