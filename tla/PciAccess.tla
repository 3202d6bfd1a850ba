----------------------------- MODULE PciAccess -----------------------------
(***************************************************************************)
(* Configuration accesses of backend_pci.c, and the GUI's enumeration of a  *)
(* device, which is made of them.  A TLP is [type, length, addr, data];     *)
(* addr and length count units of the configuration space, an enumerated    *)
(* register is Dword of them.  The kernel moves as many units per call as   *)
(* it likes, and stops at the end of what the caller may see.               *)
(***************************************************************************)
EXTENDS Naturals, Sequences, TlpFilter

CONSTANTS
    Tlp,               \* what applications send
    NoData,            \* the null mem.data pointer
    Unit,              \* values of a unit
    Size,              \* units of configuration space
    MaxLength,         \* longest configuration read (256 bytes)
    Dword,             \* units of an enumerated register (4 bytes)
    Registers,         \* registers the GUI enumerates (8)
    MaxCalls           \* bound: calls

VARIABLES
    config,            \* configuration space: 0..Size-1 -> Unit
    visible,           \* units the process may see: all, or the header only
    call,              \* the access in progress, or what it returned
    table,             \* the GUI's rows, each the value shown
    gui,               \* "idle", or the register being enumerated
    before,            \* History: config when the latest access began
    ncalls             \* History: calls made

vars == <<config, visible, call, table, gui, before, ncalls>>

Idle == call.at = "done"

Init == /\ config \in [0..Size - 1 -> Unit]
        /\ visible \in {Registers * Dword, Size}
        /\ call = [at |-> "done", rc |-> 0, write |-> FALSE, off |-> 0,
                   len |-> 0, buf |-> << >>, moved |-> 0]
        /\ table = << >> /\ gui = "idle"
        /\ before = config /\ ncalls = 0

(* pci_access_config begins; buf is the caller's buffer.                    *)
Access(write, off, len, buf) ==
    /\ call' = [at |-> "open", rc |-> 0, write |-> write, off |-> off,
                len |-> len, buf |-> buf, moved |-> 0]
    /\ before' = config

Refused == /\ call' = [call EXCEPT !.rc = 1, !.moved = 0, !.len = 0]
           /\ before' = config

(* A read without a length takes a register; without a buffer, it gets one  *)
(* of its own (a failed calloc is a refusal).                               *)
ReadLength(t) == IF t.length = 0 THEN Dword ELSE t.length

pci_send(t) ==
    \/ /\ t.type = CFG_WRITE /\ t.length # 0 /\ t.data # NoData
       /\ Access(TRUE, t.addr, t.length, t.data)
    \/ /\ t.type = CFG_READ /\ ReadLength(t) <= MaxLength
       /\ Access(FALSE, t.addr, ReadLength(t),
                 [k \in 1..ReadLength(t) |-> NoData])
    \/ /\ \/ t.type = CFG_WRITE /\ (t.length = 0 \/ t.data = NoData)
          \/ t.type = CFG_READ /\ (ReadLength(t) > MaxLength \/ t.data = NoData)
          \/ t.type \notin {CFG_WRITE, CFG_READ}
       /\ Refused

Send(t) == /\ Idle /\ gui = "idle" /\ ncalls < MaxCalls
           /\ pci_send(t)
           /\ ncalls' = ncalls + 1
           /\ UNCHANGED <<config, visible, table, gui>>

(* No such device, or no permission.                                        *)
Open == /\ call.at = "open"
        /\ \/ call' = [call EXCEPT !.at = "move"]
           \/ call' = [call EXCEPT !.at = "done", !.rc = 1]
        /\ UNCHANGED <<config, visible, table, gui, before, ncalls>>

(* Mutant: the buffer's cursor is left behind.                              *)
CursorMutant == 0

(* Units of the buffer that are through; the offset moves along.            *)
Cursor == call.moved

(* pread or pwrite moves n units between the buffer and the device.         *)
Move(n) ==
    LET first == call.off + call.moved
    IN  /\ config' = [o \in DOMAIN config |->
                        IF call.write /\ o \in first .. first + n - 1
                          THEN call.buf[Cursor + 1 + o - first]
                          ELSE config[o]]
        /\ call' = [call EXCEPT
              !.moved = @ + n,
              !.at = IF call.moved + n = call.len THEN "done" ELSE "move",
              !.buf = [k \in DOMAIN @ |->
                         IF ~call.write /\ k \in Cursor + 1 .. Cursor + n
                           THEN config[first + k - Cursor - 1] ELSE @[k]]]

(* It moves some, or fails, or moves none (always so at the end of what is  *)
(* visible): then the access fails, and what was moved stays moved.         *)
Transfer ==
    /\ call.at = "move"
    /\ \/ \E n \in 1..call.len - call.moved :
              /\ call.off + call.moved + n <= visible
              /\ Move(n)
       \/ /\ call' = [call EXCEPT !.at = "done", !.rc = 1]
          /\ UNCHANGED config
    /\ UNCHANGED <<visible, table, gui, before, ncalls>>

-----------------------------------------------------------------------------
(* MainWindow::enumeratePciDevice.  Opening the backend, and a device that  *)
(* can be queried, come first: failing that, the table stays.               *)
enumeratePciDevice ==
    /\ Idle /\ gui = "idle" /\ ncalls < MaxCalls
    /\ ncalls' = ncalls + 1
    /\ table' = << >>
    /\ gui' = "read"
    /\ UNCHANGED <<config, visible, call, before>>

ReadRegister ==
    /\ gui = "read"
    /\ IF Len(table) < Registers
         THEN /\ Access(FALSE, Len(table) * Dword, Dword,
                        [k \in 1..Dword |-> NoData])
              /\ gui' = "shown"
         ELSE gui' = "idle" /\ UNCHANGED <<call, before>>
    /\ UNCHANGED <<config, visible, table, ncalls>>

(* A register that cannot be read ends the enumeration; the rows so far     *)
(* stay in the table.                                                       *)
Row == /\ Idle /\ gui = "shown"
       /\ IF call.rc = 0
            THEN table' = Append(table, call.buf) /\ gui' = "read"
            ELSE gui' = "idle" /\ UNCHANGED table

ShowRow == Row /\ UNCHANGED <<config, visible, call, before, ncalls>>

Next == \/ \E t \in Tlp : Send(t)
        \/ Open
        \/ Transfer
        \/ enumeratePciDevice
        \/ ReadRegister
        \/ ShowRow

Fairness == WF_vars(Open \/ Transfer \/ ReadRegister \/ ShowRow)
Spec == Init /\ [][Next]_vars /\ Fairness

-----------------------------------------------------------------------------
(* Properties                                                               *)

(* However the kernel cuts an access up and wherever it fails: a write has  *)
(* put down exactly the first units of its payload at their place and       *)
(* touched nothing else, all of them if it reports success; a read that     *)
(* reports success has fetched every unit from its place.                   *)
TransferExact ==
    /\ \A o \in DOMAIN config :
          config[o] = IF call.write /\ o \in call.off .. call.off + call.moved - 1
                        THEN call.buf[o - call.off + 1] ELSE before[o]
    /\ Idle /\ call.rc = 0 =>
          /\ call.moved = call.len
          /\ call.write \/ \A k \in 1..call.len :
                              call.buf[k] = config[call.off + k - 1]

(* What an enumeration shows are the registers of the device, from the      *)
(* first on and without a gap, also when a read fails in the middle; no row *)
(* shows a buffer that was not filled.                                      *)
RowsAreRegisters ==
    gui # "idle" =>
        \A r \in 1..Len(table), k \in 1..Dword :
            table[r][k] = config[(r - 1) * Dword + k - 1]

(* Accesses and enumerations are exact.                                     *)
AccessExact == TransferExact /\ RowsAreRegisters

(* Every access returns, and so does every enumeration.                     *)
AccessReturns == []<>(Idle /\ gui = "idle")
=============================================================================
