---------------------------- MODULE FpgaBackend -----------------------------
(***************************************************************************)
(* backend_fpga.c: one descriptor and one mapping, kept in statics, behind *)
(* any number of contexts, the poll for readiness, and the four words of a *)
(* header, the last of which, the tag, lands in the control register.      *)
(* pcie_backend_fpga returns the address of a table in its own, ended,     *)
(* frame; the model takes the calls to arrive nevertheless.                *)
(***************************************************************************)
EXTENDS Naturals

CONSTANTS
    Context,
    PollLimit,     \* reads of the status before giving up (1000000)
    Tag,           \* tags of sent TLPs
    MaxOpens       \* bound: pcie_open

VARIABLES
    contexts,      \* the open ones
    fd,            \* fpga_fd >= 0
    regs,          \* fpga_regs: "null", "mapped" or "failed" (MAP_FAILED)
    device,        \* [enabled, ready] of the FPGA
    call,          \* [at, polls] of the call in progress; at is "idle",
                   \* "open" or "send"
    opener,        \* the context being opened
    lost,          \* History: a descriptor or mapping nobody can release
    crashed,       \* an access through MAP_FAILED
    second,        \* History: an open ran while a context was open
    unsafe,        \* History: mmap has failed while a context was open
    opens

fpgaVars == <<contexts, fd, regs, device, call, opener, lost, crashed, second,
              unsafe, opens>>

Idle == [at |-> "idle", polls |-> 0]
Off  == [enabled |-> FALSE, ready |-> FALSE]

FpgaInit == /\ contexts = {} /\ fd = FALSE /\ regs = "null"
            /\ device \in [enabled : {FALSE}, ready : BOOLEAN]
            /\ call = Idle /\ opener \in Context
            /\ lost = FALSE /\ crashed = FALSE /\ second = FALSE
            /\ unsafe = FALSE /\ opens = 0

Ready == call = Idle /\ ~crashed

(* The control register: bit 0 resets the device, bit 1 enables it.         *)
Control(value) ==
    device' = IF value % 2 = 1 THEN Off
              ELSE [enabled |-> (value \div 2) % 2 = 1,
                    ready |-> device.ready /\ (value \div 2) % 2 = 1]

(* fpga_init: open, mmap, reset, enable, poll.                              *)
Open(c) ==
    /\ Ready /\ c \notin contexts /\ opens < MaxOpens
    /\ opens' = opens + 1
    /\ second' = (second \/ contexts # {})
    /\ opener' = c
    /\ lost' = (lost \/ fd)
    /\ \/ /\ fd' = FALSE
          /\ UNCHANGED <<regs, device, call, unsafe>>
       \/ /\ fd' = FALSE /\ regs' = "failed"
          /\ unsafe' = (unsafe \/ contexts # {})
          /\ UNCHANGED <<device, call>>
       \/ /\ fd' = TRUE /\ regs' = "mapped"
          /\ device' = [enabled |-> TRUE, ready |-> FALSE]
          /\ call' = [at |-> "open", polls |-> 0]
          /\ UNCHANGED unsafe
    /\ UNCHANGED <<contexts, crashed>>

(* fpga_close.  Mutants: the descriptor stays open; the pointer stays.      *)
ReleaseFdMutant == regs' = "null" /\ UNCHANGED fd
ReleaseRegsMutant == fd' = FALSE /\ UNCHANGED regs
Release == regs' = "null" /\ fd' = FALSE

(* fpga_wait_ready, one turn.  Mutant: a counter narrower than its limit.   *)
PollMutant ==
    /\ call # Idle /\ ~device.ready
    /\ call' = [call EXCEPT !.polls = (@ + 1) % PollLimit]
    /\ UNCHANGED <<contexts, fd, regs, device, opener, lost, crashed, second,
                   unsafe, opens>>

Poll ==
    /\ call # Idle /\ ~device.ready /\ call.polls < PollLimit
    /\ call' = [call EXCEPT !.polls = @ + 1]
    /\ UNCHANGED <<contexts, fd, regs, device, opener, lost, crashed, second,
                   unsafe, opens>>

(* Its timeout: fpga_init closes, fpga_send returns.                        *)
GiveUp ==
    /\ call # Idle /\ call.polls = PollLimit
    /\ IF call.at = "open" THEN Release /\ device' = Off
                           ELSE UNCHANGED <<fd, regs, device>>
    /\ call' = Idle
    /\ UNCHANGED <<contexts, opener, lost, crashed, second, unsafe, opens>>

Opened ==
    /\ call.at = "open" /\ device.ready /\ call.polls < PollLimit
    /\ contexts' = contexts \cup {opener}
    /\ call' = Idle
    /\ UNCHANGED <<fd, regs, device, opener, lost, crashed, second, unsafe,
                   opens>>

(* fpga_send and fpga_recv touch the registers unless fpga_regs is null.    *)
Touch == IF regs = "failed" THEN crashed' = TRUE /\ UNCHANGED call
                            ELSE UNCHANGED crashed

fpga_send ==
    /\ Ready /\ contexts # {} /\ regs # "null"
    /\ Touch
    /\ regs = "mapped" => call' = [at |-> "send", polls |-> 0]
    /\ UNCHANGED <<contexts, fd, regs, device, opener, lost, second, unsafe,
                   opens>>

(* The words: the second to fourth are written over status, received data   *)
(* and control.                                                             *)
Words ==
    /\ call.at = "send" /\ device.ready /\ call.polls < PollLimit
    /\ \E tag \in Tag : Control(tag)
    /\ call' = Idle
    /\ UNCHANGED <<contexts, fd, regs, opener, lost, crashed, second, unsafe,
                   opens>>

fpga_recv ==
    /\ Ready /\ contexts # {} /\ regs = "failed"
    /\ Touch
    /\ UNCHANGED <<contexts, fd, regs, device, opener, lost, second, unsafe,
                   opens>>

(* pcie_close; with a mapping, the device is reset first.                   *)
Close(c) ==
    /\ Ready /\ c \in contexts
    /\ IF regs = "failed"
         THEN crashed' = TRUE /\ UNCHANGED <<contexts, fd, regs, device>>
         ELSE /\ contexts' = contexts \ {c}
              /\ device' = IF regs = "mapped" THEN Off ELSE device
              /\ Release
              /\ UNCHANGED crashed
    /\ UNCHANGED <<call, opener, lost, second, unsafe, opens>>

(* The FPGA, when it likes.                                                 *)
GetsReady == /\ device.enabled /\ ~device.ready
             /\ device' = [device EXCEPT !.ready = TRUE]
             /\ UNCHANGED <<contexts, fd, regs, call, opener, lost, crashed,
                            second, unsafe, opens>>

Code == Poll \/ GiveUp \/ Opened \/ Words
FpgaNext == \/ \E c \in Context : Open(c) \/ Close(c)
            \/ fpga_send \/ fpga_recv \/ GetsReady \/ Code

FpgaSpec == FpgaInit /\ [][FpgaNext]_fpgaVars /\ WF_fpgaVars(Code)

-----------------------------------------------------------------------------
(* Properties                                                               *)

(* Nothing of the code touches the registers without a mapping, unless mmap *)
(* failed while a context was open.                                         *)
AccessMapped == /\ crashed => unsafe
                /\ call # Idle => regs = "mapped"
                /\ regs = "mapped" => fd \/ second

(* Descriptor and mapping are lost only to an open beside an open context;  *)
(* otherwise, when no context is open, there is no descriptor either.       *)
HandlesReleased == /\ lost => second
                   /\ contexts = {} /\ call = Idle => ~fd

(* Every call returns, even if the FPGA never gets ready.                   *)
CallsReturn == call # Idle ~> call = Idle
=============================================================================
