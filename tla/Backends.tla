------------------------------ MODULE Backends ------------------------------
(***************************************************************************)
(* The backends behind pcie_open, other than the dummy's traffic and the   *)
(* ARM DS bridge, with what lies on their far side: an application chooses *)
(* one by its name and stays with it.  What a backend keeps, it keeps in   *)
(* statics of its own file, which no other touches; so a behaviour is one  *)
(* of the chosen part, and the others keep the state they have when the    *)
(* program is loaded.                                                      *)
(***************************************************************************)
EXTENDS PciCompletionQueue, XgigBackend, FpgaBackend, FpgaDriver, LinkTarget

CONSTANTS
    Part,        \* the parts of this instance
    Accesses, Unit, Size, MaxLength, Dword, Registers, MaxAccesses,
    Place, Ones, HopLimit, SpeedCode, MaxChanges, MaxQueries,
    NoNumber, Speeds, Widths, Names, Durations, MaxItems

(* Payloads are as long as they say, and the registers that the GUI         *)
(* enumerates are in the space.                                             *)
ASSUME AccessAssumption ==
    /\ Size \in Nat /\ Dword \in Nat /\ Registers \in Nat
    /\ Registers * Dword <= Size
    /\ \A t \in Accesses :
          /\ t.length \in Nat /\ t.addr \in Nat
          /\ t.data = NoData \/ t.data \in [1..t.length -> Unit]

(* The offset 0 ends a capability list; the places are the words of the     *)
(* space that a capability can start at, no more than the hops.             *)
ASSUME PlaceAssumption ==
    /\ IsFiniteSet(Place) /\ 0 \notin Place
    /\ HopLimit \in Nat /\ Cardinality(Place) <= HopLimit

(* The numbers in the variables of the dummy are natural where they parse.  *)
ASSUME ConfigAssumption ==
    /\ Speeds \cup Widths \cup Durations \subseteq Nat \cup {NoNumber}
    /\ Names \subseteq [speed : Nat, width : Nat]

VARIABLES
    part,
    config, visible, access, table, gui, before, accesses,
    pciDevice, query, calm, changes, queries,
    env, status, cfg

Access == INSTANCE PciAccess WITH Tlp <- Accesses, call <- access,
                                  MaxCalls <- MaxAccesses, ncalls <- accesses
Pci    == INSTANCE PciLink WITH device <- pciDevice, MaxCalls <- MaxQueries,
                                ncalls <- queries
Dummy  == INSTANCE DummyConfig

accessVars == <<config, visible, access, table, gui, before, accesses>>
pciVars    == <<pciDevice, query, calm, changes, queries>>
dummyVars  == <<env, status, cfg>>

vars == <<part, ringVars, xgigVars, fpgaVars, driverVars, linkVars, accessVars,
          pciVars, dummyVars>>

(* A part that is not chosen stays in one of its initial states.            *)
Elsewhere(p) == part # p

Init ==
    /\ part \in Part
    /\ RingInit /\ XgigInit /\ DriverInit /\ Dummy!Init
    /\ Pci!Init
    /\ Elsewhere("pci") => /\ pciDevice.start = 0 /\ pciDevice.pcie = {}
                           /\ \A p \in Place : pciDevice.next[p] = 0
                           /\ \A c \in SpeedCode : /\ pciDevice.max <= c
                                                   /\ pciDevice.negotiated <= c
    /\ Access!Init
    /\ Elsewhere("access") => visible = Size /\ config = [o \in DOMAIN config |-> 0]
    /\ FpgaInit
    /\ Elsewhere("fpga") => device = Off /\ opener = CHOOSE c \in Context : TRUE
    /\ LinkInit
    /\ Elsewhere("target") => link = Unread

Others(p) == /\ UNCHANGED part
             /\ IF p = "ring"   THEN TRUE ELSE UNCHANGED ringVars
             /\ IF p = "xgig"   THEN TRUE ELSE UNCHANGED xgigVars
             /\ IF p = "fpga"   THEN TRUE ELSE UNCHANGED fpgaVars
             /\ IF p = "driver" THEN TRUE ELSE UNCHANGED driverVars
             /\ IF p = "target" THEN TRUE ELSE UNCHANGED linkVars
             /\ IF p = "access" THEN TRUE ELSE UNCHANGED accessVars
             /\ IF p = "pci"    THEN TRUE ELSE UNCHANGED pciVars
             /\ IF p = "dummy"  THEN TRUE ELSE UNCHANGED dummyVars

RingStep   == part = "ring"   /\ RingNext     /\ Others("ring")
XgigStep   == part = "xgig"   /\ XgigNext     /\ Others("xgig")
FpgaStep   == part = "fpga"   /\ FpgaNext     /\ Others("fpga")
DriverStep == part = "driver" /\ DriverNext   /\ Others("driver")
TargetStep == part = "target" /\ LinkNext     /\ Others("target")
AccessStep == part = "access" /\ Access!Next  /\ Others("access")
PciStep    == part = "pci"    /\ Pci!Next     /\ Others("pci")
DummyStep  == part = "dummy"  /\ Dummy!Setenv /\ Others("dummy")

Next == \/ RingStep \/ XgigStep \/ FpgaStep \/ DriverStep
        \/ TargetStep \/ AccessStep \/ PciStep \/ DummyStep

(* At rest, no part can take a step that its own fairness asks for.         *)
Spec == /\ Init /\ [][Next]_vars
        /\ WF_fpgaVars(Code) /\ Fairness
        /\ Access!Fairness /\ Pci!Fairness

-----------------------------------------------------------------------------
(* Properties that the parts state, under the names of this module.         *)

(* Configuration accesses move exactly what they report, in whatever pieces *)
(* the kernel does, and an enumeration shows the device's registers.        *)
AccessExact == Access!AccessExact

(* The search for the PCIe capability finds what the list leads to.         *)
FoundIfReachable == Pci!FoundIfReachable

(* A device that goes away between two reads of one query is noticed.       *)
GoneIsNoticed == Pci!GoneIsNoticed

(* Accesses, enumerations and link queries return.                          *)
PciReturns == Access!AccessReturns /\ Pci!QueryReturns

(* The dummy's link is the one that was configured last, and possible.      *)
LinkAsConfigured == Dummy!LinkAsConfigured
=============================================================================
