------------------------------ MODULE PciLink ------------------------------
(***************************************************************************)
(* pci_link_status and pci_device_info of backend_pci.c: the walk along the *)
(* device's capability list and the two link registers.  Every read opens   *)
(* the device anew, so that the link may retrain, and the device go away,   *)
(* between any two of them.  A device that went away reads as all ones as   *)
(* long as the kernel still lists it.                                       *)
(***************************************************************************)
EXTENDS Naturals

CONSTANTS
    Place,             \* offsets a capability can have, none of them 0
    Ones,              \* the offset 0xff, where an absent device points to
    HopLimit,          \* capabilities looked at (48)
    SpeedCode,         \* link speed codes a device may give; 15 is all ones
    MaxChanges,        \* bound: retrainings and removals
    MaxCalls           \* bound: queries

VARIABLES
    device,            \* [start, next, pcie, max, negotiated]; start is 0
                       \* without a capability list, pcie the places that
                       \* hold the PCIe capability
    query,             \* [at, kind, ptr, hops, max] of the call in progress,
                       \* and what the latest one returned
    calm,              \* History: since the call began nothing has changed
                       \* and no read has failed
    changes, ncalls

vars == <<device, query, calm, changes, ncalls>>

Device == [start : Place \cup {0}, next : [Place -> Place \cup {0}],
           pcie : SUBSET Place, max : SpeedCode, negotiated : SpeedCode]

Gone == [start |-> Ones, next |-> [p \in Place \cup {Ones} |-> Ones],
         pcie |-> {}, max |-> 15, negotiated |-> 15]

Idle == query.at = "idle"

Init == /\ device \in Device
        /\ query = [at |-> "idle", kind |-> "link", rc |-> 1, ptr |-> 0,
                    hops |-> 0, found |-> FALSE, max |-> 0, negotiated |-> 0]
        /\ calm = TRUE /\ changes = 0 /\ ncalls = 0

(* memset of the caller's structure.  pci_device_info reads the ids first.  *)
Call(kind) ==
    /\ Idle /\ ncalls < MaxCalls
    /\ query' = [at |-> IF kind = "info" THEN "ids" ELSE "header",
                 kind |-> kind, rc |-> 1, ptr |-> 0,
                 hops |-> 0, found |-> FALSE, max |-> 0, negotiated |-> 0]
    /\ calm' = TRUE
    /\ ncalls' = ncalls + 1
    /\ UNCHANGED <<device, changes>>

(* The search is over.  pci_device_info succeeds either way.                *)
Ended(q, found) ==
    [q EXCEPT !.found = found,
              !.at = IF found /\ q.kind = "link" THEN "lnkcap" ELSE "idle",
              !.rc = IF q.kind = "info" THEN 0 ELSE 1]

(* The 16 bytes of pci_device_info, none of which the search looks at.      *)
Ids == query.at = "ids" /\ query' = [query EXCEPT !.at = "header"]

(* pci_find_pcie_capability reads anew: status bit and first pointer.       *)
Header ==
    /\ query.at = "header"
    /\ query' = IF device.start = 0
                  THEN Ended(query, FALSE)
                  ELSE [query EXCEPT !.at = "hop", !.ptr = device.start]

(* Mutants: no limit on the hops; one hop too few.                          *)
HopForeverMutant ==
    /\ query.at = "hop"
    /\ query' = IF query.ptr \in device.pcie THEN Ended(query, TRUE)
                ELSE IF device.next[query.ptr] = 0 THEN Ended(query, FALSE)
                ELSE [query EXCEPT !.ptr = device.next[query.ptr]]

HopShortMutant ==
    /\ query.at = "hop"
    /\ query' = IF query.hops = HopLimit - 1 THEN Ended(query, FALSE)
                ELSE IF query.ptr \in device.pcie THEN Ended(query, TRUE)
                ELSE IF device.next[query.ptr] = 0 THEN Ended(query, FALSE)
                ELSE [query EXCEPT !.ptr = device.next[query.ptr],
                                   !.hops = @ + 1]

(* One turn of its loop: the capability's id, then its pointer.             *)
Hop ==
    /\ query.at = "hop"
    /\ query' = IF query.hops = HopLimit THEN Ended(query, FALSE)
                ELSE IF query.ptr \in device.pcie THEN Ended(query, TRUE)
                ELSE IF device.next[query.ptr] = 0 THEN Ended(query, FALSE)
                ELSE [query EXCEPT !.ptr = device.next[query.ptr],
                                   !.hops = @ + 1]

LinkCap == /\ query.at = "lnkcap"
           /\ query' = [query EXCEPT !.max = device.max, !.at = "lnksta"]

(* Mutant: an unknown speed is reported like any other.                     *)
LinkStaMutant ==
    /\ query.at = "lnksta"
    /\ query' = [query EXCEPT !.negotiated = device.negotiated,
                              !.at = "idle", !.rc = 0]

(* pcie_link_speed_from_code knows the codes 1 to 8.                        *)
Known(code) == code \in 1..8

LinkSta ==
    /\ query.at = "lnksta"
    /\ query' = [query EXCEPT
          !.negotiated = device.negotiated, !.at = "idle",
          !.rc = IF Known(query.max) /\ Known(device.negotiated) THEN 0 ELSE 1]

Step == /\ Ids \/ Header \/ Hop \/ LinkCap \/ LinkSta
        /\ UNCHANGED <<device, calm, changes, ncalls>>

(* A read fails: the device is not listed any more, or may not be read.     *)
(* pci_device_info must get the ids; when only the search fails it reports  *)
(* a device without the capability.                                         *)
ReadFails ==
    /\ ~Idle
    /\ calm' = FALSE
    /\ query' = [query EXCEPT
          !.at = "idle", !.found = FALSE,
          !.rc = IF query.kind = "info" /\ query.at # "ids" THEN 0 ELSE 1]
    /\ UNCHANGED <<device, changes, ncalls>>

(* The world: the link retrains, or the device goes.                        *)
Change ==
    /\ changes < MaxChanges
    /\ changes' = changes + 1
    /\ calm' = FALSE
    /\ \/ /\ device # Gone
          /\ \E c \in SpeedCode : device' = [device EXCEPT !.negotiated = c]
       \/ device' = Gone
    /\ UNCHANGED <<query, ncalls>>

Next == (\E kind \in {"link", "info"} : Call(kind))
          \/ Step \/ ReadFails \/ Change

Fairness == WF_vars(Step)
Spec == Init /\ [][Next]_vars /\ Fairness

-----------------------------------------------------------------------------
(* Properties                                                               *)

(* Places the list leads to, in any number of hops: those that belong to    *)
(* every set that holds the first one and, of each place, the next.         *)
Leads(W) == /\ device.start \in W \cup {0}
            /\ \A p \in W : device.next[p] \in W \cup {0}

Reachable == {p \in DOMAIN device.next :
                \A W \in SUBSET DOMAIN device.next : Leads(W) => p \in W}

(* On a device that stays as it is, the search finds the PCIe capability    *)
(* exactly if the list leads to one, however long and however tangled the   *)
(* list is: 48 hops are as many as the space has places.                    *)
FoundIfReachable ==
    Idle /\ calm /\ ncalls > 0 =>
        (query.found <=> Reachable \cap device.pcie # {})

(* Link status is never reported of a device that has gone: a query that    *)
(* reads its last register after the removal fails, wherever between its    *)
(* reads the removal hit it.                                                *)
GoneIsNoticed ==
    [][/\ device = Gone /\ query.at = "lnksta" /\ query'.at = "idle"
       => query'.rc = 1]_vars

(* Every query returns, also on a list that runs in a circle.               *)
QueryReturns == []<>Idle
=============================================================================
