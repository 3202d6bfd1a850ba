----------------------------- MODULE FpgaDriver -----------------------------
(***************************************************************************)
(* fpga_driver.c, the simulated FPGA: callers of write(), the two delayed  *)
(* works that follow a send, and the unloading of the module.  There is no *)
(* lock, and one register is command and status at once.  This is the      *)
(* driver of lines 1 to 211; as they stand they do not compile, because    *)
(* fpga_write (line 88) uses a work before its declaration (line 149): it  *)
(* is taken to be declared first.  What follows in the file are fragments  *)
(* of another version, whose registers it never defines.                   *)
(***************************************************************************)
EXTENDS Naturals, FiniteSets

CONSTANTS
    Writer,            \* processes with the device open
    MaxWrites          \* bound: writes to the command register

CMD_SEND_TLP    == 1
CMD_RESET       == 2
STATUS_READY    == 0
STATUS_BUSY     == 1
STATUS_COMPLETE == 2
Other           == 3   \* any value that is none of these

VARIABLES
    module,            \* "out", "in", "exit1".."exit4", "gone"
    users,             \* writers that hold the device open
    at,                \* where each writer is in fpga_write
    command,           \* FPGA_REG_COMMAND
    freed,             \* fpga_regs has been freed
    queued, running,   \* tlp_complete_work and tlp_ready_work: on the timer,
                       \* being executed
    stray,             \* History: the register holds what a caller left there
                       \* and what is neither command nor status, or what
                       \* its write did not look at
    nwrites

driverVars == <<module, users, at, command, freed, queued, running, stray,
                nwrites>>

Works == {"complete", "ready"}
Values == {STATUS_READY, CMD_SEND_TLP, CMD_RESET, Other}

DriverInit == /\ module = "out" /\ users = {}
              /\ at = [w \in Writer |-> "idle"] /\ command = STATUS_READY
              /\ freed = TRUE
              /\ queued = {} /\ running = {}
              /\ stray = FALSE /\ nwrites = 0

(* schedule_delayed_work: nothing happens if the work waits already.        *)
Schedule(work) == queued' = queued \cup {work}

-----------------------------------------------------------------------------
(* fpga_init.  The registration, the class or the device may fail; each     *)
(* undoes what came before it and frees the registers, here in one step:    *)
(* nothing else of the driver has run by then.                              *)
fpga_init ==
    /\ module = "out"
    /\ \/ module' = "in" /\ freed' = FALSE
       \/ module' = "gone" /\ UNCHANGED freed
    /\ command' = STATUS_READY
    /\ UNCHANGED <<users, at, queued, running, stray, nwrites>>

(* An open file holds the module.                                           *)
fpga_open(w) ==
    /\ module = "in" /\ w \notin users
    /\ users' = users \cup {w}
    /\ UNCHANGED <<module, at, command, freed, queued, running, stray,
                   nwrites>>

fpga_release(w) ==
    /\ w \in users /\ at[w] = "idle"
    /\ users' = users \ {w}
    /\ UNCHANGED <<module, at, command, freed, queued, running, stray,
                   nwrites>>

(* fpga_write over the command register: copy_from_user of any bytes.  It   *)
(* may fail when the register is written already, or begin behind the first *)
(* byte: neither is looked at.                                              *)
Copy(w) ==
    /\ w \in users /\ at[w] = "idle" /\ nwrites < MaxWrites
    /\ \E c \in Values :
          /\ command' = c
          /\ \/ at' = [at EXCEPT ![w] = "look"] /\ stray' = (c = Other)
             \/ stray' = TRUE /\ UNCHANGED at
    /\ nwrites' = nwrites + 1
    /\ UNCHANGED <<module, users, freed, queued, running>>

(* It reads the register again; what is not a command is not acted on, but  *)
(* the COMPLETE of a work that came in between reads as CMD_RESET.          *)
Look(w) ==
    /\ at[w] = "look"
    /\ at' = [at EXCEPT ![w] = CASE command = CMD_SEND_TLP -> "busy"
                                 [] command = CMD_RESET    -> "reset"
                                 [] OTHER                  -> "idle"]
    /\ UNCHANGED <<module, users, command, freed, queued, running, stray,
                   nwrites>>

Reset(w) ==
    /\ at[w] = "reset"
    /\ command' = STATUS_READY /\ stray' = FALSE
    /\ at' = [at EXCEPT ![w] = "idle"]
    /\ UNCHANGED <<module, users, freed, queued, running, nwrites>>

Busy(w) ==
    /\ at[w] = "busy"
    /\ command' = STATUS_BUSY /\ stray' = FALSE
    /\ at' = [at EXCEPT ![w] = "schedule"]
    /\ UNCHANGED <<module, users, freed, queued, running, nwrites>>

Scheduled(w) ==
    /\ at[w] = "schedule"
    /\ Schedule("complete")
    /\ at' = [at EXCEPT ![w] = "idle"]
    /\ UNCHANGED <<module, users, command, freed, running, stray, nwrites>>

Write(w) == Look(w) \/ Reset(w) \/ Busy(w) \/ Scheduled(w)

-----------------------------------------------------------------------------
(* The works.  Each may be queued again while it runs.                      *)
Begin(work) ==
    /\ work \in queued \ running
    /\ queued' = queued \ {work}
    /\ running' = running \cup {work}
    /\ command' = IF work = "complete" THEN STATUS_COMPLETE ELSE STATUS_READY
    /\ stray' = FALSE
    /\ UNCHANGED <<module, users, at, freed, nwrites>>

(* Mutant: the completion does not see to the ready status.                 *)
EndMutant(work) ==
    /\ work \in running
    /\ running' = running \ {work}
    /\ UNCHANGED <<module, users, at, command, freed, queued, stray,
                   nwrites>>

(* tlp_complete_work schedules tlp_ready_work.                              *)
End(work) ==
    /\ work \in running
    /\ running' = running \ {work}
    /\ IF work = "complete" THEN Schedule("ready") ELSE UNCHANGED queued
    /\ UNCHANGED <<module, users, at, command, freed, stray, nwrites>>

-----------------------------------------------------------------------------
(* fpga_exit: cancel_delayed_work_sync takes a work off the timer and waits *)
(* for it to end.  Mutant: the works in the other order.                    *)
FirstMutant == "ready"
First == "complete"
Second == IF First = "complete" THEN "ready" ELSE "complete"

Exit(from, to) == module = from /\ module' = to
Cancel(work) == queued' = queued \ {work}
Ended(work) == work \notin running /\ work \notin queued

fpga_exit ==
    /\ \/ users = {} /\ Exit("in", "exit1") /\ Cancel(First) /\ UNCHANGED freed
       \/ Ended(First) /\ Exit("exit1", "exit2") /\ Cancel(Second)
             /\ UNCHANGED freed
       \/ Ended(Second) /\ Exit("exit2", "exit3") /\ UNCHANGED <<queued, freed>>
       \/ Exit("exit3", "gone") /\ freed' = TRUE /\ UNCHANGED queued
    /\ UNCHANGED <<users, at, command, running, stray, nwrites>>

DriverNext == \/ fpga_init \/ fpga_exit
              \/ \E w \in Writer : fpga_open(w) \/ fpga_release(w) \/ Copy(w) \/ Write(w)
              \/ \E work \in Works : Begin(work) \/ End(work)

Fairness == /\ \A w \in Writer : WF_driverVars(Write(w))
            /\ \A work \in Works : WF_driverVars(Begin(work)) /\ WF_driverVars(End(work))
DriverSpec == DriverInit /\ [][DriverNext]_driverVars /\ Fairness

-----------------------------------------------------------------------------
(* Properties                                                               *)

(* No work waits or runs, and nobody is in write, once the registers are    *)
(* freed: tlp_complete_work, which schedules the other, is cancelled first. *)
NoUseAfterFree ==
    freed => queued = {} /\ running = {} /\ \A w \in Writer : at[w] = "idle"

(* A command is not lost in the register it shares with the status: however *)
(* writes, looks and works follow one another, the device does not stay     *)
(* busy or complete, and a value other than ready stays only when it is a   *)
(* caller's that nobody acts on, since fpga_write has no answer to it       *)
(* (fpga_driver.c:77-95) or did not get to look.  One that was left before  *)
(* the latest command was acted on is no excuse.                            *)
Settles == <>[](command = STATUS_READY \/ stray \/ module # "in")
=============================================================================
