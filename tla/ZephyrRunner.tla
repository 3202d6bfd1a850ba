---------------------------- MODULE ZephyrRunner ----------------------------
(***************************************************************************)
(* scripts/run_zephyr_ai_topology.sh, run several times in one directory:  *)
(* the runs share qemu.pid and nothing else keeps them apart.  A run that  *)
(* traces starts "qemu | tee" and remembers, as QEMU_PID, the last process *)
(* of that pipeline, which is tee; a run that captures "pcie ls" remembers *)
(* its emulator.                                                           *)
(***************************************************************************)
EXTENDS Naturals

CONSTANTS Run, NoRun

ASSUME NoRunAssumption == NoRun \notin Run

VARIABLES
    pc,         \* where each run is
    opt,        \* [ls, timed] of each run: PCIE_LS_CAPTURE = 1, and
                \* RUN_TIMEOUT_SECONDS > 0
    qemu, tee,  \* the run's processes, by state
    job,        \* runs that have executed QEMU_PID=$!
    last,       \* runs whose cleanup is the exit trap's
    pidfile,    \* the run whose emulator wrote qemu.pid; NoRun: no file
    victim,     \* the run whose emulator a run found in qemu.pid
    cut,        \* History: runs killed, or stopped before they had a job
    locked,     \* History: runs that got the lock since the run looked at it
    refused     \* History: the run that held the lock when this one's
                \* emulator wanted it

runnerVars == <<pc, opt, qemu, tee, job, last, pidfile, victim, cut, locked,
                refused>>
history == <<cut, locked, refused>>

RunnerInit == /\ pc = [r \in Run |-> "off"]
              /\ opt \in [Run -> [ls : BOOLEAN, timed : BOOLEAN]]
              /\ qemu = [r \in Run |-> "none"] /\ tee = [r \in Run |-> "none"]
              /\ job = {} /\ last = {}
              /\ pidfile = NoRun /\ victim = [r \in Run |-> NoRun]
              /\ cut = {}
              /\ locked = [r \in Run |-> {}] /\ refused = [r \in Run |-> NoRun]

Living == {"booting", "running", "ending"}
Go(r, to) == pc' = [pc EXCEPT ![r] = to]

(* The process QEMU_PID, and what kill does to it.                          *)
JobState(r) == IF opt[r].ls THEN qemu[r] ELSE tee[r]
JobAlive(r) == r \in job /\ JobState(r) \in Living
SetJob(r, s) ==
    IF opt[r].ls THEN qemu' = [qemu EXCEPT ![r] = s] /\ UNCHANGED tee
                 ELSE tee' = [tee EXCEPT ![r] = s] /\ UNCHANGED qemu

(* The checks of the environment; each failure ends the script before the   *)
(* trap is set.                                                             *)
Setup(r) == /\ pc[r] = "off"
            /\ Go(r, "stale") \/ Go(r, "gone")
            /\ UNCHANGED <<opt, qemu, tee, job, last, pidfile, victim,
                           history>>

(* cleanup_stale_qemu_lock up to its sleep.                                 *)
Stale(r) ==
    /\ pc[r] = "stale"
    /\ locked' = [locked EXCEPT ![r] = {}]
    /\ IF pidfile # NoRun /\ qemu[pidfile] \in Living
         THEN /\ victim' = [victim EXCEPT ![r] = pidfile]
              /\ qemu' = [qemu EXCEPT ![pidfile] = "ending"]
              /\ Go(r, "stalekill")
              /\ UNCHANGED pidfile
         ELSE /\ pidfile' = NoRun
              /\ Go(r, "fork")
              /\ UNCHANGED <<victim, qemu>>
    /\ UNCHANGED <<opt, tee, job, last, cut, refused>>

(* Mutant: an emulator that did not heed TERM is left alone, with its file. *)
StaleKillMutant(r) ==
    /\ pc[r] = "stalekill"
    /\ Go(r, "fork")
    /\ UNCHANGED <<opt, qemu, tee, job, last, pidfile, victim, history>>

StaleKill(r) ==
    /\ pc[r] = "stalekill"
    /\ qemu' = [qemu EXCEPT ![victim[r]] = "dead"]
    /\ pidfile' = NoRun
    /\ Go(r, "fork")
    /\ UNCHANGED <<opt, tee, job, last, victim, history>>

Fork(r) == /\ pc[r] = "fork"
           /\ qemu' = [qemu EXCEPT ![r] = "booting"]
           /\ tee' = [tee EXCEPT ![r] = IF opt[r].ls THEN "none" ELSE "running"]
           /\ Go(r, "assign")
           /\ UNCHANGED <<opt, job, last, pidfile, victim, history>>

After(r) == IF opt[r].timed THEN "sleep" ELSE "wait"

(* QEMU_PID=$!                                                              *)
Assign(r) == /\ pc[r] = "assign"
             /\ job' = job \cup {r}
             /\ Go(r, IF opt[r].ls THEN "client" ELSE After(r))
             /\ UNCHANGED <<opt, qemu, tee, last, pidfile, victim, history>>

(* The Python client, with its bounded number of attempts.  It fails if it  *)
(* cannot write its log, which ends the script.                             *)
Client(r) == /\ pc[r] = "client"
             /\ \/ Go(r, After(r)) /\ UNCHANGED last
                \/ Go(r, "term") /\ last' = last \cup {r}
             /\ UNCHANGED <<opt, qemu, tee, job, pidfile, victim, history>>

Sleep(r) == /\ pc[r] = "sleep"
            /\ Go(r, "term")
            /\ UNCHANGED <<opt, qemu, tee, job, last, pidfile, victim,
                           history>>

Wait(r) == /\ pc[r] = "wait" /\ ~JobAlive(r)
           /\ Go(r, "term")
           /\ last' = last \cup {r}
           /\ UNCHANGED <<opt, qemu, tee, job, pidfile, victim, history>>

(* cleanup: TERM, a second's sleep, KILL, wait, rm.                         *)
Term(r) == /\ pc[r] = "term"
           /\ IF JobAlive(r) THEN SetJob(r, "ending") /\ Go(r, "kill")
                             ELSE UNCHANGED <<qemu, tee>> /\ Go(r, "rm")
           /\ UNCHANGED <<opt, job, last, pidfile, victim, history>>

(* Mutants: no KILL; no KILL and no wait either.                            *)
KillMutant(r) ==
    /\ pc[r] = "kill" /\ ~JobAlive(r)
    /\ Go(r, "rm")
    /\ UNCHANGED <<opt, qemu, tee, job, last, pidfile, victim, history>>

KillNoneMutant(r) ==
    /\ pc[r] = "kill"
    /\ Go(r, "rm")
    /\ UNCHANGED <<opt, qemu, tee, job, last, pidfile, victim, history>>

Kill(r) == /\ pc[r] = "kill"
           /\ SetJob(r, "dead")
           /\ Go(r, "rm")
           /\ UNCHANGED <<opt, job, last, pidfile, victim, history>>

(* Whatever the file says by now.  After a timeout the trap cleans up once  *)
(* more.                                                                    *)
Remove(r) == /\ pc[r] = "rm"
             /\ pidfile' = NoRun
             /\ Go(r, IF r \in last THEN "gone" ELSE "term")
             /\ last' = last \cup {r}
             /\ UNCHANGED <<opt, qemu, tee, job, victim, history>>

(* TERM from the GUI or the user: bash runs the exit trap, unless the trap  *)
(* is what it runs already.  KILL ends bash and nothing else.               *)
Signal(r) ==
    /\ pc[r] \notin {"off", "gone"}
    /\ \/ r \notin last /\ Go(r, "term") /\ last' = last \cup {r}
          /\ cut' = IF r \in job THEN cut ELSE cut \cup {r}
       \/ Go(r, "gone") /\ cut' = cut \cup {r} /\ UNCHANGED last
    /\ UNCHANGED <<opt, qemu, tee, job, pidfile, victim, locked, refused>>

-----------------------------------------------------------------------------
(* The processes.  An emulator that cannot lock qemu.pid gives up; a file   *)
(* that was removed locks nobody out.  It ignores SIGPIPE, so tee's end     *)
(* does not end it, and tee ends when the emulator has.                     *)
Holder == IF pidfile # NoRun /\ qemu[pidfile] \in {"running", "ending"}
            THEN pidfile ELSE NoRun

Boot(r) ==
    /\ qemu[r] = "booting"
    /\ IF Holder = NoRun
         THEN /\ qemu' = [qemu EXCEPT ![r] = "running"]
              /\ pidfile' = r
              /\ locked' = [s \in Run |-> locked[s] \cup {r}]
              /\ UNCHANGED refused
         ELSE /\ qemu' = [qemu EXCEPT ![r] = "dead"]
              /\ refused' = [refused EXCEPT ![r] = Holder]
              /\ UNCHANGED <<pidfile, locked>>
    /\ UNCHANGED <<pc, opt, tee, job, last, victim, cut>>

(* The guest powers off, the emulator was told to end or fails.             *)
QemuEnds(r) ==
    /\ qemu[r] \in Living
    /\ qemu' = [qemu EXCEPT ![r] = "dead"]
    /\ pidfile' \in {pidfile} \cup (IF pidfile = r THEN {NoRun} ELSE {})
    /\ UNCHANGED <<pc, opt, tee, job, last, victim, history>>

TeeEnds(r) ==
    /\ tee[r] = "ending" \/ (tee[r] = "running" /\ qemu[r] = "dead")
    /\ tee' = [tee EXCEPT ![r] = "dead"]
    /\ UNCHANGED <<pc, opt, qemu, job, last, pidfile, victim, history>>

Script(r) == \/ Setup(r) \/ Stale(r) \/ StaleKill(r) \/ Fork(r) \/ Assign(r)
             \/ Client(r) \/ Sleep(r) \/ Wait(r) \/ Term(r) \/ Kill(r)
             \/ Remove(r)
RunnerNext == \E r \in Run : Script(r) \/ Signal(r) \/ Boot(r) \/ QemuEnds(r)
                               \/ TeeEnds(r)

Fairness == \A r \in Run : WF_runnerVars(Script(r))
RunnerSpec == RunnerInit /\ [][RunnerNext]_runnerVars /\ Fairness

-----------------------------------------------------------------------------
(* Properties                                                               *)

(* A run with a time limit ends, whatever its emulator does with TERM: in   *)
(* the end, none is under way any more.                                     *)
RunnerEnds == <>[](\A r \in Run : opt[r].timed => pc[r] \in {"off", "gone"})

(* When a run is over, so is its job: nothing writes its trace any more,    *)
(* unless the script was killed, or signalled before it knew the process.   *)
JobEnded == \A r \in Run :
    pc[r] = "gone" /\ r \notin cut => JobState(r) \notin Living

(* An emulator is refused the lock only by one that took it after the run   *)
(* had cleared it: cleanup_stale_qemu_lock leaves no earlier holder.        *)
LockNotStale == \A r \in Run : refused[r] \in {NoRun} \cup locked[r]
=============================================================================
