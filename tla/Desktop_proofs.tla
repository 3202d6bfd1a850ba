--------------------------- MODULE Desktop_proofs ---------------------------
(***************************************************************************)
(* Theorems about the runner script, the GUI and the files between them,   *)
(* for every value of the constants: the parts by themselves, and then     *)
(* Desktop.                                                                *)
(***************************************************************************)
EXTENDS Desktop, RecursionTheorems, FiniteSetTheorems, SequenceTheorems

-----------------------------------------------------------------------------
(* What runs of the runner in one directory keep, for any set of runs.      *)

Places == {"off", "stale", "stalekill", "fork", "assign", "client", "sleep",
           "wait", "term", "kill", "rm", "gone"}
States == {"none", "booting", "running", "ending", "dead"}
Before == {"off", "stale", "stalekill", "fork"}

RunnerTypes ==
    /\ pc \in [Run -> Places]
    /\ opt \in [Run -> [ls : BOOLEAN, timed : BOOLEAN]]
    /\ qemu \in [Run -> States] /\ tee \in [Run -> States]
    /\ pidfile \in Run \cup {NoRun}
    /\ victim \in [Run -> Run \cup {NoRun}]
    /\ locked \in [Run -> SUBSET Run]
    /\ refused \in [Run -> Run \cup {NoRun}] /\ job \subseteq Run

(* A run starts its processes once.  What it knows of them when it cleans   *)
(* up, and that its job is over before it removes the pid file.             *)
Stage(r) == /\ pc[r] \in Before => /\ qemu[r] = "none" /\ tee[r] = "none"
                                   /\ refused[r] = NoRun
            /\ pc[r] = "stalekill" => /\ victim[r] \in Run
                                      /\ qemu[victim[r]] # "none"
            /\ pc[r] \in {"client", "sleep", "wait", "kill"} => r \in job
            /\ pc[r] \in {"term", "rm"} => r \in job \cup cut
            /\ pc[r] = "rm" /\ r \in job => JobState(r) \notin Living
            /\ r \in job \/ pc[r] = "assign" => JobState(r) # "none"

(* Whoever has the pid file once a run has cleared it took it afterwards.   *)
Cleared(r) == qemu[r] = "booting" \/ pc[r] = "fork"
                => pidfile \in {NoRun} \cup locked[r]

RunnerInv ==
    /\ RunnerTypes /\ JobEnded /\ LockNotStale
    /\ \A r \in Run : Stage(r) /\ Cleared(r)

(* RunnerInv is inductive, by the steps of a run; first what a step of one  *)
(* run is to the others.                                                    *)
LEMMA RunnerInvInit == RunnerInit => RunnerInv
<1> SUFFICES ASSUME RunnerInit PROVE RunnerInv OBVIOUS
<1> USE DEF RunnerInit
<1>1. RunnerTypes BY DEF RunnerTypes, Places, States
<1>2. JobEnded /\ LockNotStale BY DEF JobEnded, LockNotStale
<1>3. \A r \in Run : Stage(r) /\ Cleared(r) BY DEF Stage, Cleared, Before
<1> QED BY <1>1, <1>2, <1>3 DEF RunnerInv

(* A step of run r, or of its processes, that does not start any, keeps     *)
(* every process that has ended, and those not started, as they are.        *)
Quiet == \A s \in Run :
    /\ qemu[s] \notin Living => qemu'[s] \in {qemu[s], "dead"}
    /\ qemu[s] = "none" => qemu'[s] = "none"
    /\ qemu[s] # "none" => qemu'[s] # "none"
    /\ qemu'[s] = "booting" => qemu[s] = "booting"
    /\ tee[s] \notin Living => tee'[s] \in {tee[s], "dead"}
    /\ tee[s] = "none" <=> tee'[s] = "none"

(* A signal to a job brings no process to life.                             *)
LEMMA SetJobQuiet ==
    ASSUME RunnerTypes, NEW r \in Run, NEW state \in {"ending", "dead"},
           SetJob(r, state), JobState(r) # "none",
           state = "ending" => JobState(r) \in Living
    PROVE  Quiet /\ qemu' \in [Run -> States] /\ tee' \in [Run -> States]
<1>1. CASE opt[r].ls
  BY <1>1 DEF SetJob, JobState, RunnerTypes, Quiet, Living, States
<1>2. CASE ~opt[r].ls
  BY <1>2 DEF SetJob, JobState, RunnerTypes, Quiet, Living, States
<1> QED BY <1>1, <1>2

(* What a quiet step of run r has to show: what concerns r alone.           *)
Own(r) == Stage(r) /\ (pc[r] = "gone" /\ r \notin cut => JobState(r) \notin Living)

(* A step that revives no process keeps what the other runs know.           *)
LEMMA OthersKeep ==
    ASSUME RunnerInv, RunnerTypes', Quiet, UNCHANGED opt, NEW r \in Run,
           \A s \in Run \ {r} : pc'[s] = pc[s] /\ victim'[s] = victim[s],
           cut \subseteq cut', \A s \in Run \ {r} : s \in job' <=> s \in job,
           UNCHANGED refused
    PROVE  \A s \in Run \ {r} : Own(s)'
<1> TAKE s \in Run \ {r}
<1>0. RunnerTypes /\ Own(s) BY DEF RunnerInv, JobEnded, Own
<1>1. /\ JobState(s) \notin Living => JobState(s)' \notin Living
      /\ JobState(s) # "none" => JobState(s)' # "none"
  BY DEF JobState, Quiet, Living
<1>2. (pc[s] \in Before => /\ qemu[s] = "none" /\ tee[s] = "none"
                           /\ refused[s] = NoRun)'
  BY <1>0 DEF Own, Stage, Quiet, Before
<1>3. (pc[s] = "stalekill" => victim[s] \in Run /\ qemu[victim[s]] # "none")'
  BY <1>0 DEF Own, Stage, Quiet
<1> QED BY <1>0, <1>1, <1>2, <1>3 DEF Own, Stage

(* The run that steps and the others together.                              *)
LEMMA Together ==
    ASSUME RunnerInv, RunnerTypes', NEW r \in Run, Own(r)', \A s \in Run \ {r} : Own(s)',
           LockNotStale', \A s \in Run : Cleared(s)'
    PROVE  RunnerInv'
BY DEF RunnerInv, Own, JobEnded

(* A quiet step that refuses nobody and grants no lock but may clear one.   *)
LEMMA LockKept ==
    ASSUME RunnerInv, Quiet, UNCHANGED <<locked, refused>>,
           pidfile' \in {pidfile, NoRun}
    PROVE  /\ LockNotStale'
           /\ \A s \in Run : (pc'[s] = "fork" => pc[s] = "fork" \/ pidfile' = NoRun)
                               => Cleared(s)'
<1>1. LockNotStale' BY DEF RunnerInv, LockNotStale
<1>2. ASSUME NEW s \in Run, pc'[s] = "fork" => pc[s] = "fork" \/ pidfile' = NoRun
      PROVE Cleared(s)'
  BY <1>2 DEF RunnerInv, Cleared, Quiet
<1> QED BY <1>1, <1>2

(* A step in which run r moves on and touches no process.                   *)
LEMMA Moves ==
    ASSUME RunnerInv, NEW r \in Run, NEW to \in Places, Go(r, to), to # "fork",
           UNCHANGED <<opt, qemu, tee, victim, locked, refused>>,
           pidfile' \in {pidfile, NoRun}, job' \in {job, job \cup {r}},
           cut' \in {cut, cut \cup {r}}, Own(r)'
    PROVE  RunnerInv'
<1>1. RunnerTypes' BY DEF RunnerInv, RunnerTypes, Go
<1>2. Quiet BY DEF Quiet
<1>3. \A s \in Run \ {r} : pc'[s] = pc[s] BY DEF RunnerInv, RunnerTypes, Go
<1>4. \A s \in Run \ {r} : Own(s)' BY <1>1, <1>2, <1>3, OthersKeep
<1>5. \A s \in Run : pc'[s] = "fork" => pc[s] = "fork"
  BY DEF RunnerInv, RunnerTypes, Go
<1> QED BY <1>1, <1>2, <1>4, <1>5, LockKept, Together

(* TERM or KILL to the job of run r.                                        *)
LEMMA Jobs ==
    ASSUME RunnerInv, NEW r \in Run, NEW to \in {"kill", "rm"}, Go(r, to), r \in job,
           NEW state \in {"ending", "dead"}, SetJob(r, state),
           state = "ending" => to = "kill" /\ JobState(r) \in Living,
           to = "rm" => state = "dead",
           UNCHANGED <<opt, job, pidfile, victim, cut, locked, refused>>
    PROVE  RunnerInv'
<1>0. RunnerTypes /\ Own(r) BY DEF RunnerInv, Own, JobEnded
<1>1. Quiet /\ qemu' \in [Run -> States] /\ tee' \in [Run -> States]
  BY <1>0, SetJobQuiet DEF Own, Stage
<1>2. RunnerTypes' BY <1>0, <1>1 DEF RunnerTypes, Go, Places
<1>3. pc'[r] = to /\ \A s \in Run \ {r} : pc'[s] = pc[s] BY <1>0 DEF RunnerTypes, Go
<1>4. \A s \in Run \ {r} : Own(s)' BY <1>1, <1>2, <1>3, OthersKeep
<1>5. JobState(r)' = state
  BY <1>0 DEF JobState, SetJob, RunnerTypes
<1>6. Own(r)' BY <1>3, <1>5 DEF Own, Stage, Before, Living
<1>7. \A s \in Run : pc'[s] = "fork" => pc[s] = "fork" BY <1>3
<1> QED BY <1>1, <1>2, <1>4, <1>6, <1>7, LockKept, Together

LEMMA SetupStep == ASSUME RunnerInv, NEW r \in Run, Setup(r) PROVE RunnerInv'
<1>0. RunnerTypes /\ Own(r) /\ pc[r] = "off" BY DEF RunnerInv, Own, JobEnded, Setup
<1>1. ASSUME NEW to \in {"stale", "gone"}, Go(r, to) PROVE Own(r)'
  BY <1>0, <1>1 DEF Own, Stage, RunnerTypes, Go, Setup, JobState, Before, Living, history
<1> QED BY <1>1, Moves DEF Setup, history, Places

LEMMA StaleStep == ASSUME RunnerInv, NEW r \in Run, Stale(r) PROVE RunnerInv'
<1>0. RunnerTypes /\ Own(r) /\ pc[r] = "stale" BY DEF RunnerInv, Own, JobEnded, Stale
<1>1. Quiet BY <1>0 DEF Stale, Quiet, RunnerTypes, Living, States
<1>2. RunnerTypes'
  <2>1. CASE pidfile # NoRun /\ qemu[pidfile] \in Living
    <3>1. pidfile \in Run BY <1>0, <2>1 DEF RunnerTypes
    <3>2. pc' \in [Run -> Places] BY <1>0, <2>1 DEF Stale, RunnerTypes, Go, Places
    <3>3. qemu' \in [Run -> States] /\ victim' \in [Run -> Run \cup {NoRun}]
      BY <1>0, <2>1, <3>1 DEF Stale, RunnerTypes, States
    <3>4. locked' \in [Run -> SUBSET Run] BY <1>0 DEF Stale, RunnerTypes
    <3>5. UNCHANGED <<opt, tee, pidfile, refused, job>> BY <2>1 DEF Stale
    <3> QED BY <1>0, <3>2, <3>3, <3>4, <3>5 DEF RunnerTypes
  <2>2. CASE ~(pidfile # NoRun /\ qemu[pidfile] \in Living)
    <3>1. pc' \in [Run -> Places] BY <1>0, <2>2 DEF Stale, RunnerTypes, Go, Places
    <3>2. locked' \in [Run -> SUBSET Run] BY <1>0 DEF Stale, RunnerTypes
    <3>3. UNCHANGED <<opt, qemu, tee, victim, refused, job>> /\ pidfile' = NoRun
      BY <2>2 DEF Stale
    <3> QED BY <1>0, <3>1, <3>2, <3>3 DEF RunnerTypes
  <2> QED BY <2>1, <2>2
<1>3. \A s \in Run \ {r} : pc'[s] = pc[s] /\ victim'[s] = victim[s]
  BY <1>0 DEF RunnerTypes, Go, Stale
<1>4. \A s \in Run \ {r} : Own(s)' BY <1>1, <1>2, <1>3, OthersKeep DEF Stale
<1>5. qemu[r] = "none" /\ tee[r] = "none" /\ refused[r] = NoRun
  BY <1>0 DEF Own, Stage, Before
<1>6. Own(r)'
  <2>1. CASE pidfile # NoRun /\ qemu[pidfile] \in Living
    <3>1. pc'[r] = "stalekill" /\ victim'[r] = pidfile /\ pidfile \in Run
          /\ qemu'[pidfile] = "ending"
      BY <1>0, <2>1 DEF Stale, Go, RunnerTypes
    <3>2. qemu'[r] = "none" /\ tee'[r] = "none" /\ refused'[r] = NoRun /\ r \notin job'
      BY <1>0, <1>1, <1>5 DEF Stale, Quiet, Own, Stage, JobState
    <3> QED BY <3>1, <3>2 DEF Own, Stage
  <2>2. CASE ~(pidfile # NoRun /\ qemu[pidfile] \in Living)
    <3>1. pc'[r] = "fork" BY <1>0, <2>2 DEF Stale, Go, RunnerTypes
    <3>2. qemu'[r] = "none" /\ tee'[r] = "none" /\ refused'[r] = NoRun /\ r \notin job'
      BY <1>0, <1>5, <2>2 DEF Stale, Own, Stage, JobState
    <3> QED BY <3>1, <3>2 DEF Own, Stage
  <2> QED BY <2>1, <2>2
<1>7. \A s \in Run : Cleared(s)'
  <2> TAKE s \in Run
  <2>1. CASE s = r
    <3>1. qemu'[r] # "booting" BY <1>1, <1>5 DEF Quiet
    <3>2. pc'[r] = "fork" => pidfile' = NoRun BY <1>0 DEF Stale, Go, RunnerTypes
    <3> QED BY <2>1, <3>1, <3>2 DEF Cleared
  <2>2. CASE s # r
    <3>1. locked'[s] = locked[s] /\ pidfile' \in {pidfile, NoRun}
      BY <1>0, <2>2 DEF Stale, RunnerTypes
    <3> QED BY <1>1, <1>3, <2>2, <3>1 DEF RunnerInv, Cleared, Quiet
  <2> QED BY <2>1, <2>2
<1>8. LockNotStale'
  BY <1>0, <1>5 DEF RunnerInv, LockNotStale, Stale, RunnerTypes
<1> QED BY <1>2, <1>4, <1>6, <1>7, <1>8, Together

LEMMA StaleKillStep == ASSUME RunnerInv, NEW r \in Run, StaleKill(r) PROVE RunnerInv'
<1>0. RunnerTypes /\ Own(r) /\ pc[r] = "stalekill"
  BY DEF RunnerInv, Own, JobEnded, StaleKill
<1>1. victim[r] \in Run /\ qemu[victim[r]] # "none" BY <1>0 DEF Own, Stage
<1>2. Quiet BY <1>0, <1>1 DEF StaleKill, Quiet, RunnerTypes
<1>3. RunnerTypes' BY <1>0 DEF StaleKill, RunnerTypes, Go, Places, States, history
<1>4. \A s \in Run \ {r} : pc'[s] = pc[s] BY <1>0 DEF RunnerTypes, Go, StaleKill
<1>5. \A s \in Run \ {r} : Own(s)'
  BY <1>2, <1>3, <1>4, OthersKeep DEF StaleKill, history
<1>6. pc'[r] = "fork" BY <1>0 DEF StaleKill, Go, RunnerTypes
<1>7. Own(r)'
  BY <1>0, <1>2, <1>6 DEF Own, Stage, StaleKill, Quiet, Before, JobState, history
<1>8. \A s \in Run : pc'[s] = "fork" => pidfile' = NoRun BY DEF StaleKill
<1>9. UNCHANGED <<locked, refused>> /\ pidfile' = NoRun BY DEF StaleKill, history
<1> QED BY <1>2, <1>3, <1>5, <1>7, <1>8, <1>9, LockKept, Together

LEMMA ForkStep == ASSUME RunnerInv, NEW r \in Run, Fork(r) PROVE RunnerInv'
<1>0. RunnerTypes /\ Own(r) /\ pc[r] = "fork" BY DEF RunnerInv, Own, JobEnded, Fork
<1>1. RunnerTypes' BY <1>0 DEF Fork, RunnerTypes, Go, Places, States, history
<1>2. /\ pc'[r] = "assign" /\ qemu'[r] = "booting"
      /\ tee'[r] = IF opt[r].ls THEN "none" ELSE "running"
      /\ \A s \in Run \ {r} : /\ pc'[s] = pc[s] /\ qemu'[s] = qemu[s]
                              /\ tee'[s] = tee[s]
  BY <1>0 DEF RunnerTypes, Go, Fork
<1>3. UNCHANGED <<opt, job, pidfile, victim, cut, locked, refused>>
  BY DEF Fork, history
<1>4. r \notin job BY <1>0 DEF Own, Stage, Before, JobState
<1>5. Own(r)' BY <1>0, <1>2, <1>3, <1>4 DEF Own, Stage, Before, JobState
<1>6. ASSUME NEW s \in Run \ {r} PROVE Own(s)'
  <2>1. Own(s) BY DEF RunnerInv, Own, JobEnded
  <2>2. victim'[s] \in Run /\ qemu[victim[s]] # "none" => qemu'[victim[s]] # "none"
    BY <1>0, <1>2, <1>3
  <2> QED BY <1>2, <1>3, <2>1, <2>2 DEF Own, Stage, JobState
<1>7. LockNotStale' BY <1>3 DEF RunnerInv, LockNotStale
<1>8. \A s \in Run : Cleared(s)'
  BY <1>0, <1>2, <1>3 DEF RunnerInv, Cleared
<1> QED BY <1>1, <1>5, <1>6, <1>7, <1>8, Together

LEMMA BootStep == ASSUME RunnerInv, NEW r \in Run, Boot(r) PROVE RunnerInv'
<1>0. RunnerTypes /\ qemu[r] = "booting" BY DEF RunnerInv, Boot
<1>1. RunnerTypes'
  <2>0. UNCHANGED <<pc, opt, tee, job, victim>> BY DEF Boot
  <2>1. qemu' \in [Run -> States] BY <1>0 DEF Boot, RunnerTypes, States
  <2>2. Holder \in Run \cup {NoRun} BY <1>0 DEF RunnerTypes, Holder
  <2>3. CASE Holder = NoRun
    <3>1. pidfile' \in Run /\ locked' \in [Run -> SUBSET Run] /\ refused' = refused
      BY <1>0, <2>3 DEF Boot, RunnerTypes
    <3> QED BY <1>0, <2>0, <2>1, <3>1 DEF RunnerTypes
  <2>4. CASE Holder # NoRun
    <3>1. refused' \in [Run -> Run \cup {NoRun}] /\ UNCHANGED <<pidfile, locked>>
      BY <1>0, <2>2, <2>4 DEF Boot, RunnerTypes
    <3> QED BY <1>0, <2>0, <2>1, <3>1 DEF RunnerTypes
  <2> QED BY <2>3, <2>4
<1>2. UNCHANGED <<pc, opt, tee, job, victim, cut>> BY DEF Boot
<1>3. qemu'[r] \in {"running", "dead"} /\ \A s \in Run \ {r} : qemu'[s] = qemu[s]
  BY <1>0 DEF Boot, RunnerTypes
<1>4. \A s \in Run \ {r} : refused'[s] = refused[s] BY <1>0 DEF Boot, RunnerTypes
<1>5. ASSUME NEW s \in Run PROVE Own(s)'
  <2>1. Own(s) BY DEF RunnerInv, Own, JobEnded
  <2>2. pc[s] = "stalekill" => victim[s] \in Run /\ qemu'[victim[s]] # "none"
    BY <1>0, <1>3, <2>1 DEF Own, Stage
  <2>3. (JobState(s) \notin Living => JobState(s)' \notin Living)
        /\ (JobState(s) # "none" => JobState(s)' # "none")
    BY <1>0, <1>2, <1>3 DEF JobState, Living
  <2>4. CASE s = r
    <3>1. pc[r] \notin Before BY <1>0, <2>1, <2>4 DEF Own, Stage
    <3> QED BY <1>2, <2>1, <2>2, <2>3, <2>4, <3>1 DEF Own, Stage
  <2>5. CASE s # r BY <1>2, <1>3, <1>4, <2>1, <2>2, <2>3, <2>5 DEF Own, Stage
  <2> QED BY <2>4, <2>5
<1>6. CASE Holder = NoRun
  <2>1. pidfile' = r /\ refused' = refused
        /\ \A s \in Run : r \in locked'[s] /\ locked[s] \subseteq locked'[s]
    BY <1>6 DEF Boot
  <2>2. LockNotStale' BY <2>1 DEF RunnerInv, LockNotStale
  <2>3. \A s \in Run : Cleared(s)' BY <2>1 DEF Cleared
  <2> QED BY <1>1, <1>5, <2>2, <2>3, Together
<1>7. CASE Holder # NoRun
  <2>1. UNCHANGED <<pidfile, locked>> /\ refused'[r] = pidfile
    BY <1>0, <1>7 DEF Boot, Holder, RunnerTypes
  <2>2. pidfile \in {NoRun} \cup locked[r] BY <1>0 DEF RunnerInv, Cleared
  <2>3. LockNotStale' BY <1>4, <2>1, <2>2 DEF RunnerInv, LockNotStale
  <2>4. \A s \in Run : Cleared(s)' BY <1>0, <1>2, <1>3, <2>1 DEF RunnerInv, Cleared
  <2> QED BY <1>1, <1>5, <2>3, <2>4, Together
<1> QED BY <1>6, <1>7

(* The end of an emulator or of a tee.                                      *)
LEMMA EndsStep ==
    ASSUME RunnerInv, NEW r \in Run, QemuEnds(r) \/ TeeEnds(r) PROVE RunnerInv'
<1>0. RunnerTypes BY DEF RunnerInv
<1>1. Quiet BY <1>0 DEF QemuEnds, TeeEnds, Quiet, RunnerTypes, Living
<1>2. RunnerTypes' BY <1>0 DEF QemuEnds, TeeEnds, RunnerTypes, States, history
<1>3. UNCHANGED <<pc, opt, job, victim, cut, locked, refused>>
      /\ pidfile' \in {pidfile, NoRun}
  BY DEF QemuEnds, TeeEnds, history
<1>4. \A s \in Run \ {r} : Own(s)' BY <1>1, <1>2, <1>3, OthersKeep
<1>5. Own(r)'
  <2>1. Own(r) BY DEF RunnerInv, Own, JobEnded
  <2>2. (JobState(r) \notin Living => JobState(r)' \notin Living)
        /\ (JobState(r) # "none" => JobState(r)' # "none")
    BY <1>1, <1>3 DEF JobState, Quiet, Living
  <2>3. pc[r] = "stalekill" => victim[r] \in Run /\ qemu'[victim[r]] # "none"
    BY <1>1, <2>1 DEF Own, Stage, Quiet
  <2>4. pc[r] \in Before => qemu'[r] = "none" /\ tee'[r] = "none"
    BY <1>1, <2>1 DEF Own, Stage, Quiet
  <2> QED BY <1>3, <2>1, <2>2, <2>3, <2>4 DEF Own, Stage
<1> QED BY <1>1, <1>2, <1>3, <1>4, <1>5, LockKept, Together

(* The steps of a run that touch no process.                                *)
LEMMA MoveStep ==
    ASSUME RunnerInv, NEW r \in Run,
           Assign(r) \/ Client(r) \/ Sleep(r) \/ Wait(r) \/ Remove(r) \/ Signal(r)
    PROVE  RunnerInv'
<1>0. RunnerTypes /\ Own(r) BY DEF RunnerInv, Own, JobEnded
<1> USE DEF Own, Stage, JobState, Before, Living, Go, RunnerTypes, history
<1>1. ASSUME NEW to \in Places, Go(r, to) PROVE pc'[r] = to
  BY <1>0, <1>1
<1>2. CASE Assign(r)
  <2>1. job' = job \cup {r}
        /\ Go(r, IF opt[r].ls THEN "client" ELSE After(r))
        /\ UNCHANGED <<opt, qemu, tee, pidfile, victim, cut, locked, refused>>
    BY <1>2 DEF Assign
  <2>2. (IF opt[r].ls THEN "client" ELSE After(r)) \in {"client", "sleep", "wait"}
    BY DEF After
  <2>3. JobState(r) # "none" BY <1>0, <1>2 DEF Assign
  <2>4. Own(r)' BY <1>0, <1>1, <2>1, <2>2, <2>3 DEF Places
  <2> QED BY <2>1, <2>2, <2>4, Moves DEF Places
<1>3. CASE Client(r) \/ Sleep(r) \/ Wait(r)
  <2>1. PICK to \in {"sleep", "wait", "term"} : Go(r, to)
    BY <1>3 DEF Client, Sleep, Wait, After
  <2>2. UNCHANGED <<opt, qemu, tee, job, pidfile, victim, cut, locked, refused>>
    BY <1>3 DEF Client, Sleep, Wait
  <2>3. r \in job BY <1>0, <1>3 DEF Client, Sleep, Wait
  <2>4. Own(r)' BY <1>0, <1>1, <2>1, <2>2, <2>3 DEF Places
  <2> QED BY <2>1, <2>2, <2>4, Moves DEF Places
<1>4. CASE Remove(r)
  <2>1. PICK to \in {"gone", "term"} : Go(r, to) BY <1>4 DEF Remove
  <2>2. UNCHANGED <<opt, qemu, tee, job, victim, cut, locked, refused>>
        /\ pidfile' = NoRun
    BY <1>4 DEF Remove
  <2>3. pc[r] = "rm" BY <1>4 DEF Remove
  <2>4. Own(r)' BY <1>0, <1>1, <2>1, <2>2, <2>3 DEF Places
  <2> QED BY <2>1, <2>2, <2>4, Moves DEF Places
<1>5. CASE Signal(r)
  <2>1. UNCHANGED <<opt, qemu, tee, job, pidfile, victim, locked, refused>>
    BY <1>5 DEF Signal
  <2>2. CASE Go(r, "term") /\ cut' = IF r \in job THEN cut ELSE cut \cup {r}
    <3>1. Own(r)' BY <1>0, <1>1, <2>1, <2>2 DEF Places
    <3> QED BY <2>1, <2>2, <3>1, Moves DEF Places
  <2>3. CASE Go(r, "gone") /\ cut' = cut \cup {r}
    <3>1. Own(r)' BY <1>0, <1>1, <2>1, <2>3 DEF Places
    <3> QED BY <2>1, <2>3, <3>1, Moves DEF Places
  <2> QED BY <1>5, <2>2, <2>3 DEF Signal
<1> QED BY <1>2, <1>3, <1>4, <1>5

LEMMA CleanupStep == ASSUME RunnerInv, NEW r \in Run, Term(r) \/ Kill(r) PROVE RunnerInv'
<1>0. RunnerTypes /\ Own(r) BY DEF RunnerInv, Own, JobEnded
<1>1. CASE Term(r) /\ JobAlive(r)
  <2>1. r \in job /\ JobState(r) \in Living BY <1>1 DEF JobAlive
  <2> QED BY <1>1, <2>1, Jobs DEF Term, history
<1>2. CASE Term(r) /\ ~JobAlive(r)
  <2>1. Go(r, "rm") /\ UNCHANGED <<opt, qemu, tee, job, pidfile, victim, cut,
                                   locked, refused>>
    BY <1>2 DEF Term, history
  <2>2. pc[r] = "term" /\ pc'[r] = "rm" BY <1>0, <1>2, <2>1 DEF Term, RunnerTypes, Go
  <2>3. Own(r)'
    BY <1>0, <1>2, <2>1, <2>2 DEF Own, Stage, JobState, JobAlive, Before
  <2> QED BY <2>1, <2>3, Moves DEF Places
<1>3. CASE Kill(r)
  <2>1. r \in job BY <1>0, <1>3 DEF Kill, Own, Stage
  <2> QED BY <1>3, <2>1, Jobs DEF Kill, history
<1> QED BY <1>1, <1>2, <1>3

LEMMA RunnerInvNext == RunnerInv /\ [RunnerNext]_runnerVars => RunnerInv'
<1> SUFFICES ASSUME RunnerInv, [RunnerNext]_runnerVars PROVE RunnerInv' OBVIOUS
<1>1. CASE UNCHANGED runnerVars
  BY <1>1 DEF runnerVars, RunnerInv, RunnerTypes, JobEnded, LockNotStale, Stage, Cleared, JobState
<1>2. ASSUME NEW r \in Run, Script(r) PROVE RunnerInv'
  BY <1>2, SetupStep, StaleStep, StaleKillStep, ForkStep, MoveStep, CleanupStep
     DEF Script
<1>3. ASSUME NEW r \in Run, Signal(r) \/ Boot(r) \/ QemuEnds(r) \/ TeeEnds(r)
      PROVE RunnerInv'
  BY <1>3, MoveStep, BootStep, EndsStep
<1> QED BY <1>1, <1>2, <1>3 DEF RunnerNext

-----------------------------------------------------------------------------
(* However many runs share a directory, none that cleaned up leaves its     *)
(* pipeline writing.                                                        *)
THEOREM NothingWrites == RunnerSpec => []JobEnded
<1>1. RunnerInv => JobEnded BY DEF RunnerInv
<1> QED BY <1>1, RunnerInvInit, RunnerInvNext, PTL DEF RunnerSpec

(* The stale lock is cleared: only a later holder refuses an emulator.      *)
THEOREM StaleLockCleared == RunnerSpec => []LockNotStale
<1>1. RunnerInv => LockNotStale BY DEF RunnerInv
<1> QED BY <1>1, RunnerInvInit, RunnerInvNext, PTL DEF RunnerSpec

-----------------------------------------------------------------------------
(* The live trace.  What a poll makes of the file is defined by recursion   *)
(* over its lines, and what is said of it is said by induction over them.   *)
Line == [run : Nat, text : Text \cup {Noise}, form : Live!Forms]
Shown == [text : Text, run : Nat, line : Nat, whole : BOOLEAN, at : Nat]

(* A line that parses makes a row.                                          *)
LEMMA RowOfLine ==
    ASSUME run \in Nat, file.lines \in Seq(Line), NEW k \in Live!Counted
    PROVE  Live!AsRow(k) \in Shown /\ Live!Reading(file.lines[k]) \in Text
<1>1. k \in 1..Len(file.lines) /\ file.lines[k] \in Line /\ Live!Parses(file.lines[k])
  BY DEF Live!Counted
<1>2. Live!Reading(file.lines[k]) \in Text
  BY <1>1, TextAssumption DEF Live!Reading, Live!Parses, Line, Live!Forms
<1> QED
  BY <1>1, <1>2 DEF Live!AsRow, Shown, Line

(* The recursive functions are what their definitions say, for a file of    *)
(* any length.                                                              *)
LEMMA EntriesAre ==
    ASSUME run \in Nat, file.lines \in Seq(Line)
    PROVE  /\ Live!Entries \in [0..Len(file.lines) -> Seq(Shown)]
           /\ Live!Entries[0] = <<>>
           /\ \A k \in 1..Len(file.lines) :
                 Live!Entries[k] = IF k \in Live!Counted
                                   THEN Append(Live!Entries[k - 1], Live!AsRow(k))
                                   ELSE Live!Entries[k - 1]
<1> DEFINE N == Len(file.lines)
           S == Seq(Shown)
           step == [x \in S \X Nat |->
                       IF x[2] \in Live!Counted
                       THEN Append(x[1], Live!AsRow(x[2])) ELSE x[1]]
<1>1. \A k \in Live!Counted : Live!AsRow(k) \in Shown
  BY RowOfLine
<1>2. step \in [S \X Nat -> S]
  BY <1>1
<1>3. <<>> \in S /\ N \in Nat
  OBVIOUS
<1>4. \E f \in [0..N -> S] : Follows(f, <<>>, step, N)
  <2> HIDE DEF step, S, N
  <2> QED BY <1>2, <1>3, RecursiveFunction
<1> DEFINE Solves(f) == f = [k \in 0..N |->
                IF k = 0 THEN <<>>
                ELSE IF k \in Live!Counted THEN Append(f[k - 1], Live!AsRow(k))
                ELSE f[k - 1]]
<1>5. \E f : Solves(f)
  <2>1. PICK f \in [0..N -> S] : Follows(f, <<>>, step, N)
     BY <1>4
  <2> DEFINE g == [k \in 0..N |->
                IF k = 0 THEN <<>>
                ELSE IF k \in Live!Counted THEN Append(f[k - 1], Live!AsRow(k))
                ELSE f[k - 1]]
  <2>2. ASSUME NEW k \in 0..N PROVE f[k] = g[k]
    <3>1. CASE k = 0
      BY <2>1, <3>1 DEF Follows
    <3>2. CASE k # 0
      <4>1. k \in Nat /\ k - 1 \in 0..N
        BY <1>3, <3>2
      <4>2. f[k - 1] \in S
        <5> HIDE DEF S, N
        <5> QED BY <4>1, <2>1
      <4>3. f[k] = step[<<f[k - 1], k>>]
        <5>1. k \in 1..N
          BY <1>3, <3>2
        <5> HIDE DEF step, N
        <5> QED BY <2>1, <5>1 DEF Follows
      <4>4. <<f[k - 1], k>> \in S \X Nat
        BY <4>1, <4>2
      <4> HIDE DEF S, N
      <4> QED BY <4>3, <4>4, <3>2
    <3> QED BY <3>1, <3>2
  <2>3. DOMAIN g = 0..N /\ g = [k \in 0..N |-> g[k]]
    OBVIOUS
  <2>4. f = g
    <3> HIDE DEF g, S, N
    <3> QED BY <2>2, <2>3, Extensional
  <2>5. Solves(f)
    BY <2>4, Zenon
  <2> HIDE DEF Solves
  <2> QED BY <2>5
<1>6. Live!Entries = CHOOSE f : Solves(f)
  BY DEF Live!Entries
<1>7. Solves(Live!Entries)
  <2> HIDE DEF Solves
  <2> QED BY <1>5, <1>6
<1>8. /\ Live!Entries[0] = <<>>
      /\ \A k \in 1..N : Live!Entries[k] = IF k \in Live!Counted
                                   THEN Append(Live!Entries[k - 1], Live!AsRow(k))
                                   ELSE Live!Entries[k - 1]
  <2> DEFINE g == [k \in 0..N |->
                IF k = 0 THEN <<>>
                ELSE IF k \in Live!Counted
                THEN Append(Live!Entries[k - 1], Live!AsRow(k))
                ELSE Live!Entries[k - 1]]
  <2>1. Live!Entries = g
    BY <1>7, Zenon
  <2>2. g[0] = <<>> /\ \A k \in 1..N :
           g[k] = IF k \in Live!Counted
                THEN Append(Live!Entries[k - 1], Live!AsRow(k))
                ELSE Live!Entries[k - 1]
    BY <1>3
  <2>3. DOMAIN g = 0..N
    OBVIOUS
  <2> HIDE DEF g, N
  <2> QED BY <2>1, <2>2
<1> DEFINE T == {k \in 0..N : Live!Entries[k] \in S}
<1>9. \A k \in 0..N : k \in T
  <2>1. 0 \in T
    <3> HIDE DEF S
    <3> QED BY <1>3, <1>8
  <2>2. ASSUME NEW k \in 0..(N - 1), k \in T PROVE k + 1 \in T
    <3>1. k + 1 \in 1..N /\ (k + 1) - 1 = k
      BY <1>3
    <3>2. Live!Entries[k] \in S
      BY <2>2
    <3>3. Live!Entries[k + 1] = IF k + 1 \in Live!Counted
                        THEN Append(Live!Entries[k], Live!AsRow(k + 1))
                        ELSE Live!Entries[k]
      <4> HIDE DEF S, N
      <4> QED BY <1>8, <3>1
    <3>4. Live!Entries[k + 1] \in S
      BY <1>1, <3>2, <3>3
    <3> QED BY <3>1, <3>4
  <2> HIDE DEF T, N
  <2> QED BY <1>3, <2>1, <2>2, RangeInduction
<1>10. Live!Entries \in [0..N -> S]
  BY <1>7, <1>9
<1> QED BY <1>8, <1>10

Enters(new, k) == k \in Live!Counted
                  /\ Live!Reading(file.lines[k]) \notin seen \cup Live!Texts(new)

(* The same for the scan of the poll, whose condition looks at the rows     *)
(* before.                                                                  *)
LEMMA ScannedAre ==
    ASSUME run \in Nat, file.lines \in Seq(Line)
    PROVE  /\ Live!Scanned \in [0..Len(file.lines) -> Seq(Shown)]
           /\ Live!Scanned[0] = <<>>
           /\ \A k \in 1..Len(file.lines) :
                 Live!Scanned[k] = IF Enters(Live!Scanned[k - 1], k)
                                   THEN Append(Live!Scanned[k - 1], Live!AsRow(k))
                                   ELSE Live!Scanned[k - 1]
<1> DEFINE N == Len(file.lines)
           S == Seq(Shown)
           step == [x \in S \X Nat |->
                       IF Enters(x[1], x[2])
                       THEN Append(x[1], Live!AsRow(x[2])) ELSE x[1]]
<1>1. \A k \in Live!Counted : Live!AsRow(k) \in Shown
  BY RowOfLine
<1>2. step \in [S \X Nat -> S]
  BY <1>1 DEF Enters
<1>3. <<>> \in S /\ N \in Nat
  OBVIOUS
<1>4. \E f \in [0..N -> S] : Follows(f, <<>>, step, N)
  <2> HIDE DEF step, S, N
  <2> QED BY <1>2, <1>3, RecursiveFunction
<1> DEFINE Solves(f) == f = [k \in 0..N |->
                IF k = 0 THEN <<>>
                ELSE IF Enters(f[k - 1], k) THEN Append(f[k - 1], Live!AsRow(k))
                ELSE f[k - 1]]
<1>5. \E f : Solves(f)
  <2>1. PICK f \in [0..N -> S] : Follows(f, <<>>, step, N)
     BY <1>4
  <2> DEFINE g == [k \in 0..N |->
                IF k = 0 THEN <<>>
                ELSE IF Enters(f[k - 1], k) THEN Append(f[k - 1], Live!AsRow(k))
                ELSE f[k - 1]]
  <2>2. ASSUME NEW k \in 0..N PROVE f[k] = g[k]
    <3>1. CASE k = 0
      BY <2>1, <3>1 DEF Follows
    <3>2. CASE k # 0
      <4>1. k \in Nat /\ k - 1 \in 0..N
        BY <1>3, <3>2
      <4>2. f[k - 1] \in S
        <5> HIDE DEF S, N
        <5> QED BY <4>1, <2>1
      <4>3. f[k] = step[<<f[k - 1], k>>]
        <5>1. k \in 1..N
          BY <1>3, <3>2
        <5> HIDE DEF step, N
        <5> QED BY <2>1, <5>1 DEF Follows
      <4>4. <<f[k - 1], k>> \in S \X Nat
        BY <4>1, <4>2
      <4> HIDE DEF S, N
      <4> QED BY <4>3, <4>4, <3>2
    <3> QED BY <3>1, <3>2
  <2>3. DOMAIN g = 0..N /\ g = [k \in 0..N |-> g[k]]
    OBVIOUS
  <2>4. f = g
    <3> HIDE DEF g, S, N
    <3> QED BY <2>2, <2>3, Extensional
  <2>5. Solves(f)
    BY <2>4, Zenon
  <2> HIDE DEF Solves
  <2> QED BY <2>5
<1>6. Live!Scanned = CHOOSE f : Solves(f)
  BY DEF Live!Scanned, Enters
<1>7. Solves(Live!Scanned)
  <2> HIDE DEF Solves
  <2> QED BY <1>5, <1>6
<1>8. /\ Live!Scanned[0] = <<>>
      /\ \A k \in 1..N : Live!Scanned[k] = IF Enters(Live!Scanned[k - 1], k)
                                   THEN Append(Live!Scanned[k - 1], Live!AsRow(k))
                                   ELSE Live!Scanned[k - 1]
  <2> DEFINE g == [k \in 0..N |->
                IF k = 0 THEN <<>>
                ELSE IF Enters(Live!Scanned[k - 1], k)
                THEN Append(Live!Scanned[k - 1], Live!AsRow(k))
                ELSE Live!Scanned[k - 1]]
  <2>1. Live!Scanned = g
    BY <1>7, Zenon
  <2>2. g[0] = <<>> /\ \A k \in 1..N :
           g[k] = IF Enters(Live!Scanned[k - 1], k)
                THEN Append(Live!Scanned[k - 1], Live!AsRow(k))
                ELSE Live!Scanned[k - 1]
    BY <1>3
  <2>3. DOMAIN g = 0..N
    OBVIOUS
  <2> HIDE DEF g, N
  <2> QED BY <2>1, <2>2
<1> DEFINE T == {k \in 0..N : Live!Scanned[k] \in S}
<1>9. \A k \in 0..N : k \in T
  <2>1. 0 \in T
    <3> HIDE DEF S
    <3> QED BY <1>3, <1>8
  <2>2. ASSUME NEW k \in 0..(N - 1), k \in T PROVE k + 1 \in T
    <3>1. k + 1 \in 1..N /\ (k + 1) - 1 = k
      BY <1>3
    <3>2. Live!Scanned[k] \in S
      BY <2>2
    <3>3. Live!Scanned[k + 1] = IF Enters(Live!Scanned[k], k + 1)
                        THEN Append(Live!Scanned[k], Live!AsRow(k + 1))
                        ELSE Live!Scanned[k]
      <4> HIDE DEF S, N
      <4> QED BY <1>8, <3>1
    <3>4. Live!Scanned[k + 1] \in S
      BY <1>1, <3>2, <3>3 DEF Enters
    <3> QED BY <3>1, <3>4
  <2> HIDE DEF T, N
  <2> QED BY <1>3, <2>1, <2>2, RangeInduction
<1>10. Live!Scanned \in [0..N -> S]
  BY <1>7, <1>9
<1> QED BY <1>8, <1>10

(* All of them are rows of this run.                                        *)
LEMMA EntriesOfRun ==
    ASSUME run \in Nat, file.lines \in Seq(Line)
    PROVE  \A i \in DOMAIN Live!Entries[Len(file.lines)] :
              Live!Entries[Len(file.lines)][i].at <= run
<1> DEFINE N == Len(file.lines)
           Good(rs) == \A i \in DOMAIN rs : rs[i].at <= run
           T == {k \in 0..N : Good(Live!Entries[k])}
<1>0. N \in Nat
  OBVIOUS
<1>1. 0 \in T
  BY <1>0, EntriesAre
<1>2. ASSUME NEW k \in 0..(N - 1), k \in T PROVE k + 1 \in T
  <2> DEFINE old == Live!Entries[k]
             new == Live!Entries[k + 1]
             row == Live!AsRow(k + 1)
  <2>1. k + 1 \in 1..N /\ (k + 1) - 1 = k /\ k \in 0..N
    BY <1>0
  <2>2. old \in Seq(Shown) /\ (new = Append(old, row) \/ new = old)
    <3> HIDE DEF row
    <3>1. Live!Entries[k + 1] = IF k + 1 \in Live!Counted
                                THEN Append(Live!Entries[(k + 1) - 1], row)
                                ELSE Live!Entries[(k + 1) - 1]
      BY <2>1, EntriesAre DEF row
    <3> QED BY <2>1, <3>1, EntriesAre
  <2>3. row.at <= run
    BY DEF Live!AsRow
  <2>4. Good(old)
    BY <1>2
  <2> HIDE DEF old, new, row
  <2>5. Good(new)
    BY <2>2, <2>3, <2>4
  <2> QED
    BY <2>1, <2>5 DEF new
<1>3. \A k \in 0..N : k \in T
  <2> HIDE DEF T, N
  <2> QED BY <1>0, <1>1, <1>2, RangeInduction
<1>4. N \in T
  BY <1>0, <1>3
<1> QED
  BY <1>4

(* What the scan makes of the first k lines: rows of lines that parse, in   *)
(* the order of the file, of texts not seen before and each text once, and  *)
(* nothing that parses is left out.                                         *)
LEMMA ScannedOnce ==
    ASSUME run \in Nat, file.lines \in Seq(Line)
    PROVE  /\ Live!NewRows \in Seq(Shown)
           /\ \A i \in DOMAIN Live!NewRows : \E k \in Live!Counted :
                 Live!NewRows[i] = Live!AsRow(k) /\ Live!Reading(file.lines[k]) \notin seen
           /\ \A i, j \in DOMAIN Live!NewRows : i < j =>
                 /\ Live!NewRows[i].line < Live!NewRows[j].line
                 /\ Live!NewRows[i].text # Live!NewRows[j].text
           /\ \A m \in Live!Counted :
                 Live!Reading(file.lines[m]) \in seen \cup Live!Texts(Live!NewRows)
<1> DEFINE N == Len(file.lines)
           Fresh(new, k) == \A i \in DOMAIN new : \E m \in Live!Counted :
               new[i] = Live!AsRow(m) /\ m <= k /\ Live!Reading(file.lines[m]) \notin seen
           Once(new) == \A i, j \in DOMAIN new :
               i < j => new[i].line < new[j].line /\ new[i].text # new[j].text
           Has(new, m) == Live!Reading(file.lines[m]) \in seen \cup Live!Texts(new)
           Good(k) == /\ Fresh(Live!Scanned[k], k) /\ Once(Live!Scanned[k])
                      /\ \A m \in 1..k : m \in Live!Counted => Has(Live!Scanned[k], m)
           T == {k \in 0..N : Good(k)}
<1>0. N \in Nat /\ Live!Counted \subseteq 1..N
  BY DEF Live!Counted
<1>r. \A m : Live!AsRow(m).line = m /\ Live!AsRow(m).text = Live!Reading(file.lines[m])
  BY DEF Live!AsRow
<1>1. 0 \in T
  BY <1>0, ScannedAre
<1>2. ASSUME NEW k \in 0..(N - 1), k \in T PROVE k + 1 \in T
  <2> DEFINE old == Live!Scanned[k]
             new == Live!Scanned[k + 1]
             row == Live!AsRow(k + 1)
  <2>1. k + 1 \in 1..N /\ (k + 1) - 1 = k /\ k \in 0..N
    BY <1>0
  <2>2. old \in Seq(Shown) /\ new = IF Enters(old, k + 1) THEN Append(old, row) ELSE old
    <3> HIDE DEF row
    <3>1. Live!Scanned[k + 1] = IF Enters(Live!Scanned[(k + 1) - 1], k + 1)
                                THEN Append(Live!Scanned[(k + 1) - 1], row)
                                ELSE Live!Scanned[(k + 1) - 1]
      BY <2>1, ScannedAre DEF row
    <3> QED BY <2>1, <3>1, ScannedAre
  <2>3. Fresh(old, k) /\ Once(old) /\ \A m \in 1..k : m \in Live!Counted => Has(old, m)
    BY <1>2
  <2>4. \A m \in 1..(k + 1) : m \in 1..k \/ m = k + 1
    BY <2>1
  <2>5. row.line = k + 1 /\ row.text = Live!Reading(file.lines[k + 1])
    BY <1>r
  <2>8. \A i \in DOMAIN old : old[i].line <= k
    BY <1>r, <2>3
  <2>6. CASE Enters(old, k + 1)
    <3>1. /\ row.text \notin seen /\ row.text \notin Live!Texts(old)
          /\ k + 1 \in Live!Counted /\ row = Live!AsRow(k + 1)
      BY <2>5, <2>6 DEF Enters
    <3>2. new = Append(old, row)
      BY <2>2, <2>6
    <3> HIDE DEF old, new, row
    <3>3. /\ DOMAIN old = 1..Len(old) /\ Len(old) \in Nat
          /\ DOMAIN new = 1..(Len(old) + 1)
          /\ new[Len(old) + 1] = row
          /\ \A i \in 1..Len(old) : new[i] = old[i]
      BY <2>2, <3>2
    <3>4. \A i \in DOMAIN new : i \in DOMAIN old \/ i = Len(old) + 1
      BY <3>3
    <3>5. Fresh(new, k + 1)
      <4> SUFFICES ASSUME NEW i \in DOMAIN new
                   PROVE  \E m \in Live!Counted :
                             /\ new[i] = Live!AsRow(m) /\ m <= k + 1
                             /\ Live!Reading(file.lines[m]) \notin seen
        OBVIOUS
      <4>1. CASE i \in DOMAIN old
        <5>1. PICK m \in Live!Counted : old[i] = Live!AsRow(m) /\ m <= k
                                        /\ Live!Reading(file.lines[m]) \notin seen
          BY <2>3, <4>1
        <5>2. m \in Nat /\ m <= k + 1
          BY <1>0, <2>1, <5>1
        <5> QED BY <3>3, <4>1, <5>1, <5>2
      <4>2. CASE i = Len(old) + 1
        BY <2>1, <2>5, <3>1, <3>3, <4>2
      <4> QED BY <3>4, <4>1, <4>2
    <3>6. \A i \in DOMAIN old : old[i].text # row.text
      BY <3>1 DEF Live!Texts
    <3>11. \A i \in DOMAIN old : old[i].line \in Nat /\ old[i].line < row.line
      <4>1. \A i \in DOMAIN old : old[i] \in Shown
        BY <2>2
      <4>2. \A i \in DOMAIN old : old[i].line \in Nat
        BY <4>1 DEF Shown
      <4> QED BY <2>1, <2>5, <2>8, <4>2
    <3>7. Once(new)
      <4> SUFFICES ASSUME NEW i \in DOMAIN new, NEW j \in DOMAIN new, i < j
                   PROVE  new[i].line < new[j].line /\ new[i].text # new[j].text
        OBVIOUS
      <4>1. i \in DOMAIN old
        BY <3>3
      <4>2. CASE j \in DOMAIN old
        BY <2>3, <3>3, <4>1, <4>2
      <4>3. CASE j = Len(old) + 1
        BY <3>3, <3>6, <3>11, <4>1, <4>3
      <4> QED BY <3>4, <4>2, <4>3
    <3>8. Live!Texts(old) \subseteq Live!Texts(new) /\ row.text \in Live!Texts(new)
      BY <3>3 DEF Live!Texts
    <3>9. \A m \in 1..(k + 1) : m \in Live!Counted => Has(new, m)
      BY <2>3, <2>4, <2>5, <3>8
    <3>10. Good(k + 1)
      BY <3>5, <3>7, <3>9 DEF new
    <3> QED
      BY <2>1, <3>10
  <2>7. CASE ~Enters(old, k + 1)
    <3>1. new = old
      BY <2>2, <2>7
    <3>2. k + 1 \in Live!Counted => Has(old, k + 1)
      BY <2>7 DEF Enters
    <3>3. \A m \in 1..(k + 1) : m \in Live!Counted => Has(new, m)
      <4> HIDE DEF old, new
      <4> QED BY <2>3, <2>4, <3>1, <3>2
    <3>5. Fresh(new, k + 1)
      <4> HIDE DEF old, new
      <4>1. \A m \in Live!Counted : m \in Nat /\ (m <= k => m <= k + 1)
        BY <1>0, <2>1
      <4> QED BY <2>3, <3>1, <4>1
    <3>4. Good(k + 1)
      <4> HIDE DEF old
      <4> QED BY <2>3, <3>1, <3>3, <3>5
    <3> QED
      BY <2>1, <3>4
  <2> QED
    BY <2>6, <2>7
<1>3. \A k \in 0..N : k \in T
  <2> HIDE DEF T, N
  <2> QED BY <1>0, <1>1, <1>2, RangeInduction
<1>6. N \in T /\ N \in 0..N
  <2> HIDE DEF T, N
  <2> QED BY <1>0, <1>3
<1>4. Good(N) /\ Live!Scanned[N] \in Seq(Shown)
  <2>1. Good(N)
    BY <1>6
  <2>2. Live!Scanned[N] \in Seq(Shown)
    BY <1>6, ScannedAre
  <2> QED BY <2>1, <2>2
<1>5. Live!NewRows = Live!Scanned[N]
  BY DEF Live!NewRows
<1> HIDE DEF N
<1> QED
  BY <1>0, <1>4, <1>5

-----------------------------------------------------------------------------
LiveTypes ==
    /\ proc \in [st : {"null", "running", "done"},
                kind : {"none", "measure", "enumerate"}]
    /\ run \in Nat
    /\ script \in {"off", "setup", "writing", "ok", "failed"}
    /\ file \in [exists : BOOLEAN, lines : Seq(Line)]
    /\ rows \in Seq(Shown)
    /\ suppress \in BOOLEAN /\ closed \in BOOLEAN /\ touched \in BOOLEAN
    /\ swallowed \subseteq 1..run /\ unreleased \subseteq 1..run

(* While its script writes, and when it has succeeded, the file is the      *)
(* latest run's.                                                            *)
OwnLines == script \in {"writing", "ok"} =>
                \A k \in DOMAIN file.lines : file.lines[k].run = run

(* The lines of the file are of one run, and all but the last are complete. *)
FileShape == \A k \in DOMAIN file.lines :
    LET l == file.lines[k] IN
    /\ l.run <= run /\ (script = "setup" => l.run < run)
    /\ \A m \in DOMAIN file.lines : file.lines[m].run = l.run
    /\ k < Len(file.lines) => l.form = "whole"

(* What line k is to a row that came in from the same file.                 *)
Passed(row, k) ==
    LET l == file.lines[k] IN
    /\ k < row.line /\ Live!Parses(l) => Live!Reading(l) \in seen
    /\ k = row.line => IF row.whole THEN l.form = "whole" /\ l.text = row.text
                       ELSE l.form # "stub" /\ CutOf[l.text] = row.text

(* A row that came in since the launch, and the file as it is now.          *)
Here(row) ==
    /\ row.text \in seen /\ row.run <= run
    /\ script = "setup" => row.run < run
    /\ script = "writing" /\ row.run = run => row.line <= Len(file.lines)
    /\ \A k \in DOMAIN file.lines :
          /\ row.run <= file.lines[k].run
          /\ row.run = file.lines[k].run => Passed(row, k)

(* Unless another trace was loaded, what the poll has seen is in the table, *)
(* and the rows that came in since the launch are of lines passed over.     *)
TableKept ==
    /\ \A i \in DOMAIN rows : rows[i].at <= run
    /\ ~touched => /\ seen \subseteq Live!Texts(rows)
                   /\ \A i \in DOMAIN rows : rows[i].at = run => Here(rows[i])

(* The flag stands for a report that is still to be swallowed.              *)
Pending == IF suppress /\ ~closed THEN 1 ELSE 0
FlagPaid == /\ closed => proc.st = "null"
            /\ proc.st # "null" => run \in 1..run
            /\ Cardinality(swallowed) + Pending <= Cardinality(unreleased)

LiveInv == /\ LiveTypes /\ FileShape /\ OwnLines /\ TableKept /\ FlagPaid
           /\ Live!RowsFollowFile /\ Live!SummaryOfRun /\ Live!Reported

(* LiveInv is inductive: its parts, one at a time.                          *)
LEMMA LiveInvInit == Live!Init => LiveInv
<1> SUFFICES ASSUME Live!Init PROVE LiveInv
  OBVIOUS
<1> USE DEF Live!Init, Live!Null
<1>1. LiveTypes
  <2>1. file \in [exists : BOOLEAN, lines : Seq(Line)]
    <3>1. CASE file = [exists |-> FALSE, lines |-> <<>>]
      BY <3>1
    <3>2. CASE \E t \in Text : file = [exists |-> TRUE, lines |->
                              <<[run |-> 0, text |-> t, form |-> "whole"]>>]
      <4>1. PICK t \in Text : file = [exists |-> TRUE, lines |->
                              <<[run |-> 0, text |-> t, form |-> "whole"]>>]
        BY <3>2
      <4>2. [run |-> 0, text |-> t, form |-> "whole"] \in Line
        BY DEF Line, Live!Forms
      <4> QED BY <4>1, <4>2
    <3> QED BY <3>1, <3>2
  <2>2. proc \in [st : {"null", "running", "done"}, kind : {"none", "measure", "enumerate"}]
    OBVIOUS
  <2>3. rows \in Seq(Shown) /\ swallowed \subseteq 1..run /\ unreleased \subseteq 1..run
    OBVIOUS
  <2> QED BY <2>1, <2>2, <2>3 DEF LiveTypes
<1>2. OwnLines /\ TableKept /\ Live!RowsFollowFile
  BY DEF OwnLines, TableKept, Live!RowsFollowFile, Live!Texts
<1>5. FileShape
  BY DEF FileShape
<1>3. FlagPaid
  BY FS_EmptySet DEF FlagPaid, Pending
<1>4. Live!SummaryOfRun /\ Live!Reported
  BY DEF Live!SummaryOfRun, Live!Reported
<1> QED BY <1>1, <1>2, <1>3, <1>4, <1>5 DEF LiveInv

LEMMA LiveTypesNext == ASSUME LiveInv, Live!Next PROVE LiveTypes'
<1> USE DEF Live!history, Live!ScriptSteps
<1>0. LiveTypes
  BY DEF LiveInv
<1>1. ASSUME NEW kind \in {"measure", "enumerate"}, Live!Launch(kind) PROVE LiveTypes'
  <2>1. run' = run + 1 /\ swallowed' = swallowed /\ unreleased' \subseteq unreleased \cup {run + 1}
    BY <1>1 DEF Live!Launch
  <2>2. run' \in Nat /\ swallowed' \subseteq 1..run' /\ unreleased' \subseteq 1..run'
    BY <1>0, <2>1 DEF LiveTypes
  <2>3. suppress' \in BOOLEAN /\ rows' \in Seq(Shown)
    <3>1. suppress' \in BOOLEAN
      <4>1. suppress \in BOOLEAN
        BY <1>0 DEF LiveTypes
      <4>2. suppress' = Live!SuppressAfterStop
        BY <1>1 DEF Live!Launch
      <4>3. Live!SuppressAfterStop \in BOOLEAN
        BY <4>1 DEF Live!SuppressAfterStop
      <4> QED BY <4>2, <4>3, Zenon
    <3>2. rows' = <<>> \/ rows' = rows
      BY <1>1 DEF Live!Launch
    <3>3. rows \in Seq(Shown) /\ <<>> \in Seq(Shown)
      BY <1>0 DEF LiveTypes
    <3>4. rows' \in Seq(Shown)
      BY <3>2, <3>3
    <3> QED BY <3>1, <3>4
  <2>4. PICK st \in {"running", "done"} : proc' = [st |-> st, kind |-> kind]
          /\ script' = IF st = "running" THEN "setup" ELSE "off"
    BY <1>1 DEF Live!Launch
  <2>5. proc' \in [st : {"null", "running", "done"}, kind : {"none", "measure", "enumerate"}]
        /\ script' \in {"off", "setup", "writing", "ok", "failed"}
    BY <1>1, <2>4
  <2>6. UNCHANGED <<file, closed>> /\ touched' = FALSE
    BY <1>1 DEF Live!Launch
  <2> QED BY <1>0, <2>2, <2>3, <2>5, <2>6 DEF LiveTypes
<1>2. CASE Live!Poll
  <2>1. Live!NewRows \in Seq(Shown)
    BY <1>0, ScannedOnce DEF LiveTypes
  <2>2. rows' \in Seq(Shown)
    BY <1>0, <1>2, <2>1 DEF Live!Poll, LiveTypes
  <2>3. proc' \in [st : {"null", "running", "done"}, kind : {"none", "measure", "enumerate"}]
    <3>1. proc' = proc \/ proc' = [st |-> "null", kind |-> "none"]
      BY <1>2 DEF Live!Poll, Live!Null
    <3> QED BY <1>0, <3>1 DEF LiveTypes
  <2>4. UNCHANGED <<run, script, file, suppress, closed, touched, swallowed, unreleased>>
    BY <1>2 DEF Live!Poll
  <2> QED BY <1>0, <2>2, <2>3, <2>4 DEF LiveTypes
<1>3. CASE Live!Finished
  <2>1. proc' \in [st : {"null", "running", "done"}, kind : {"none", "measure", "enumerate"}]
    BY <1>0, <1>3 DEF Live!Finished, LiveTypes
  <2>2. run \in 1..run
    BY <1>3 DEF Live!Finished, LiveInv, FlagPaid
  <2>3. swallowed' \subseteq 1..run
    BY <1>0, <1>3, <2>2 DEF Live!Finished, LiveTypes
  <2>4. Live!Entries[Len(file.lines)] \in Seq(Shown)
    <3>1. Len(file.lines) \in 0..Len(file.lines)
      BY <1>0 DEF LiveTypes
    <3> QED BY <1>0, <3>1, EntriesAre DEF LiveTypes
  <2>5. rows' \in Seq(Shown) /\ touched' \in BOOLEAN
    <3>1. CASE UNCHANGED <<rows, touched>>
      BY <1>0, <3>1 DEF LiveTypes
    <3>2. CASE rows' = Live!Entries[Len(file.lines)] /\ touched' = TRUE
      BY <2>4, <3>2
    <3> QED BY <1>3, <3>1, <3>2 DEF Live!Finished, Live!Report
  <2>6. UNCHANGED <<run, script, file, closed, unreleased>> /\ suppress' = FALSE
    BY <1>3 DEF Live!Finished, Live!SuppressAfterFinish
  <2> QED BY <1>0, <2>1, <2>3, <2>5, <2>6 DEF LiveTypes
<1>4. CASE Live!LoadOther
  BY <1>0, <1>4 DEF Live!LoadOther, LiveTypes
<1>5. CASE Live!closeEvent
  BY <1>0, <1>5 DEF Live!closeEvent, LiveTypes, Live!Null
<1>6. CASE Live!SetupFails \/ Live!ScriptEnds
  BY <1>0, <1>6 DEF Live!SetupFails, Live!ScriptEnds, LiveTypes
<1>7. CASE Live!TeeOpens
  <2>1. file' \in [exists : BOOLEAN, lines : Seq(Line)]
    BY <1>7 DEF Live!TeeOpens
  <2> QED BY <1>0, <1>7, <2>1 DEF Live!TeeOpens, LiveTypes
<1>8. CASE Live!WriteLine
  <2>1. PICK t \in Text \cup {Noise}, f \in Live!Forms :
          file' = [file EXCEPT !.lines =
                      Append(file.lines, [run |-> run, text |-> t, form |-> f])]
    BY <1>8 DEF Live!WriteLine
  <2>2. [run |-> run, text |-> t, form |-> f] \in Line
    BY <1>0 DEF LiveTypes, Line
  <2>3. Append(file.lines, [run |-> run, text |-> t, form |-> f]) \in Seq(Line)
    BY <1>0, <2>2 DEF LiveTypes
  <2>4. file' \in [exists : BOOLEAN, lines : Seq(Line)]
    BY <1>0, <2>1, <2>3 DEF LiveTypes
  <2> QED BY <1>0, <1>8, <2>4 DEF Live!WriteLine, LiveTypes
<1>9. CASE Live!WriteOn
  <2> DEFINE n == Len(file.lines)
             w == [file.lines EXCEPT ![n].form = "whole"]
  <2>1. file' = [file EXCEPT !.lines = w]
    BY <1>9 DEF Live!WriteOn
  <2>2. w \in Seq(Line)
    <3>1. file.lines \in Seq(Line) /\ n \in 1..Len(file.lines)
      BY <1>0, <1>9 DEF Live!WriteOn, LiveTypes
    <3>2. file.lines[n] \in Line
      BY <3>1
    <3>3. [file.lines[n] EXCEPT !.form = "whole"] \in Line
      BY <3>2 DEF Line, Live!Forms
    <3>4. w = [file.lines EXCEPT ![n] = [file.lines[n] EXCEPT !.form = "whole"]]
      BY <3>1
    <3> QED BY <3>1, <3>3, <3>4
  <2>3. file' \in [exists : BOOLEAN, lines : Seq(Line)]
    <3> HIDE DEF w
    <3> QED BY <1>0, <2>1, <2>2 DEF LiveTypes
  <2> QED BY <1>0, <1>9, <2>3 DEF Live!WriteOn, LiveTypes
<1> QED
  BY <1>1, <1>2, <1>3, <1>4, <1>5, <1>6, <1>7, <1>8, <1>9 DEF Live!Next

(* The actions that leave the table and its history alone.                  *)
LEMMA ScriptStep ==
    ASSUME Live!SetupFails \/ Live!TeeOpens \/ Live!WriteLine \/ Live!WriteOn
              \/ Live!ScriptEnds
    PROVE  UNCHANGED <<proc, run, seen, rows, timer, suppress, closed, touched,
                       swallowed, unreleased, summary>>
BY DEF Live!SetupFails, Live!TeeOpens, Live!WriteLine, Live!WriteOn,
       Live!ScriptEnds, Live!ScriptSteps, Live!history

LEMMA OwnLinesNext == ASSUME LiveInv, Live!Next PROVE OwnLines'
<1>0. LiveTypes /\ OwnLines
  BY DEF LiveInv
<1>1. ASSUME NEW kind \in {"measure", "enumerate"}, Live!Launch(kind) PROVE OwnLines'
  BY <1>1 DEF Live!Launch, OwnLines
<1>2. CASE Live!Poll \/ Live!Finished \/ Live!LoadOther
  <2>1. UNCHANGED <<run, script, file>>
    BY <1>2 DEF Live!Poll, Live!Finished, Live!LoadOther
  <2> QED BY <1>0, <2>1 DEF OwnLines
<1>3. CASE Live!closeEvent \/ Live!SetupFails
  BY <1>3 DEF Live!closeEvent, Live!SetupFails, OwnLines
<1>4. CASE Live!TeeOpens
  BY <1>4 DEF Live!TeeOpens, OwnLines
<1>5. CASE Live!WriteLine
  <2>1. PICK t \in Text \cup {Noise}, f \in Live!Forms :
          file' = [file EXCEPT !.lines =
                      Append(file.lines, [run |-> run, text |-> t, form |-> f])]
    BY <1>5 DEF Live!WriteLine
  <2> DEFINE line == [run |-> run, text |-> t, form |-> f]
  <2>2. file.lines \in Seq(Line) /\ file'.lines = Append(file.lines, line)
    BY <1>0, <2>1 DEF LiveTypes
  <2>3. line.run = run /\ run' = run
    BY <1>5, ScriptStep
  <2>4. \A k \in DOMAIN file.lines : file.lines[k].run = run
    BY <1>0, <1>5 DEF Live!WriteLine, OwnLines
  <2> HIDE DEF line
  <2>5. \A k \in DOMAIN file'.lines : file'.lines[k] = line \/
            (k \in DOMAIN file.lines /\ file'.lines[k] = file.lines[k])
    BY <2>2
  <2> QED BY <2>3, <2>4, <2>5 DEF OwnLines
<1>6. CASE Live!WriteOn
  <2> DEFINE n == Len(file.lines)
             w == [file.lines EXCEPT ![n].form = "whole"]
  <2>1. file' = [file EXCEPT !.lines = w] /\ run' = run
    BY <1>6, ScriptStep DEF Live!WriteOn
  <2>2. file'.lines = w
    BY <1>0, <2>1 DEF LiveTypes
  <2>3. \A k \in DOMAIN w : k \in DOMAIN file.lines /\ w[k].run = file.lines[k].run
    BY <1>0 DEF LiveTypes, Line
  <2>4. \A k \in DOMAIN file.lines : file.lines[k].run = run
    BY <1>0, <1>6 DEF Live!WriteOn, OwnLines
  <2> HIDE DEF w
  <2> QED BY <2>1, <2>2, <2>3, <2>4 DEF OwnLines
<1>7. CASE Live!ScriptEnds
  BY <1>0, <1>7, ScriptStep DEF Live!ScriptEnds, OwnLines
<1> QED
  BY <1>1, <1>2, <1>3, <1>4, <1>5, <1>6, <1>7 DEF Live!Next

LEMMA FileShapeNext == ASSUME LiveInv, Live!Next PROVE FileShape'
<1>0. LiveTypes /\ FileShape /\ OwnLines
  BY DEF LiveInv
<1>1. ASSUME NEW kind \in {"measure", "enumerate"}, Live!Launch(kind) PROVE FileShape'
  <2>1. run' = run + 1 /\ file' = file /\ run \in Nat
    BY <1>0, <1>1 DEF Live!Launch, LiveTypes
  <2>2. \A k \in DOMAIN file.lines : file.lines[k].run \in Nat
    <3>1. \A k \in DOMAIN file.lines : file.lines[k] \in Line
      BY <1>0 DEF LiveTypes
    <3> QED BY <3>1 DEF Line
  <2> QED BY <1>0, <2>1, <2>2 DEF FileShape
<1>2. CASE Live!Poll \/ Live!Finished \/ Live!LoadOther
  <2>1. UNCHANGED <<run, script, file>>
    BY <1>2 DEF Live!Poll, Live!Finished, Live!LoadOther
  <2> QED BY <1>0, <2>1 DEF FileShape
<1>3. CASE Live!closeEvent \/ Live!SetupFails \/ Live!ScriptEnds
  <2>1. UNCHANGED <<run, file>> /\ script' # "setup"
    BY <1>3, ScriptStep DEF Live!closeEvent, Live!SetupFails, Live!ScriptEnds
  <2> QED BY <1>0, <2>1 DEF FileShape
<1>4. CASE Live!TeeOpens
  BY <1>4 DEF Live!TeeOpens, FileShape
<1>5. CASE Live!WriteLine
  <2>1. PICK t \in Text \cup {Noise}, f \in Live!Forms :
          file' = [file EXCEPT !.lines =
                      Append(file.lines, [run |-> run, text |-> t, form |-> f])]
    BY <1>5 DEF Live!WriteLine
  <2> DEFINE line == [run |-> run, text |-> t, form |-> f]
             n == Len(file.lines)
  <2>2. file.lines \in Seq(Line) /\ file'.lines = Append(file.lines, line)
    BY <1>0, <2>1 DEF LiveTypes
  <2>3. /\ line.run = run /\ run' = run /\ run \in Nat
        /\ script = "writing" /\ script' = "writing"
    BY <1>0, <1>5, ScriptStep DEF Live!WriteLine, LiveTypes
  <2>4. \A k \in DOMAIN file.lines : file.lines[k].run = run
    BY <1>0, <2>3 DEF OwnLines
  <2>5. \A k \in 1..n : file.lines[k].form = "whole"
    BY <1>0, <1>5, <2>2 DEF Live!WriteLine, Live!Last, FileShape
  <2> HIDE DEF line
  <2>6. /\ n \in Nat /\ Len(file'.lines) = n + 1 /\ DOMAIN file'.lines = 1..(n + 1)
        /\ \A k \in 1..n : file'.lines[k] = file.lines[k]
        /\ file'.lines[n + 1] = line
    BY <2>2
  <2>7. \A k \in DOMAIN file'.lines : k \in 1..n \/ k = n + 1
    BY <2>6
  <2>8. \A k \in DOMAIN file'.lines : file'.lines[k].run = run
    BY <2>2, <2>3, <2>4, <2>6, <2>7
  <2>9. \A k \in DOMAIN file'.lines : k < Len(file'.lines) => file'.lines[k].form = "whole"
    BY <2>5, <2>6
  <2> QED BY <2>3, <2>8, <2>9 DEF FileShape
<1>6. CASE Live!WriteOn
  <2> DEFINE n == Len(file.lines)
             w == [file.lines EXCEPT ![n].form = "whole"]
  <2>1. file' = [file EXCEPT !.lines = w] /\ UNCHANGED <<run, script>>
    BY <1>6, ScriptStep DEF Live!WriteOn
  <2>2. file'.lines = w
    BY <1>0, <2>1 DEF LiveTypes
  <2>3. /\ DOMAIN w = DOMAIN file.lines /\ Len(w) = n
        /\ \A k \in DOMAIN w : /\ w[k].run = file.lines[k].run
                               /\ w[k].form \in {file.lines[k].form, "whole"}
    BY <1>0 DEF LiveTypes, Line
  <2> HIDE DEF w
  <2> QED BY <1>0, <2>1, <2>2, <2>3 DEF FileShape
<1> QED
  BY <1>1, <1>2, <1>3, <1>4, <1>5, <1>6 DEF Live!Next

(* A row that came in stays of a line passed over, whatever the script does *)
(* to the file.                                                             *)
LEMMA HereKept ==
    ASSUME LiveInv, NEW row \in Shown, Here(row),
           Live!SetupFails \/ Live!TeeOpens \/ Live!WriteLine \/ Live!WriteOn
              \/ Live!ScriptEnds
    PROVE  Here(row)'
<1>0. LiveTypes /\ OwnLines /\ UNCHANGED <<run, seen>>
  BY ScriptStep DEF LiveInv
<1>1. CASE Live!SetupFails \/ Live!ScriptEnds
  <2>1. file' = file /\ script' \in {"ok", "failed"}
    BY <1>1 DEF Live!SetupFails, Live!ScriptEnds
  <2> QED BY <1>0, <2>1 DEF Here, Passed, Live!Parses, Live!Reading
<1>2. CASE Live!TeeOpens
  <2>1. file'.lines = <<>> /\ row.run < run /\ script' = "writing"
    BY <1>2 DEF Live!TeeOpens, Here
  <2>2. row.run \in Nat /\ run \in Nat
    BY <1>0 DEF LiveTypes, Shown
  <2>3. DOMAIN file'.lines = {}
    BY <2>1
  <2> QED BY <1>0, <2>1, <2>2, <2>3 DEF Here
<1>3. CASE Live!WriteLine
  <2>1. PICK t \in Text \cup {Noise}, f \in Live!Forms :
          file' = [file EXCEPT !.lines =
                      Append(file.lines, [run |-> run, text |-> t, form |-> f])]
    BY <1>3 DEF Live!WriteLine
  <2> DEFINE line == [run |-> run, text |-> t, form |-> f]
             n == Len(file.lines)
  <2>2. /\ file.lines \in Seq(Line) /\ file'.lines = Append(file.lines, line)
        /\ script = "writing" /\ script' = "writing" /\ line.run = run
    BY <1>0, <1>3, <2>1 DEF LiveTypes, Live!WriteLine
  <2>3. row.line \in Nat /\ row.run <= run /\ (row.run = run => row.line <= n)
    BY <2>2 DEF Shown, Here
  <2> HIDE DEF line
  <2>4. /\ n \in Nat /\ Len(file'.lines) = n + 1 /\ DOMAIN file'.lines = 1..(n + 1)
        /\ \A k \in 1..n : k \in DOMAIN file.lines /\ file'.lines[k] = file.lines[k]
        /\ file'.lines[n + 1] = line
    BY <2>2
  <2> HIDE DEF n
  <2>5. ASSUME NEW k \in DOMAIN file'.lines
        PROVE  /\ row.run <= file'.lines[k].run
               /\ row.run = file'.lines[k].run => Passed(row, k)'
    <3>1. CASE k \in 1..n
      BY <1>0, <2>4, <3>1 DEF Here, Passed, Live!Parses, Live!Reading
    <3>2. CASE k = n + 1
      <4>1. row.run = run => ~(k < row.line) /\ k # row.line
        BY <2>3, <2>4, <3>2
      <4> QED BY <2>2, <2>3, <2>4, <3>2, <4>1 DEF Passed
    <3> QED BY <2>4, <3>1, <3>2
  <2>6. row.run = run => row.line <= Len(file'.lines)
    BY <2>3, <2>4
  <2> QED BY <1>0, <2>2, <2>5, <2>6 DEF Here
<1>4. CASE Live!WriteOn
  <2> DEFINE n == Len(file.lines)
             w == [file.lines EXCEPT ![n].form = "whole"]
  <2>1. /\ file' = [file EXCEPT !.lines = w] /\ script = "writing" /\ script' = "writing"
        /\ n \in DOMAIN file.lines /\ file.lines[n].form # "whole"
    BY <1>0, <1>4 DEF Live!WriteOn, Live!Last, LiveTypes
  <2>2. file'.lines = w
    BY <1>0, <2>1 DEF LiveTypes
  <2>3. /\ DOMAIN w = DOMAIN file.lines /\ Len(w) = n /\ n \in Nat
        /\ \A k \in DOMAIN w : /\ w[k].run = file.lines[k].run
                               /\ w[k].text = file.lines[k].text
                               /\ k # n => w[k] = file.lines[k]
        /\ w[n].form = "whole"
    <3>1. file.lines \in Seq(Line) /\ file.lines[n] \in Line
      BY <1>0, <2>1 DEF LiveTypes
    <3>2. /\ DOMAIN w = DOMAIN file.lines /\ Len(w) = n /\ n \in Nat
          /\ \A k \in DOMAIN w : k # n => w[k] = file.lines[k]
          /\ w[n] = [file.lines[n] EXCEPT !.form = "whole"]
      BY <2>1, <3>1
    <3>3. /\ w[n].run = file.lines[n].run /\ w[n].text = file.lines[n].text
          /\ w[n].form = "whole"
      BY <3>1, <3>2 DEF Line
    <3> HIDE DEF w, n
    <3> QED BY <3>2, <3>3
  <2>4. file.lines[n].run = run /\ row.line \in Nat
    BY <1>0, <2>1 DEF OwnLines, Shown
  <2> HIDE DEF w, n
  <2>5. ASSUME NEW k \in DOMAIN file'.lines
        PROVE  /\ row.run <= file'.lines[k].run
               /\ row.run = file'.lines[k].run => Passed(row, k)'
    <3>1. CASE k # n
      BY <1>0, <2>2, <2>3, <3>1 DEF Here, Passed, Live!Parses, Live!Reading
    <3>2. CASE k = n
      <4>1. row.run <= file'.lines[k].run
        BY <2>2, <2>3, <2>5 DEF Here
      <4>2. ASSUME row.run = file'.lines[k].run PROVE Passed(row, k)'
        <5>1. row.run = run /\ row.line <= n
          BY <2>1, <2>2, <2>3, <2>4, <3>2, <4>2 DEF Here, n
        <5>2. ~(k < row.line)
          BY <2>3, <2>4, <3>2, <5>1
        <5>3. Passed(row, n)
          BY <2>1, <2>4, <5>1 DEF Here
        <5>4. k = row.line => ~row.whole /\ CutOf[file'.lines[k].text] = row.text
          BY <2>1, <2>2, <2>3, <3>2, <5>3 DEF Passed
        <5> QED BY <2>2, <2>3, <3>2, <5>2, <5>4 DEF Passed
      <4> QED BY <4>1, <4>2
    <3> QED BY <3>1, <3>2
  <2>6. row.run = run => row.line <= Len(file'.lines)
    BY <2>1, <2>2, <2>3 DEF Here, n
  <2> QED BY <1>0, <2>1, <2>5, <2>6 DEF Here
<1> QED
  BY <1>1, <1>2, <1>3, <1>4

(* What a poll adds is passed over with it, and comes after every row that  *)
(* came in before.                                                          *)
LEMMA NewIsHere ==
    ASSUME LiveInv, Live!Poll, NEW k \in Live!Counted, NEW row, row = Live!AsRow(k)
    PROVE  Here(row)'
<1> DEFINE l == file.lines[k]
<1>0. LiveTypes /\ FileShape /\ OwnLines /\ UNCHANGED <<run, script, file>>
  BY DEF LiveInv, Live!Poll
<1>1. /\ row.text = Live!Reading(l) /\ row.run = l.run /\ row.line = k
      /\ row.whole = (l.form = "whole")
  BY DEF Live!AsRow
<1>2. k \in DOMAIN file.lines /\ k \in 1..Len(file.lines) /\ Live!Parses(l)
  BY <1>0 DEF Live!Counted, LiveTypes
<1>3. \A m \in Live!Counted : Live!Reading(file.lines[m]) \in seen'
  BY <1>0, ScannedOnce DEF Live!Poll, LiveTypes
<1>4. \A m \in DOMAIN file.lines :
        Live!Parses(file.lines[m]) => Live!Reading(file.lines[m]) \in seen'
  BY <1>3 DEF Live!Counted
<1>5. l.form \in Live!Forms /\ l.run \in Nat /\ run \in Nat
  <2>1. l \in Line /\ run \in Nat
    BY <1>0, <1>2 DEF LiveTypes
  <2> QED BY <2>1 DEF Line
<1>6. IF row.whole THEN l.form = "whole" /\ l.text = row.text
                   ELSE l.form # "stub" /\ CutOf[l.text] = row.text
  BY <1>1, <1>2, <1>5 DEF Live!Reading, Live!Parses, Live!Forms
<1>7. \A m \in DOMAIN file.lines : file.lines[m].run = l.run
  BY <1>0, <1>2 DEF FileShape
<1>8. l.run <= run /\ (script = "setup" => l.run < run)
  BY <1>0, <1>2 DEF FileShape
<1> HIDE DEF l
<1>9. \A m \in DOMAIN file.lines : Passed(row, m)'
  BY <1>0, <1>1, <1>4, <1>6 DEF Passed, l, Live!Parses, Live!Reading
<1>10. k <= Len(file.lines)
  BY <1>2
<1>11. row.text \in seen'
  BY <1>1, <1>2, <1>4 DEF l
<1> QED
  BY <1>0, <1>1, <1>5, <1>7, <1>8, <1>9, <1>10, <1>11 DEF Here

LEMMA NewComesAfter ==
    ASSUME LiveInv, NEW row \in Shown, Here(row), NEW k \in Live!Counted,
           Live!Reading(file.lines[k]) \notin seen
    PROVE  LET new == Live!AsRow(k)
           IN  /\ row.text # new.text
               /\ \/ row.run < new.run
                  \/ row.run = new.run /\ row.line < new.line
                  \/ /\ row.run = new.run /\ row.line = new.line
                     /\ ~row.whole /\ new.whole
<1> DEFINE l == file.lines[k]
           new == Live!AsRow(k)
<1>1. /\ new.text = Live!Reading(l) /\ new.run = l.run /\ new.line = k
      /\ new.whole = (l.form = "whole")
  BY DEF Live!AsRow
<1>2. k \in DOMAIN file.lines /\ Live!Parses(l) /\ k \in Nat /\ l \in Line
  BY DEF Live!Counted, LiveInv, LiveTypes
<1>3. row.text # new.text
  BY <1>1 DEF Here
<1>4. row.run <= l.run /\ row.run \in Nat /\ l.run \in Nat /\ row.line \in Nat
  BY <1>2 DEF Here, Shown, Line
<1>5. CASE row.run = l.run
  <2>1. Passed(row, k)
    BY <1>2, <1>5 DEF Here
  <2>2. ~(k < row.line)
    BY <1>2, <2>1 DEF Passed
  <2>3. CASE k = row.line
    <3>1. IF row.whole THEN l.form = "whole" /\ l.text = row.text
                       ELSE l.form # "stub" /\ CutOf[l.text] = row.text
      BY <2>1, <2>3 DEF Passed
    <3>2. ~row.whole
      BY <1>1, <1>3, <3>1 DEF Live!Reading
    <3>3. l.form = "whole"
      BY <1>1, <1>2, <1>3, <3>1, <3>2 DEF Live!Reading, Line, Live!Forms
    <3> QED BY <1>1, <1>3, <1>5, <2>3, <3>2, <3>3
  <2>4. CASE k # row.line
    <3>1. row.line < k
      BY <1>2, <1>4, <2>2, <2>4
    <3> QED BY <1>1, <1>3, <1>5, <3>1
  <2> QED BY <2>3, <2>4
<1>6. CASE row.run # l.run
  BY <1>1, <1>3, <1>4, <1>6
<1> QED
  BY <1>5, <1>6

(* The table before, and what a poll puts behind it.                        *)
LEMMA TableNext == ASSUME LiveInv, Live!Next PROVE TableKept' /\ Live!RowsFollowFile'
<1>0. LiveTypes /\ TableKept /\ Live!RowsFollowFile
  BY DEF LiveInv
<1>s. \A i \in DOMAIN rows : rows[i] \in Shown
  BY <1>0 DEF LiveTypes
<1>1. ASSUME NEW kind \in {"measure", "enumerate"}, Live!Launch(kind)
      PROVE  TableKept' /\ Live!RowsFollowFile'
  <2>1. run' = run + 1 /\ seen' = {} /\ (rows' = <<>> \/ rows' = rows)
    BY <1>1 DEF Live!Launch
  <2>2. \A i \in DOMAIN rows : rows[i].at \in Nat /\ rows[i].at <= run /\ run \in Nat
    <3>1. \A i \in DOMAIN rows : rows[i].at \in Nat
      BY <1>s DEF Shown
    <3> QED BY <1>0, <3>1 DEF LiveTypes, TableKept
  <2>3. \A i \in DOMAIN rows' : rows'[i].at <= run' /\ rows'[i].at # run'
    BY <2>1, <2>2
  <2> QED BY <2>1, <2>3 DEF TableKept, Live!RowsFollowFile, Live!Texts
<1>2. CASE Live!Poll
  <2>1. PICK new \in Seq(Shown) :
          /\ new = Live!NewRows
          /\ \A i \in DOMAIN new : \E k \in Live!Counted :
                new[i] = Live!AsRow(k) /\ Live!Reading(file.lines[k]) \notin seen
          /\ \A i, j \in DOMAIN new :
                i < j => new[i].line < new[j].line /\ new[i].text # new[j].text
    BY <1>0, ScannedOnce DEF LiveTypes
  <2>2. rows' = rows \o new /\ seen' = seen \cup Live!Texts(new)
        /\ UNCHANGED <<run, touched, script, file>>
    BY <1>2, <2>1 DEF Live!Poll, Live!history
  <2>3. ASSUME NEW i \in DOMAIN new
        PROVE  new[i].at = run /\ Here(new[i])'
    <3>1. PICK k \in Live!Counted : new[i] = Live!AsRow(k)
      BY <2>1
    <3> QED BY <1>2, <3>1, NewIsHere DEF Live!AsRow
  <2> DEFINE n == Len(rows)
  <2>4. /\ n \in Nat /\ Len(new) \in Nat /\ run \in Nat
        /\ DOMAIN rows = 1..n /\ DOMAIN new = 1..Len(new)
        /\ DOMAIN rows' = 1..(n + Len(new))
        /\ \A i \in 1..n : rows'[i] = rows[i]
        /\ \A i \in 1..Len(new) : rows'[n + i] = new[i]
    BY <1>0, <2>1, <2>2 DEF LiveTypes
  <2> HIDE DEF n
  <2>5. \A i \in DOMAIN rows' :
            \/ i \in DOMAIN rows /\ i <= n /\ rows'[i] = rows[i]
            \/ i - n \in DOMAIN new /\ i > n /\ rows'[i] = new[i - n]
    <3>1. \A i \in DOMAIN rows' : i \in 1..n \/ (i - n \in 1..Len(new) /\ i = n + (i - n))
      BY <2>4
    <3> QED BY <2>4, <3>1
  <2>6. \A i \in DOMAIN rows' : rows'[i].at <= run'
    BY <1>0, <2>2, <2>3, <2>4, <2>5 DEF TableKept
  <2>7. Live!Texts(rows) \cup Live!Texts(new) \subseteq Live!Texts(rows')
    BY <2>4 DEF Live!Texts
  <2>9. TableKept'
    <3>1. ~touched => seen' \subseteq Live!Texts(rows')
      BY <1>0, <2>2, <2>7 DEF TableKept
    <3>2. ASSUME ~touched, NEW i \in DOMAIN rows', rows'[i].at = run
          PROVE  Here(rows[i])'
      <4>1. CASE i \in DOMAIN rows /\ rows'[i] = rows[i]
        <5>1. PICK row \in Shown : row = rows[i] /\ row = rows'[i]
          BY <1>s, <4>1
        <5>2. Here(row)
          BY <1>0, <3>2, <4>1, <5>1 DEF TableKept
        <5>3. Here(row)'
          BY <2>2, <5>2 DEF Here, Passed, Live!Parses, Live!Reading
        <5> QED BY <5>1, <5>3
      <4>2. CASE i - n \in DOMAIN new /\ rows'[i] = new[i - n]
        BY <2>3, <4>2
      <4> QED BY <2>5, <4>1, <4>2
    <3> QED BY <2>2, <2>6, <3>1, <3>2 DEF TableKept, Live!Texts
  <2>10. ASSUME ~touched, NEW i \in DOMAIN rows', NEW j \in DOMAIN rows',
                i < j, rows'[i].at = run, rows'[j].at = run
         PROVE  LET first == rows'[i]
                    later == rows'[j]
                IN  /\ first.text # later.text
                    /\ \/ first.run < later.run
                       \/ first.run = later.run /\ first.line < later.line
                       \/ /\ first.run = later.run /\ first.line = later.line
                          /\ ~first.whole /\ later.whole
    <3>1. CASE i \in DOMAIN rows /\ j \in DOMAIN rows
      BY <1>0, <2>4, <2>10, <3>1 DEF Live!RowsFollowFile
    <3>2. CASE i \in DOMAIN rows /\ rows'[i] = rows[i] /\ j - n \in DOMAIN new
               /\ rows'[j] = new[j - n]
      <4>1. PICK k \in Live!Counted : rows'[j] = Live!AsRow(k)
                                      /\ Live!Reading(file.lines[k]) \notin seen
        BY <2>1, <3>2
      <4>2. rows[i] \in Shown /\ Here(rows[i])
        BY <1>0, <1>s, <2>10, <3>2 DEF TableKept
      <4> QED BY <3>2, <4>1, <4>2, NewComesAfter
    <3>3. CASE i - n \in DOMAIN new /\ rows'[i] = new[i - n] /\ j - n \in DOMAIN new
               /\ rows'[j] = new[j - n]
      <4>1. i - n < j - n
        BY <2>4, <2>10
      <4>2. new[i - n].line < new[j - n].line /\ new[i - n].text # new[j - n].text
        BY <2>1, <3>3, <4>1
      <4>3. new[i - n].run = new[j - n].run
        <5>1. PICK k, m \in Live!Counted : new[i - n] = Live!AsRow(k)
                                           /\ new[j - n] = Live!AsRow(m)
          BY <2>1, <3>3
        <5>2. file.lines[k].run = file.lines[m].run
          BY DEF LiveInv, FileShape, Live!Counted
        <5> QED BY <5>1, <5>2 DEF Live!AsRow
      <4> QED BY <3>3, <4>2, <4>3
    <3> QED BY <2>4, <2>5, <2>10, <3>1, <3>2, <3>3
  <2>11. Live!RowsFollowFile'
    BY <2>2, <2>10 DEF Live!RowsFollowFile
  <2> QED BY <2>9, <2>11
<1>3. CASE Live!Finished
  <2>1. UNCHANGED <<run, seen, script, file>>
    BY <1>3 DEF Live!Finished
  <2>2. CASE UNCHANGED <<rows, touched>>
    BY <1>0, <2>1, <2>2 DEF TableKept, Live!RowsFollowFile, Live!Texts, Here, Passed,
                            Live!Parses, Live!Reading
  <2>3. CASE rows' = Live!Entries[Len(file.lines)] /\ touched' = TRUE
    <3>1. \A i \in DOMAIN rows' : rows'[i].at <= run
      BY <1>0, <2>3, EntriesOfRun DEF LiveTypes
    <3> QED BY <2>1, <2>3, <3>1 DEF TableKept, Live!RowsFollowFile
  <2> QED BY <1>3, <2>2, <2>3 DEF Live!Finished, Live!Report
<1>4. CASE Live!LoadOther
  BY <1>4 DEF Live!LoadOther, TableKept, Live!RowsFollowFile
<1>5. CASE Live!closeEvent
  <2>1. UNCHANGED <<run, seen, rows, touched, file>> /\ script' = "off"
    BY <1>5 DEF Live!closeEvent, Live!history
  <2> QED BY <1>0, <2>1 DEF TableKept, Live!RowsFollowFile, Live!Texts, Here, Passed,
                            Live!Parses, Live!Reading
<1>6. CASE Live!SetupFails \/ Live!TeeOpens \/ Live!WriteLine \/ Live!WriteOn
              \/ Live!ScriptEnds
  <2>1. UNCHANGED <<run, seen, rows, touched>>
    BY <1>6, ScriptStep
  <2>2. ASSUME ~touched, NEW i \in DOMAIN rows, rows[i].at = run
        PROVE  Here(rows[i])'
    <3>1. PICK row \in Shown : row = rows[i] /\ row = rows'[i]
      BY <1>s, <2>1, <2>2
    <3>2. Here(row)'
      BY <1>0, <1>6, <2>2, <3>1, HereKept DEF TableKept
    <3> QED BY <3>1, <3>2
  <2>3. TableKept'
    BY <1>0, <2>1, <2>2 DEF TableKept, Live!Texts
  <2> QED BY <1>0, <2>1, <2>3 DEF Live!RowsFollowFile
<1> QED
  BY <1>1, <1>2, <1>3, <1>4, <1>5, <1>6 DEF Live!Next

(* LiveTrace counts as FiniteSets does.                                     *)
LEMMA LiveCounts == \A S : Live!Cardinality(S) = Cardinality(S)
BY DEF Live!Cardinality, Cardinality

(* Sets of runs are finite, and one run more counts at most one.            *)
LEMMA RunsCount ==
    ASSUME NEW m \in Nat, NEW X \in SUBSET (1..m)
    PROVE  IsFiniteSet(X) /\ Cardinality(X) \in Nat
<1>1. IsFiniteSet(1..m)
  BY FS_Interval
<1>2. IsFiniteSet(X)
  BY <1>1, FS_Subset
<1> QED
  BY <1>2, FS_CardinalityType

(* One element more in a set of runs.                                       *)
LEMMA OneMore ==
    ASSUME NEW m \in Nat, NEW X \in SUBSET (1..m), NEW x
    PROVE  /\ Cardinality(X \cup {x}) = IF x \in X THEN Cardinality(X)
                                         ELSE Cardinality(X) + 1
           /\ Cardinality(X) \in Nat
BY RunsCount, FS_AddElement

LEMMA ReportsNext == ASSUME LiveInv, Live!Next PROVE FlagPaid' /\ Live!Reported'
<1>0. /\ LiveTypes /\ FlagPaid /\ Live!Reported
      /\ run \in Nat /\ swallowed \subseteq 1..run /\ unreleased \subseteq 1..run
  BY DEF LiveInv, LiveTypes
<1>a. /\ Cardinality(swallowed) \in Nat /\ Cardinality(unreleased) \in Nat
      /\ Pending \in {0, 1} /\ Cardinality(swallowed) + Pending <= Cardinality(unreleased)
  BY <1>0, RunsCount DEF FlagPaid, Pending
<1>1. ASSUME NEW kind \in {"measure", "enumerate"}, Live!Launch(kind)
      PROVE  FlagPaid' /\ Live!Reported'
  <2>1. run' = run + 1 /\ swallowed' = swallowed /\ closed' = closed /\ ~closed
    BY <1>1 DEF Live!Launch
  <2>2. unreleased' = IF proc.st = "done" THEN unreleased \cup {run + 1} ELSE unreleased
    BY <1>1 DEF Live!Launch
  <2>3. suppress' = Live!SuppressAfterStop
    BY <1>1 DEF Live!Launch
  <2>4. run + 1 \notin unreleased /\ run + 1 \in Nat
    BY <1>0
  <2>5. /\ Cardinality(unreleased') \in Nat
        /\ Cardinality(unreleased') = IF proc.st = "done" THEN Cardinality(unreleased) + 1
                                                          ELSE Cardinality(unreleased)
    <3>1. Cardinality(unreleased \cup {run + 1}) = Cardinality(unreleased) + 1
      BY <1>0, <2>4, OneMore
    <3> QED BY <1>a, <2>2, <3>1
  <2>6. Cardinality(swallowed) + Pending' <= Cardinality(unreleased')
    <3>1. CASE proc.st = "done"
      BY <1>a, <2>5, <3>1 DEF Pending
    <3>2. CASE proc.st = "running"
      <4>1. suppress' = FALSE
        BY <2>3, <3>2 DEF Live!SuppressAfterStop
      <4> QED BY <1>a, <2>5, <3>2, <4>1 DEF Pending
    <3>3. CASE proc.st \notin {"running", "done"}
      <4>1. suppress' = suppress
        BY <2>3, <3>3 DEF Live!SuppressAfterStop
      <4>2. Pending' = Pending
        BY <2>1, <4>1 DEF Pending
      <4> QED BY <1>a, <2>5, <3>3, <4>2
    <3> QED BY <3>1, <3>2, <3>3
  <2>7. FlagPaid'
    BY <1>0, <2>1, <2>6 DEF FlagPaid
  <2>8. ASSUME NEW n \in 1..(run + 1)
        PROVE  Cardinality(swallowed \cap 1..n) <= Cardinality(unreleased' \cap 1..n)
    <3>1. CASE n \in 1..run
      <4>1. unreleased' \cap 1..n = unreleased \cap 1..n
        BY <1>0, <2>2, <3>1
      <4> QED BY <1>0, <3>1, <4>1, LiveCounts DEF Live!Reported
    <3>2. CASE n = run + 1
      <4>1. swallowed \subseteq 1..n /\ unreleased \cup {run + 1} \subseteq 1..n
        BY <1>0, <3>2
      <4>2. swallowed \cap 1..n = swallowed /\ unreleased' \cap 1..n = unreleased'
        BY <2>2, <4>1
      <4>3. Cardinality(swallowed) <= Cardinality(unreleased')
        BY <1>a, <2>5
      <4> QED BY <4>2, <4>3
    <3> QED BY <1>0, <3>1, <3>2
  <2> QED BY <2>1, <2>7, <2>8, LiveCounts DEF Live!Reported
<1>2. CASE Live!Finished
  <2>1. /\ UNCHANGED <<run, closed, unreleased>> /\ suppress' = FALSE
        /\ swallowed' = IF suppress THEN swallowed \cup {run} ELSE swallowed
        /\ proc.st = "running"
    BY <1>2 DEF Live!Finished, Live!SuppressAfterFinish
  <2>2. ~closed /\ run \in 1..run
    BY <1>0, <2>1 DEF FlagPaid
  <2>3. Cardinality(swallowed') \in Nat /\ Cardinality(swallowed') <= Cardinality(unreleased)
    <3>1. CASE suppress
      <4>1. Pending = 1
        BY <2>2, <3>1 DEF Pending
      <4>2. swallowed' = swallowed \cup {run}
        BY <2>1, <3>1
      <4>3. Cardinality(swallowed') \in {Cardinality(swallowed), Cardinality(swallowed) + 1}
        BY <1>0, <4>2, OneMore
      <4> QED BY <1>a, <4>1, <4>3
    <3>2. CASE ~suppress
      BY <1>a, <2>1, <3>2
    <3> QED BY <3>1, <3>2
  <2>4. FlagPaid'
    <3>1. Pending' = 0
      BY <2>1 DEF Pending
    <3> QED BY <1>a, <2>1, <2>2, <2>3, <3>1 DEF FlagPaid
  <2>5. ASSUME NEW n \in 1..run
        PROVE  Cardinality(swallowed' \cap 1..n) <= Cardinality(unreleased \cap 1..n)
    <3>1. CASE n # run
      <4>1. swallowed' \cap 1..n = swallowed \cap 1..n
        BY <1>0, <2>1, <3>1
      <4> QED BY <1>0, <4>1, LiveCounts DEF Live!Reported
    <3>2. CASE n = run
      <4>1. swallowed' \cap 1..n = swallowed' /\ unreleased \cap 1..n = unreleased
        BY <1>0, <2>1, <2>2, <3>2
      <4> QED BY <2>3, <4>1
    <3> QED BY <3>1, <3>2
  <2> QED BY <2>1, <2>4, <2>5, LiveCounts DEF Live!Reported
<1>3. CASE Live!closeEvent
  <2>1. UNCHANGED <<run, swallowed, unreleased>> /\ closed' = TRUE /\ proc'.st = "null"
    BY <1>3 DEF Live!closeEvent, Live!history, Live!Null
  <2>2. Pending' = 0
    BY <2>1 DEF Pending
  <2> QED BY <1>0, <1>a, <2>1, <2>2 DEF FlagPaid, Live!Reported
<1>4. CASE Live!Poll
  <2>1. UNCHANGED <<run, suppress, closed, swallowed, unreleased>>
    BY <1>4 DEF Live!Poll, Live!history
  <2>2. proc' = proc \/ proc' = [st |-> "null", kind |-> "none"]
    BY <1>4 DEF Live!Poll, Live!Null
  <2>3. proc' = proc \/ proc'.st = "null"
    BY <2>2
  <2> QED BY <1>0, <2>1, <2>3 DEF FlagPaid, Live!Reported, Pending
<1>5. CASE Live!LoadOther \/ Live!SetupFails \/ Live!TeeOpens \/ Live!WriteLine
              \/ Live!WriteOn \/ Live!ScriptEnds
  <2>1. UNCHANGED <<proc, run, suppress, closed, swallowed, unreleased>>
    BY <1>5, ScriptStep DEF Live!LoadOther
  <2> QED BY <1>0, <2>1 DEF FlagPaid, Live!Reported, Pending
<1> QED
  BY <1>1, <1>2, <1>3, <1>4, <1>5 DEF Live!Next

(* A script that has succeeded leaves its own lines and nobody else's.      *)
LEMMA SummaryNext == ASSUME LiveInv, Live!Next PROVE Live!SummaryOfRun'
<1>0. Live!SummaryOfRun /\ OwnLines
  BY DEF LiveInv
<1>1. CASE summary' = [total |-> Live!Total, wrote |-> Live!Wrote] /\ script = "ok"
  <2>1. {k \in Live!Counted : file.lines[k].run = run} = Live!Counted
    BY <1>0, <1>1 DEF OwnLines, Live!Counted
  <2>2. Live!Wrote = Cardinality(Live!Counted)
    BY <2>1, LiveCounts DEF Live!Wrote
  <2>3. CASE Live!Counted = {}
    <3>1. Live!Wrote = 0
      BY <2>2, <2>3, FS_EmptySet
    <3> QED BY <1>1, <3>1 DEF Live!SummaryOfRun
  <2>4. CASE Live!Counted # {}
    BY <1>1, <2>2, <2>4, LiveCounts DEF Live!Total, Live!SummaryOfRun
  <2> QED BY <2>3, <2>4
<1>2. CASE summary' = summary
  BY <1>0, <1>2 DEF Live!SummaryOfRun
<1>3. summary' = summary \/ (Live!Finished /\ script = "ok"
             /\ summary' = [total |-> Live!Total, wrote |-> Live!Wrote])
  <2>1. CASE Live!Finished
    BY <2>1 DEF Live!Finished, Live!Report
  <2>2. ASSUME NEW kind \in {"measure", "enumerate"}, Live!Launch(kind)
        PROVE  summary' = summary
    BY <2>2 DEF Live!Launch
  <2>3. CASE Live!Poll \/ Live!LoadOther \/ Live!closeEvent
    BY <2>3 DEF Live!Poll, Live!LoadOther, Live!closeEvent, Live!history
  <2> QED
    BY <2>1, <2>2, <2>3, ScriptStep DEF Live!Next
<1> QED
  BY <1>1, <1>2, <1>3

LEMMA LiveInvNext == LiveInv /\ [Live!Next]_(Live!vars) => LiveInv'
<1> SUFFICES ASSUME LiveInv, [Live!Next]_(Live!vars) PROVE LiveInv'
  OBVIOUS
<1>1. CASE Live!Next
  BY <1>1, LiveTypesNext, FileShapeNext, OwnLinesNext, TableNext, ReportsNext, SummaryNext DEF LiveInv
<1>2. CASE UNCHANGED (Live!vars)
  BY <1>2 DEF Live!vars, LiveInv, LiveTypes, FileShape, OwnLines, TableKept, FlagPaid,
              Pending, Here, Passed, Live!RowsFollowFile, Live!Parses, Live!Reading, Live!SummaryOfRun, Live!Reported, Live!Texts
<1> QED
  BY <1>1, <1>2

(* When a poll lets go of a run, the table has every line of the file.      *)
LEMMA LetGoCaughtUp ==
    ASSUME LiveInv, [Live!Next]_(Live!vars),
           proc.st = "done", proc'.st = "null", ~closed', ~touched
    PROVE  \A l \in Live!Range(file.lines) :
              Live!Parses(l) => \E r \in Live!Range(rows') : r.text = Live!Reading(l)
<1>0. LiveTypes /\ TableKept
  BY DEF LiveInv
<1>1. Live!Poll
  <2>1. ~UNCHANGED proc
    OBVIOUS
  <2>2. Live!Next
    BY <2>1 DEF Live!vars
  <2>3. ASSUME NEW kind \in {"measure", "enumerate"}, Live!Launch(kind) PROVE FALSE
    BY <2>3 DEF Live!Launch
  <2>4. ~Live!Finished /\ ~Live!LoadOther /\ ~Live!closeEvent
    BY <2>1 DEF Live!Finished, Live!LoadOther, Live!closeEvent
  <2> QED BY <2>1, <2>2, <2>3, <2>4, ScriptStep DEF Live!Next
<1>2. rows' = rows \o Live!NewRows
  BY <1>1 DEF Live!Poll
<1>3. ASSUME NEW l \in Live!Range(file.lines), Live!Parses(l)
      PROVE  \E r \in Live!Range(rows') : r.text = Live!Reading(l)
  <2>1. PICK k \in DOMAIN file.lines : l = file.lines[k]
    BY DEF Live!Range
  <2>2. k \in Live!Counted
    BY <1>3, <2>1 DEF Live!Counted
  <2>3. Live!Reading(l) \in Live!Texts(rows) \cup Live!Texts(Live!NewRows)
        /\ Live!NewRows \in Seq(Shown)
    BY <1>0, <2>1, <2>2, ScannedOnce DEF LiveTypes, TableKept
  <2> DEFINE new == Live!NewRows
             n == Len(rows)
  <2>4. /\ n \in Nat /\ DOMAIN rows = 1..n /\ DOMAIN new = 1..Len(new)
        /\ DOMAIN rows' = 1..(n + Len(new)) /\ Len(new) \in Nat
        /\ \A i \in 1..n : rows'[i] = rows[i]
        /\ \A i \in 1..Len(new) : rows'[n + i] = new[i]
    <3> HIDE DEF new
    <3> QED BY <1>0, <1>2, <2>3 DEF LiveTypes, new
  <2> HIDE DEF new, n
  <2>5. \E i \in DOMAIN rows' : rows'[i].text = Live!Reading(l)
    <3>1. CASE Live!Reading(l) \in Live!Texts(rows)
      BY <2>4, <3>1 DEF Live!Texts
    <3>2. CASE Live!Reading(l) \in Live!Texts(new)
      <4>1. PICK i \in 1..Len(new) : new[i].text = Live!Reading(l)
        BY <2>4, <3>2 DEF Live!Texts
      <4>2. n + i \in DOMAIN rows'
        BY <2>4
      <4> QED BY <2>4, <4>1, <4>2
    <3> QED BY <2>3, <3>1, <3>2 DEF new
  <2> QED BY <2>5 DEF Live!Range
<1> QED
  BY <1>3

-----------------------------------------------------------------------------
(* The table of packets.                                                    *)
LEMMA PacketCounts == \A S : Packet!Cardinality(S) = Cardinality(S)
BY DEF Packet!Cardinality, Cardinality

TableRow == Row \cup {Packet!EnumeratedRow(r) : r \in Registers}

PacketInv ==
    /\ table \in Seq(TableRow)
    /\ current \in 0..Len(table)
    /\ details = Packet!Details(table, current)
    /\ stale => hidden = {}
    /\ ~stale => /\ hidden = Packet!Hidden(table, filter)
                 /\ labels = Packet!Labels(table, hidden)

(* PacketInv is inductive.                                                  *)
LEMMA PacketInvInit == Packet!Init => PacketInv
<1> SUFFICES ASSUME Packet!Init PROVE PacketInv
  OBVIOUS
<1>1. table = <<>> /\ hidden = {} /\ current = 0 /\ details = Packet!NoDetails
      /\ labels = [total |-> 0, tx |-> 0, rx |-> 0, visible |-> 0] /\ ~stale
  BY DEF Packet!Init
<1>2. Packet!Hidden(table, filter) = {}
  BY <1>1 DEF Packet!Hidden
<1>3. Packet!With(table, "TX") = 0 /\ Packet!With(table, "RX") = 0
  <2>1. ASSUME NEW dir PROVE {k \in DOMAIN table : table[k].dir = dir} = {}
    BY <1>1
  <2> QED
    BY <2>1, FS_EmptySet, PacketCounts DEF Packet!With
<1>4. labels = Packet!Labels(table, hidden)
  BY <1>1, <1>3, FS_EmptySet, PacketCounts DEF Packet!Labels
<1>5. details = Packet!Details(table, current)
  BY <1>1 DEF Packet!Details
<1> QED
  BY <1>1, <1>2, <1>4, <1>5 DEF PacketInv

(* A function on 1..n is a sequence.                                        *)
LEMMA FunctionIsSeq ==
    ASSUME NEW S, NEW n \in Nat, NEW f \in [1..n -> S]
    PROVE  f \in Seq(S) /\ Len(f) = n
OBVIOUS

(* A refreshed display is that of its table, whatever became of the rows.   *)
LEMMA Refreshed ==
    ASSUME table' \in Seq(TableRow), NEW k \in 0..Len(table'), Packet!Refresh(k)
    PROVE  PacketInv'
<1>1. /\ hidden' = Packet!Hidden(table', filter')
      /\ current' = k /\ details' = Packet!Details(table', k)
      /\ labels' = Packet!Labels(table', hidden') /\ ~stale'
  BY DEF Packet!Refresh
<1> QED
  BY <1>1 DEF PacketInv

(* An operation that breaks off refreshes nothing, and hides nothing.       *)
LEMMA BrokenOff ==
    ASSUME table' \in Seq(TableRow), Packet!BreakOff
    PROVE  PacketInv'
<1>1. current' = 0 /\ details' = Packet!NoDetails /\ stale' /\ hidden' = {}
  BY DEF Packet!BreakOff
<1>2. details' = Packet!Details(table', current')
  BY <1>1 DEF Packet!Details
<1> QED
  BY <1>1, <1>2 DEF PacketInv

(* Sequences of rows of a file, and the rows of a device.                   *)
LEMMA SomeRows ==
    ASSUME NEW S \in SUBSET Row, NEW rs \in Packet!SeqOf(S, 2)
    PROVE  rs \in Seq(TableRow)
<1>1. PICK m \in 0..2 : rs \in [1..m -> S]
  BY DEF Packet!SeqOf
<1>2. rs \in Seq(S)
  BY <1>1
<1> QED
  BY <1>2 DEF TableRow

(* The rows of an enumeration, as far as it got.                            *)
LEMMA DeviceRows ==
    ASSUME NEW n \in 0..Enumerated, NEW d \in [1..Enumerated -> Registers]
    PROVE  /\ [k \in 1..n |-> Packet!EnumeratedRow(d[k])] \in Seq(TableRow)
           /\ Len([k \in 1..n |-> Packet!EnumeratedRow(d[k])]) = n
<1> DEFINE rs == [k \in 1..n |-> Packet!EnumeratedRow(d[k])]
<1>1. n \in Nat /\ 1..n \subseteq 1..Enumerated
  BY RowAssumption
<1>2. \A k \in 1..n : Packet!EnumeratedRow(d[k]) \in TableRow
  BY <1>1 DEF TableRow
<1>3. rs \in [1..n -> TableRow]
  BY <1>2
<1> HIDE DEF rs
<1> QED
  BY <1>1, <1>3 DEF rs

LEMMA PacketInvNext == PacketInv /\ [Packet!Next]_(Packet!vars) => PacketInv'
<1> SUFFICES ASSUME PacketInv, [Packet!Next]_(Packet!vars) PROVE PacketInv'
  OBVIOUS
<1>0. table \in Seq(TableRow) /\ Len(table) \in Nat /\ current \in 0..Len(table)
  BY DEF PacketInv
<1>1. ASSUME NEW rs \in Packet!SeqOf(Row, 2), Packet!loadCsv(rs) PROVE PacketInv'
  <2>1. table' = rs /\ table' \in Seq(TableRow)
    BY <1>1, SomeRows DEF Packet!loadCsv
  <2>2. CASE Packet!Refresh(IF rs = <<>> THEN 0 ELSE 1)
    <3> DEFINE k == IF rs = <<>> THEN 0 ELSE 1
    <3>1. k \in 0..Len(table')
      BY <2>1
    <3>2. Packet!Refresh(k)
      BY <2>2
    <3> HIDE DEF k
    <3> QED BY <2>1, <3>1, <3>2, Refreshed
  <2>3. CASE Packet!BreakOff
    BY <2>1, <2>3, BrokenOff
  <2> QED
    BY <1>1, <2>2, <2>3 DEF Packet!loadCsv
<1>2. ASSUME NEW rs \in Packet!SeqOf(Packet!Live, 2) \ {<<>>}, Packet!pollLiveTrace(rs)
      PROVE  PacketInv'
  <2>1. Packet!Live \subseteq Row
    BY DEF Packet!Live
  <2>2. rs \in Seq(TableRow)
    BY <2>1, SomeRows
  <2>3. table' = table \o rs /\ Packet!Refresh(Len(table'))
    BY <1>2 DEF Packet!pollLiveTrace
  <2>4. table' \in Seq(TableRow)
    BY <1>0, <2>2, <2>3
  <2>5. Len(table') \in 0..Len(table')
    BY <2>4
  <2> QED
    BY <2>3, <2>4, <2>5, Refreshed
<1>3. ASSUME NEW n \in 0..Enumerated, NEW d \in [1..Enumerated -> Registers],
             Packet!enumeratePciDevice(d, n)
      PROVE  PacketInv'
  <2>1. table' = [k \in 1..n |-> Packet!EnumeratedRow(d[k])]
    BY <1>3 DEF Packet!enumeratePciDevice
  <2>2. table' \in Seq(TableRow) /\ Len(table') = n
    BY <2>1, DeviceRows
  <2>3. CASE n = Enumerated
    <3>1. Packet!Refresh(1)
      BY <1>3, <2>3 DEF Packet!enumeratePciDevice
    <3>2. 1 \in 0..Len(table')
      BY <2>2, <2>3, RowAssumption
    <3> QED BY <2>2, <3>1, <3>2, Refreshed
  <2>4. CASE n # Enumerated
    <3>1. Packet!BreakOff
      BY <1>3, <2>4 DEF Packet!enumeratePciDevice
    <3> QED BY <2>2, <3>1, BrokenOff
  <2> QED
    BY <2>3, <2>4
<1>4. ASSUME NEW f \in Packet!Filters, Packet!applyFilter(f) PROVE PacketInv'
  <2>1. table' = table /\ Packet!Refresh(current)
    BY <1>4 DEF Packet!applyFilter
  <2> QED
    BY <1>0, <2>1, Refreshed
<1>5. ASSUME NEW k \in DOMAIN table \ hidden, Packet!Select(k) PROVE PacketInv'
  <2>1. /\ current' = k /\ details' = Packet!Details(table, k)
        /\ UNCHANGED <<table, hidden, filter, labels, stale>>
    BY <1>5 DEF Packet!Select
  <2>2. k \in 0..Len(table)
    BY <1>0
  <2> QED
    BY <2>1, <2>2 DEF PacketInv
<1>6. CASE Packet!enumerateTopology
  <2>1. table' = <<>> /\ Packet!BreakOff
    BY <1>6 DEF Packet!enumerateTopology
  <2> QED
    BY <2>1, BrokenOff
<1>7. CASE UNCHANGED (Packet!vars)
  BY <1>7 DEF Packet!vars, PacketInv
<1> QED
  BY <1>1, <1>2, <1>3, <1>4, <1>5, <1>6, <1>7 DEF Packet!Next

(* The counts of a refreshed table.                                         *)
LEMMA CountsAgree ==
    ASSUME NEW rs \in Seq(TableRow), NEW hid \in SUBSET (DOMAIN rs)
    PROVE  /\ Packet!With(rs, "TX") + Packet!With(rs, "RX") <= Len(rs)
           /\ Len(rs) - Cardinality(hid) = Cardinality(DOMAIN rs \ hid)
<1> DEFINE all == DOMAIN rs
           tx == {k \in all : rs[k].dir = "TX"}
           rx == {k \in all : rs[k].dir = "RX"}
<1>1. all = 1..Len(rs) /\ Len(rs) \in Nat
  OBVIOUS
<1>2. IsFiniteSet(all) /\ Cardinality(all) = Len(rs)
  <2>1. IsFiniteSet(1..Len(rs)) /\ Cardinality(1..Len(rs)) = Len(rs)
    <3> DEFINE n == Len(rs)
    <3>1. n \in Nat
      BY <1>1
    <3> HIDE DEF n, all
    <3>2. IsFiniteSet(1..n) /\ Cardinality(1..n) = n
      BY <3>1, FS_Interval
    <3> QED BY <3>2 DEF n
  <2> HIDE DEF all
  <2> QED BY <1>1, <2>1
<1>3. tx \subseteq all /\ rx \subseteq all /\ tx \cap rx = {} /\ hid \subseteq all
  OBVIOUS
<1>4. Packet!With(rs, "TX") = Cardinality(tx) /\ Packet!With(rs, "RX") = Cardinality(rx)
  BY PacketCounts DEF Packet!With
<1> HIDE DEF all, tx, rx
<1>5. IsFiniteSet(tx) /\ IsFiniteSet(rx) /\ tx \cup rx \subseteq all
  BY <1>2, <1>3, FS_Subset
<1>6. Cardinality(tx \cup rx) <= Cardinality(all) /\ IsFiniteSet(tx \cup rx)
  BY <1>2, <1>5, FS_Subset
<1>7. /\ Cardinality(tx) \in Nat /\ Cardinality(rx) \in Nat
      /\ Cardinality(tx \cup rx) \in Nat
  BY <1>5, <1>6, FS_CardinalityType
<1>8. Cardinality(tx \cup rx) = Cardinality(tx) + Cardinality(rx) - Cardinality(tx \cap rx)
  BY <1>5, FS_Union
<1>9. Cardinality(tx) + Cardinality(rx) <= Len(rs)
  <2>1. Cardinality(tx \cap rx) = 0
    BY <1>3, FS_EmptySet
  <2> QED BY <1>1, <1>2, <1>6, <1>7, <1>8, <2>1
<1>10. Cardinality(all \ hid) = Cardinality(all) - Cardinality(all \cap hid)
  BY <1>2, FS_Difference
<1>11. all \cap hid = hid
  BY <1>3
<1>12. Len(rs) - Cardinality(hid) = Cardinality(all \ hid)
  BY <1>2, <1>10, <1>11
<1> QED
  BY <1>4, <1>9, <1>12 DEF all

(* What is on display follows.                                              *)
LEMMA DisplayFollows == PacketInv => Packet!DisplayTrue
<1> SUFFICES ASSUME PacketInv PROVE Packet!DisplayTrue
  OBVIOUS
<1>0. table \in Seq(TableRow) /\ current \in 0..Len(table)
  BY DEF PacketInv
<1>1. Packet!FilterHolds
  <2>1. ASSUME NEW k \in DOMAIN table
        PROVE  Packet!Rejected(k) <=> ~Packet!Matches(table[k], filter)
    BY Zenon DEF Packet!Rejected, Packet!Matches
  <2>2. CASE stale
    BY <2>2 DEF PacketInv, Packet!FilterHolds
  <2>3. CASE ~stale
    <3>1. hidden = {k \in DOMAIN table : ~Packet!Matches(table[k], filter)}
      BY <2>3 DEF PacketInv, Packet!Hidden
    <3> QED BY <2>1, <3>1 DEF Packet!FilterHolds
  <2> QED
    BY <2>2, <2>3
<1>2. Packet!CountsTrue
  <2> SUFFICES ASSUME ~stale
               PROVE  /\ labels.total = Len(table)
                      /\ labels.visible = Cardinality(DOMAIN table \ hidden)
                      /\ labels.tx + labels.rx <= labels.total
    BY PacketCounts DEF Packet!CountsTrue
  <2>1. hidden \in SUBSET (DOMAIN table)
    BY DEF PacketInv, Packet!Hidden
  <2>2. labels = Packet!Labels(table, hidden)
    BY DEF PacketInv
  <2>3. labels = [total |-> Len(table), tx |-> Packet!With(table, "TX"),
                  rx |-> Packet!With(table, "RX"),
                  visible |-> Len(table) - Cardinality(hidden)]
    BY <2>2, PacketCounts DEF Packet!Labels
  <2> QED
    BY <1>0, <2>1, <2>3, CountsAgree
<1>3. Packet!PacketShown
  <2> SUFFICES ASSUME current # 0, table[current].origin = "device"
               PROVE  details.register = table[current].value
    BY DEF Packet!PacketShown, PacketInv
  <2>1. table[current] \in TableRow
    BY <1>0
  <2>2. PICK v \in Registers : table[current] = Packet!EnumeratedRow(v)
    BY <2>1, RowAssumption DEF TableRow
  <2> DEFINE row == table[current]
  <2>3. row.type = "CfgRd" /\ row.origin = "device" /\ row.value = v
    BY <2>2 DEF Packet!EnumeratedRow
  <2>4. v \in [1..4 -> 0..255]
    BY RowAssumption
  <2>5. v \in Seq(0..255) /\ Len(v) = 4
    <3> DEFINE four == 4
               Byte == 0..255
    <3>1. four \in Nat /\ v \in [1..four -> Byte]
      BY <2>4
    <3> HIDE DEF four, Byte
    <3>2. v \in Seq(Byte) /\ Len(v) = four
      BY <3>1, FunctionIsSeq
    <3> QED BY <3>2 DEF four, Byte
  <2>6. Packet!Bytes(row) = v
    BY <2>3 DEF Packet!Bytes
  <2>7. Packet!Register(v) = v
    BY <2>4, <2>5 DEF Packet!Register
  <2>8. details = Packet!Details(table, current)
    BY DEF PacketInv
  <2>9. details.register = v
    BY <2>3, <2>5, <2>6, <2>7, <2>8 DEF Packet!Details
  <2> QED
    BY <2>3, <2>9
<1> QED
  BY <1>1, <1>2, <1>3 DEF Packet!DisplayTrue

-----------------------------------------------------------------------------
(* The files.                                                               *)

(* loadCsv reads the lines of a file one after the other.                   *)
Rows(k) == File!RowsRead[k]
Next1(r, k) == IF File!Reads(saved.lines[k])
               THEN Append(r, File!RowOf(saved.lines[k])) ELSE r

(* The recursive function RowsRead, and that its values are sequences.      *)
LEMMA RowsReadAre ==
    ASSUME Len(saved.lines) \in Nat
    PROVE  /\ Rows(0) = <<>>
           /\ \A k \in 1..Len(saved.lines) : Rows(k) = Next1(Rows(k - 1), k)
           /\ \E X : \A k \in 0..Len(saved.lines) : Rows(k) \in Seq(X)
<1> DEFINE N == Len(saved.lines)
           X == {File!RowOf(saved.lines[k]) : k \in Nat}
           S == Seq(X)
           step == [x \in S \X Nat |-> Next1(x[1], x[2])]
<1>1. \A k \in Nat : File!RowOf(saved.lines[k]) \in X
  OBVIOUS
<1>2. \A r \in S : \A k \in Nat : Next1(r, k) \in S
  <2> HIDE DEF X
  <2> QED BY <1>1 DEF Next1
<1>3. <<>> \in S /\ N \in Nat
  OBVIOUS
<1>4. \E f \in [0..N -> S] : Follows(f, <<>>, step, N)
  <2>1. step \in [S \X Nat -> S]
    <3> HIDE DEF S
    <3> QED BY <1>2
  <2> HIDE DEF step, S, N
  <2> QED BY <2>1, <1>3, RecursiveFunction
<1> DEFINE Solves(f) == f = [k \in 0..N |-> IF k = 0 THEN <<>>
                ELSE IF File!Reads(saved.lines[k])
                     THEN Append(f[k - 1], File!RowOf(saved.lines[k]))
                ELSE f[k - 1]]
<1>5. \E f : Solves(f)
  <2>1. PICK f \in [0..N -> S] : Follows(f, <<>>, step, N)
     BY <1>4
  <2> DEFINE g == [k \in 0..N |-> IF k = 0 THEN <<>>
                ELSE IF File!Reads(saved.lines[k])
                     THEN Append(f[k - 1], File!RowOf(saved.lines[k]))
                ELSE f[k - 1]]
  <2>2. ASSUME NEW k \in 0..N PROVE f[k] = g[k]
    <3>1. CASE k = 0
      BY <2>1, <3>1 DEF Follows
    <3>2. CASE k # 0
      <4>1. k \in 1..N /\ k - 1 \in 0..N
        BY <1>3, <3>2
      <4>2. f[k - 1] \in S
        <5> HIDE DEF S, N
        <5> QED BY <4>1, <2>1
      <4>3. f[k] = step[<<f[k - 1], k>>]
        <5> HIDE DEF step, N
        <5> QED BY <2>1, <4>1 DEF Follows
      <4>4. <<f[k - 1], k>> \in S \X Nat
        BY <4>1, <4>2
      <4>5. f[k] = Next1(f[k - 1], k)
        <5> HIDE DEF S, N
        <5> QED BY <4>3, <4>4
      <4> QED BY <4>5, <3>2 DEF Next1
    <3> QED BY <3>1, <3>2
  <2>3. DOMAIN g = 0..N /\ g = [k \in 0..N |-> g[k]]
    OBVIOUS
  <2>4. f = g
    <3> HIDE DEF g, S, N
    <3> QED BY <2>2, <2>3, Extensional
  <2>5. Solves(f)
    BY <2>4, Zenon
  <2> HIDE DEF Solves
  <2> QED BY <2>5
<1>6. File!RowsRead = CHOOSE f : Solves(f)
  BY DEF File!RowsRead
<1>7. Solves(File!RowsRead)
  <2> HIDE DEF Solves
  <2> QED BY <1>5, <1>6
<1>8. Rows(0) = <<>> /\ \A k \in 1..N : Rows(k) = Next1(Rows(k - 1), k)
  <2> DEFINE h == File!RowsRead
             g == [k \in 0..N |-> IF k = 0 THEN <<>>
                ELSE IF File!Reads(saved.lines[k])
                     THEN Append(h[k - 1], File!RowOf(saved.lines[k]))
                ELSE h[k - 1]]
  <2>1. h = g
    BY <1>7, Zenon
  <2>2. g[0] = <<>> /\ \A k \in 1..N : g[k] = Next1(h[k - 1], k)
    <3> HIDE DEF h
    <3> QED BY <1>3 DEF Next1
  <2>3. h[0] = <<>> /\ \A k \in 1..N : h[k] = Next1(h[k - 1], k)
    <3> HIDE DEF g, h, N
    <3> QED BY <2>1, <2>2
  <2> QED BY <2>3 DEF Rows
<1> DEFINE T == {k \in 0..N : Rows(k) \in S}
<1>9. \A k \in 0..N : k \in T
  <2>1. 0 \in T
    <3> HIDE DEF S
    <3> QED BY <1>3, <1>8
  <2>2. ASSUME NEW k \in 0..(N - 1), k \in T PROVE k + 1 \in T
    <3>1. k + 1 \in 1..N /\ (k + 1) - 1 = k /\ k + 1 \in Nat
      BY <1>3
    <3>2. Rows(k) \in S
      BY <2>2
    <3>3. Rows(k + 1) = Next1(Rows(k), k + 1)
      <4> HIDE DEF S, N
      <4> QED BY <1>8, <3>1
    <3>4. Rows(k + 1) \in S
      <4> HIDE DEF S
      <4> QED BY <1>2, <3>1, <3>2, <3>3
    <3> QED BY <3>1, <3>4
  <2> HIDE DEF T, N
  <2> QED BY <1>3, <2>1, <2>2, RangeInduction
<1>10. \A k \in 0..N : Rows(k) \in Seq(X)
  BY <1>9
<1> HIDE DEF X, N
<1> QED BY <1>8, <1>10 DEF N

(* A payload is printed up to its first zero byte.                          *)
LEMMA PrintedIs ==
    ASSUME NEW p \in Seq(0..255)
    PROVE  File!Printed(p) \in Seq(0..255)
<1> DEFINE zeros == {k \in DOMAIN p : p[k] = 0}
           Byte == 0..255
<1>1. CASE zeros = {}
  BY <1>1 DEF File!Printed
<1>2. CASE zeros # {}
  <2>1. zeros \subseteq Nat
    OBVIOUS
  <2>2. \E n \in zeros : \A m \in zeros : n <= m
    <3> HIDE DEF zeros
    <3> QED BY <1>2, <2>1, LeastNat
  <2>3. File!Min(zeros) \in zeros
    <3> HIDE DEF zeros
    <3> QED BY <2>2 DEF File!Min
  <2>4. File!Printed(p) = SubSeq(p, 1, File!Min(zeros) - 1)
    BY <1>2 DEF File!Printed
  <2> DEFINE n == File!Min(zeros) - 1
  <2>5. n \in 0..Len(p) /\ p \in Seq(Byte)
    <3>1. File!Min(zeros) \in 1..Len(p)
      BY <2>3
    <3> QED BY <3>1
  <2>6. SubSeq(p, 1, n) \in Seq(Byte)
    <3> HIDE DEF n, Byte
    <3>1. \A i \in 1..n : p[i] \in Byte
      BY <2>5
    <3> QED BY <2>5, <3>1, SubSeqProperties
  <2> QED BY <2>4, <2>6
<1> QED BY <1>1, <1>2

(* The line of a record shows as the record does.                           *)
LEMMA WholeLine ==
    ASSUME NEW r \in Record
    PROVE  LET line == File!CsvLine(r) IN
           /\ File!Complete(line) /\ File!CsvRow(line) = File!Shown(r)
           /\ line.kind = "csv" /\ line.dir = r.direction
           /\ line.payload = File!Printed(r.payload)
           /\ line.payload \in Seq(0..255)
<1>1. File!Printed(r.payload) \in Seq(0..255)
  BY RecordAssumption, PrintedIs
<1> QED
  BY <1>1 DEF File!CsvLine, File!Complete, File!CsvRow, File!Shown

(* Where the disk was full: a line that is complete has all of the record   *)
(* but some of the payload.                                                 *)
LEMMA CutLine ==
    ASSUME NEW r \in Record, NEW cut0 \in File!Cuts(File!CsvLine(r))
    PROVE  /\ cut0.kind = "csv" /\ cut0.dir = r.direction
           /\ File!CsvRow(cut0).dir = r.direction
           /\ File!Complete(cut0) =>
                 /\ File!Counted(cut0)
                 /\ [File!CsvRow(cut0) EXCEPT !.payload = <<>>]
                       = [File!Shown(r) EXCEPT !.payload = <<>>]
                 /\ File!IsPrefix(File!CsvRow(cut0).payload, File!Printed(r.payload))
<1> DEFINE line == File!CsvLine(r)
           p == line.payload
           S == 0..255
<1>1. /\ line = [kind |-> "csv", fields |-> 9, dir |-> r.direction, type |-> r.type,
                 payload |-> p]
      /\ p = File!Printed(r.payload) /\ p \in Seq(S)
  BY WholeLine DEF File!CsvLine
<1>2. \/ \E f \in {2, 8} : cut0 = [line EXCEPT !.fields = f, !.payload = <<>>]
      \/ \E m \in 0..Len(p) : cut0 = [line EXCEPT !.payload = SubSeq(p, 1, m)]
  BY DEF File!Cuts
<1>3. CASE \E f \in {2, 8} : cut0 = [line EXCEPT !.fields = f, !.payload = <<>>]
  <2>1. PICK f \in {2, 8} : cut0 = [line EXCEPT !.fields = f, !.payload = <<>>]
    BY <1>3
  <2> HIDE DEF line, p
  <2>2. cut0.kind = "csv" /\ cut0.fields = f /\ cut0.dir = r.direction
    BY <1>1, <2>1
  <2> QED BY <2>2 DEF File!Complete, File!CsvRow
<1>4. CASE \E m \in 0..Len(p) : cut0 = [line EXCEPT !.payload = SubSeq(p, 1, m)]
  <2>1. PICK m \in 0..Len(p) : cut0 = [line EXCEPT !.payload = SubSeq(p, 1, m)]
    BY <1>4
  <2> DEFINE q == SubSeq(p, 1, m)
  <2> HIDE DEF line, p, S
  <2>2. /\ cut0.kind = "csv" /\ cut0.fields = 9 /\ cut0.dir = r.direction
        /\ cut0.type = r.type /\ cut0.payload = q
    BY <1>1, <2>1
  <2>3. q \in Seq(S) /\ Len(q) = m /\ m \in Nat /\ m <= Len(p)
    <3>1. Len(p) \in Nat /\ m \in Nat /\ m <= Len(p) /\ \A i \in 1..m : p[i] \in S
      BY <1>1
    <3> QED BY <3>1, SubSeqProperties
  <2>4. File!IsPrefix(q, p)
    <3>1. SubSeq(q, 1, Len(q)) = q
      BY <2>3, SubSeqFull
    <3> QED BY <2>3, <3>1 DEF File!IsPrefix
  <2> HIDE DEF q
  <2> QED
    BY <1>1, <2>2, <2>4 DEF File!Complete, File!CsvRow, File!Shown, File!Counted
<1> QED BY <1>2, <1>3, <1>4

(* The file of an emulator's trace, line by line and as a whole.            *)
LEMMA RawLines ==
    ASSUME NEW row \in LiveRow
    PROVE  LET line == File!RawLine(row) IN
           File!Parses(line) /\ File!RawRow(line) = row
<1> DEFINE bytes == row.payload
<1>1. row \in {[dir |-> "TX", type |-> "CfgWr", ids |-> "bdf", payload |-> bytes],
               [dir |-> "RX", type |-> "CfgRd", ids |-> "bdf", payload |-> bytes]}
  BY RecordAssumption
<1>2. CASE row = [dir |-> "TX", type |-> "CfgWr", ids |-> "bdf", payload |-> bytes]
  <2> HIDE DEF bytes
  <2> QED BY <1>2 DEF File!RawLine, File!Parses, File!RawRow, File!Op
<1>3. CASE row = [dir |-> "RX", type |-> "CfgRd", ids |-> "bdf", payload |-> bytes]
  <2> HIDE DEF bytes
  <2> QED BY <1>3 DEF File!RawLine, File!Parses, File!RawRow, File!Op
<1> QED BY <1>1, <1>2, <1>3

(* What is kept of a file: a CSV file has the header and a line a record,   *)
(* the last of them perhaps cut; a saved one a line a row.                  *)
SomeSeq(s) == \E X : s \in Seq(X)

CsvShape(lines, of, whole) ==
    /\ SomeSeq(lines) /\ of \in Seq(Record)
    /\ Len(lines) <= Len(of) + 1
    /\ whole => Len(lines) = Len(of) + 1
    /\ Len(lines) > 0 => lines[1] = File!Header
    /\ \A k \in 2..Len(lines) :
          \/ lines[k] = File!CsvLine(of[k - 1])
          \/ /\ ~whole /\ k = Len(lines)
             /\ lines[k] \in File!Cuts(File!CsvLine(of[k - 1]))

RawShape(lines, of) ==
    SomeSeq(of) /\ lines = [k \in DOMAIN of |-> File!RawLine(of[k])]

(* The rows are as many as the complete lines below the header.             *)
RowCount == LET n == Len(saved.lines) IN
    Len(loadedRows) = IF n = 0 THEN 0
                      ELSE IF n = 1 \/ File!Complete(saved.lines[n]) THEN n - 1
                      ELSE n - 2

FileInv ==
    /\ records \in Seq(Record) /\ SomeSeq(loadedRows)
    /\ saved.kind \in {"none", "csv", "pcap", "raw"}
    /\ saved.kind \in {"none", "pcap"} => saved.lines = <<>>
    /\ saved.kind = "csv" => CsvShape(saved.lines, saved.of, saved.whole)
    /\ saved.kind = "raw" => RawShape(saved.lines, saved.of)
    /\ loaded /\ saved.kind = "csv" => RowCount
    /\ File!CsvReloaded /\ File!RawReplayed
    /\ shark # File!None => shark.tx = File!With("TX") /\ shark.rx = File!With("RX")

(* The lines of a file are counted.                                         *)
LEMMA LinesCount ==
    FileInv => SomeSeq(saved.lines) /\ Len(saved.lines) \in Nat
<1> SUFFICES ASSUME FileInv PROVE SomeSeq(saved.lines)
  BY DEF SomeSeq
<1>1. CASE saved.kind = "raw"
  <2>1. SomeSeq(saved.of) /\ saved.lines = [k \in DOMAIN saved.of |-> File!RawLine(saved.of[k])]
    BY <1>1 DEF FileInv, RawShape
  <2>2. PICK X : saved.of \in Seq(X)
    BY <2>1 DEF SomeSeq
  <2> DEFINE Y == {File!RawLine(x) : x \in X}
             n == Len(saved.of)
  <2>3. n \in Nat /\ DOMAIN saved.of = 1..n /\ \A k \in 1..n : saved.of[k] \in X
    BY <2>2
  <2>4. saved.lines \in [1..n -> Y]
    <3> HIDE DEF n
    <3> QED BY <2>1, <2>3
  <2> HIDE DEF n, Y
  <2>5. saved.lines \in Seq(Y)
    BY <2>3, <2>4, FunctionIsSeq
  <2> QED BY <2>5 DEF SomeSeq
<1>2. CASE saved.kind = "csv"
  BY <1>2 DEF FileInv, CsvShape
<1>3. CASE saved.kind \in {"none", "pcap"}
  <2>1. saved.lines = <<>>
    BY <1>3 DEF FileInv
  <2>2. <<>> \in Seq({})
    OBVIOUS
  <2> QED BY <2>1, <2>2 DEF SomeSeq
<1> QED BY <1>1, <1>2, <1>3 DEF FileInv

(* FileInv is inductive: first what the load makes of each kind of file.    *)
LEMMA FileInvInit == File!Init => FileInv
<1> SUFFICES ASSUME File!Init PROVE FileInv
  OBVIOUS
<1>1. /\ records = <<>> /\ loadedRows = <<>> /\ ~loaded /\ shark = File!None
      /\ saved.kind = "none" /\ saved.lines = <<>>
  BY DEF File!Init, File!NoFile
<1>2. <<>> \in Seq(Record) /\ SomeSeq(<<>>)
  <2>1. <<>> \in Seq({})
    OBVIOUS
  <2> QED BY <2>1 DEF SomeSeq
<1> QED
  BY <1>1, <1>2 DEF FileInv, File!CsvReloaded, File!RawReplayed

(* A row of a complete line, and what the header is.                        *)
LEMMA HeaderLine ==
    /\ ~File!Complete(File!Header) /\ File!Header.kind = "header"
BY DEF File!Header, File!Complete

(* A file that begins with the header is read as CSV.                       *)
LEMMA CsvIsRead ==
    ASSUME FileInv, saved.kind = "csv", Len(saved.lines) > 0
    PROVE  \A k \in 1..Len(saved.lines) :
              /\ File!Reads(saved.lines[k]) = File!Complete(saved.lines[k])
              /\ File!RowOf(saved.lines[k]) = File!CsvRow(saved.lines[k])
<1>1. SomeSeq(saved.lines) /\ saved.lines[1] = File!Header /\ Len(saved.lines) \in Nat
  BY LinesCount DEF FileInv, CsvShape
<1>2. 1 \in DOMAIN saved.lines
  BY <1>1 DEF SomeSeq
<1>3. File!IsCsv
  BY <1>1, <1>2 DEF File!IsCsv, File!ToSet
<1> QED BY <1>3 DEF File!Reads, File!RowOf

(* The rows of the lines that are surely whole.                             *)
Good(k) == /\ Len(Rows(k)) = IF k = 0 THEN 0 ELSE k - 1
           /\ \A j \in 1..Len(Rows(k)) : Rows(k)[j] = File!Shown(saved.of[j])

(* Before the last line every line is whole, and a row.                     *)
LEMMA WholeRows ==
    ASSUME FileInv, saved.kind = "csv", Len(saved.lines) > 0
    PROVE  \A k \in 0..(Len(saved.lines) - 1) : Good(k)
<1> DEFINE n == Len(saved.lines)
           T == {k \in 0..(n - 1) : Good(k)}
<1>1. n \in Nat /\ n - 1 \in Nat
  BY LinesCount
<1>2. /\ Rows(0) = <<>> /\ \A k \in 1..n : Rows(k) = Next1(Rows(k - 1), k)
      /\ \E X : \A k \in 0..n : Rows(k) \in Seq(X)
  BY <1>1, RowsReadAre
<1>3. 0 \in T
  <2>1. Len(Rows(0)) = 0
    BY <1>2
  <2> QED BY <1>1, <2>1 DEF Good
<1>4. ASSUME NEW k \in 0..((n - 1) - 1), k \in T PROVE k + 1 \in T
  <2>1. k + 1 \in 1..n /\ (k + 1) - 1 = k /\ k \in Nat /\ k + 1 \in 0..(n - 1)
    BY <1>1
  <2>2. Rows(k + 1) = Next1(Rows(k), k + 1)
    <3> HIDE DEF n
    <3> QED BY <1>2, <2>1
  <2>3. PICK X : Rows(k) \in Seq(X)
    <3>1. k \in 0..n
      BY <1>1
    <3> HIDE DEF n
    <3> QED BY <1>2, <3>1
  <2>4. Good(k)
    BY <1>4
  <2>5. CASE k = 0
    <3>1. saved.lines[1] = File!Header
      BY DEF FileInv, CsvShape
    <3>2. ~File!Reads(saved.lines[1])
      BY <3>1, <2>1, <2>5, CsvIsRead, HeaderLine
    <3>3. Rows(1) = <<>>
      BY <1>2, <2>2, <2>5, <3>2 DEF Next1
    <3>4. Good(1)
      BY <3>3 DEF Good
    <3> QED BY <2>1, <2>5, <3>4
  <2>6. CASE k # 0
    <3>1. k \in 1..Len(saved.of) /\ saved.of[k] \in Record
          /\ saved.lines[k + 1] = File!CsvLine(saved.of[k])
      <4>1. CsvShape(saved.lines, saved.of, saved.whole)
        BY DEF FileInv
      <4>2. k + 1 \in 2..n /\ k + 1 # n /\ k \in 1..Len(saved.of)
        BY <1>1, <2>1, <2>6, <4>1 DEF CsvShape
      <4> QED BY <2>1, <4>1, <4>2 DEF CsvShape
    <3>2. /\ File!Reads(saved.lines[k + 1])
          /\ File!RowOf(saved.lines[k + 1]) = File!Shown(saved.of[k])
      BY <2>1, <3>1, CsvIsRead, WholeLine
    <3> DEFINE rs == Rows(k)
               row == File!Shown(saved.of[k])
    <3>3. Rows(k + 1) = Append(rs, row)
      BY <2>2, <3>2 DEF Next1
    <3>4. rs \in Seq(X) /\ Len(rs) = k - 1
      BY <2>3, <2>4, <2>6 DEF Good
    <3>5. /\ Len(Append(rs, row)) = k
          /\ \A j \in 1..k : Append(rs, row)[j] = IF j = k THEN row ELSE rs[j]
      <4> HIDE DEF rs, row
      <4> QED BY <2>1, <2>6, <3>4
    <3>6. \A j \in 1..k : j # k => rs[j] = File!Shown(saved.of[j])
      BY <2>1, <2>4, <3>4 DEF Good
    <3>7. Good(k + 1)
      <4> HIDE DEF rs
      <4> QED BY <2>1, <3>3, <3>5, <3>6 DEF Good
    <3> QED BY <2>1, <3>7
  <2> QED BY <2>5, <2>6
<1>5. \A k \in 0..(n - 1) : k \in T
  <2> HIDE DEF T, n
  <2> QED BY <1>1, <1>3, <1>4, RangeInduction
<1> QED BY <1>5

(* A row that is shown for a record: all of it, or of its payload a part.   *)
Fits(row, r) == /\ [row EXCEPT !.payload = <<>>] = [File!Shown(r) EXCEPT !.payload = <<>>]
                /\ File!IsPrefix(row.payload, File!Printed(r.payload))

(* A record as it is shown fits itself.                                     *)
LEMMA ShownFits == ASSUME NEW r \in Record PROVE Fits(File!Shown(r), r)
<1> DEFINE p == File!Printed(r.payload)
           S == 0..255
<1>1. p \in Seq(S)
  BY WholeLine
<1>2. File!Shown(r).payload = p
  BY DEF File!Shown
<1>3. File!IsPrefix(p, p)
  <2>1. Len(p) \in Nat
    BY <1>1
  <2> HIDE DEF p
  <2> QED BY <2>1 DEF File!IsPrefix
<1> QED BY <1>2, <1>3 DEF Fits

(* What loading a CSV file makes of it.                                     *)
Loads(rs) == LET n == Len(saved.lines) IN
    /\ Len(rs) = IF n = 0 THEN 0
                 ELSE IF n = 1 \/ File!Complete(saved.lines[n]) THEN n - 1 ELSE n - 2
    /\ Len(rs) <= Len(saved.of)
    /\ saved.whole => Len(rs) = Len(saved.of)
    /\ \A k \in 1..Len(rs) : /\ Fits(rs[k], saved.of[k])
                             /\ rs[k] = File!Shown(saved.of[k]) \/ (~saved.whole /\ k = Len(rs))

(* So the load of a CSV file gives the records' rows, the last perhaps cut. *)
LEMMA CsvLoads ==
    ASSUME FileInv, saved.kind = "csv"
    PROVE  Loads(Rows(Len(saved.lines)))
<1> DEFINE n == Len(saved.lines)
           m == Len(saved.of)
<1>0. CsvShape(saved.lines, saved.of, saved.whole)
  BY DEF FileInv
<1>1. n \in Nat /\ m \in Nat /\ n <= m + 1 /\ (saved.whole => n = m + 1)
  BY LinesCount, <1>0 DEF CsvShape
<1>2. /\ Rows(0) = <<>> /\ \A k \in 1..n : Rows(k) = Next1(Rows(k - 1), k)
      /\ \E X : \A k \in 0..n : Rows(k) \in Seq(X)
  BY <1>1, RowsReadAre
<1>3. CASE n = 0
  BY <1>1, <1>2, <1>3 DEF Loads
<1>4. CASE n = 1
  <2>1. ~File!Reads(saved.lines[1])
    BY <1>0, <1>4, CsvIsRead, HeaderLine DEF CsvShape
  <2>2. Rows(1) = <<>>
    <3>1. Rows(1) = Next1(Rows(0), 1)
      BY <1>2, <1>4
    <3> QED BY <1>2, <2>1, <3>1 DEF Next1
  <2> QED BY <1>1, <1>4, <2>2 DEF Loads
<1>5. CASE n > 1
  <2> DEFINE k == n - 1
             r == saved.of[k]
             rs == Rows(k)
             line == saved.lines[n]
  <2>1. k \in 1..m /\ k \in 0..n /\ n \in 1..n /\ n \in 2..n /\ k # 0 /\ n # 1 /\ k \in Nat
    <3> HIDE DEF n, m
    <3> QED BY <1>1, <1>5
  <2>2. r \in Record /\ \A j \in 1..k : saved.of[j] \in Record
    <3>1. saved.of \in Seq(Record)
      BY <1>0 DEF CsvShape
    <3> QED BY <1>1, <2>1, <3>1
  <2>3. PICK X : rs \in Seq(X)
    <3> HIDE DEF n
    <3> QED BY <1>2, <2>1
  <2>4. Len(rs) = k - 1 /\ \A j \in 1..(k - 1) : rs[j] = File!Shown(saved.of[j])
    <3>1. Good(k)
      BY <1>1, <1>5, WholeRows
    <3> QED BY <2>1, <3>1 DEF Good
  <2>5. Rows(n) = IF File!Complete(line) THEN Append(rs, File!CsvRow(line)) ELSE rs
    <3>1. Rows(n) = Next1(rs, n)
      BY <1>2, <2>1
    <3> QED BY <1>5, <2>1, <3>1, CsvIsRead DEF Next1
  <2>6. \/ line = File!CsvLine(r)
        \/ ~saved.whole /\ line \in File!Cuts(File!CsvLine(r))
    BY <1>0, <2>1 DEF CsvShape
  <2>7. \A j \in 1..(k - 1) : Fits(rs[j], saved.of[j])
    BY <2>1, <2>2, <2>4, ShownFits
  <2>8. CASE File!Complete(line)
    <3> DEFINE row == File!CsvRow(line)
    <3>1. Fits(row, r) /\ (row = File!Shown(r) \/ ~saved.whole)
      BY <2>2, <2>6, <2>8, WholeLine, CutLine, ShownFits DEF Fits
    <3>2. /\ Len(Append(rs, row)) = k
          /\ \A j \in 1..k : Append(rs, row)[j] = IF j = k THEN row ELSE rs[j]
      <4> HIDE DEF rs, row, k
      <4> QED BY <2>1, <2>3, <2>4
    <3> DEFINE all == Append(rs, row)
    <3>3. \A j \in 1..k : /\ Fits(all[j], saved.of[j])
                          /\ all[j] = File!Shown(saved.of[j]) \/ (~saved.whole /\ j = k)
      <4> SUFFICES ASSUME NEW j \in 1..k
                   PROVE  /\ Fits(all[j], saved.of[j])
                          /\ all[j] = File!Shown(saved.of[j]) \/ (~saved.whole /\ j = k)
        OBVIOUS
      <4>1. CASE j = k
        <5>1. all[j] = row
          BY <3>2, <4>1
        <5> HIDE DEF all, row
        <5> QED BY <3>1, <4>1, <5>1
      <4>2. CASE j # k
        <5>1. all[j] = rs[j]
          BY <3>2, <4>2
        <5>2. j \in 1..(k - 1)
          BY <2>1, <4>2
        <5> HIDE DEF all, rs, k
        <5> QED BY <2>4, <2>7, <5>1, <5>2
      <4> QED BY <4>1, <4>2
    <3>4. Rows(n) = all /\ Len(all) = n - 1
      BY <2>5, <2>8, <3>2
    <3>5. k <= m /\ (saved.whole => k = m)
      BY <1>1, <2>1
    <3> HIDE DEF all
    <3> QED BY <1>1, <1>5, <2>8, <3>3, <3>4, <3>5 DEF Loads
  <2>9. CASE ~File!Complete(line)
    <3>1. ~saved.whole
      BY <2>2, <2>6, <2>9, WholeLine
    <3>2. Rows(n) = rs /\ Len(rs) = n - 2 /\ n - 2 <= m
      BY <1>1, <2>4, <2>5, <2>9
    <3>3. k - 1 = n - 2
      BY <1>1
    <3>4. \A j \in 1..Len(rs) : rs[j] = File!Shown(saved.of[j]) /\ Fits(rs[j], saved.of[j])
      BY <2>4, <2>7, <3>2, <3>3
    <3>5. Len(rs) = IF n = 0 THEN 0
                    ELSE IF n = 1 \/ File!Complete(line) THEN n - 1 ELSE n - 2
      BY <1>5, <2>1, <2>9, <3>2
    <3> HIDE DEF rs
    <3> QED BY <3>1, <3>2, <3>4, <3>5 DEF Loads
  <2> QED BY <2>8, <2>9
<1>6. n = 0 \/ n = 1 \/ n > 1
  <2> HIDE DEF n, m
  <2> QED BY <1>1
<1> QED BY <1>3, <1>4, <1>5, <1>6, Zenon

(* What loading a saved trace makes of it.                                  *)
LEMMA RawLoads ==
    ASSUME FileInv, saved.kind = "raw", File!ToSet(saved.of) \subseteq LiveRow
    PROVE  Rows(Len(saved.lines)) = saved.of
<1> DEFINE n == Len(saved.lines)
           T == {k \in 0..n : /\ Len(Rows(k)) = k
                              /\ \A j \in 1..k : Rows(k)[j] = saved.of[j]}
<1>0. SomeSeq(saved.of) /\ saved.lines = [k \in DOMAIN saved.of |-> File!RawLine(saved.of[k])]
  BY DEF FileInv, RawShape
<1>1. PICK Y : saved.of \in Seq(Y)
  BY <1>0 DEF SomeSeq
<1>2. n \in Nat /\ n = Len(saved.of) /\ DOMAIN saved.of = 1..n
  <2>1. SomeSeq(saved.lines) /\ n \in Nat
    BY LinesCount
  <2>2. DOMAIN saved.lines = 1..n
    BY <2>1 DEF SomeSeq
  <2>3. DOMAIN saved.lines = DOMAIN saved.of
    BY <1>0
  <2>4. DOMAIN saved.of = 1..Len(saved.of) /\ Len(saved.of) \in Nat
    BY <1>1
  <2> HIDE DEF n
  <2> QED BY <2>1, <2>2, <2>3, <2>4
<1>3. \A k \in 1..n : /\ File!Parses(saved.lines[k])
                      /\ File!RawRow(saved.lines[k]) = saved.of[k]
  <2> SUFFICES ASSUME NEW k \in 1..n
               PROVE  /\ File!Parses(saved.lines[k])
                      /\ File!RawRow(saved.lines[k]) = saved.of[k]
    OBVIOUS
  <2>1. saved.lines[k] = File!RawLine(saved.of[k])
    BY <1>0, <1>2
  <2>2. saved.of[k] \in LiveRow
    BY <1>2 DEF File!ToSet
  <2> QED BY <2>1, <2>2, RawLines
<1>4. ~File!IsCsv
  <2>1. \A k \in DOMAIN saved.lines : saved.lines[k] # File!Header
    BY <1>0, HeaderLine DEF File!RawLine
  <2> QED BY <2>1 DEF File!IsCsv, File!ToSet
<1>5. /\ Rows(0) = <<>> /\ \A k \in 1..n : Rows(k) = Next1(Rows(k - 1), k)
      /\ \E X : \A k \in 0..n : Rows(k) \in Seq(X)
  BY <1>2, RowsReadAre
<1>6. 0 \in T
  BY <1>2, <1>5
<1>7. ASSUME NEW k \in 0..(n - 1), k \in T PROVE k + 1 \in T
  <2>1. k \in Nat /\ k \in 0..n /\ k + 1 \in 1..n /\ (k + 1) - 1 = k /\ k + 1 \in 0..n
    BY <1>2
  <2> DEFINE rs == Rows(k)
             row == saved.of[k + 1]
  <2>2. PICK X : rs \in Seq(X)
    <3> HIDE DEF n
    <3> QED BY <1>5, <2>1
  <2>3. Len(rs) = k /\ \A j \in 1..k : rs[j] = saved.of[j]
    BY <1>7
  <2>4. Rows(k + 1) = Append(rs, row)
    <3>1. Rows(k + 1) = Next1(rs, k + 1)
      <4> HIDE DEF n
      <4> QED BY <1>5, <2>1
    <3>2. /\ File!Reads(saved.lines[k + 1])
          /\ File!RowOf(saved.lines[k + 1]) = row
      BY <1>3, <1>4, <2>1 DEF File!Reads, File!RowOf
    <3> QED BY <3>1, <3>2 DEF Next1
  <2>5. /\ Len(Append(rs, row)) = k + 1
        /\ \A j \in 1..(k + 1) : Append(rs, row)[j] = IF j = k + 1 THEN row ELSE rs[j]
    <3> HIDE DEF rs, row
    <3> QED BY <2>1, <2>2, <2>3
  <2>6. \A j \in 1..(k + 1) : Rows(k + 1)[j] = saved.of[j]
    <3> SUFFICES ASSUME NEW j \in 1..(k + 1) PROVE Rows(k + 1)[j] = saved.of[j]
      OBVIOUS
    <3>1. j = k + 1 \/ j \in 1..k
      BY <2>1
    <3> HIDE DEF rs
    <3> QED BY <2>3, <2>4, <2>5, <3>1
  <2> HIDE DEF rs
  <2> QED BY <2>1, <2>4, <2>5, <2>6
<1>8. n \in T
  <2>1. \A k \in 0..n : k \in T
    <3> HIDE DEF T, n
    <3> QED BY <1>2, <1>6, <1>7, RangeInduction
  <2> QED BY <1>2, <2>1
<1>9. PICK X : Rows(n) \in Seq(X)
  <2>1. n \in 0..n
    BY <1>2
  <2> HIDE DEF n
  <2> QED BY <1>5, <2>1
<1> DEFINE R == Rows(n)
           Z == X \cup Y
<1>10. R \in Seq(Z) /\ saved.of \in Seq(Z)
  BY <1>1, <1>9, SeqMonotonic
<1>11. Len(R) = Len(saved.of) /\ \A j \in 1..Len(R) : R[j] = saved.of[j]
  BY <1>2, <1>8
<1> HIDE DEF R, Z, n
<1> QED BY <1>10, <1>11, SeqEqual DEF R, n

(* A CSV file as it is meant to be.                                         *)
LEMMA CsvIs ==
    ASSUME records \in Seq(Record)
    PROVE  /\ SomeSeq(File!Csv) /\ Len(File!Csv) = Len(records) + 1
           /\ File!Csv[1] = File!Header
           /\ \A k \in 2..(Len(records) + 1) : File!Csv[k] = File!CsvLine(records[k - 1])
<1> DEFINE n == Len(records)
           body == [k \in 1..n |-> File!CsvLine(records[k])]
           S == {File!Header} \cup {File!CsvLine(r) : r \in Record}
           head == <<File!Header>>
<1>1. n \in Nat /\ DOMAIN records = 1..n /\ \A k \in 1..n : records[k] \in Record
  OBVIOUS
<1>2. File!Csv = head \o body
  <2> HIDE DEF n
  <2> QED BY <1>1 DEF File!Csv
<1>3. body \in Seq(S) /\ Len(body) = n
  <2>1. body \in [1..n -> S]
    <3> HIDE DEF n
    <3> QED BY <1>1
  <2> HIDE DEF n, S, body
  <2> QED BY <1>1, <2>1, FunctionIsSeq
<1>4. head \in Seq(S) /\ Len(head) = 1 /\ head[1] = File!Header
  OBVIOUS
<1>5. /\ head \o body \in Seq(S) /\ Len(head \o body) = n + 1
      /\ \A i \in 1..(n + 1) : (head \o body)[i] = IF i <= 1 THEN head[i] ELSE body[i - 1]
  <2> HIDE DEF n, S, body, head
  <2>0. /\ head \o body \in Seq(S) /\ Len(head \o body) = Len(head) + Len(body)
        /\ \A i \in 1..(Len(head) + Len(body)) :
              (head \o body)[i] = IF i <= Len(head) THEN head[i] ELSE body[i - Len(head)]
    BY <1>3, <1>4, ConcatProperties, Zenon
  <2>1. /\ head \o body \in Seq(S) /\ Len(head \o body) = 1 + n
        /\ \A i \in 1..(1 + n) : (head \o body)[i] = IF i <= 1 THEN head[i] ELSE body[i - 1]
    BY <2>0, <1>3, <1>4, Zenon
  <2>2. 1 + n = n + 1
    BY <1>1
  <2> QED BY <2>1, <2>2
<1>6. \A k \in 2..(n + 1) : (head \o body)[k] = File!CsvLine(records[k - 1])
  <2> SUFFICES ASSUME NEW k \in 2..(n + 1)
               PROVE  (head \o body)[k] = File!CsvLine(records[k - 1])
    OBVIOUS
  <2>1. k \in 1..(n + 1) /\ ~(k <= 1) /\ k - 1 \in 1..n
    <3> HIDE DEF n
    <3> QED BY <1>1
  <2>2. (head \o body)[k] = body[k - 1]
    <3> HIDE DEF n, body, head
    <3> QED BY <1>5, <2>1
  <2>3. body[k - 1] = File!CsvLine(records[k - 1])
    BY <2>1
  <2> QED BY <2>2, <2>3
<1>7. (head \o body)[1] = File!Header
  <2> HIDE DEF body, n, head
  <2> QED BY <1>1, <1>4, <1>5
<1>8. SomeSeq(head \o body)
  BY <1>5 DEF SomeSeq
<1> HIDE DEF body, head
<1> QED BY <1>2, <1>5, <1>6, <1>7, <1>8

(* The three ways a CSV file comes to be.                                   *)
LEMMA CsvWritten ==
    ASSUME records \in Seq(Record)
    PROVE  /\ CsvShape(File!Csv, records, TRUE)
           /\ \A n \in 0..Len(records) : CsvShape(SubSeq(File!Csv, 1, n), records, FALSE)
           /\ \A k \in DOMAIN records : \A cut0 \in File!Cuts(File!CsvLine(records[k])) :
                 CsvShape(SubSeq(File!Csv, 1, k) \o <<cut0>>, records, FALSE)
<1> DEFINE m == Len(records)
           all == File!Csv
<1>1. /\ SomeSeq(all) /\ Len(all) = m + 1 /\ all[1] = File!Header
      /\ \A k \in 2..(m + 1) : all[k] = File!CsvLine(records[k - 1])
  BY CsvIs
<1>2. m \in Nat /\ DOMAIN records = 1..m
  OBVIOUS
<1>3. PICK X : all \in Seq(X)
  BY <1>1 DEF SomeSeq
<1> HIDE DEF m, all
<1>4. CsvShape(all, records, TRUE)
  BY <1>1, <1>2 DEF CsvShape, m
<1>5. ASSUME NEW n \in 0..m
      PROVE  /\ SubSeq(all, 1, n) \in Seq(X) /\ Len(SubSeq(all, 1, n)) = n
             /\ \A i \in 1..n : SubSeq(all, 1, n)[i] = all[i]
  <2>1. n \in Int /\ \A i \in 1..n : all[i] \in X
    BY <1>1, <1>2, <1>3
  <2> QED BY <2>1, SubSeqProperties
<1>6. ASSUME NEW n \in 0..m
      PROVE  CsvShape(SubSeq(all, 1, n), records, FALSE)
  <2> DEFINE s == SubSeq(all, 1, n)
  <2>1. s \in Seq(X) /\ Len(s) = n /\ \A i \in 1..n : s[i] = all[i]
    BY <1>5
  <2>2. n <= m + 1 /\ \A k \in 2..n : k \in 2..(m + 1) /\ k \in 1..n
    BY <1>2
  <2>3. n > 0 => s[1] = File!Header
    BY <1>1, <2>1
  <2> HIDE DEF s
  <2>4. \A k \in 2..n : s[k] = File!CsvLine(records[k - 1])
    BY <1>1, <2>1, <2>2
  <2>5. CsvShape(s, records, FALSE)
    BY <2>1, <2>2, <2>3, <2>4 DEF CsvShape, SomeSeq, m
  <2> QED BY <2>5 DEF s
<1>7. ASSUME NEW k \in 1..m, NEW cut0 \in File!Cuts(File!CsvLine(records[k]))
      PROVE  CsvShape(SubSeq(all, 1, k) \o <<cut0>>, records, FALSE)
  <2> DEFINE s == SubSeq(all, 1, k)
             last0 == <<cut0>>
             Y == X \cup {cut0}
             t == s \o last0
  <2>0. k \in 0..m /\ k \in Nat /\ k >= 1 /\ k <= m
    BY <1>2
  <2>1. s \in Seq(X) /\ Len(s) = k /\ \A i \in 1..k : s[i] = all[i]
    BY <1>5, <2>0
  <2>2. s \in Seq(Y) /\ last0 \in Seq(Y) /\ Len(last0) = 1 /\ last0[1] = cut0
    <3>1. s \in Seq(Y)
      <4> HIDE DEF s
      <4> QED BY <2>1, SeqMonotonic
    <3> QED BY <3>1
  <2> HIDE DEF s, Y, last0
  <2>3. /\ t \in Seq(Y) /\ Len(t) = k + 1
        /\ \A i \in 1..k : t[i] = s[i]
        /\ t[k + 1] = cut0
    <3>0. /\ t \in Seq(Y) /\ Len(t) = Len(s) + Len(last0)
          /\ \A i \in 1..(Len(s) + Len(last0)) :
                t[i] = IF i <= Len(s) THEN s[i] ELSE last0[i - Len(s)]
      BY <2>2, ConcatProperties, Zenon
    <3>1. /\ t \in Seq(Y) /\ Len(t) = k + 1
          /\ \A i \in 1..(k + 1) : t[i] = IF i <= k THEN s[i] ELSE last0[i - k]
      BY <3>0, <2>1, <2>2, Zenon
    <3>2. k + 1 \in 1..(k + 1) /\ ~(k + 1 <= k) /\ (k + 1) - k = 1
          /\ \A i \in 1..k : i \in 1..(k + 1) /\ i <= k
      BY <2>0
    <3> HIDE DEF t
    <3> QED BY <2>2, <3>1, <3>2
  <2> HIDE DEF t
  <2>4. t[1] = File!Header
    BY <1>1, <2>0, <2>1, <2>3
  <2>5. ASSUME NEW j \in 2..(k + 1)
        PROVE  \/ t[j] = File!CsvLine(records[j - 1])
               \/ j = k + 1 /\ t[j] \in File!Cuts(File!CsvLine(records[j - 1]))
    <3>1. CASE j = k + 1
      <4>1. j - 1 = k
        BY <2>0, <3>1
      <4> QED BY <2>3, <3>1, <4>1
    <3>2. CASE j # k + 1
      <4>1. j \in 1..k /\ j \in 2..(m + 1)
        BY <1>2, <2>0, <3>2
      <4> QED BY <1>1, <2>1, <2>3, <4>1
    <3> QED BY <3>1, <3>2
  <2>6. k + 1 <= m + 1
    BY <1>2, <2>0
  <2>7. CsvShape(t, records, FALSE)
    BY <2>3, <2>4, <2>5, <2>6 DEF CsvShape, SomeSeq, m
  <2> QED BY <2>7 DEF t, s, last0
<1> QED BY <1>2, <1>4, <1>6, <1>7 DEF all, m

(* A file that has just been written, which nobody has read.                *)
LEMMA Unread ==
    ASSUME FileInv, ~loaded', shark' = File!None, records' = records,
           SomeSeq(loadedRows'),
           \/ saved'.kind = "csv" /\ CsvShape(saved'.lines, saved'.of, saved'.whole)
           \/ saved'.kind = "raw" /\ RawShape(saved'.lines, saved'.of)
           \/ saved'.kind = "pcap" /\ saved'.lines = <<>>
    PROVE  FileInv'
BY DEF FileInv, File!CsvReloaded, File!RawReplayed

(* As long as the file is the same, so is what can be said of it.           *)
LEMMA SameFile ==
    ASSUME saved' = saved
    PROVE  /\ File!With("TX")' = File!With("TX") /\ File!With("RX")' = File!With("RX")
BY DEF File!With, File!Lines, File!Counted

(* Steps that leave file and rows alone keep the invariant.                 *)
LEMMA Untouched ==
    ASSUME FileInv, saved' = saved, loadedRows' = loadedRows, loaded' = loaded,
           records' \in Seq(Record),
           shark' # File!None => shark'.tx = File!With("TX") /\ shark'.rx = File!With("RX")
    PROVE  FileInv'
<1>1. RowCount' = RowCount
  BY DEF RowCount, File!Complete
<1>2. File!CsvReloaded' = File!CsvReloaded
  BY DEF File!CsvReloaded
<1>3. File!RawReplayed' = File!RawReplayed
  BY DEF File!RawReplayed
<1> QED
  BY <1>1, <1>2, <1>3, SameFile DEF FileInv

(* The load keeps it,                                                       *)
LEMMA LoadStep == ASSUME FileInv, File!loadCsv PROVE FileInv'
<1> DEFINE n == Len(saved.lines)
           R == Rows(n)
<1>1. /\ loadedRows' = R /\ loaded' = TRUE
      /\ records' = records /\ saved' = saved /\ shark' = shark
  BY DEF File!loadCsv, Rows
<1>2. n \in Nat
  BY LinesCount
<1>3. SomeSeq(R)
  <2>1. n \in 0..n
    BY <1>2
  <2>2. \E X : \A k \in 0..n : Rows(k) \in Seq(X)
    BY <1>2, RowsReadAre
  <2> HIDE DEF n
  <2> QED BY <2>1, <2>2 DEF SomeSeq
<1> HIDE DEF R
<1>4. saved.kind = "csv" => RowCount' /\ File!CsvReloaded'
  <2> SUFFICES ASSUME saved.kind = "csv" PROVE RowCount' /\ File!CsvReloaded'
    OBVIOUS
  <2>1. Loads(R)
    BY CsvLoads DEF R
  <2>2. RowCount'
    BY <1>1, <2>1 DEF Loads, RowCount
  <2>3. DOMAIN R = 1..Len(R)
    BY <1>3 DEF SomeSeq
  <2>4. File!CsvReloaded'
    <3>1. /\ Len(R) <= Len(saved.of) /\ (saved.whole => Len(R) = Len(saved.of))
          /\ \A k \in DOMAIN R :
               /\ [R[k] EXCEPT !.payload = <<>>]
                    = [File!Shown(saved.of[k]) EXCEPT !.payload = <<>>]
               /\ File!IsPrefix(R[k].payload, File!Printed(saved.of[k].payload))
               /\ R[k] = File!Shown(saved.of[k]) \/ (~saved.whole /\ k = Len(R))
      BY <2>1, <2>3 DEF Loads, Fits
    <3> QED BY <1>1, <3>1 DEF File!CsvReloaded
  <2> QED BY <2>2, <2>4
<1>5. saved.kind # "csv" => File!CsvReloaded'
  BY <1>1 DEF File!CsvReloaded
<1>6. File!RawReplayed'
  <2>1. saved.kind = "raw" /\ File!ToSet(saved.of) \subseteq LiveRow => R = saved.of
    BY RawLoads DEF R
  <2> QED BY <1>1, <2>1 DEF File!RawReplayed
<1> QED
  BY <1>1, <1>3, <1>4, <1>5, <1>6, SameFile DEF FileInv

(* and so does every step.                                                  *)
LEMMA FileInvNext == FileInv /\ [File!Next]_(File!vars) => FileInv'
<1> SUFFICES ASSUME FileInv, [File!Next]_(File!vars) PROVE FileInv'
  OBVIOUS
<1>0. records \in Seq(Record) /\ SomeSeq(loadedRows)
  BY DEF FileInv
<1>1. ASSUME NEW r \in Record, File!pcie_trace_append(r) PROVE FileInv'
  <2>1. records' \in Seq(Record)
    BY <1>0, <1>1 DEF File!pcie_trace_append
  <2> QED BY <1>1, <2>1, Untouched DEF File!pcie_trace_append, FileInv
<1>2. ASSUME File!pcie_trace_write_csv PROVE FileInv'
  <2>1. records' = records /\ loadedRows' = loadedRows /\ ~loaded' /\ shark' = File!None
    BY <1>2 DEF File!pcie_trace_write_csv, File!Write
  <2>2. ASSUME NEW lines, NEW whole, CsvShape(lines, records, whole),
               File!Write("csv", lines, <<>>, records, whole)
        PROVE  saved'.kind = "csv" /\ CsvShape(saved'.lines, saved'.of, saved'.whole)
    BY <2>2 DEF File!Write
  <2>3. saved'.kind = "csv" /\ CsvShape(saved'.lines, saved'.of, saved'.whole)
    <3>1. CASE File!Write("csv", File!Csv, <<>>, records, TRUE)
      BY <1>0, <2>2, <3>1, CsvWritten
    <3>2. CASE \E n \in 0..Len(records) :
                  File!Write("csv", SubSeq(File!Csv, 1, n), <<>>, records, FALSE)
      BY <1>0, <2>2, <3>2, CsvWritten
    <3>3. CASE \E k \in DOMAIN records : \E cut0 \in File!Cuts(File!CsvLine(records[k])) :
                  File!Write("csv", SubSeq(File!Csv, 1, k) \o <<cut0>>, <<>>, records, FALSE)
      BY <1>0, <2>2, <3>3, CsvWritten
    <3> QED BY <1>2, <3>1, <3>2, <3>3 DEF File!pcie_trace_write_csv
  <2> QED BY <1>0, <2>1, <2>3, Unread
<1>3. ASSUME File!pcie_trace_write_pcap PROVE FileInv'
  <2>1. records' = records /\ loadedRows' = loadedRows /\ ~loaded' /\ shark' = File!None
    BY <1>3 DEF File!pcie_trace_write_pcap, File!Write
  <2>2. saved'.kind = "pcap" /\ saved'.lines = <<>>
    BY <1>3 DEF File!pcie_trace_write_pcap, File!Write
  <2> QED BY <1>0, <2>1, <2>2, Unread
<1>4. ASSUME File!loadCsv PROVE FileInv'
  BY <1>4, LoadStep
<1>5. ASSUME File!saveTrace PROVE FileInv'
  <2>1. records' = records /\ loadedRows' = loadedRows /\ ~loaded' /\ shark' = File!None
    BY <1>5 DEF File!saveTrace, File!Write
  <2>2. /\ saved'.kind = "raw" /\ saved'.of = loadedRows
        /\ saved'.lines = [k \in DOMAIN loadedRows |-> File!RawLine(loadedRows[k])]
    BY <1>5 DEF File!saveTrace, File!Write
  <2>3. RawShape(saved'.lines, saved'.of)
    BY <1>0, <2>2 DEF RawShape
  <2> QED BY <1>0, <2>1, <2>2, <2>3, Unread
<1>6. ASSUME NEW row \in LiveRow, File!pollLiveTrace(row) PROVE FileInv'
  <2>1. /\ loadedRows' = Append(loadedRows, row) /\ ~loaded'
        /\ records' = records /\ saved' = saved /\ shark' = shark
    BY <1>6 DEF File!pollLiveTrace
  <2>2. SomeSeq(Append(loadedRows, row))
    <3>1. PICK X : loadedRows \in Seq(X)
      BY <1>0 DEF SomeSeq
    <3> DEFINE Y == X \cup {row}
    <3>2. loadedRows \in Seq(Y)
      BY <3>1, SeqMonotonic
    <3>3. Append(loadedRows, row) \in Seq(Y)
      <4>1. row \in Y
        OBVIOUS
      <4> HIDE DEF Y
      <4> QED BY <3>2, <4>1
    <3> QED BY <3>3 DEF SomeSeq
  <2>3. File!CsvReloaded' /\ File!RawReplayed'
    BY <2>1 DEF File!CsvReloaded, File!RawReplayed
  <2> QED BY <2>1, <2>2, <2>3, SameFile DEF FileInv
<1>7. ASSUME File!print_summary PROVE FileInv'
  <2>1. /\ records' = records /\ saved' = saved /\ loadedRows' = loadedRows
        /\ loaded' = loaded
        /\ shark'.tx = File!With("TX") /\ shark'.rx = File!With("RX")
    BY <1>7 DEF File!print_summary
  <2> QED BY <1>0, <2>1, Untouched
<1>8. CASE UNCHANGED File!vars
  BY <1>0, <1>8, Untouched DEF File!vars, FileInv
<1> QED
  BY <1>1, <1>2, <1>3, <1>4, <1>5, <1>6, <1>7, <1>8 DEF File!Next

(* The files count as FiniteSets does.                                      *)
LEMMA FileCounts == \A S : File!Cardinality(S) = Cardinality(S)
BY DEF File!Cardinality, Cardinality

(* The numbers from 1 up, and from 2 up, that satisfy the same are as many. *)
LEMMA ShiftCount ==
    ASSUME NEW n \in Nat, NEW S \in SUBSET (1..n)
    PROVE  LET T == {k \in 2..(n + 1) : k - 1 \in S} IN
           IsFiniteSet(T) /\ Cardinality(T) = Cardinality(S)
<1> DEFINE T == {k \in 2..(n + 1) : k - 1 \in S}
           f == [j \in S |-> j + 1]
<1>1. IsFiniteSet(S)
  BY RunsCount
<1>2. \A j \in S : j \in 1..n /\ j + 1 \in T
  OBVIOUS
<1>3. f \in [S -> T]
  BY <1>2
<1>4. \A i, j \in S : f[i] = f[j] => i = j
  BY <1>2
<1>5. \A t \in T : \E j \in S : f[j] = t
  <2> SUFFICES ASSUME NEW t \in T PROVE \E j \in S : f[j] = t
    OBVIOUS
  <2>1. t - 1 \in S /\ (t - 1) + 1 = t
    OBVIOUS
  <2>2. f[t - 1] = (t - 1) + 1
    BY <2>1
  <2> HIDE DEF f
  <2> QED BY <2>1, <2>2
<1>6. ExistsBijection(S, T)
  <2> HIDE DEF T, f
  <2>1. f \in Bijection(S, T)
    BY <1>3, <1>4, <1>5 DEF Bijection, Injection, IsInjective, Surjection
  <2> QED BY <2>1 DEF ExistsBijection
<1> HIDE DEF T
<1> QED BY <1>1, <1>6, FS_Bijection DEF T

(* A set whose members are each in one of two sets has as many as both.     *)
LEMMA TwoKinds ==
    ASSUME NEW S, IsFiniteSet(S), NEW P \in SUBSET S, NEW Q \in SUBSET S,
           S = P \cup Q, P \cap Q = {}
    PROVE  Cardinality(P) + Cardinality(Q) = Cardinality(S)
<1>1. IsFiniteSet(P) /\ IsFiniteSet(Q)
  BY FS_Subset
<1>2. Cardinality(P) \in Nat /\ Cardinality(Q) \in Nat
  BY <1>1, FS_CardinalityType
<1>3. Cardinality(P \cup Q) = Cardinality(P) + Cardinality(Q) - Cardinality(P \cap Q)
  BY <1>1, FS_Union
<1>4. Cardinality(P \cap Q) = 0
  BY FS_EmptySet
<1> QED BY <1>2, <1>3, <1>4

(* What the lines of a CSV file below its header are to its readers.        *)
LEMMA CsvLinesAre ==
    ASSUME FileInv, saved.kind = "csv"
    PROVE  /\ \A k \in 2..Len(saved.lines) :
                 /\ k - 1 \in 1..Len(saved.of)
                 /\ saved.lines[k].kind = "csv"
                 /\ saved.lines[k].dir = saved.of[k - 1].direction
                 /\ saved.lines[k].dir \in {"TX", "RX"}
                 /\ File!Complete(saved.lines[k]) => File!Counted(saved.lines[k])
                 /\ saved.whole \/ k # Len(saved.lines) => File!Complete(saved.lines[k])
           /\ \A k \in 1..Len(saved.lines) : k \notin 2..Len(saved.lines)
                 => saved.lines[k].kind # "csv"
           /\ DOMAIN saved.lines = 1..Len(saved.lines)
<1> DEFINE n == Len(saved.lines)
           m == Len(saved.of)
<1>0. CsvShape(saved.lines, saved.of, saved.whole)
  BY DEF FileInv
<1>1. n \in Nat /\ m \in Nat /\ n <= m + 1 /\ DOMAIN saved.lines = 1..n
  BY LinesCount, <1>0 DEF CsvShape, SomeSeq
<1>2. ASSUME NEW k \in 1..n, k \notin 2..n PROVE saved.lines[k].kind # "csv"
  <2>1. k = 1 /\ n > 0
    <3> HIDE DEF n
    <3> QED BY <1>1, <1>2
  <2>2. saved.lines[k] = File!Header
    BY <1>0, <2>1 DEF CsvShape
  <2> QED BY <2>2, HeaderLine
<1>3. ASSUME NEW k \in 2..n
      PROVE  /\ k - 1 \in 1..m
             /\ saved.lines[k].kind = "csv"
             /\ saved.lines[k].dir = saved.of[k - 1].direction
             /\ saved.lines[k].dir \in {"TX", "RX"}
             /\ File!Complete(saved.lines[k]) => File!Counted(saved.lines[k])
             /\ saved.whole \/ k # n => File!Complete(saved.lines[k])
  <2>1. k - 1 \in 1..m
    <3> HIDE DEF n, m
    <3> QED BY <1>1
  <2> DEFINE r == saved.of[k - 1]
             line == saved.lines[k]
  <2>2. r \in Record
    <3>1. saved.of \in Seq(Record)
      BY <1>0 DEF CsvShape
    <3> QED BY <2>1, <3>1
  <2>3. \/ line = File!CsvLine(r)
        \/ ~saved.whole /\ k = n /\ line \in File!Cuts(File!CsvLine(r))
    BY <1>0 DEF CsvShape
  <2>4. r.direction \in {"TX", "RX"}
    BY <2>2, RecordAssumption
  <2>5. File!Complete(line) => File!Counted(line)
    BY DEF File!Complete, File!Counted
  <2>6. CASE line = File!CsvLine(r)
    <3>1. File!Complete(line) /\ line.kind = "csv" /\ line.dir = r.direction
      BY <2>2, <2>6, WholeLine
    <3> QED BY <2>1, <2>4, <2>5, <3>1
  <2>7. CASE ~saved.whole /\ k = n /\ line \in File!Cuts(File!CsvLine(r))
    <3>1. line.kind = "csv" /\ line.dir = r.direction
      BY <2>2, <2>7, CutLine
    <3> QED BY <2>1, <2>4, <2>5, <2>7, <3>1
  <2> QED BY <2>3, <2>6, <2>7
<1> QED BY <1>1, <1>2, <1>3

(* What loading made of it, with the directions of its rows.                *)
LEMMA RowsAre ==
    ASSUME FileInv, saved.kind = "csv", loaded
    PROVE  /\ Len(loadedRows) \in Nat /\ DOMAIN loadedRows = 1..Len(loadedRows)
           /\ Len(loadedRows) <= Len(saved.of)
           /\ saved.whole => Len(loadedRows) = Len(saved.of)
           /\ \A k \in DOMAIN loadedRows : loadedRows[k].dir = saved.of[k].direction
<1>1. SomeSeq(loadedRows) /\ File!CsvReloaded
  BY DEF FileInv
<1>2. Len(loadedRows) \in Nat /\ DOMAIN loadedRows = 1..Len(loadedRows)
  BY <1>1 DEF SomeSeq
<1>3. ASSUME NEW k \in DOMAIN loadedRows
      PROVE  loadedRows[k].dir = saved.of[k].direction
  <2> DEFINE row == loadedRows[k]
             shown == File!Shown(saved.of[k])
  <2>1. [row EXCEPT !.payload = <<>>] = [shown EXCEPT !.payload = <<>>]
    BY <1>1 DEF File!CsvReloaded
  <2>2. shown.dir = saved.of[k].direction
    BY DEF File!Shown
  <2>3. [shown EXCEPT !.payload = <<>>].dir = saved.of[k].direction
    BY DEF File!Shown
  <2>4. "dir" \in DOMAIN [row EXCEPT !.payload = <<>>]
    <3>1. "dir" \in DOMAIN [shown EXCEPT !.payload = <<>>]
      BY DEF File!Shown
    <3> HIDE DEF row, shown
    <3> QED BY <2>1, <3>1
  <2>5. [row EXCEPT !.payload = <<>>].dir = row.dir
    <3> HIDE DEF row, shown
    <3> QED BY <2>4
  <2> HIDE DEF row, shown
  <2>6. row.dir = saved.of[k].direction
    BY <2>1, <2>3, <2>5
  <2> QED BY <2>6 DEF row
<1> QED BY <1>1, <1>2, <1>3 DEF File!CsvReloaded

(* Of a whole file both count the same of either direction.                 *)
LEMMA WholeCount ==
    ASSUME FileInv, saved.kind = "csv", loaded, saved.whole, NEW dir
    PROVE  File!With(dir) = File!Shows(dir)
<1> DEFINE n == Len(saved.lines)
           m == Len(saved.of)
           S == {k \in DOMAIN loadedRows : loadedRows[k].dir = dir}
           T == {k \in 2..(m + 1) : k - 1 \in S}
           W == {k \in File!Lines : saved.lines[k].kind = "csv" /\ saved.lines[k].dir = dir}
<1>1. m \in Nat /\ n = m + 1 /\ DOMAIN loadedRows = 1..m
  <2>1. CsvShape(saved.lines, saved.of, saved.whole)
    BY DEF FileInv
  <2> QED BY <2>1, RowsAre DEF CsvShape
<1>2. S \subseteq 1..m
  BY <1>1
<1>3. W \subseteq T
  <2> SUFFICES ASSUME NEW k \in W PROVE k \in T
    OBVIOUS
  <2>1. k \in DOMAIN saved.lines /\ saved.lines[k].kind = "csv" /\ saved.lines[k].dir = dir
    BY DEF File!Lines
  <2>2. k \in 2..n
    BY <2>1, CsvLinesAre
  <2>3. k - 1 \in 1..m /\ saved.of[k - 1].direction = dir
    BY <2>1, <2>2, CsvLinesAre
  <2>4. k - 1 \in S
    BY <1>1, <2>3, RowsAre
  <2> QED BY <1>1, <2>2, <2>4
<1>4. T \subseteq W
  <2> SUFFICES ASSUME NEW k \in T PROVE k \in W
    OBVIOUS
  <2>1. k \in 2..n /\ k - 1 \in S
    BY <1>1
  <2>2. loadedRows[k - 1].dir = dir /\ k - 1 \in DOMAIN loadedRows
    BY <2>1
  <2>3. saved.of[k - 1].direction = dir
    BY <2>2, RowsAre
  <2>4. /\ saved.lines[k].kind = "csv" /\ saved.lines[k].dir = dir
        /\ File!Counted(saved.lines[k])
    BY <2>1, <2>3, CsvLinesAre
  <2>5. k \in DOMAIN saved.lines
    <3>1. k \in 1..n
      <4> HIDE DEF n
      <4> QED BY <1>1, <2>1
    <3> QED BY <3>1, CsvLinesAre
  <2> QED BY <2>4, <2>5 DEF File!Lines
<1>5. W = T
  BY <1>3, <1>4
<1>6. Cardinality(T) = Cardinality(S)
  <2> HIDE DEF S, m
  <2> QED BY <1>1, <1>2, ShiftCount
<1>7. File!With(dir) = Cardinality(W) /\ File!Shows(dir) = Cardinality(S)
  BY FileCounts DEF File!With, File!Shows
<1> HIDE DEF W, T, S
<1> QED BY <1>5, <1>6, <1>7

(* The packets of both directions, in the table and in the file.            *)
LEMMA RowsTotal ==
    ASSUME FileInv, saved.kind = "csv", loaded
    PROVE  File!Shows("TX") + File!Shows("RX") = Len(loadedRows)
<1> DEFINE R == Len(loadedRows)
           S(dir) == {k \in DOMAIN loadedRows : loadedRows[k].dir = dir}
           P == S("TX")
           Q == S("RX")
<1>1. /\ R \in Nat /\ DOMAIN loadedRows = 1..R /\ R <= Len(saved.of)
      /\ \A k \in DOMAIN loadedRows : loadedRows[k].dir = saved.of[k].direction
  BY RowsAre
<1>2. \A k \in 1..R : loadedRows[k].dir \in {"TX", "RX"}
  <2>1. saved.of \in Seq(Record)
    BY DEF FileInv, CsvShape
  <2>2. \A k \in 1..R : saved.of[k] \in Record
    <3>1. Len(saved.of) \in Nat
      BY <2>1
    <3>2. \A k \in 1..R : k \in 1..Len(saved.of)
      <4> HIDE DEF R
      <4> QED BY <1>1, <3>1
    <3> QED BY <2>1, <3>2
  <2> QED BY <1>1, <2>2, RecordAssumption
<1>3. /\ P \subseteq 1..R /\ Q \subseteq 1..R /\ 1..R = P \cup Q /\ P \cap Q = {}
  BY <1>1, <1>2
<1>4. File!Shows("TX") = Cardinality(P) /\ File!Shows("RX") = Cardinality(Q)
  BY FileCounts DEF File!Shows
<1>5. IsFiniteSet(1..R) /\ Cardinality(1..R) = R
  <2> HIDE DEF R
  <2> QED BY <1>1, FS_Interval
<1> HIDE DEF P, Q, R
<1>6. Cardinality(P) + Cardinality(Q) = Cardinality(1..R)
  BY <1>3, <1>5, TwoKinds
<1> QED BY <1>4, <1>5, <1>6 DEF R

(* The lines pshark counts are the rows the GUI shows, up to one that was   *)
(* cut.                                                                     *)
LEMMA LinesTotal ==
    ASSUME FileInv, saved.kind = "csv", loaded
    PROVE  File!With("TX") + File!With("RX") \in {Len(loadedRows), Len(loadedRows) + 1}
<1> DEFINE n == Len(saved.lines)
           R == Len(loadedRows)
           W(dir) == {k \in File!Lines : saved.lines[k].kind = "csv" /\ saved.lines[k].dir = dir}
           P == W("TX")
           Q == W("RX")
           A == P \cup Q
<1>1. /\ n \in Nat
      /\ R = IF n = 0 THEN 0 ELSE IF n = 1 \/ File!Complete(saved.lines[n]) THEN n - 1 ELSE n - 2
  BY LinesCount DEF FileInv, RowCount
<1>2. P \cap Q = {}
  OBVIOUS
<1>3. A \subseteq 2..n
  BY CsvLinesAre DEF File!Lines
<1>4. ASSUME NEW k \in 2..n, File!Counted(saved.lines[k]) PROVE k \in A
  <2>1. k \in DOMAIN saved.lines
    <3>1. k \in 1..n
      <4> HIDE DEF n
      <4> QED BY <1>1
    <3> QED BY <3>1, CsvLinesAre
  <2>2. saved.lines[k].kind = "csv" /\ saved.lines[k].dir \in {"TX", "RX"}
    BY CsvLinesAre
  <2> QED BY <1>4, <2>1, <2>2 DEF File!Lines
<1>5. File!With("TX") = Cardinality(P) /\ File!With("RX") = Cardinality(Q)
  BY FileCounts DEF File!With
<1>6. IsFiniteSet(A)
  <2>1. IsFiniteSet(2..n)
    <3> HIDE DEF n
    <3> QED BY <1>1, FS_Interval
  <2> HIDE DEF A, n
  <2> QED BY <1>3, <2>1, FS_Subset
<1>7. Cardinality(P) + Cardinality(Q) = Cardinality(A)
  <2> HIDE DEF P, Q
  <2> QED BY <1>2, <1>6, TwoKinds
<1>8. \A k \in 2..n : k # n \/ File!Complete(saved.lines[n]) => k \in A
  BY <1>4, CsvLinesAre
<1>9. \A i \in 1..n : Cardinality(2..i) = i - 1
  <2> SUFFICES ASSUME NEW i \in 1..n PROVE Cardinality(2..i) = i - 1
    OBVIOUS
  <2>1. i \in Nat /\ i >= 1
    <3> HIDE DEF n
    <3> QED BY <1>1
  <2>2. Cardinality(2..i) = IF 2 > i THEN 0 ELSE (i - 2) + 1
    BY <2>1, FS_Interval
  <2> QED BY <2>1, <2>2
<1> HIDE DEF A, P, Q, R, n
<1>10. Cardinality(A) \in {R, R + 1}
  <2>1. CASE n \in {0, 1}
    <3>1. A = {}
      BY <1>3, <2>1
    <3>2. Cardinality(A) = 0
      BY <3>1, FS_EmptySet
    <3> QED BY <1>1, <2>1, <3>2
  <2>2. CASE n > 1 /\ File!Complete(saved.lines[n])
    <3>1. A = 2..n
      BY <1>3, <1>8, <2>2
    <3> QED BY <1>1, <1>9, <2>2, <3>1
  <2>3. CASE n > 1 /\ ~File!Complete(saved.lines[n])
    <3>1. R = n - 2
      BY <1>1, <2>3
    <3>2. A = 2..n \/ A = 2..(n - 1)
      <4>1. \A k \in 2..(n - 1) : k \in 2..n /\ k # n
        BY <1>1
      <4>2. 2..(n - 1) \subseteq A
        BY <1>8, <4>1
      <4>3. 2..n \subseteq (2..(n - 1)) \cup {n}
        BY <1>1
      <4> QED BY <1>3, <4>2, <4>3
    <3>3. Cardinality(2..n) = n - 1 /\ Cardinality(2..(n - 1)) = n - 2
      <4>1. n \in 1..n /\ n - 1 \in 1..n /\ (n - 1) - 1 = n - 2
        BY <1>1, <2>3
      <4> QED BY <1>9, <4>1
    <3> QED BY <1>1, <3>1, <3>2, <3>3
  <2> QED BY <1>1, <2>1, <2>2, <2>3
<1> QED BY <1>5, <1>7, <1>10 DEF R

(* Readers that agree follow.                                               *)
LEMMA ReadersFollow == FileInv => File!ReadersAgree
<1> SUFFICES ASSUME FileInv PROVE File!SameCounts
  BY DEF FileInv, File!ReadersAgree
<1> SUFFICES ASSUME loaded, saved.kind = "csv", shark # File!None
             PROVE  IF saved.whole
                    THEN shark.tx = File!Shows("TX") /\ shark.rx = File!Shows("RX")
                    ELSE LET n == File!Shows("TX") + File!Shows("RX")
                         IN  shark.tx + shark.rx \in {n, n + 1}
  BY DEF File!SameCounts
<1>1. shark.tx = File!With("TX") /\ shark.rx = File!With("RX")
  BY DEF FileInv
<1> QED BY <1>1, WholeCount, RowsTotal, LinesTotal

-----------------------------------------------------------------------------
(* The programs together: a behaviour of Desktop is one of each part,       *)
(* whichever is chosen.                                                     *)

(* A step of the desktop is one of its part, and leaves the others alone.   *)
LEMMA OneStep ==
    [Next]_vars => /\ [RunnerNext]_runnerVars
                   /\ [Live!Next]_(Live!vars)
                   /\ [Packet!Next]_(Packet!vars)
                   /\ [File!Next]_(File!vars)
BY DEF Next, RunnerStep, LiveStep, PacketStep, FileStep, Others, vars, liveVars,
       packetVars, fileVars, Live!vars, Packet!vars, File!vars

(* All four invariants hold at the beginning.                               *)
LEMMA AllBegin == Init => RunnerInv /\ LiveInv /\ PacketInv /\ FileInv
BY RunnerInvInit, LiveInvInit, PacketInvInit, FileInvInit DEF Init

(* However many runs share a directory on a user's desktop, none that       *)
(* cleaned up leaves its pipeline writing, and only a later holder of the   *)
(* pid file refuses an emulator.                                            *)
THEOREM RunsKeptApart == Spec => [](JobEnded /\ LockNotStale)
<1>1. RunnerInv => JobEnded /\ LockNotStale
  BY DEF RunnerInv
<1> QED
  BY <1>1, AllBegin, OneStep, RunnerInvNext, PTL DEF Spec

(* The invariant of the live trace, of which four properties are parts.     *)
LEMMA LiveInvHolds == Spec => []LiveInv
BY AllBegin, OneStep, LiveInvNext, PTL DEF Spec

(* However often the trace is read, and however much of a line is there     *)
(* when it is, the rows that come in follow the lines of the file, each     *)
(* text once, and a line a second time only behind its own unfinished half. *)
THEOREM RowsInOrder == Spec => []RowsFollowFile
<1>1. LiveInv => RowsFollowFile
  BY DEF LiveInv, RowsFollowFile
<1> QED
  BY <1>1, LiveInvHolds, PTL

(* A run that wrote anything is summarised by what it wrote, whatever the   *)
(* file and the table held before.                                          *)
THEOREM SummaryIsOwn == Spec => []SummaryOfRun
<1>1. LiveInv => SummaryOfRun
  BY DEF LiveInv, SummaryOfRun
<1> QED
  BY <1>1, LiveInvHolds, PTL

(* No end of a run goes unreported but for a launch over a dead run, which  *)
(* costs one report, in any sequence of launches.                           *)
THEOREM ReportsPaidFor == Spec => []Reported
<1>1. LiveInv => Reported
  BY DEF LiveInv, Reported
<1> QED
  BY <1>1, LiveInvHolds, PTL

(* The poll that lets go of a run leaves every line of its file in the      *)
(* table, whatever was half written when it was read before.                *)
THEOREM LetGoComplete == Spec => CaughtUp
<1> DEFINE All == proc.st = "done" /\ proc'.st = "null" /\ ~closed' /\ ~touched =>
               \A l \in Live!Range(file.lines) :
                  Live!Parses(l) => \E r \in Live!Range(rows') : r.text = Live!Reading(l)
<1>1. LiveInv /\ [Live!Next]_(Live!vars) => [All]_(Live!vars)
  BY LetGoCaughtUp
<1> QED
  BY <1>1, LiveInvHolds, OneStep, PTL DEF Spec, CaughtUp, Live!CaughtUp

(* What is on display is the table under the filter, and of a device what   *)
(* its registers hold.                                                      *)
THEOREM DisplayIsTable == Spec => []DisplayTrue
<1>1. PacketInv => DisplayTrue
  BY DisplayFollows DEF DisplayTrue
<1> QED
  BY <1>1, AllBegin, OneStep, PacketInvNext, PTL DEF Spec

(* However full the disk was, a trace that is loaded again is the one that  *)
(* was written, and the GUI and pshark count the same packets in it.        *)
THEOREM TraceSurvives == Spec => []ReadersAgree
<1>1. FileInv => ReadersAgree
  BY ReadersFollow DEF ReadersAgree
<1> QED
  BY <1>1, AllBegin, OneStep, FileInvNext, PTL DEF Spec
=============================================================================
