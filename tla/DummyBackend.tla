---------------------------- MODULE DummyBackend ----------------------------
(***************************************************************************)
(* The pacing of the dummy backend (src/src/backend_dummy.c): the latency  *)
(* and the throttle that dummy_send and dummy_recv go through, on a clock. *)
(*                                                                         *)
(* The configuration is read from the environment anew at every call, so   *)
(* each call may find other values.  The throttle's state is static: sends *)
(* and receives of all the contexts of a process share it.  Calls do not   *)
(* overlap, because the library is single-threaded; no signal cuts a       *)
(* nanosleep short.  The end of the process is modelled by Restart.        *)
(***************************************************************************)
EXTENDS Naturals, Sequences

CONSTANTS
    Second,      \* units of clock_gettime in a second (10^9)
    Rates,       \* values of tokens_per_second; 0 means no throttle
    Latencies,   \* values of latency_ns
    Limit,       \* TLPs that dummy_recv delivers in a process (1000)
    Burst,       \* burst_size, which is configured and not used
    MaxClock,    \* bound: time
    MaxPassed    \* bound: throttled calls

ASSUME PacingAssumption ==
    /\ Second \in Nat \ {0}
    /\ Rates \subseteq Nat /\ Latencies \subseteq Nat
    /\ Limit \in Nat

VARIABLES
    clock,
    next_tx_ns,  \* throttle: not before
    count,       \* TLPs dummy_recv has delivered
    pc,          \* the call in progress: "idle", "latency" or "throttle"
    call,        \* its operation and the configuration it read
    now,         \* the time at which it slept (latency) or entered (throttle)
    passed       \* History: throttled calls: when they entered and left the
                 \* throttle, and the interval it keeps for them

vars == <<clock, next_tx_ns, count, pc, call, now, passed>>

Call == [op : {"send", "recv"}, latency : Latencies, rate : Rates]

Init == /\ clock = 0 /\ next_tx_ns = 0 /\ count = 0
        /\ pc = "idle" /\ call \in Call /\ now = 0
        /\ passed = << >>

Tick == /\ clock < MaxClock
        /\ clock' = clock + 1
        /\ UNCHANGED <<next_tx_ns, count, pc, call, now, passed>>

(* Mutant: one TLP too many.                                                *)
EnterMutant(c) ==
    /\ pc = "idle"
    /\ c.op = "recv" => count <= Limit
    /\ pc' = "latency" /\ call' = c /\ now' = clock
    /\ UNCHANGED <<clock, next_tx_ns, count, passed>>

(* dummy_send, or dummy_recv when it has TLPs left.                         *)
Enter(c) ==
    /\ pc = "idle"
    /\ c.op = "recv" => count < Limit
    /\ pc' = "latency" /\ call' = c /\ now' = clock
    /\ UNCHANGED <<clock, next_tx_ns, count, passed>>

(* The call is done; dummy_recv counts the TLP it hands out.                *)
Return == /\ pc' = "idle"
          /\ count' = IF call.op = "recv" THEN count + 1 ELSE count

(* nanosleep sleeps at least as long as asked.  Then the throttle: without  *)
(* a rate there is none.                                                    *)
LatencyOver ==
    /\ pc = "latency"
    /\ clock >= now + call.latency
    /\ \/ /\ call.rate = 0
          /\ Return
          /\ UNCHANGED now
       \/ /\ call.rate # 0
          /\ pc' = "throttle" /\ now' = clock
          /\ UNCHANGED count
    /\ UNCHANGED <<clock, next_tx_ns, call, passed>>

Interval == Second \div call.rate

(* Mutants: the throttle sets the deadline and does not wait for it; the    *)
(* deadline is added to the last one.                                       *)
ThrottleOverMutant ==
    /\ pc = "throttle"
    /\ Len(passed) < MaxPassed
    /\ next_tx_ns' = now + Interval
    /\ passed' = Append(passed, [now |-> now, at |-> clock, interval |-> Interval])
    /\ Return
    /\ UNCHANGED <<clock, call, now>>

ThrottleDebtMutant ==
    /\ pc = "throttle"
    /\ clock >= next_tx_ns
    /\ Len(passed) < MaxPassed
    /\ next_tx_ns' = next_tx_ns + now + Interval
    /\ passed' = Append(passed, [now |-> now, at |-> clock, interval |-> Interval])
    /\ Return
    /\ UNCHANGED <<clock, call, now>>

(* Sleep until the deadline, unless it is past; the next deadline counts    *)
(* from the time before the sleep.                                          *)
ThrottleOver ==
    /\ pc = "throttle"
    /\ clock >= next_tx_ns
    /\ Len(passed) < MaxPassed
    /\ next_tx_ns' = now + Interval
    /\ passed' = Append(passed, [now |-> now, at |-> clock, interval |-> Interval])
    /\ Return
    /\ UNCHANGED <<clock, call, now>>

(* The process ends, at any moment, and another one starts.                 *)
Restart == /\ clock' = 0 /\ next_tx_ns' = 0 /\ count' = 0
           /\ pc' = "idle" /\ UNCHANGED call /\ now' = 0
           /\ passed' = << >>

Next == Tick \/ (\E c \in Call : Enter(c)) \/ LatencyOver \/ ThrottleOver \/ Restart

Spec == Init /\ [][Next]_vars

-----------------------------------------------------------------------------
(* Properties                                                               *)

Passed == [now : Nat, at : Nat, interval : Nat]

(* The variables have their types; dummy_recv delivers no more than Limit.  *)
TypeOK ==
    /\ clock \in Nat /\ next_tx_ns \in Nat /\ now \in Nat
    /\ count \in 0..Limit
    /\ pc \in {"idle", "latency", "throttle"}
    /\ call \in Call
    /\ pc # "idle" /\ call.op = "recv" => count < Limit
    /\ pc = "throttle" => call.rate # 0
    /\ passed \in Seq(Passed)

(* What the throttle guarantees: of three successive throttled calls, sends *)
(* or receives on any context, the last leaves at least one interval after  *)
(* the first.  So at most twice tokens_per_second calls pass in the long    *)
(* run, however calls are timed and whatever the latency.                   *)
TwoPerInterval ==
    \A k \in 1..Len(passed) :
        k + 2 <= Len(passed) =>
            passed[k].at + passed[k + 1].interval <= passed[k + 2].at

(* No call is held back for longer than the interval of the call before it. *)
DelayBounded ==
    pc = "throttle" /\ passed # << >> =>
        next_tx_ns <= now + passed[Len(passed)].interval

(* tokens_per_second is a rate ("tokens/sec", README.md:233): in any period *)
(* the throttle passes no more calls than tokens accrue in it, plus what    *)
(* burst_size may have saved up.                                            *)
RateKept ==
    \A j \in 1..Len(passed), k \in 1..Len(passed) :
        j < k => passed[j].at + (k - j) * Interval
                     <= passed[k].at + Burst * Interval
=============================================================================
