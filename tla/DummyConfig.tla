----------------------------- MODULE DummyConfig ----------------------------
(***************************************************************************)
(* How the dummy backend (backend_dummy.c) makes up its configuration from *)
(* eight environment variables, one of them a list, at every call, and the *)
(* link it reports from that.  A number is a natural, or NoNumber where    *)
(* the text is missing or does not parse.  A profile name is read as a     *)
(* speed and a width; for a name that is not of that form the speed is 0.  *)
(***************************************************************************)
EXTENDS Naturals, Sequences

CONSTANTS
    NoNumber,
    Speeds, Widths,   \* numbers in the PCIE_DUMMY_ variables of the link
    Names,            \* profile names, as [speed, width]
    Durations,        \* numbers after "latency=" and in PCIE_DUMMY_LATENCY_NS
    MaxItems          \* bound: items of PCIE_DUMMY_SCENARIO

NoName == [speed |-> 0, width |-> 0]
UNKNOWN == 0

Item == [key : {"bare", "profile"}, name : Names \cup {NoName}, value : {NoNumber}]
            \cup [key : {"latency"}, name : {NoName}, value : Durations]

Environment ==
    [max_speed : Speeds \cup {NoNumber}, neg_speed : Speeds \cup {NoNumber},
     max_width : Widths \cup {NoNumber}, neg_width : Widths \cup {NoNumber},
     latency : Durations \cup {NoNumber}, profile : Names \cup {NoName},
     scenario : Seq(Item)]

Parse(number, default) == IF number = NoNumber THEN default ELSE number

(* dummy_profile_from_name accepts these.                                   *)
Valid(name) == name.speed \in 1..8 /\ name.width \in 1..16

Applied(name, cfg) ==
    IF ~Valid(name) THEN cfg
    ELSE [cfg EXCEPT !.max_speed = name.speed, !.neg_speed = name.speed,
                     !.max_width = name.width, !.neg_width = name.width]

(* One item of the scenario: acc is <<cfg, name, whether a name was given>>. *)
(* Mutant: the first "profile=" stays.                                      *)
ScenarioItemMutant(acc, item) ==
    CASE item.key = "latency" ->
           <<[acc[1] EXCEPT !.latency = Parse(item.value, @)], acc[2], acc[3]>>
      [] item.key # "latency" /\ acc[3] -> acc
      [] OTHER -> <<acc[1], item.name, TRUE>>

ScenarioItem(acc, item) ==
    CASE item.key = "latency" ->
           <<[acc[1] EXCEPT !.latency = Parse(item.value, @)], acc[2], acc[3]>>
      [] item.key = "bare" /\ acc[3] -> acc
      [] OTHER -> <<acc[1], item.name, TRUE>>

(* What the first k items make of a configuration.                          *)
ItemsRead(scenario, cfg) ==
    LET Read[k \in 0..Len(scenario)] ==
            IF k = 0 THEN <<cfg, NoName, FALSE>> ELSE ScenarioItem(Read[k - 1], scenario[k])
    IN  Read

dummy_apply_scenario_values(scenario, cfg) ==
    LET read == ItemsRead(scenario, cfg)[Len(scenario)]
    IN  Applied(read[2], read[1])

(* dummy_read_runtime_config.                                               *)
Base(env) == [max_speed |-> Parse(env.max_speed, 5),  neg_speed |-> Parse(env.neg_speed, 0),
              max_width |-> Parse(env.max_width, 16), neg_width |-> Parse(env.neg_width, 0),
              latency |-> Parse(env.latency, 0)]

dummy_read_runtime_config(env) ==
    LET cfg == dummy_apply_scenario_values(env.scenario, Applied(env.profile, Base(env)))
    IN  [cfg EXCEPT !.neg_speed = IF @ = 0 THEN cfg.max_speed ELSE @,
                    !.neg_width = IF @ = 0 THEN cfg.max_width ELSE @]

(* A speed cut to a byte, and what pcie_gen_from_speed_code makes of it; a  *)
(* width, tested against zero and then cut.                                 *)
Gen(speed) == IF speed % 256 \in 1..8 THEN speed % 256 ELSE UNKNOWN
Lanes(width) == (IF width > 0 THEN width ELSE 1) % 256

dummy_link_status(env) ==
    LET cfg == dummy_read_runtime_config(env)
    IN  [max_gen |-> Gen(cfg.max_speed), gen |-> Gen(cfg.neg_speed),
         max_width |-> Lanes(cfg.max_width), width |-> Lanes(cfg.neg_width)]

-----------------------------------------------------------------------------
(* A process that sets the variables, one at a time, and asks.              *)
VARIABLES env, status, cfg

vars == <<env, status, cfg>>

Default == [max_speed |-> NoNumber, neg_speed |-> NoNumber, max_width |-> NoNumber,
            neg_width |-> NoNumber, latency |-> NoNumber, profile |-> NoName,
            scenario |-> << >>]

Query == /\ status' = dummy_link_status(env')
         /\ cfg' = dummy_read_runtime_config(env')

Init == /\ env = Default
        /\ status = dummy_link_status(env) /\ cfg = dummy_read_runtime_config(env)

Setenv == /\ \/ \E v \in Speeds : env' \in {[env EXCEPT !.max_speed = v],
                                            [env EXCEPT !.neg_speed = v]}
             \/ \E v \in Widths : env' \in {[env EXCEPT !.max_width = v],
                                            [env EXCEPT !.neg_width = v]}
             \/ \E v \in Durations : env' = [env EXCEPT !.latency = v]
             \/ \E name \in Names \cup {NoName} : env' = [env EXCEPT !.profile = name]
             \/ /\ Len(env.scenario) < MaxItems
                /\ \E item \in Item : env' = [env EXCEPT !.scenario = Append(@, item)]
          /\ Query

Spec == Init /\ [][Setenv]_vars

-----------------------------------------------------------------------------
(* Properties                                                               *)

(* Who decides.  The name a scenario stands for is that of its last         *)
(* "profile=", or, without one, its first bare word; the link is that of    *)
(* the last valid name of PCIE_DUMMY_PROFILE and the scenario, negotiated   *)
(* speed and width included, whatever the other variables hold; and the     *)
(* latency is the last one of the list that parses, or that of its variable. *)
LastOf(at)  == {j \in at : \A i \in at : i <= j}
FirstOf(at) == {j \in at : \A i \in at : j <= i}

Keyed(key) == {k \in DOMAIN env.scenario : env.scenario[k].key = key}
Parsed     == {k \in DOMAIN env.scenario : env.scenario[k].value # NoNumber}

Named == {env.scenario[k].name : k \in IF Keyed("profile") # {} THEN LastOf(Keyed("profile"))
                                                              ELSE FirstOf(Keyed("bare"))}

LastWins ==
    /\ \A name \in IF \E n \in Named : Valid(n) THEN Named ELSE {env.profile} :
           Valid(name) => status = [max_gen |-> name.speed, gen |-> name.speed,
                                    max_width |-> name.width, width |-> name.width]
    /\ cfg.latency \in IF Parsed # {} THEN {env.scenario[k].value : k \in LastOf(Parsed)}
                                     ELSE {Parse(env.latency, 0)}

(* No profile and no scenario, valid or not, makes an impossible link of    *)
(* possible numbers: the generations are known, there is a lane, and what   *)
(* was left to negotiation is what was offered.                             *)
InRange(v, top) == v = NoNumber \/ v <= top
LinkPossible ==
    /\ InRange(env.max_speed, 8) /\ InRange(env.neg_speed, 8) /\ env.max_speed # 0
    /\ InRange(env.max_width, 16) /\ InRange(env.neg_width, 16)
    => /\ status.max_gen # UNKNOWN /\ status.gen # UNKNOWN
       /\ status.max_width \in 1..16 /\ status.width \in 1..16
       /\ env.neg_speed = NoNumber => status.gen = status.max_gen
       /\ env.neg_width = NoNumber => status.width = status.max_width

(* The reported link is the one that was configured, and a possible one.    *)
LinkAsConfigured == LastWins /\ LinkPossible
=============================================================================
