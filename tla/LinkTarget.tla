----------------------------- MODULE LinkTarget -----------------------------
(***************************************************************************)
(* The link queries of pcapcie.c and the two programs built on the check:  *)
(* pci_link_check (one target) and pci_link_matrix (four, one after the    *)
(* other, with the link read anew for each).  The link may retrain, and    *)
(* the device go away, between any two of these reads.                     *)
(***************************************************************************)
EXTENDS Naturals, Sequences

CONSTANTS
    Links,        \* [gen, width] a backend can report; gen is UNKNOWN or 1..8
    Targets       \* generation and width on pci_link_check's command line

ASSUME LinksAssumption   == Links \subseteq [gen : Nat, width : Nat]
ASSUME TargetsAssumption == Targets \subseteq [gen : Nat, width : Nat]

UNKNOWN == 0
NoLink  == [gen |-> UNKNOWN, width |-> UNKNOWN]
Unread  == << >>

VARIABLES
    link,       \* what the next query finds: <<a link>>, or Unread if it fails
    results,    \* the verdicts of the matrix so far
    overall,    \* its all_pass
    read,       \* History: the links they were computed from
    verdict     \* of pci_link_check: [target, link, outcome]

linkVars == <<link, results, overall, read, verdict>>

Cases == << [gen |-> 5, width |-> 1], [gen |-> 6, width |-> 4],
            [gen |-> 7, width |-> 8], [gen |-> 8, width |-> 16] >>

Found == {<<l>> : l \in Links} \cup {Unread}
None  == [target |-> NoLink, link |-> Unread, outcome |-> "none"]

LinkInit == /\ link \in Found
            /\ results = << >> /\ overall = TRUE /\ read = << >> /\ verdict = None

(* pcie_check_link_target: a zero asks for nothing.  Mutant: the width has  *)
(* to be met exactly.                                                       *)
MeetsMutant(l, target) ==
    /\ target.gen # UNKNOWN /\ l.gen # UNKNOWN => l.gen >= target.gen
    /\ target.width > 0 => l.width = target.width

Meets(l, target) ==
    /\ target.gen # UNKNOWN /\ l.gen # UNKNOWN => l.gen >= target.gen
    /\ target.width > 0 => l.width >= target.width

pcie_check_link_target(target) == link # Unread /\ Meets(link[1], target)

AllPass(passed) == overall /\ passed

(* pci_link_matrix, one turn.                                               *)
Case ==
    /\ verdict = None /\ Len(results) < Len(Cases)
    /\ LET passed == pcie_check_link_target(Cases[Len(results) + 1])
       IN  results' = Append(results, passed) /\ overall' = AllPass(passed)
    /\ read' = Append(read, link)
    /\ UNCHANGED <<link, verdict>>

(* pci_link_check, which cuts the width to a byte.  Mutant: the arguments   *)
(* change places.                                                           *)
OutcomeMutant(target) ==
    CASE link = Unread -> "unread"
      [] pcie_check_link_target([gen |-> target.width, width |-> target.gen]) -> "pass"
      [] OTHER -> "fail"

Outcome(target) ==
    CASE link = Unread -> "unread"
      [] pcie_check_link_target([target EXCEPT !.width = @ % 256]) -> "pass"
      [] OTHER -> "fail"

Check(target) ==
    /\ results = << >>
    /\ verdict' = [target |-> target, link |-> link, outcome |-> Outcome(target)]
    /\ UNCHANGED <<link, results, overall, read>>

Retrain == /\ link' \in Found \ {link}
           /\ UNCHANGED <<results, overall, read, verdict>>

LinkNext == Case \/ (\E t \in Targets : Check(t)) \/ Retrain

LinkSpec == LinkInit /\ [][LinkNext]_linkVars

-----------------------------------------------------------------------------
(* Properties                                                               *)

(* The table of the matrix contradicts itself only where the link changed   *)
(* between two reads: a case passed on the link on which a harder one did.  *)
Monotone == \A j \in DOMAIN results : results[j] =>
                \A i \in 1..j : read[i] = read[j] => results[i]

(* On a link that stays as it is, and is perhaps not readable at all, the   *)
(* overall verdict is that of the hardest case; and no change of the link   *)
(* hides a case that failed.                                                *)
OverallHonest ==
    Len(results) = Len(Cases) =>
        /\ (\A i \in DOMAIN read : read[i] = read[1]) => overall = results[Len(Cases)]
        /\ overall => FALSE \notin {results[i] : i \in DOMAIN results}

(* A matrix claims no more than its links bear out.                         *)
TableHonest == Monotone /\ OverallHonest

(* A link check passes only on a link that was read, and that is as wide as *)
(* asked - of the width that is left when it is cut to a byte - and as fast *)
(* unless one of the two generations is not known.                          *)
PassEarned ==
    verdict.outcome = "pass" =>
        /\ verdict.link # Unread
        /\ verdict.target.width < 256 => verdict.link[1].width >= verdict.target.width
        /\ \/ UNKNOWN \in {verdict.link[1].gen, verdict.target.gen}
           \/ verdict.link[1].gen >= verdict.target.gen
=============================================================================
