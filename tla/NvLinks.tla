------------------------------ MODULE NvLinks -------------------------------
(* inventory.py: the number of direct NVLinks between two GPUs of a node,    *)
(* from what NVML answers about the link slots of each.                      *)
(*                                                                           *)
(* A slot is a record: "to" is the device its link really leads to, Off when *)
(* there is no active link; "state" and "remote" say whether the two queries *)
(* of the slot are answered rather than raise.                               *)
EXTENDS Integers, FiniteSets

Unknown == -1   \* None
Off     == 0

DirectNvlinkCount(slots, target) ==
  LET asked  == {l \in DOMAIN slots : slots[l].state}
      active == {l \in asked : slots[l].to # Off}
  IN IF asked = {} \/ \E l \in active : ~slots[l].remote THEN Unknown
     ELSE Cardinality({l \in active : slots[l].to = target})

(* Mutant: the first count that is known is taken without a comparison. *)
UndirectedNvlinkCountFirst(links, left, right) ==
  LET forward == DirectNvlinkCount(links[left], right)
      reverse == DirectNvlinkCount(links[right], left)
  IN IF forward # Unknown THEN forward ELSE reverse

(* links[g] are the slots of GPU g. *)
UndirectedNvlinkCount(links, left, right) ==
  LET forward == DirectNvlinkCount(links[left], right)
      reverse == DirectNvlinkCount(links[right], left)
      known   == {forward, reverse} \ {Unknown}
  IN IF Cardinality(known) = 1 THEN CHOOSE count \in known : TRUE ELSE Unknown

Pairs(links) == {pair \in (DOMAIN links) \X (DOMAIN links) : pair[1] < pair[2]}

(* The connections of a snapshot. *)
Connections(links) ==
  [pair \in Pairs(links) |-> UndirectedNvlinkCount(links, pair[1], pair[2])]

-----------------------------------------------------------------------------
(* What is true of the hardware.                                             *)

LinksTo(slots, target) == {l \in DOMAIN slots : slots[l].to = target}

(* A link has two ends. *)
TwoEnded(links) ==
  \A pair \in Pairs(links) :
    Cardinality(LinksTo(links[pair[1]], pair[2])) = Cardinality(LinksTo(links[pair[2]], pair[1]))

(* NVML answered every query of one side. *)
Answered(slots) == \A l \in DOMAIN slots : slots[l].state /\ (slots[l].to # Off => slots[l].remote)

(* No link is counted that is not there.  A count short of k links is that   *)
(* of a GPU whose state queries raised for just those k links, and then no   *)
(* GPU of the two answered everything.                                       *)
CountIsSound(links, pair, count) ==
  LET left  == pair[1]
      right == pair[2]
      real  == Cardinality(LinksTo(links[left], right))
      short(slots, target) ==
        /\ \E l \in DOMAIN slots : slots[l].state
        /\ Cardinality({l \in LinksTo(slots, target) : ~slots[l].state}) = real - count
  IN /\ count <= real
     /\ count \in 0 .. real - 1 =>
          /\ ~Answered(links[left]) /\ ~Answered(links[right])
          /\ short(links[left], right) \/ short(links[right], left)

=============================================================================
