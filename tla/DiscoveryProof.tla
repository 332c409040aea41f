--------------------------- MODULE DiscoveryProof ---------------------------
(* Theorems of Discovery for any nodes, any scenario of calls and resources, *)
(* any hardware that the assumptions of Discovery describe, and any faults.  *)
EXTENDS Discovery, FiniteSetTheorems, TLAPS

(* What DirectNvlinkCount knows of the links to another GPU, from one side.  *)
LEMMA CountOfOneSide ==
  ASSUME NEW slots, IsFiniteSet(DOMAIN slots), NEW target, target # Off
  PROVE  LET count == DirectNvlinkCount(slots, target)
             real  == Cardinality(LinksTo(slots, target))
         IN /\ real \in Nat
            /\ count # Unknown =>
                 /\ count \in 0 .. real
                 /\ \E l \in DOMAIN slots : slots[l].state
                 /\ Cardinality({l \in LinksTo(slots, target) : ~slots[l].state}) = real - count
                 /\ Answered(slots) => count = real
            /\ count = Unknown /\ Answered(slots) => real = 0
<1> DEFINE links  == LinksTo(slots, target)
           seen   == {l \in links : slots[l].state}
           unseen == {l \in links : ~slots[l].state}
           asked  == {l \in DOMAIN slots : slots[l].state}
           active == {l \in asked : slots[l].to # Off}
           count  == DirectNvlinkCount(slots, target)
<1>1. IsFiniteSet(links) /\ IsFiniteSet(seen) /\ IsFiniteSet(unseen)
  BY FS_Subset DEF LinksTo
<1>2. /\ Cardinality(links) \in Nat /\ Cardinality(seen) \in Nat /\ Cardinality(unseen) \in Nat
      /\ Cardinality(seen \cap unseen) = 0
  <2>1. seen \cap unseen = {}
    OBVIOUS
  <2> QED BY <1>1, <2>1, FS_CardinalityType, FS_EmptySet
<1>3. Cardinality(links) = Cardinality(seen) + Cardinality(unseen)
  <2>1. links = seen \cup unseen
    OBVIOUS
  <2>2. Cardinality(seen \cup unseen) = Cardinality(seen) + Cardinality(unseen) - Cardinality(seen \cap unseen)
    BY <1>1, FS_Union
  <2> HIDE DEF links, seen, unseen
  <2> QED BY <2>1, <2>2, <1>2
<1>4. {l \in active : slots[l].to = target} = seen
  BY DEF LinksTo
<1>5. count = IF asked = {} \/ \E l \in active : ~slots[l].remote THEN Unknown ELSE Cardinality(seen)
  BY <1>4 DEF DirectNvlinkCount
<1>6. Answered(slots) => unseen = {} /\ ~ \E l \in active : ~slots[l].remote
  BY DEF Answered, LinksTo
<1>7. asked = {} => seen = {}
  BY DEF LinksTo
<1>8. \A S : S = {} => Cardinality(S) = 0
  BY FS_EmptySet
<1>9. asked # {} => \E l \in DOMAIN slots : slots[l].state
  OBVIOUS
<1>10. (seen = {} => Cardinality(seen) = 0) /\ (unseen = {} => Cardinality(unseen) = 0)
  BY <1>8
<1> HIDE DEF links, seen, unseen, asked, active, count
<1>11. count # Unknown =>
         /\ count = Cardinality(seen)
         /\ \E l \in DOMAIN slots : slots[l].state
         /\ Answered(slots) => Cardinality(unseen) = 0
  BY <1>5, <1>6, <1>9, <1>10
<1>12. count # Unknown =>
         /\ count \in 0 .. Cardinality(links)
         /\ Cardinality(unseen) = Cardinality(links) - count
         /\ Answered(slots) => count = Cardinality(links)
  BY <1>2, <1>3, <1>11
<1>13. count = Unknown /\ Answered(slots) => Cardinality(links) = 0
  BY <1>2, <1>3, <1>5, <1>6, <1>7, <1>10 DEF Unknown
<1> QED BY <1>2, <1>11, <1>12, <1>13 DEF links, unseen, count

(* The count of a pair whose links have two ends is sound.                   *)
LEMMA PairIsSound ==
  ASSUME NEW links, TwoEnded(links), NEW pair \in Pairs(links),
         DOMAIN links \subseteq Nat \ {0},
         \A g \in DOMAIN links : IsFiniteSet(DOMAIN links[g])
  PROVE  CountIsSound(links, pair, UndirectedNvlinkCount(links, pair[1], pair[2]))
<1> DEFINE left    == pair[1]
           right   == pair[2]
           forward == DirectNvlinkCount(links[left], right)
           reverse == DirectNvlinkCount(links[right], left)
           real    == Cardinality(LinksTo(links[left], right))
           back    == Cardinality(LinksTo(links[right], left))
           count   == UndirectedNvlinkCount(links, left, right)
           short(slots, target, n) ==
             /\ \E l \in DOMAIN slots : slots[l].state
             /\ Cardinality({l \in LinksTo(slots, target) : ~slots[l].state}) = real - n
<1>1. left \in DOMAIN links /\ right \in DOMAIN links /\ left # Off /\ right # Off
  BY DEF Pairs, Off
<1>2. real = back
  BY DEF TwoEnded
<1>3. /\ real \in Nat
      /\ forward # Unknown =>
           /\ forward \in 0 .. real
           /\ short(links[left], right, forward)
           /\ Answered(links[left]) => forward = real
      /\ forward = Unknown /\ Answered(links[left]) => real = 0
  BY <1>1, CountOfOneSide
<1>4. /\ reverse # Unknown =>
           /\ reverse \in 0 .. back
           /\ short(links[right], left, reverse)
           /\ Answered(links[right]) => reverse = back
      /\ reverse = Unknown /\ Answered(links[right]) => back = 0
  BY <1>1, <1>2, CountOfOneSide
<1>5. \/ count = Unknown
      \/ /\ count # Unknown /\ count \in {forward, reverse}
         /\ forward # Unknown => forward = count
         /\ reverse # Unknown => reverse = count
  <2> DEFINE known == {forward, reverse} \ {Unknown}
  <2>1. count = IF Cardinality(known) = 1 THEN CHOOSE c \in known : TRUE ELSE Unknown
    BY DEF UndirectedNvlinkCount
  <2>2. known \subseteq {forward, reverse} /\ Unknown \notin known
    OBVIOUS
  <2>3. IsFiniteSet(known)
    <3>1. IsFiniteSet({forward, reverse})
      <4>1. IsFiniteSet({forward}) /\ {forward, reverse} = {forward} \cup {reverse}
        BY FS_Singleton
      <4> QED BY <4>1, FS_AddElement
    <3> QED BY <3>1, <2>2, FS_Subset
  <2>4. Cardinality(known) = 1 => \E c : known = {c}
    BY <2>3, FS_Singleton
  <2>5. CASE Cardinality(known) = 1
    <3>1. PICK c : known = {c}
      BY <2>4, <2>5
    <3>2. count = c
      BY <2>1, <2>5, <3>1
    <3> QED BY <3>1, <3>2
  <2>6. CASE Cardinality(known) # 1
    BY <2>1, <2>6
  <2> QED BY <2>5, <2>6
<1> HIDE DEF left, right, forward, reverse, real, back, count, short
<1>6. count <= real
  BY <1>2, <1>3, <1>4, <1>5 DEF Unknown
<1>7. count \in 0 .. real - 1 =>
        /\ ~Answered(links[left]) /\ ~Answered(links[right])
        /\ short(links[left], right, count) \/ short(links[right], left, count)
  <2> SUFFICES ASSUME count \in 0 .. real - 1
               PROVE  /\ ~Answered(links[left]) /\ ~Answered(links[right])
                      /\ short(links[left], right, count) \/ short(links[right], left, count)
    OBVIOUS
  <2>1. count # Unknown
    BY <1>3 DEF Unknown
  <2>2. count < real /\ real # 0
    BY <1>3
  <2>3. ~Answered(links[left])
    BY <2>1, <2>2, <1>3, <1>5
  <2>4. ~Answered(links[right])
    BY <2>1, <2>2, <1>2, <1>4, <1>5
  <2>5. short(links[left], right, count) \/ short(links[right], left, count)
    BY <2>1, <1>3, <1>4, <1>5
  <2> QED BY <2>3, <2>4, <2>5
<1> QED BY <1>6, <1>7 DEF CountIsSound, left, right, real, count, short

-----------------------------------------------------------------------------
(* The record of one host.                                                   *)

(* A uevent is known as the address it names and as nothing else.            *)
LEMMA TextOfUevent ==
  ASSUME NEW text \in Uevents
  PROVE  /\ Known(TextReading(text)) <=> text \in Addresses
         /\ text \in Addresses => TextReading(text).value = text
         /\ TextReading(text).confidence = "unreadable" <=> text = "eacces"
BY AddressesAssumption DEF Uevents, TextReading, Known, Refusal

LEMMA NumberOfFile ==
  ASSUME NEW file, file.int \in Int
  PROVE  /\ NumberReading(file).value # None <=> file.text = "int" /\ file.int >= 0
         /\ NumberReading(file).confidence = "unreadable" <=> file.text = "eacces"
<1>1. CASE file.text \in DOMAIN Refusal
  BY <1>1 DEF NumberReading, Refusal, None
<1>2. CASE file.text = "empty"
  BY <1>2 DEF NumberReading, Refusal, None
<1>3. CASE file.text = "int" /\ file.int >= 0
  BY <1>3 DEF NumberReading, Refusal, None
<1>4. CASE /\ file.text \notin DOMAIN Refusal /\ file.text # "empty"
           /\ ~(file.text = "int" /\ file.int >= 0)
  BY <1>4 DEF NumberReading, Refusal, None
<1> QED BY <1>1, <1>2, <1>3, <1>4

LEMMA HostIsHonest ==
  ASSUME NEW host, IsNicHost(host)
  PROVE  UnknownIsNotZero(host, Collect(host))
<1>7. NicNames(host) = {} => <<"host", "no interfaces">> \in Collect(host).problems
  BY DEF Collect
<1> SUFFICES ASSUME NEW n \in NicNames(host)
             PROVE  LET i == Interface(host, n)
                    IN /\ i \in Collect(host).interfaces
                       /\ i.name = n
                       /\ i.number.value # None <=> host.nics[n].number.text = "int" /\ host.nics[n].number.int >= 0
                       /\ host.nics[n].number.text = "eacces" <=> "number" \in i.problems
                       /\ host.nics[n].uevent = "eacces" <=> "pci" \in i.problems
  BY <1>7 DEF UnknownIsNotZero
<1> DEFINE i      == Interface(host, n)
           nic    == host.nics[n]
           pci    == TextReading(nic.uevent)
           number == NumberReading(nic.number)
<1>1. i \in Collect(host).interfaces
  BY DEF Collect
<1>2. i.name = n /\ i.number = number /\ i.problems = Unreadable([pci |-> pci, number |-> number])
  BY DEF Interface
<1>3. /\ "number" \in Unreadable([pci |-> pci, number |-> number]) <=> number.confidence = "unreadable"
      /\ "pci" \in Unreadable([pci |-> pci, number |-> number]) <=> pci.confidence = "unreadable"
  BY DEF Unreadable
<1>4. nic.uevent \in Uevents /\ nic.number.int \in Int
  BY DEF IsNicHost, NicNames, Directories
<1>5. /\ number.value # None <=> nic.number.text = "int" /\ nic.number.int >= 0
      /\ number.confidence = "unreadable" <=> nic.number.text = "eacces"
  BY <1>4, NumberOfFile
<1>6. pci.confidence = "unreadable" <=> nic.uevent = "eacces"
  BY <1>4, TextOfUevent
<1> QED BY <1>1, <1>2, <1>3, <1>5, <1>6

LEMMA HostIsKept ==
  ASSUME NEW host, IsNicHost(host)
  PROVE  RdmaIsKept(host, Collect(host))
<1> DEFINE Device(d) == [name |-> d, pci |-> TextReading(host.rdma[d].uevent),
                         port |-> TextReading(host.rdma[d].port)]
           interfaces == {Interface(host, n) : n \in NicNames(host)}
           unattached == RdmaDevices(host) \ UNION {i.rdma : i \in interfaces}
<1>1. /\ Collect(host).interfaces = interfaces
      /\ Collect(host).unattached = unattached
      /\ \A x \in unattached : \E p \in Collect(host).problems : p[1] = x.name
  <2>1. Collect(host).interfaces = interfaces /\ Collect(host).unattached = unattached
    BY DEF Collect
  <2>2. ASSUME NEW x \in unattached
        PROVE  \E p \in Collect(host).problems : p[1] = x.name
    <3> DEFINE q == <<x.name, IF Known(x.pci) THEN "no interface" ELSE "no address">>
    <3>1. q \in {<<d.name, IF Known(d.pci) THEN "no interface" ELSE "no address">> : d \in unattached}
      BY <2>2
    <3>3. {<<d.name, IF Known(d.pci) THEN "no interface" ELSE "no address">> : d \in unattached}
            \subseteq Collect(host).problems
      BY Zenon DEF Collect
    <3>2. q[1] = x.name
      OBVIOUS
    <3> QED BY <3>1, <3>2, <3>3
  <2> QED BY <2>1, <2>2
<1> SUFFICES ASSUME NEW d \in RdmaNames(host)
             PROVE  LET uevent == host.rdma[d].uevent
                        near == {n \in NicNames(host) : uevent \in Addresses /\ host.nics[n].uevent = uevent}
                    IN /\ {i.name : i \in {i \in interfaces : \E x \in i.rdma : x.name = d}} = near
                       /\ (\E x \in unattached : x.name = d) <=> near = {}
                       /\ near = {} => \E p \in Collect(host).problems : p[1] = d
  BY <1>1 DEF RdmaIsKept
<1> DEFINE uevent == host.rdma[d].uevent
           near == {n \in NicNames(host) : uevent \in Addresses /\ host.nics[n].uevent = uevent}
<1>2. /\ Device(d) \in RdmaDevices(host) /\ Device(d).name = d
      /\ \A x \in RdmaDevices(host) : x.name = d => x = Device(d)
  BY DEF RdmaDevices
<1>3. uevent \in Uevents
  BY DEF RdmaNames, Directories, IsNicHost
<1>4. ASSUME NEW n \in NicNames(host)
      PROVE  /\ Interface(host, n).name = n
             /\ Interface(host, n).rdma \subseteq RdmaDevices(host)
             /\ Device(d) \in Interface(host, n).rdma <=> n \in near
  <2> DEFINE pci == TextReading(host.nics[n].uevent)
  <2>1. Interface(host, n).name = n /\ Interface(host, n).rdma = MatchingRdma(host, pci)
    BY DEF Interface
  <2>2. Device(d).pci = TextReading(uevent)
    OBVIOUS
  <2>3. host.nics[n].uevent \in Uevents
    BY DEF IsNicHost, NicNames, Directories
  <2>4. Device(d) \in MatchingRdma(host, pci) <=>
          Known(pci) /\ Known(Device(d).pci) /\ Device(d).pci.value = pci.value
    BY <1>2 DEF MatchingRdma
  <2>5. Device(d) \in MatchingRdma(host, pci) <=> n \in near
    BY <2>2, <2>3, <2>4, <1>3, TextOfUevent
  <2> QED BY <2>1, <2>5 DEF MatchingRdma
<1> HIDE DEF Device
<1>5. \A n \in NicNames(host) : (\E x \in Interface(host, n).rdma : x.name = d) <=> n \in near
  BY <1>2, <1>4
<1>6. {i.name : i \in {i \in interfaces : \E x \in i.rdma : x.name = d}} = near
  <2> DEFINE bearing == {i \in interfaces : \E x \in i.rdma : x.name = d}
  <2>1. ASSUME NEW n \in near PROVE n \in {i.name : i \in bearing}
    BY <1>4, <1>5
  <2>2. ASSUME NEW i \in bearing PROVE i.name \in near
    <3>1. PICK n \in NicNames(host) : i = Interface(host, n)
      OBVIOUS
    <3> QED BY <3>1, <1>4, <1>5
  <2> QED BY <2>1, <2>2
<1>7. (\E x \in unattached : x.name = d) <=> Device(d) \in unattached
  BY <1>2
<1>8. Device(d) \in unattached <=> near = {}
  BY <1>2, <1>4
<1> QED BY <1>1, <1>2, <1>6, <1>7, <1>8

-----------------------------------------------------------------------------
(* The invariant.                                                            *)

InQuestion(n) == IF IsNic THEN offers[n].markers # {} ELSE offers[n].gpus > 0

(* What the call has taken from the listing.  No node joins later, so a      *)
(* node that is alive when the answers are there was in the listing.         *)
ListInv ==
  /\ alive \subseteq DOMAIN offers
  /\ metadata \in Seq(DOMAIN offers)
  /\ \A i, j \in DOMAIN metadata : metadata[i] = metadata[j] => i = j
  /\ step = "list" => refs = 0
  /\ step = "submit" => refs < Len(metadata)
  /\ step = "get" => refs = Len(metadata)
  /\ step \in {"submit", "get"} =>
       \A n \in alive : InQuestion(n) => \E i \in DOMAIN metadata : metadata[i] = n
  /\ IsNic => \A i, j \in DOMAIN metadata :
       HasMarker(metadata[i]) /\ (NameOf(metadata[i]) = NameOf(metadata[j]) => i = j)
  /\ \A i \in 1 .. refs : Acceptable(metadata[i])

(* An answer is a reading of a node that was listed.                         *)
ProbeInv ==
  /\ DOMAIN result = NodeIds
  /\ \A n \in NodeIds : probe[n] = "done" =>
       \E m \in DOMAIN offers : \E host \in Hardware(scenario, m) :
         result[n] = {[node |-> m, host |-> host]}

(* A record is what the probe of its node answered, and that probe is over.  *)
IsRecord(r) ==
  /\ r.id \in DOMAIN offers /\ HasMarker(r.id) /\ Acceptable(r.id) /\ probe[r.id] = "done"
  /\ r.name = NameOf(r.id) /\ r.configured = offers[r.id].gpus
  /\ \E a \in result[r.id] : a.node = r.id /\ r.read = Reads(a.host)

RecordsInv ==
  /\ step \in {"list", "submit", "get", "cancel", "batch"} => inventory = <<>>
  /\ \A i \in DOMAIN inventory : IsRecord(inventory[i])
  /\ InventoryIsWhole

NodesInv ==
  /\ step \notin Ends \cup {"plan"} => nodes = <<>>
  /\ step \in {"convert", "plan"} => scenario.kind = "planner"
  /\ nodes # <<>> => ~IsNic
  /\ \A i \in DOMAIN nodes :
       /\ i \in DOMAIN inventory /\ IsPlannerNode(inventory[i])
       /\ nodes[i] = [name |-> inventory[i].name, model |-> inventory[i].read.devices[1],
                      gpus |-> inventory[i].configured]
  /\ step = "returned" => \A i, j \in DOMAIN nodes : nodes[i].name = nodes[j].name => i = j

IInv == TypeOK /\ ListInv /\ ProbeInv /\ RecordsInv /\ NodesInv

-----------------------------------------------------------------------------
(* What the steps rest on.                                                   *)

(* An order of a set is a sequence that holds each of its members once.      *)
LEMMA OrderIsWhole ==
  ASSUME NEW S, IsFiniteSet(S), NEW s \in Orders(S)
  PROVE  /\ s \in Seq(S) /\ Len(s) = Cardinality(S)
         /\ \A i, j \in DOMAIN s : s[i] = s[j] => i = j
         /\ \A x \in S : \E i \in DOMAIN s : s[i] = x
<1> DEFINE size == Cardinality(S)
<1>1. size \in Nat
  BY FS_CardinalityType
<1>2. s \in [1 .. size -> S] /\ \A i, j \in 1 .. size : i # j => s[i] # s[j]
  BY DEF Orders
<1>3. s \in Injection(1 .. size, S)
  BY <1>2 DEF Injection, IsInjective
<1>4. IsFiniteSet(1 .. size) /\ Cardinality(1 .. size) = size
  BY <1>1, FS_Interval
<1>5. s \in Surjection(1 .. size, S)
  BY <1>3, <1>4, FS_Injection
<1>6. \A x \in S : \E i \in 1 .. size : s[i] = x
  BY <1>5 DEF Surjection
<1> HIDE DEF size
<1>7. s \in Seq(S) /\ Len(s) = size /\ DOMAIN s = 1 .. size
  BY <1>1, <1>2
<1> QED BY <1>2, <1>6, <1>7 DEF size

LEMMA OffersOfScenario ==
  ASSUME scenario \in Scenarios
  PROVE  /\ DOMAIN offers \subseteq NodeIds
         /\ \A n \in DOMAIN offers : IsOffer(offers[n])
         /\ \A n \in DOMAIN offers : \A host \in Hardware(scenario, n) :
              IF IsNic THEN IsNicHost(host) ELSE IsGpuHost(host)
BY ScenariosAssumption DEF offers, IsNic

(* The one marker of a node names it.                                        *)
LEMMA MarkerNames ==
  ASSUME NEW n, IsOffer(offers[n]), HasMarker(n)
  PROVE  offers[n].markers = {NameOf(n)} /\ NameOf(n) \in Int
<1>1. PICK name : offers[n].markers = {name}
  BY FS_Singleton DEF HasMarker, IsOffer
<1>2. NameOf(n) = name
  BY <1>1 DEF NameOf
<1> QED BY <1>1, <1>2 DEF IsOffer

-----------------------------------------------------------------------------
(* Every step keeps the invariant.                                           *)

LEMMA InitInv == Init => IInv
<1> SUFFICES ASSUME Init PROVE IInv
  OBVIOUS
<1>1. DOMAIN offers \subseteq NodeIds
  BY OffersOfScenario DEF Init
<1>2. Cardinality(NodeIds) \in Nat
  BY NodesAssumption, FS_CardinalityType
<1>3. TypeOK
  <2>1. metadata = <<>> /\ Len(metadata) = 0 /\ refs = 0 /\ cancelled = 0 /\ step = "list" /\ cut = FALSE
    BY DEF Init
  <2>2. alive \subseteq NodeIds /\ scenario \in Scenarios
    BY <1>1 DEF Init, offers
  <2>3. probe \in [NodeIds -> {"none", "queued", "running", "done", "failed"}] /\ cancelling = {} /\ missed = {}
    BY DEF Init
  <2>4. Len(metadata) <= Cardinality(NodeIds) /\ refs \in 0 .. Len(metadata) /\ cancelled \in 0 .. refs
    BY <2>1, <1>2
  <2>5. step \in {"list", "submit", "get", "cancel", "convert", "plan", "batch"} \cup Ends /\ cut \in BOOLEAN
    BY <2>1
  <2> QED BY <2>2, <2>3, <2>4, <2>5 DEF TypeOK
<1>4. ListInv
  BY DEF Init, ListInv, offers
<1>5. ProbeInv
  BY DEF Init, ProbeInv
<1>6. RecordsInv
  BY DEF Init, RecordsInv, InventoryIsWhole
<1>7. NodesInv
  BY DEF Init, NodesInv, Ends
<1> QED BY <1>3, <1>4, <1>5, <1>6, <1>7 DEF IInv

(* What Ray does leaves the call alone and the answers that are there.       *)
LEMMA RayEffect ==
  ASSUME IInv, NEW n \in NodeIds,
         ProbeStarts(n) \/ ProbeEnds(n) \/ ProbeRaises(n) \/ WorkerDies(n) \/ NodeDies(n) \/ ProbeStopped(n)
  PROVE  /\ UNCHANGED <<scenario, call, batches, cancelling, missed>>
         /\ alive' \subseteq alive
         /\ probe' \in [NodeIds -> {"none", "queued", "running", "done", "failed"}]
         /\ \A m \in NodeIds : probe[m] = "done" => probe'[m] = "done" /\ result'[m] = result[m]
         /\ ProbeInv'
<1> USE DEF IInv, TypeOK, ProbeInv, offers
<1>1. CASE ProbeStarts(n)
  BY <1>1 DEF ProbeStarts, Becomes
<1>2. CASE ProbeEnds(n)
  <2>1. PICK m \in alive : \E host \in Hardware(scenario, m) :
          result' = [result EXCEPT ![n] = {[node |-> m, host |-> host]}]
    BY <1>2 DEF ProbeEnds
  <2>2. m \in DOMAIN offers
    BY DEF ListInv
  <2> QED BY <1>2, <2>1, <2>2 DEF ProbeEnds
<1>3. CASE ProbeRaises(n)
  BY <1>3 DEF ProbeRaises, Becomes
<1>4. CASE WorkerDies(n)
  BY <1>4 DEF WorkerDies, Becomes
<1>5. CASE NodeDies(n)
  BY <1>5 DEF NodeDies, Unfinished
<1>6. CASE ProbeStopped(n)
  BY <1>6 DEF ProbeStopped, Becomes, Unfinished
<1> QED BY <1>1, <1>2, <1>3, <1>4, <1>5, <1>6

(* The listing stays as it is while the nodes of it die.                     *)
LEMMA ListStays ==
  ASSUME IInv,
         UNCHANGED <<scenario, metadata, refs>>,
         alive' \subseteq alive,
         step' = step \/ step' \notin {"list", "submit", "get"}
  PROVE  ListInv'
<1>1. /\ (alive \subseteq DOMAIN offers)' /\ (metadata \in Seq(DOMAIN offers))'
      /\ (\A i, j \in DOMAIN metadata : metadata[i] = metadata[j] => i = j)'
      /\ (step = "list" => refs = 0)' /\ (step = "submit" => refs < Len(metadata))' /\ (step = "get" => refs = Len(metadata))'
  BY DEF IInv, ListInv, offers
<1>2. (step \in {"submit", "get"} =>
        \A n \in alive : InQuestion(n) => \E i \in DOMAIN metadata : metadata[i] = n)'
  BY DEF IInv, ListInv, InQuestion, IsNic, offers
<1>3. (IsNic => \A i, j \in DOMAIN metadata :
        HasMarker(metadata[i]) /\ (NameOf(metadata[i]) = NameOf(metadata[j]) => i = j))'
  <2>1. ASSUME IsNic, NEW i \in DOMAIN metadata, NEW j \in DOMAIN metadata
        PROVE  (HasMarker(metadata[i]) /\ (NameOf(metadata[i]) = NameOf(metadata[j]) => i = j))'
    <3>1. HasMarker(metadata[i]) /\ (NameOf(metadata[i]) = NameOf(metadata[j]) => i = j)
      BY <2>1 DEF IInv, ListInv
    <3>2. (HasMarker(metadata[i]))' /\ NameOf(metadata[i])' = NameOf(metadata[i])
          /\ NameOf(metadata[j])' = NameOf(metadata[j])
      BY <3>1 DEF HasMarker, NameOf, offers
    <3> QED BY <3>1, <3>2
  <2> QED BY <2>1 DEF IsNic
<1>4. (\A i \in 1 .. refs : Acceptable(metadata[i]))'
  BY DEF IInv, ListInv, Acceptable, HasMarker, IsNic, offers
<1> QED BY <1>1, <1>2, <1>3, <1>4 DEF ListInv

(* An inventory that is there outlives what happens to the nodes.            *)
LEMMA RecordsStay ==
  ASSUME IInv,
         UNCHANGED <<scenario, inventory>>,
         alive' \subseteq alive,
         step' \in {"list", "submit", "get", "cancel", "batch"} => inventory = <<>>,
         \A m \in NodeIds : probe[m] = "done" => probe'[m] = "done" /\ result'[m] = result[m]
  PROVE  RecordsInv'
<1>1. \A i \in DOMAIN inventory : /\ inventory[i].id \in NodeIds
                                 /\ probe'[inventory[i].id] = "done"
                                 /\ result'[inventory[i].id] = result[inventory[i].id]
  BY OffersOfScenario DEF IInv, TypeOK, RecordsInv, IsRecord
<1>2. ASSUME NEW i \in DOMAIN inventory
      PROVE  IsRecord(inventory[i])'
  <2> DEFINE r == inventory[i]
  <2>1. /\ r.id \in DOMAIN offers /\ HasMarker(r.id) /\ Acceptable(r.id)
        /\ r.name = NameOf(r.id) /\ r.configured = offers[r.id].gpus
        /\ \E a \in result[r.id] : a.node = r.id /\ r.read = Reads(a.host)
    BY DEF IInv, RecordsInv, IsRecord
  <2>2. inventory'[i] = r /\ probe'[r.id] = "done" /\ result'[r.id] = result[r.id]
    BY <1>1
  <2>3. (r.id \in DOMAIN offers /\ HasMarker(r.id) /\ Acceptable(r.id) /\ r.name = NameOf(r.id)
          /\ r.configured = offers[r.id].gpus)'
    BY <2>1, <2>2 DEF HasMarker, Acceptable, NameOf, IsNic, offers
  <2>4. (\E a \in result[r.id] : a.node = r.id /\ r.read = Reads(a.host))'
    BY <2>1, <2>2 DEF Reads, IsNic
  <2> QED BY <2>2, <2>3, <2>4 DEF IsRecord
<1>3. InventoryIsWhole'
  <2>1. ASSUME inventory # <<>>, NEW i \in DOMAIN inventory
        PROVE  (/\ inventory[i].name \in offers[inventory[i].id].markers
                /\ \E a \in result[inventory[i].id] :
                     a.node = inventory[i].id /\ inventory[i].read = Reads(a.host)
                /\ \A j \in DOMAIN inventory : i < j =>
                     /\ inventory[i].id # inventory[j].id
                     /\ inventory[i].name <= inventory[j].name
                     /\ IsNic => inventory[i].name # inventory[j].name)'
    <3> DEFINE r == inventory[i]
    <3>1. /\ r.name \in offers[r.id].markers
          /\ \E a \in result[r.id] : a.node = r.id /\ r.read = Reads(a.host)
          /\ \A j \in DOMAIN inventory : i < j =>
               /\ r.id # inventory[j].id
               /\ r.name <= inventory[j].name
               /\ IsNic => r.name # inventory[j].name
      BY <2>1 DEF IInv, RecordsInv, InventoryIsWhole
    <3>2. (\E a \in result[r.id] : a.node = r.id /\ r.read = Reads(a.host))'
      BY <3>1, <1>1 DEF Reads, IsNic
    <3> QED BY <3>1, <3>2 DEF IsNic, offers
  <2>2. ASSUME inventory # <<>>, NEW n \in alive'
        PROVE  ((IF IsNic THEN offers[n].markers # {} ELSE offers[n].gpus > 0) =>
                 \E i \in DOMAIN inventory : inventory[i].id = n)'
    BY <2>2 DEF IInv, RecordsInv, InventoryIsWhole, IsNic, offers
  <2> QED BY <2>1, <2>2 DEF InventoryIsWhole
<1> QED BY <1>2, <1>3 DEF IInv, RecordsInv

LEMMA RayStep ==
  ASSUME IInv, RayNext
  PROVE  IInv'
<1>1. PICK n \in NodeIds :
        ProbeStarts(n) \/ ProbeEnds(n) \/ ProbeRaises(n) \/ WorkerDies(n) \/ NodeDies(n) \/ ProbeStopped(n)
  BY DEF RayNext
<1>2. /\ UNCHANGED <<scenario, call, batches, cancelling, missed>>
      /\ alive' \subseteq alive
      /\ probe' \in [NodeIds -> {"none", "queued", "running", "done", "failed"}]
      /\ \A m \in NodeIds : probe[m] = "done" => probe'[m] = "done" /\ result'[m] = result[m]
      /\ ProbeInv'
  BY <1>1, RayEffect
<1>3. TypeOK'
  BY <1>2 DEF IInv, TypeOK, call, Ends
<1>4. ListInv'
  BY <1>2, ListStays DEF call
<1>5. RecordsInv'
  BY <1>2, RecordsStay DEF call, IInv, RecordsInv
<1>6. NodesInv'
  BY <1>2 DEF IInv, NodesInv, call, Ends, IsNic, IsPlannerNode
<1> QED BY <1>2, <1>3, <1>4, <1>5, <1>6 DEF IInv

(* Steps of the call that change nothing but its place and its cancellations. *)
LEMMA CallMoves ==
  ASSUME IInv,
         UNCHANGED <<scenario, alive, probe, result, metadata, refs, inventory, nodes>>,
         cut' \in BOOLEAN, cancelled' \in 0 .. refs,
         cancelling' \subseteq NodeIds, missed' \subseteq NodeIds,
         \/ step' = step
         \/ step' = "raised"
         \/ step' = "returned" /\ \A i, j \in DOMAIN nodes : nodes[i].name = nodes[j].name => i = j
         \/ step' \in {"cancel", "batch"} /\ inventory = <<>> /\ nodes = <<>>
  PROVE  IInv'
<1>1. TypeOK'
  BY DEF IInv, TypeOK, Ends
<1>2. ListInv'
  BY ListStays DEF Ends
<1>3. ProbeInv'
  BY DEF IInv, ProbeInv, offers
<1>4. RecordsInv'
  BY RecordsStay DEF IInv, RecordsInv, Ends
<1>5. NodesInv'
  BY DEF IInv, NodesInv, Ends, IsNic, IsPlannerNode
<1> QED BY <1>1, <1>2, <1>3, <1>4, <1>5 DEF IInv

(* The listing that goes on to the probes.                                   *)
LEMMA ListStep ==
  ASSUME IInv, step = "list", refs = 0,
         NEW S \in SUBSET alive, metadata' \in Orders(S), S # {},
         \A n \in alive : InQuestion(n) => n \in S,
         IsNic => /\ \A n \in S : HasMarker(n)
                  /\ \A n, m \in S : NameOf(n) = NameOf(m) => n = m,
         step' = "submit",
         UNCHANGED <<scenario, refs, cancelled, inventory, nodes, cut, ray>>
  PROVE  IInv'
<1>1. S \subseteq DOMAIN offers /\ S \subseteq NodeIds /\ IsFiniteSet(S)
  BY NodesAssumption, OffersOfScenario, FS_Subset DEF IInv, TypeOK, ListInv
<1>2. Cardinality(S) \in Nat \ {0} /\ Cardinality(S) <= Cardinality(NodeIds)
  BY <1>1, NodesAssumption, FS_CardinalityType, FS_Subset, FS_EmptySet
<1>3. PICK s \in Orders(S) : metadata' = s
  OBVIOUS
<1>4. /\ s \in Seq(S) /\ Len(s) = Cardinality(S)
      /\ \A i, j \in DOMAIN s : s[i] = s[j] => i = j
      /\ \A x \in S : \E i \in DOMAIN s : s[i] = x
      /\ \A i \in DOMAIN s : s[i] \in S
  BY <1>1, <1>3, OrderIsWhole
<1>5. TypeOK'
  <2>1. (Len(metadata) <= Cardinality(NodeIds) /\ refs \in 0 .. Len(metadata) /\ cancelled \in 0 .. refs)'
    BY <1>2, <1>3, <1>4 DEF IInv, TypeOK
  <2> QED BY <2>1 DEF IInv, TypeOK, ray
<1>6. ListInv'
  <2>1. (alive \subseteq DOMAIN offers)' /\ (metadata \in Seq(DOMAIN offers))'
    BY <1>1, <1>3, <1>4 DEF IInv, ListInv, ray, offers
  <2>2. /\ (\A i, j \in DOMAIN metadata : metadata[i] = metadata[j] => i = j)'
        /\ (step = "list" => refs = 0)' /\ (step = "submit" => refs < Len(metadata))' /\ (step = "get" => refs = Len(metadata))'
    BY <1>2, <1>3, <1>4
  <2>3. (\A n \in alive : InQuestion(n) => \E i \in DOMAIN metadata : metadata[i] = n)'
    BY <1>3, <1>4 DEF InQuestion, IsNic, offers, ray
  <2>4. (IsNic => \A i, j \in DOMAIN metadata :
          HasMarker(metadata[i]) /\ (NameOf(metadata[i]) = NameOf(metadata[j]) => i = j))'
    <3>1. ASSUME IsNic, NEW i \in DOMAIN s, NEW j \in DOMAIN s
          PROVE  HasMarker(s[i]) /\ (NameOf(s[i]) = NameOf(s[j]) => i = j)
      BY <3>1, <1>4
    <3>2. \A n : (HasMarker(n))' = HasMarker(n) /\ NameOf(n)' = NameOf(n)
      BY DEF HasMarker, NameOf, offers
    <3>3. IsNic' = IsNic
      BY DEF IsNic
    <3> QED BY <3>1, <3>2, <3>3, <1>3
  <2>5. (\A i \in 1 .. refs : Acceptable(metadata[i]))'
    OBVIOUS
  <2> QED BY <2>1, <2>2, <2>3, <2>4, <2>5 DEF ListInv
<1>7. ProbeInv'
  BY DEF IInv, ProbeInv, ray, offers
<1>8. RecordsInv'
  BY RecordsStay DEF IInv, RecordsInv, ray
<1>9. NodesInv'
  BY DEF IInv, NodesInv, Ends, IsNic, IsPlannerNode
<1> QED BY <1>5, <1>6, <1>7, <1>8, <1>9 DEF IInv

LEMMA SubmitStep ==
  ASSUME IInv, Submit
  PROVE  IInv'
<1> DEFINE n == metadata[refs + 1]
<1>1. /\ step = "submit" /\ Acceptable(n)
      /\ probe' = [probe EXCEPT ![n] = IF n \in alive THEN "queued" ELSE "failed"]
      /\ refs' = refs + 1
      /\ step' = IF refs' = Len(metadata) THEN "get" ELSE "submit"
      /\ UNCHANGED <<scenario, metadata, cancelled, inventory, nodes, cut, alive, result, cancelling, missed>>
  BY DEF Submit, Launch
<1>2. /\ metadata \in Seq(DOMAIN offers) /\ refs \in Nat /\ cancelled \in 0 .. refs
      /\ refs + 1 \in DOMAIN metadata /\ refs < Len(metadata)
  BY <1>1 DEF IInv, TypeOK, ListInv
<1>3. n \in NodeIds
  BY <1>2, OffersOfScenario DEF IInv, TypeOK
<1>4. inventory = <<>> /\ nodes = <<>>
  BY <1>1 DEF IInv, RecordsInv, NodesInv, Ends
<1>5. TypeOK'
  <2>1. (refs \in 0 .. Len(metadata) /\ cancelled \in 0 .. refs)'
    BY <1>1, <1>2
  <2>2. (probe \in [NodeIds -> {"none", "queued", "running", "done", "failed"}])'
    BY <1>1, <1>3 DEF IInv, TypeOK
  <2> HIDE DEF n
  <2> QED BY <1>1, <2>1, <2>2 DEF IInv, TypeOK
<1>6. ListInv'
  <2>1. /\ (alive \subseteq DOMAIN offers)' /\ (metadata \in Seq(DOMAIN offers))'
        /\ (\A i, j \in DOMAIN metadata : metadata[i] = metadata[j] => i = j)'
    BY <1>1 DEF IInv, ListInv, offers
  <2>2. (step = "list" => refs = 0)' /\ (step = "submit" => refs < Len(metadata))' /\ (step = "get" => refs = Len(metadata))'
    BY <1>1, <1>2
  <2>3. (\A m \in alive : InQuestion(m) => \E i \in DOMAIN metadata : metadata[i] = m)'
    BY <1>1 DEF IInv, ListInv, InQuestion, IsNic, offers
  <2>4. /\ \A m : (HasMarker(m))' = HasMarker(m) /\ NameOf(m)' = NameOf(m) /\ (Acceptable(m))' = Acceptable(m)
        /\ IsNic' = IsNic
    BY <1>1 DEF HasMarker, NameOf, Acceptable, IsNic, offers
  <2>5. (IsNic => \A i, j \in DOMAIN metadata :
          HasMarker(metadata[i]) /\ (NameOf(metadata[i]) = NameOf(metadata[j]) => i = j))'
    BY <1>1, <2>4 DEF IInv, ListInv
  <2>6. \A i \in 1 .. refs + 1 : Acceptable(metadata[i])
    <3>1. \A i \in 1 .. refs + 1 : i \in 1 .. refs \/ i = refs + 1
      BY <1>2
    <3> QED BY <3>1, <1>1 DEF IInv, ListInv
  <2>7. (\A i \in 1 .. refs : Acceptable(metadata[i]))'
    BY <1>1, <2>4, <2>6
  <2> QED BY <2>1, <2>2, <2>3, <2>5, <2>7 DEF ListInv
<1>7. ProbeInv'
  BY <1>1, <1>3 DEF IInv, TypeOK, ProbeInv, offers
<1>8. RecordsInv'
  BY <1>1, <1>4 DEF RecordsInv, InventoryIsWhole
<1>9. NodesInv'
  BY <1>1, <1>4 DEF NodesInv
<1> QED BY <1>5, <1>6, <1>7, <1>8, <1>9 DEF IInv

(* A probe that is launched as its submission breaks off.                    *)
LEMMA UnkeptStep ==
  ASSUME IInv, LaunchUnkept(metadata[refs + 1]), Fail, UNCHANGED scenario
  PROVE  IInv'
<1> DEFINE n == metadata[refs + 1]
<1>1. /\ step = "submit"
      /\ probe' = [probe EXCEPT ![n] = IF n \in alive THEN "queued" ELSE "failed"]
      /\ missed' = missed \cup {n}
      /\ UNCHANGED <<scenario, metadata, refs, cancelled, inventory, nodes, cut, alive, result, cancelling>>
      /\ step' \in {"cancel", "raised"}
  BY DEF LaunchUnkept, Launch, Fail, Goto
<1>2. metadata \in Seq(DOMAIN offers) /\ refs + 1 \in DOMAIN metadata
  BY <1>1 DEF IInv, TypeOK, ListInv
<1>3. n \in NodeIds
  BY <1>2, OffersOfScenario DEF IInv, TypeOK
<1>4. inventory = <<>> /\ nodes = <<>>
  BY <1>1 DEF IInv, RecordsInv, NodesInv, Ends
<1> HIDE DEF n
<1>5. TypeOK'
  BY <1>1, <1>3 DEF IInv, TypeOK, Ends
<1>6. ListInv'
  BY <1>1, ListStays
<1>7. ProbeInv'
  BY <1>1, <1>3 DEF IInv, TypeOK, ProbeInv, offers
<1>8. RecordsInv'
  BY <1>1, <1>4 DEF RecordsInv, InventoryIsWhole
<1>9. NodesInv'
  BY <1>1, <1>4 DEF NodesInv
<1> QED BY <1>5, <1>6, <1>7, <1>8, <1>9 DEF IInv

(* What ray.get returns when every probe is done and on its node.            *)
LEMMA AnswersMakeRecords ==
  ASSUME IInv, step = "get",
         \A i \in DOMAIN metadata : probe[metadata[i]] = "done",
         RightNodes(metadata),
         NEW n, n \in {metadata[i] : i \in DOMAIN metadata}
  PROVE  IsRecord([id |-> n, name |-> NameOf(n), configured |-> offers[n].gpus,
                   read |-> Reads(Answer(n).host)])
<1>1. PICK i \in DOMAIN metadata : n = metadata[i]
  OBVIOUS
<1>2. metadata \in Seq(DOMAIN offers) /\ refs = Len(metadata) /\ i \in 1 .. refs
  BY DEF IInv, ListInv
<1>3. n \in DOMAIN offers /\ n \in NodeIds /\ Acceptable(n) /\ HasMarker(n)
  BY <1>1, <1>2, OffersOfScenario DEF IInv, TypeOK, ListInv, Acceptable
<1>4. probe[n] = "done" /\ Answer(n).node = n
  BY <1>1 DEF RightNodes
<1>5. PICK a : result[n] = {a}
  BY <1>3, <1>4 DEF IInv, ProbeInv
<1>6. Answer(n) \in result[n]
  BY <1>5 DEF Answer
<1> QED BY <1>3, <1>4, <1>6 DEF IsRecord

LEMMA GetStep ==
  ASSUME IInv, GetReturns
  PROVE  IInv'
<1>1. CASE ~RightNodes(metadata)
  BY <1>1, CallMoves DEF GetReturns, Goto, IInv, TypeOK, Ends, ray
<1>2. CASE RightNodes(metadata)
  <2> DEFINE S == {metadata[i] : i \in DOMAIN metadata}
             record(n) == [id |-> n, name |-> NameOf(n), configured |-> offers[n].gpus,
                           read |-> Reads(Answer(n).host)]
  <2>1. /\ step = "get" /\ \A i \in DOMAIN metadata : probe[metadata[i]] = "done"
        /\ step' = IF scenario.kind = "planner" THEN "convert" ELSE "returned"
        /\ UNCHANGED <<scenario, alive, probe, result, cancelling, missed, metadata, refs,
                        cancelled, nodes, cut>>
    BY <1>2 DEF GetReturns, Goto, ray
  <2>2. PICK s \in ByName(S) : inventory' = [i \in DOMAIN s |-> record(s[i])]
    BY <1>2 DEF GetReturns, Goto
  <2>3. S \subseteq DOMAIN offers /\ IsFiniteSet(S)
    <3>1. S \subseteq DOMAIN offers /\ DOMAIN offers \subseteq NodeIds
      BY OffersOfScenario DEF IInv, TypeOK, ListInv
    <3> QED BY <3>1, NodesAssumption, FS_Subset
  <2>4. /\ s \in Seq(S) /\ DOMAIN s \subseteq Int
        /\ \A i, j \in DOMAIN s : s[i] = s[j] => i = j
        /\ \A x \in S : \E i \in DOMAIN s : s[i] = x
        /\ \A i \in DOMAIN s : s[i] \in S
    <3>1. s \in Orders(S)
      BY DEF ByName
    <3> QED BY <3>1, <2>3, OrderIsWhole
  <2>5. \A i, j \in DOMAIN s : i < j => NameOf(s[i]) <= NameOf(s[j])
    BY DEF ByName
  <2>6. \A n \in S : IsRecord(record(n))
    BY <1>2, <2>1, AnswersMakeRecords
  <2>7. IsNic => \A n, m \in S : NameOf(n) = NameOf(m) => n = m
    BY DEF IInv, ListInv
  <2>8. \A n \in alive : InQuestion(n) => n \in S
    BY <2>1 DEF IInv, ListInv
  <2>9. nodes = <<>>
    BY <2>1 DEF IInv, NodesInv, Ends
  <2>10. TypeOK'
    BY <2>1 DEF IInv, TypeOK, Ends
  <2>11. ListInv'
    BY <2>1, ListStays
  <2>12. ProbeInv'
    BY <2>1 DEF IInv, ProbeInv, offers
  <2>13. RecordsInv'
    <3>1. \A i \in DOMAIN s : inventory'[i] = record(s[i])
      BY <2>2
    <3>2. DOMAIN inventory' = DOMAIN s
      BY <2>2
    <3>3. ASSUME NEW i \in DOMAIN s
          PROVE  IsRecord(inventory[i])'
      <4> DEFINE r == record(s[i])
      <4>1. IsRecord(r)
        BY <2>4, <2>6
      <4>2. \A x : IsRecord(x)' = IsRecord(x)
        BY <2>1 DEF IsRecord, HasMarker, Acceptable, NameOf, Reads, IsNic, offers
      <4> QED BY <3>1, <4>1, <4>2
    <3>4. InventoryIsWhole'
      <4>1. ASSUME NEW i \in DOMAIN inventory'
            PROVE  (/\ inventory[i].name \in offers[inventory[i].id].markers
                    /\ \E a \in result[inventory[i].id] :
                         a.node = inventory[i].id /\ inventory[i].read = Reads(a.host)
                    /\ \A j \in DOMAIN inventory : i < j =>
                         /\ inventory[i].id # inventory[j].id
                         /\ inventory[i].name <= inventory[j].name
                         /\ IsNic => inventory[i].name # inventory[j].name)'
        <5> DEFINE r == record(s[i])
        <5>1. i \in DOMAIN s /\ inventory'[i] = r /\ r.id = s[i] /\ r.name = NameOf(s[i])
          BY <3>1, <3>2
        <5>2. /\ r.name \in offers[r.id].markers
              /\ \E a \in result[r.id] : a.node = r.id /\ r.read = Reads(a.host)
          <6>1. IsRecord(r)
            BY <5>1, <2>4, <2>6
          <6>2. IsOffer(offers[r.id])
            BY <6>1, OffersOfScenario DEF IsRecord, IInv, TypeOK
          <6> HIDE DEF r
          <6> QED BY <6>1, <6>2, MarkerNames DEF IsRecord
        <5>3. \A j \in DOMAIN s : i < j =>
                /\ s[i] # s[j] /\ NameOf(s[i]) <= NameOf(s[j])
                /\ IsNic => NameOf(s[i]) # NameOf(s[j])
          <6>1. ASSUME NEW j \in DOMAIN s, i < j PROVE i # j
            BY <6>1, <5>1, <2>4
          <6> QED BY <6>1, <5>1, <2>4, <2>5, <2>7
        <5>4. \A j \in DOMAIN s : inventory'[j].id = s[j] /\ inventory'[j].name = NameOf(s[j])
          <6>1. \A n : record(n).id = n /\ record(n).name = NameOf(n)
            OBVIOUS
          <6> HIDE DEF record
          <6> QED BY <3>1, <6>1
        <5>5. (\A j \in DOMAIN inventory : i < j =>
                 /\ inventory[i].id # inventory[j].id
                 /\ inventory[i].name <= inventory[j].name
                 /\ IsNic => inventory[i].name # inventory[j].name)'
          <6>1. IsNic' = IsNic
            BY <2>1 DEF IsNic
          <6> QED BY <5>1, <5>3, <5>4, <6>1, <3>2
        <5>6. (\E a \in result[inventory[i].id] : a.node = inventory[i].id /\ inventory[i].read = Reads(a.host))'
          <6> HIDE DEF r
          <6> QED BY <5>1, <5>2, <2>1 DEF Reads, IsNic
        <5>7. (inventory[i].name \in offers[inventory[i].id].markers)'
          <6> HIDE DEF r
          <6> QED BY <5>1, <5>2, <2>1 DEF offers
        <5> QED BY <5>5, <5>6, <5>7
      <4>2. ASSUME NEW n \in alive'
            PROVE  ((IF IsNic THEN offers[n].markers # {} ELSE offers[n].gpus > 0) =>
                     \E i \in DOMAIN inventory : inventory[i].id = n)'
        <5>1. (IF IsNic THEN offers[n].markers # {} ELSE offers[n].gpus > 0)' => n \in S
          BY <4>2, <2>1, <2>8 DEF InQuestion, IsNic, offers
        <5>2. n \in S => \E i \in DOMAIN s : record(s[i]).id = n
          BY <2>4
        <5> HIDE DEF S, record
        <5> QED BY <5>1, <5>2, <3>1, <3>2
      <4> QED BY <4>1, <4>2 DEF InventoryIsWhole
    <3> QED BY <2>1, <3>2, <3>3, <3>4 DEF RecordsInv
  <2>14. NodesInv'
    BY <2>1, <2>9 DEF IInv, NodesInv, Ends
  <2> QED BY <2>10, <2>11, <2>12, <2>13, <2>14 DEF IInv
<1> QED BY <1>1, <1>2

LEMMA ConvertStep ==
  ASSUME IInv, Convert
  PROVE  IInv'
<1>1. CASE step' = "raised" /\ UNCHANGED nodes
  BY <1>1, CallMoves DEF Convert, IInv, TypeOK, Ends, ray
<1>2. CASE /\ \A i \in DOMAIN inventory : IsPlannerNode(inventory[i])
           /\ nodes' = [i \in DOMAIN inventory |->
                [name |-> inventory[i].name, model |-> inventory[i].read.devices[1],
                 gpus |-> inventory[i].configured]]
           /\ step' = "plan"
  <2>1. /\ step = "convert"
        /\ UNCHANGED <<scenario, metadata, refs, cancelled, inventory, cut, alive, probe, result,
                        cancelling, missed>>
    BY DEF Convert, ray
  <2>2. ~IsNic
    BY <2>1 DEF IInv, NodesInv, IsNic
  <2>3. TypeOK'
    BY <1>2, <2>1 DEF IInv, TypeOK, Ends
  <2>4. ListInv'
    BY <1>2, <2>1, ListStays
  <2>5. ProbeInv'
    BY <2>1 DEF IInv, ProbeInv, offers
  <2>6. RecordsInv'
    BY <1>2, <2>1, RecordsStay DEF IInv, RecordsInv
  <2>7. NodesInv'
    <3>1. /\ (step \notin Ends \cup {"plan"} => nodes = <<>>)'
          /\ (step \in {"convert", "plan"} => scenario.kind = "planner")'
          /\ (nodes # <<>> => ~IsNic)' /\ step' # "returned"
      BY <1>2, <2>1, <2>2 DEF IInv, NodesInv, Ends, IsNic
    <3>2. /\ DOMAIN nodes' = DOMAIN inventory
          /\ \A i \in DOMAIN inventory :
               nodes'[i] = [name |-> inventory[i].name, model |-> inventory[i].read.devices[1],
                            gpus |-> inventory[i].configured]
      BY <1>2
    <3>3. \A i \in DOMAIN inventory : (IsPlannerNode(inventory[i]))'
      BY <1>2, <2>1 DEF IsPlannerNode
    <3> QED BY <2>1, <3>1, <3>2, <3>3 DEF NodesInv
  <2> QED BY <2>3, <2>4, <2>5, <2>6, <2>7 DEF IInv
<1> QED BY <1>1, <1>2 DEF Convert

LEMMA CallStep ==
  ASSUME IInv, CallNext \/ Interrupt
  PROVE  IInv'
<1>1. CASE ListNic
  <2>1. CASE Goto("raised")
    BY <1>1, <2>1, CallMoves DEF ListNic, Goto, IInv, TypeOK, Ends, ray
  <2>2. CASE /\ MarkedInOrder /\ Marked # {} /\ metadata' \in ByName(Marked) /\ step' = "submit"
             /\ UNCHANGED <<refs, cancelled, inventory, nodes, cut>>
    <3>1. IsNic /\ step = "list" /\ UNCHANGED <<scenario, ray>>
      BY <1>1 DEF ListNic, IsNic
    <3>2. /\ Marked \in SUBSET alive /\ metadata' \in Orders(Marked)
          /\ \A n \in alive : InQuestion(n) => n \in Marked
          /\ \A n \in Marked : HasMarker(n)
          /\ \A n, m \in Marked : NameOf(n) = NameOf(m) => n = m
      BY <2>2, <3>1 DEF Marked, MarkedInOrder, ByName, InQuestion
    <3>3. refs = 0
      BY <3>1 DEF IInv, ListInv
    <3> QED BY <2>2, <3>1, <3>2, <3>3, ListStep
  <2> QED BY <1>1, <2>1, <2>2 DEF ListNic
<1>2. CASE ListGpus
  <2> DEFINE listed == {n \in alive : offers[n].gpus > 0}
  <2>1. CASE Goto("raised")
    BY <1>2, <2>1, CallMoves DEF ListGpus, Goto, IInv, TypeOK, Ends, ray
  <2>2. CASE /\ listed # {} /\ metadata' \in Orders(listed) /\ step' = "submit"
             /\ UNCHANGED <<refs, cancelled, inventory, nodes, cut>>
    <3>1. ~IsNic /\ step = "list" /\ UNCHANGED <<scenario, ray>>
      BY <1>2 DEF ListGpus, IsNic
    <3>2. listed \in SUBSET alive /\ \A n \in alive : InQuestion(n) => n \in listed
      BY <3>1 DEF InQuestion
    <3>3. refs = 0
      BY <3>1 DEF IInv, ListInv
    <3> HIDE DEF listed
    <3> QED BY <2>2, <3>1, <3>2, <3>3, ListStep
  <2> QED BY <1>2, <2>1, <2>2 DEF ListGpus
<1>3. CASE ListLinks
  BY <1>3, CallMoves DEF ListLinks, Goto, IInv, TypeOK, Ends, ray, RecordsInv, NodesInv
<1>4. CASE Submit
  BY <1>4, SubmitStep
<1>5. CASE SubmitRaises \/ GetRaises
  BY <1>5, CallMoves, UnkeptStep DEF SubmitRaises, GetRaises, Fail, Goto, IInv, TypeOK, Ends, ray, RecordsInv, NodesInv
<1>6. CASE GetReturns
  BY <1>6, GetStep
<1>7. CASE Cancel
  <2>1. cancelled < refs /\ refs \in Nat /\ cancelled \in Nat /\ metadata \in Seq(DOMAIN offers)
        /\ refs <= Len(metadata)
    BY <1>7 DEF Cancel, IInv, TypeOK, ListInv
  <2>2. metadata[cancelled + 1] \in NodeIds
    BY <2>1, OffersOfScenario DEF IInv, TypeOK
  <2>3. cancelled' \in 0 .. refs
    BY <1>7, <2>1 DEF Cancel
  <2>4. cancelling' \subseteq NodeIds /\ missed' \subseteq NodeIds
    BY <1>7, <2>2 DEF Cancel, IInv, TypeOK
  <2> QED BY <1>7, <2>3, <2>4, CallMoves DEF Cancel, IInv, TypeOK
<1>8. CASE CancelsDone
  BY <1>8, CallMoves DEF CancelsDone, Goto, IInv, TypeOK, Ends, ray
<1>9. CASE Convert
  BY <1>9, ConvertStep
<1>10. CASE CheckNames
  BY <1>10, CallMoves DEF CheckNames, Goto, IInv, TypeOK, Ends, ray
<1>11. CASE ConsiderPair \/ EndBatch
  BY <1>11, CallMoves DEF ConsiderPair, EndBatch, call, ray, IInv, TypeOK
<1>12. CASE LinksReturn
  BY <1>12, CallMoves DEF LinksReturn, Goto, IInv, TypeOK, Ends, ray, NodesInv
<1>13. CASE Interrupt
  <2>1. CASE UNCHANGED ray
    BY <1>13, <2>1, CallMoves DEF Interrupt, Fail, Goto, IInv, TypeOK, Ends, ray, RecordsInv, NodesInv
  <2>2. CASE step = "submit" /\ Fail /\ LaunchUnkept(metadata[refs + 1])
    BY <1>13, <2>2, UnkeptStep DEF Interrupt
  <2> QED BY <1>13, <2>1, <2>2 DEF Interrupt
<1> QED BY <1>1, <1>2, <1>3, <1>4, <1>5, <1>6, <1>7, <1>8, <1>9, <1>10, <1>11, <1>12, <1>13 DEF CallNext

LEMMA StepInv == IInv /\ [Next]_vars => IInv'
<1>1. ASSUME IInv, CallNext \/ Interrupt PROVE IInv'
  BY <1>1, CallStep
<1>2. ASSUME IInv, RayNext PROVE IInv'
  BY <1>2, RayStep
<1>3. ASSUME IInv, UNCHANGED vars PROVE IInv'
  BY <1>3, CallMoves DEF vars, call, ray, IInv, TypeOK
<1> QED BY <1>1, <1>2, <1>3 DEF Next

-----------------------------------------------------------------------------
(* The theorems.                                                             *)

(* The invariant holds in every state.                                       *)
THEOREM Inductive == Spec => []IInv
<1> QED BY InitInv, StepInv, PTL DEF Spec

(* The call, its probes and its cancellations keep their types.              *)
THEOREM TypeCorrect == Spec => []TypeOK
<1>1. IInv => TypeOK
  BY DEF IInv
<1> QED BY <1>1, Inductive, PTL

(* An inventory holds what was read on each node whose name it bears, leaves *)
(* out no live node in question and confuses no two NIC records, however     *)
(* many nodes there are and whichever of them die or answer for another.     *)
THEOREM WholeInventory == Spec => []InventoryIsWhole
<1>1. IInv => InventoryIsWhole
  BY DEF IInv, RecordsInv
<1> QED BY <1>1, Inductive, PTL

(* The planner's nodes are backed by devices that were seen, and those it    *)
(* plans with are distinct.                                                  *)
THEOREM BackedNodes == Spec => []PlannedNodesAreBacked
<1>1. ASSUME IInv, NEW i \in DOMAIN nodes
      PROVE  /\ step = "returned" => \A j \in DOMAIN nodes \ {i} : nodes[j].name # nodes[i].name
             /\ \E n \in NodeIds : \E a \in result[n] :
                  /\ a.node = n /\ offers[n].markers = {nodes[i].name}
                  /\ nodes[i].gpus \in 1 .. Len(a.host.devices)
                  /\ \A d \in DOMAIN a.host.devices : a.host.devices[d] = nodes[i].model
  <2> DEFINE r == inventory[i]
             n == r.id
  <2>1. /\ i \in DOMAIN inventory /\ IsPlannerNode(r) /\ ~IsNic
        /\ nodes[i] = [name |-> r.name, model |-> r.read.devices[1], gpus |-> r.configured]
        /\ step = "returned" => \A j \in DOMAIN nodes \ {i} : nodes[j].name # nodes[i].name
    BY <1>1 DEF IInv, NodesInv
  <2>2. IsRecord(r)
    BY <1>1, <2>1 DEF IInv, RecordsInv
  <2>3. PICK a \in result[n] : a.node = n /\ r.read = Reads(a.host)
    BY <2>2 DEF IsRecord
  <2>4. n \in DOMAIN offers /\ n \in NodeIds /\ IsOffer(offers[n])
    BY <1>1, <2>2, OffersOfScenario DEF IsRecord, IInv, TypeOK
  <2>5. offers[n].markers = {r.name} /\ r.configured \in Nat /\ r.configured >= 1
    <3> HIDE DEF r
    <3> QED BY <2>1, <2>2, <2>4, MarkerNames DEF IsRecord, IsOffer, Acceptable
  <2>6. r.read.devices = a.host.devices
    BY <2>1, <2>3 DEF Reads
  <2>7. Len(a.host.devices) \in Nat
    <3>1. PICK m \in DOMAIN offers : \E host \in Hardware(scenario, m) :
            result[n] = {[node |-> m, host |-> host]}
      BY <1>1, <2>2, <2>4 DEF IInv, ProbeInv, IsRecord
    <3>2. PICK host \in Hardware(scenario, m) : a = [node |-> m, host |-> host]
      BY <3>1
    <3>3. IsGpuHost(host)
      BY <1>1, <2>1, <3>1, OffersOfScenario DEF IInv, TypeOK
    <3> QED BY <3>2, <3>3 DEF IsGpuHost
  <2>8. r.configured <= Len(a.host.devices) /\ \A d \in DOMAIN a.host.devices : a.host.devices[d] = r.read.devices[1]
    BY <2>1, <2>6 DEF IsPlannerNode
  <2>9. nodes[i].name = r.name /\ nodes[i].model = r.read.devices[1] /\ nodes[i].gpus = r.configured
    BY <2>1
  <2> HIDE DEF r
  <2> QED BY <2>1, <2>3, <2>4, <2>5, <2>7, <2>8, <2>9
<1>2. IInv => PlannedNodesAreBacked
  BY <1>1 DEF PlannedNodesAreBacked
<1> QED BY <1>2, Inductive, PTL

(* Whatever queries of NVML fail, no link is counted that is not there.      *)
THEOREM SoundCounts == Spec => []NvlinkCountIsSound
<1>1. ASSUME IInv, ~IsNic, NEW i \in DOMAIN inventory, NEW a \in result[inventory[i].id],
             NEW pair \in Pairs(a.host.links)
      PROVE  CountIsSound(a.host.links, pair, inventory[i].read.connections[pair])
  <2> DEFINE r == inventory[i]
  <2>1. r.id \in NodeIds /\ IsRecord(r)
    BY <1>1, OffersOfScenario DEF IInv, TypeOK, RecordsInv, IsRecord
  <2>2. PICK m \in DOMAIN offers : \E host \in Hardware(scenario, m) :
          result[r.id] = {[node |-> m, host |-> host]}
    BY <1>1, <2>1 DEF IInv, ProbeInv, IsRecord
  <2>3. PICK host \in Hardware(scenario, m) : result[r.id] = {[node |-> m, host |-> host]}
    BY <2>2
  <2>4. a.host = host /\ r.read = Reads(host)
    BY <2>1, <2>3 DEF IsRecord
  <2>5. IsGpuHost(host)
    BY <1>1, <2>2, OffersOfScenario DEF IInv, TypeOK
  <2>6. r.read.connections[pair] = UndirectedNvlinkCount(host.links, pair[1], pair[2])
    BY <1>1, <2>4 DEF Reads, Connections
  <2> HIDE DEF r
  <2>7. CountIsSound(host.links, pair, UndirectedNvlinkCount(host.links, pair[1], pair[2]))
    BY <1>1, <2>4, <2>5, PairIsSound DEF IsGpuHost, Off
  <2> QED BY <2>4, <2>6, <2>7 DEF r
<1>2. IInv => NvlinkCountIsSound
  BY <1>1 DEF NvlinkCountIsSound
<1> QED BY <1>2, Inductive, PTL

(* Whichever files and listings sysfs refuses, no interface and no RDMA      *)
(* device that it lists is lost, none is given to a stranger, and nothing    *)
(* unknown is taken for zero.                                                *)
THEOREM HonestRecords == Spec => []NicRecordIsHonest
<1>1. ASSUME IInv, IsNic, NEW i \in DOMAIN inventory, NEW a \in result[inventory[i].id]
      PROVE  RdmaIsKept(a.host, inventory[i].read) /\ UnknownIsNotZero(a.host, inventory[i].read)
  <2> DEFINE r == inventory[i]
  <2>1. r.id \in NodeIds /\ IsRecord(r)
    BY <1>1, OffersOfScenario DEF IInv, TypeOK, RecordsInv, IsRecord
  <2>2. PICK m \in DOMAIN offers : \E host \in Hardware(scenario, m) :
          result[r.id] = {[node |-> m, host |-> host]}
    BY <1>1, <2>1 DEF IInv, ProbeInv, IsRecord
  <2>3. PICK host \in Hardware(scenario, m) : result[r.id] = {[node |-> m, host |-> host]}
    BY <2>2
  <2>4. a.host = host /\ r.read = Reads(host)
    BY <2>1, <2>3 DEF IsRecord
  <2>5. IsNicHost(host)
    BY <1>1, <2>2, OffersOfScenario DEF IInv, TypeOK
  <2>6. r.read = Collect(host)
    BY <1>1, <2>4 DEF Reads
  <2> QED BY <2>4, <2>5, <2>6, HostIsKept, HostIsHonest
<1>2. IInv => NicRecordIsHonest
  BY <1>1 DEF NicRecordIsHonest
<1> QED BY <1>2, Inductive, PTL

-----------------------------------------------------------------------------
(* Directions and batches of links.                                          *)

(* The directions between the nodes of a set.                                *)
Routes(S) == {d \in S \X S : d[1] # d[2]}

(* A later member of a set has more members up to it.                        *)
LEMMA CountGrows ==
  ASSUME NEW T \in SUBSET Nat, IsFiniteSet(T), NEW i \in T, NEW k \in T, i < k
  PROVE  /\ Cardinality({j \in T : j <= i}) \in Nat /\ Cardinality({j \in T : j <= k}) \in Nat
         /\ Cardinality({j \in T : j <= i}) < Cardinality({j \in T : j <= k})
<1> DEFINE a == {j \in T : j <= i}
           c == {j \in T : j <= k}
<1>1. a \in SUBSET c /\ k \in c /\ k \notin a
  <2>1. i \in Nat /\ k \in Nat /\ \A j \in T : j \in Nat
    OBVIOUS
  <2>2. \A j \in T : j <= i => j <= k
    BY <2>1
  <2>3. k <= k /\ ~ (k <= i)
    BY <2>1
  <2> QED BY <2>2, <2>3
<1>2. IsFiniteSet(a) /\ IsFiniteSet(c)
  BY FS_Subset
<1> HIDE DEF a, c
<1>3. Cardinality(a) \in Nat /\ Cardinality(c) \in Nat
  BY <1>2, FS_CardinalityType
<1>4. Cardinality(a) <= Cardinality(c) /\ Cardinality(a) # Cardinality(c)
  BY <1>1, <1>2, FS_Subset
<1>5. Cardinality(a) < Cardinality(c)
  BY <1>3, <1>4
<1> QED BY <1>3, <1>5 DEF a, c

(* What is left of a sequence is each of its pairs that is not taken, once.  *)
LEMMA WithoutIsRest ==
  ASSUME NEW S, NEW pairs \in Seq(S), NEW taken
  PROVE  LET rest == Without(pairs, taken)
             isTaken(x) == \E j \in DOMAIN taken : taken[j] = x
         IN /\ rest \in Seq(S)
            /\ \A k \in DOMAIN rest : ~isTaken(rest[k]) /\ \E i \in DOMAIN pairs : rest[k] = pairs[i]
            /\ \A i \in DOMAIN pairs : ~isTaken(pairs[i]) => \E k \in DOMAIN rest : rest[k] = pairs[i]
            /\ (\A i, j \in DOMAIN pairs : pairs[i] = pairs[j] => i = j)
               => \A k, l \in DOMAIN rest : rest[k] = rest[l] => k = l
<1> DEFINE kept == {i \in DOMAIN pairs : \A j \in DOMAIN taken : taken[j] # pairs[i]}
           size == Cardinality(kept)
           place(i) == Cardinality({j \in kept : j <= i})
           from(k) == CHOOSE i \in kept : place(i) = k
           rest == Without(pairs, taken)
<1>1. DOMAIN pairs = 1 .. Len(pairs) /\ Len(pairs) \in Nat
  OBVIOUS
<1>2. IsFiniteSet(kept) /\ kept \in SUBSET Nat /\ size \in Nat
  <2>1. IsFiniteSet(kept)
    <3>1. IsFiniteSet(1 .. Len(pairs)) /\ kept \in SUBSET (1 .. Len(pairs))
      BY <1>1, FS_Interval
    <3> HIDE DEF kept
    <3> QED BY <3>1, FS_Subset
  <2> QED BY <1>1, <2>1, FS_CardinalityType
<1>3. rest = [k \in 1 .. size |-> pairs[from(k)]]
  BY DEF Without
<1>4. \A i \in kept : i \in DOMAIN pairs /\ \A j \in DOMAIN taken : taken[j] # pairs[i]
  OBVIOUS
<1>5. \A i \in DOMAIN pairs : i \notin kept => \E j \in DOMAIN taken : taken[j] = pairs[i]
  OBVIOUS
<1> HIDE DEF kept
<1>6. \A i \in kept : place(i) \in 1 .. size
  <2> SUFFICES ASSUME NEW i \in kept PROVE place(i) \in 1 .. size
    OBVIOUS
  <2> DEFINE upTo == {j \in kept : j <= i}
  <2>1. upTo \in SUBSET kept /\ i \in upTo
    BY <1>2
  <2>2. IsFiniteSet(upTo) /\ Cardinality(upTo) <= size
    BY <1>2, <2>1, FS_Subset
  <2>3. Cardinality(upTo) \in Nat /\ Cardinality(upTo) # 0
    BY <2>1, <2>2, FS_CardinalityType, FS_EmptySet
  <2> QED BY <1>2, <2>2, <2>3
<1>7. \A i, k \in kept : place(i) = place(k) => i = k
  <2>1. \A i, k \in kept : i < k => place(i) # place(k)
    <3> SUFFICES ASSUME NEW i \in kept, NEW k \in kept, i < k PROVE place(i) # place(k)
      OBVIOUS
    <3>1. place(i) \in Nat /\ place(k) \in Nat /\ place(i) < place(k)
      BY <1>2, CountGrows
    <3> HIDE DEF place
    <3> QED BY <3>1
  <2>2. \A i, k \in kept : i < k \/ k < i \/ i = k
    BY <1>2
  <2> HIDE DEF place
  <2> QED BY <2>1, <2>2
<1>8. \A k \in 1 .. size : \E i \in kept : place(i) = k
  <2> DEFINE f == [i \in kept |-> place(i)]
  <2>1. f \in Injection(kept, 1 .. size)
    <3> HIDE DEF place, size
    <3> QED BY <1>6, <1>7 DEF Injection, IsInjective
  <2>2. IsFiniteSet(1 .. size) /\ Cardinality(1 .. size) = size
    <3> HIDE DEF size
    <3> QED BY <1>2, FS_Interval
  <2>3. f \in Surjection(kept, 1 .. size)
    BY <2>1, <2>2, FS_Injection
  <2> HIDE DEF place, size
  <2> QED BY <2>3 DEF Surjection
<1> HIDE DEF place, size, rest
<1>9. \A k \in 1 .. size : from(k) \in kept /\ place(from(k)) = k
  BY <1>8
<1>10. \A i \in kept : from(place(i)) = i
  BY <1>6, <1>7, <1>9
<1> HIDE DEF from
<1>11. rest \in Seq(S) /\ DOMAIN rest = 1 .. size
  <2>1. \A k \in 1 .. size : pairs[from(k)] \in S
    BY <1>4, <1>9
  <2> QED BY <1>2, <1>3, <2>1
<1>12. \A i \in kept : rest[place(i)] = pairs[i]
  BY <1>3, <1>6, <1>10
<1>13. \A k \in DOMAIN rest : rest[k] = pairs[from(k)] /\ from(k) \in kept
  BY <1>3, <1>9, <1>11
<1>14. ASSUME \A i, j \in DOMAIN pairs : pairs[i] = pairs[j] => i = j
       PROVE  \A k, l \in DOMAIN rest : rest[k] = rest[l] => k = l
  <2> SUFFICES ASSUME NEW k \in DOMAIN rest, NEW l \in DOMAIN rest, rest[k] = rest[l] PROVE k = l
    OBVIOUS
  <2>1. from(k) = from(l)
    BY <1>4, <1>13, <1>14
  <2> QED BY <1>9, <1>11, <2>1
<1> QED BY <1>4, <1>5, <1>6, <1>11, <1>12, <1>13, <1>14 DEF rest

(* Quotients and remainders.                                                 *)
LEMMA DivisionParts ==
  ASSUME NEW n \in Nat \ {0}, NEW a \in Nat
  PROVE  /\ a \div n \in Nat /\ a % n \in 0 .. n - 1
         /\ a = (n * (a \div n)) + (a % n)
OBVIOUS

LEMMA DivisionOf ==
  ASSUME NEW n \in Nat \ {0}, NEW q \in Nat, NEW r \in 0 .. n - 1
  PROVE  /\ (n * q) + r \in Nat
         /\ ((n * q) + r) \div n = q /\ ((n * q) + r) % n = r
OBVIOUS

LEMMA Multiples ==
  ASSUME NEW n \in Nat, NEW q \in Nat, NEW l \in Nat, l <= q
  PROVE  n * l \in Nat /\ n * q \in Nat /\ n * l <= n * q
OBVIOUS

(* The permutations of two of the nodes are their directions, each once.     *)
LEMMA DirectionsAreRoutes ==
  ASSUME NEW S, NEW s \in Seq(S), Len(s) >= 2,
         \A i, j \in DOMAIN s : s[i] = s[j] => i = j, \A x \in S : \E i \in DOMAIN s : s[i] = x
  PROVE  LET pairs == Directions(s)
         IN /\ pairs \in Seq(Routes(S))
            /\ \A k, l \in DOMAIN pairs : pairs[k] = pairs[l] => k = l
            /\ \A d \in Routes(S) : \E k \in DOMAIN pairs : pairs[k] = d
<1> DEFINE m == Len(s)
           n == m - 1
           other(i, j) == IF j < i THEN j ELSE j + 1
           first(k)  == ((k - 1) \div n) + 1
           second(k) == ((k - 1) % n) + 1
           pairs == Directions(s)
<1>1. m \in Nat /\ n \in Nat \ {0} /\ DOMAIN s = 1 .. m /\ m = n + 1
  OBVIOUS
<1>2. pairs = [k \in 1 .. m * n |-> <<s[first(k)], s[other(first(k), second(k))]>>]
  BY DEF Directions
<1>3. m * n \in Nat /\ n * m = m * n
  BY <1>1
<1> HIDE DEF m, n, pairs
<1>4. ASSUME NEW k \in 1 .. m * n
      PROVE  /\ first(k) \in 1 .. m /\ second(k) \in 1 .. n
             /\ k = n * (first(k) - 1) + second(k)
  <2> DEFINE a == k - 1
  <2>1. a \in Nat /\ a < n * m
    BY <1>3
  <2>2. a \div n \in Nat /\ a % n \in 0 .. n - 1 /\ a = (n * (a \div n)) + (a % n)
    BY <1>1, <2>1, DivisionParts
  <2>3. a \div n < m
    <3>1. CASE m <= a \div n
      <4>1. n * m \in Nat /\ n * (a \div n) \in Nat /\ n * m <= n * (a \div n)
        BY <1>1, <2>2, <3>1, Multiples
      <4> QED BY <1>1, <2>1, <2>2, <4>1
    <3> QED BY <1>1, <2>2, <3>1
  <2> DEFINE q == a \div n
             r == a % n
  <2>4. first(k) = q + 1 /\ second(k) = r + 1 /\ k = a + 1
    OBVIOUS
  <2> HIDE DEF q, r, a
  <2>5. q \in Nat /\ r \in 0 .. n - 1 /\ a = (n * q) + r /\ q < m
    BY <2>2, <2>3 DEF q, r
  <2> HIDE DEF first, second
  <2>6. first(k) - 1 = q
    BY <2>4, <2>5
  <2>7. n * q \in Nat
    BY <1>1, <2>5
  <2> QED BY <1>1, <2>4, <2>5, <2>6, <2>7
<1>5. ASSUME NEW i \in 1 .. m, NEW j \in 1 .. n
      PROVE  \E k \in 1 .. m * n : first(k) = i /\ second(k) = j
  <2> DEFINE b == (n * (i - 1)) + (j - 1)
  <2>1. i - 1 \in Nat /\ j - 1 \in 0 .. n - 1
    BY <1>1
  <2>2. b \in Nat /\ b \div n = i - 1 /\ b % n = j - 1
    BY <1>1, <2>1, DivisionOf
  <2>3. b < m * n
    <3>1. n * (i - 1) \in Nat /\ n * (m - 1) \in Nat /\ n * (i - 1) <= n * (m - 1)
      BY <1>1, <2>1, Multiples
    <3>2. n * (m - 1) = (n * m) - n
      BY <1>1
    <3> QED BY <1>1, <1>3, <2>1, <3>1, <3>2
  <2> HIDE DEF b
  <2>4. b + 1 \in 1 .. m * n /\ (b + 1) - 1 = b
    BY <1>3, <2>2, <2>3
  <2>5. first(b + 1) = i /\ second(b + 1) = j
    BY <2>1, <2>2, <2>4
  <2> QED BY <2>4, <2>5
<1> HIDE DEF first, second
<1>6. \A i \in 1 .. m, j \in 1 .. n : other(i, j) \in 1 .. m /\ other(i, j) # i
  BY <1>1
<1>7. \A i \in 1 .. m, j, l \in 1 .. n : other(i, j) = other(i, l) => j = l
  BY <1>1
<1>8. ASSUME NEW i \in 1 .. m, NEW l \in 1 .. m, l # i PROVE \E j \in 1 .. n : other(i, j) = l
  <2>1. CASE l < i
    <3>1. l \in 1 .. n
      BY <1>1, <2>1
    <3> QED BY <2>1, <3>1
  <2>2. CASE ~ (l < i)
    <3>1. l - 1 \in 1 .. n /\ ~ (l - 1 < i) /\ (l - 1) + 1 = l
      BY <1>1, <1>8, <2>2
    <3> QED BY <3>1
  <2> QED BY <2>1, <2>2
<1> HIDE DEF other
<1>9. DOMAIN pairs = 1 .. m * n
  BY <1>2
<1>10. \A k \in 1 .. m * n : pairs[k] = <<s[first(k)], s[other(first(k), second(k))]>>
  BY <1>2
<1>11. \A k \in 1 .. m * n : /\ first(k) \in DOMAIN s /\ other(first(k), second(k)) \in DOMAIN s
                             /\ other(first(k), second(k)) # first(k)
  BY <1>1, <1>4, <1>6
<1>12. \A i \in DOMAIN s : s[i] \in S
  OBVIOUS
<1>13. pairs \in Seq(Routes(S))
  <2>1. ASSUME NEW k \in 1 .. m * n PROVE pairs[k] \in Routes(S)
    <3> DEFINE a == s[first(k)]
               c == s[other(first(k), second(k))]
    <3>1. a \in S /\ c \in S /\ a # c
      BY <1>11, <1>12
    <3>2. pairs[k] = <<a, c>>
      BY <1>10
    <3> HIDE DEF a, c
    <3> QED BY <3>1, <3>2 DEF Routes
  <2>2. pairs = [k \in 1 .. m * n |-> pairs[k]]
    BY <1>2
  <2> QED BY <1>3, <2>1, <2>2
<1>14. ASSUME NEW k \in DOMAIN pairs, NEW l \in DOMAIN pairs, pairs[k] = pairs[l] PROVE k = l
  <2>1. first(k) = first(l) /\ other(first(k), second(k)) = other(first(l), second(l))
    BY <1>9, <1>10, <1>11, <1>14
  <2>2. second(k) = second(l)
    BY <1>4, <1>7, <1>9, <2>1
  <2> QED BY <1>4, <1>9, <2>1, <2>2
<1>15. ASSUME NEW d \in Routes(S) PROVE \E k \in DOMAIN pairs : pairs[k] = d
  <2>1. d = <<d[1], d[2]>> /\ d[1] \in S /\ d[2] \in S /\ d[1] # d[2]
    BY DEF Routes
  <2>2. PICK i \in 1 .. m : s[i] = d[1]
    BY <1>1, <2>1
  <2>3. PICK l \in 1 .. m : s[l] = d[2]
    BY <1>1, <2>1
  <2>4. PICK j \in 1 .. n : other(i, j) = l
    BY <1>8, <2>1, <2>2, <2>3
  <2>5. PICK k \in 1 .. m * n : first(k) = i /\ second(k) = j
    BY <1>5
  <2> QED BY <1>9, <1>10, <2>1, <2>2, <2>3, <2>4, <2>5
<1> QED BY <1>13, <1>14, <1>15 DEF pairs

(* Where a direction may be in the batches that are measured.                *)
Places == {p \in (DOMAIN measured) \X (1 .. scenario.limit) : p[2] \in DOMAIN measured[p[1]]}
At(p)  == measured[p[1]][p[2]]

(* The names of the nodes that links may be measured between.                *)
Names == UNION {offers[n].markers : n \in DOMAIN offers}

IsBatch(pairs, S) ==
  /\ pairs \in Seq(Routes(S)) /\ Len(pairs) <= scenario.limit
  /\ \A i, j \in DOMAIN pairs : i # j => NodesOf(<<pairs[i]>>) \cap NodesOf(<<pairs[j]>>) = {}

(* Each direction between the chosen nodes is either left or in one place of *)
(* one measured batch; the batch that grows takes from those that are left.  *)
IsShared(S) ==
  /\ IsFiniteSet(S) /\ Cardinality(S) >= 2 /\ scenario.wanted \subseteq S
  /\ remaining \in Seq(Routes(S)) /\ at \in 1 .. Len(remaining) + 1
  /\ \A i, j \in DOMAIN remaining : remaining[i] = remaining[j] => i = j
  /\ IsBatch(batch, S)
  /\ \A j \in DOMAIN batch : \E i \in DOMAIN remaining : remaining[i] = batch[j]
  /\ measured \in Seq(Seq(Routes(S)))
  /\ \A b \in DOMAIN measured : IsBatch(measured[b], S)
  /\ \A d \in Routes(S) : (\E i \in DOMAIN remaining : remaining[i] = d) \/ \E p \in Places : At(p) = d
  /\ \A p, q \in Places : At(p) = At(q) => p = q
  /\ \A p \in Places : \A i \in DOMAIN remaining : At(p) # remaining[i]

(* The invariant of a call that measures links.                              *)
BatchInv ==
  scenario.kind = "links" =>
    /\ step \in {"list", "batch"} \cup Ends
    /\ step = "list" => remaining = <<>> /\ at = 1 /\ batch = <<>> /\ measured = <<>>
    /\ step \in {"batch", "returned"} => \E S \in SUBSET Names : IsShared(S)
    /\ step = "returned" => remaining = <<>>

(* The nodes of one direction.                                               *)
LEMMA OnePair == ASSUME NEW pair PROVE NodesOf(<<pair>>) = {pair[1], pair[2]}
BY DEF NodesOf

(* The nodes of the live listing that links are measured between.            *)
LEMMA LinksListed ==
  ASSUME IInv, BatchInv, ListLinks
  PROVE  BatchInv'
<1> DEFINE live == {NameOf(n) : n \in Marked}
           selected == IF scenario.wanted = {} THEN live ELSE scenario.wanted
<1>1. /\ scenario' = scenario /\ scenario.kind = "links" /\ at' = 1 /\ batch' = <<>> /\ measured' = <<>>
      /\ scenario.limit \in Nat \ {0}
  BY LimitAssumption DEF ListLinks, BatchInv, batches, IInv, TypeOK
<1>2. CASE /\ MarkedInOrder /\ selected \subseteq live /\ Cardinality(selected) >= 2
           /\ \E s \in Orders(selected) : remaining' = Directions(s)
           /\ step' = "batch"
  <2>1. IsFiniteSet(Marked) /\ \A n \in Marked : n \in DOMAIN offers /\ HasMarker(n)
    <3>1. Marked \subseteq NodeIds
      BY DEF Marked, IInv, TypeOK
    <3>2. Marked \subseteq DOMAIN offers
      BY DEF Marked, IInv, ListInv
    <3> QED BY <1>2, <3>1, <3>2, NodesAssumption, FS_Subset DEF MarkedInOrder
  <2>2. IsFiniteSet(live)
    <3> DEFINE f == [n \in Marked |-> NameOf(n)]
    <3>1. f \in Surjection(Marked, live)
      BY DEF Surjection
    <3> HIDE DEF f, live
    <3> QED BY <2>1, <3>1, FS_Surjection
  <2>3. live \subseteq Names
    <3> SUFFICES ASSUME NEW n \in Marked PROVE NameOf(n) \in Names
      OBVIOUS
    <3>1. IsOffer(offers[n]) /\ HasMarker(n) /\ n \in DOMAIN offers
      BY <2>1, OffersOfScenario DEF IInv, TypeOK
    <3>2. NameOf(n) \in offers[n].markers
      BY <3>1, MarkerNames
    <3> QED BY <3>1, <3>2 DEF Names
  <2> HIDE DEF live
  <2>4. /\ IsFiniteSet(selected) /\ Cardinality(selected) >= 2
        /\ scenario.wanted \subseteq selected /\ selected \subseteq Names
    BY <1>2, <2>2, <2>3, FS_Subset
  <2> PICK S : S = selected
    OBVIOUS
  <2>5. PICK s \in Orders(S) : remaining' = Directions(s)
    BY <1>2
  <2> HIDE DEF selected
  <2>6. /\ s \in Seq(S) /\ Len(s) >= 2
        /\ \A i, j \in DOMAIN s : s[i] = s[j] => i = j
        /\ \A x \in S : \E i \in DOMAIN s : s[i] = x
    BY <2>4, OrderIsWhole
  <2>7. /\ Directions(s) \in Seq(Routes(S))
        /\ \A k, l \in DOMAIN Directions(s) : Directions(s)[k] = Directions(s)[l] => k = l
        /\ \A d \in Routes(S) : \E k \in DOMAIN Directions(s) : Directions(s)[k] = d
    BY <2>6, DirectionsAreRoutes
  <2>8. /\ remaining' \in Seq(Routes(S))
        /\ \A k, l \in DOMAIN remaining' : remaining'[k] = remaining'[l] => k = l
        /\ \A d \in Routes(S) : \E k \in DOMAIN remaining' : remaining'[k] = d
    BY <2>5, <2>7
  <2>9. IsShared(S)'
    <3>1. IsBatch(<<>>, S)'
      BY <1>1 DEF IsBatch
    <3>2. at' \in 1 .. Len(remaining') + 1
      BY <1>1, <2>8
    <3>3. Places' = {}
      BY <1>1 DEF Places
    <3> QED BY <1>1, <2>4, <2>8, <3>1, <3>2, <3>3 DEF IsShared
  <2>10. Names' = Names
    BY <1>1 DEF Names, offers
  <2> QED BY <1>2, <2>4, <2>9, <2>10 DEF BatchInv
<1>3. CASE step' = "raised"
  BY <1>1, <1>3 DEF BatchInv, Ends
<1> QED BY <1>2, <1>3 DEF ListLinks, Goto

(* A pair that fits is put in the batch that grows.                          *)
LEMMA PairConsidered ==
  ASSUME IInv, BatchInv, ConsiderPair
  PROVE  BatchInv'
<1>1. /\ UNCHANGED <<scenario, call, ray, remaining, measured>> /\ step = "batch" /\ step' = step
      /\ at <= Len(remaining) /\ at' = at + 1
      /\ batch' = IF Fits(batch, remaining[at], scenario.limit)
                  THEN Append(batch, remaining[at]) ELSE batch
  BY DEF ConsiderPair, call
<1>2. SUFFICES ASSUME scenario.kind = "links" PROVE \E S \in SUBSET Names' : IsShared(S)'
  BY <1>1 DEF BatchInv
<1>3. PICK S \in SUBSET Names : IsShared(S)
  BY <1>1, <1>2 DEF BatchInv
<1>4. /\ remaining \in Seq(Routes(S)) /\ at \in DOMAIN remaining /\ remaining[at] \in Routes(S)
      /\ at' \in 1 .. Len(remaining) + 1
  BY <1>1, <1>3 DEF IsShared
<1>5. IsBatch(batch, S)' /\ \A j \in DOMAIN batch' : \E i \in DOMAIN remaining : remaining[i] = batch'[j]
  <2>1. CASE batch' = batch
    BY <1>1, <1>3, <2>1 DEF IsShared, IsBatch
  <2>2. CASE Fits(batch, remaining[at], scenario.limit) /\ batch' = Append(batch, remaining[at])
    <3> DEFINE size == Len(batch)
               pair == remaining[at]
    <3>1. /\ batch \in Seq(Routes(S)) /\ size \in Nat /\ DOMAIN batch = 1 .. size
          /\ \A i, j \in DOMAIN batch : i # j => NodesOf(<<batch[i]>>) \cap NodesOf(<<batch[j]>>) = {}
      BY <1>3 DEF IsShared, IsBatch
    <3>2. /\ batch' \in Seq(Routes(S)) /\ DOMAIN batch' = 1 .. size + 1 /\ Len(batch') = size + 1
          /\ batch'[size + 1] = pair /\ \A i \in 1 .. size : batch'[i] = batch[i]
      BY <1>4, <2>2, <3>1
    <3>3. size + 1 <= scenario.limit
      <4>1. scenario.limit \in Nat
        BY <1>2, LimitAssumption DEF IInv, TypeOK
      <4> QED BY <2>2, <3>1, <4>1 DEF Fits
    <3>4. \A i \in 1 .. size : NodesOf(<<batch[i]>>) \cap NodesOf(<<pair>>) = {}
      <4>1. {pair[1], pair[2]} \cap NodesOf(batch) = {}
        BY <2>2 DEF Fits
      <4>2. \A i \in 1 .. size : NodesOf(<<batch[i]>>) \subseteq NodesOf(batch)
        <5>1. \A i \in DOMAIN batch : {batch[i][1], batch[i][2]} \subseteq NodesOf(batch)
          BY DEF NodesOf
        <5> QED BY <3>1, <5>1, OnePair
      <4> HIDE DEF pair, size
      <4> QED BY <4>1, <4>2, OnePair
    <3> HIDE DEF pair, size
    <3>5. \A i, j \in DOMAIN batch' : i # j => NodesOf(<<batch'[i]>>) \cap NodesOf(<<batch'[j]>>) = {}
      <4> SUFFICES ASSUME NEW i \in 1 .. size + 1, NEW j \in 1 .. size + 1, i # j
                   PROVE  NodesOf(<<batch'[i]>>) \cap NodesOf(<<batch'[j]>>) = {}
        BY <3>2
      <4>1. CASE i \in 1 .. size /\ j \in 1 .. size
        BY <3>1, <3>2, <4>1
      <4>2. CASE i = size + 1 /\ j \in 1 .. size
        BY <3>2, <3>4, <4>2
      <4>3. CASE j = size + 1 /\ i \in 1 .. size
        BY <3>2, <3>4, <4>3
      <4>4. i = size + 1 \/ i \in 1 .. size
        BY <3>1
      <4>5. j = size + 1 \/ j \in 1 .. size
        BY <3>1
      <4> QED BY <4>1, <4>2, <4>3, <4>4, <4>5
    <3>6. \A j \in DOMAIN batch' : \E i \in DOMAIN remaining : remaining[i] = batch'[j]
      <4> SUFFICES ASSUME NEW j \in 1 .. size + 1
                   PROVE  \E i \in DOMAIN remaining : remaining[i] = batch'[j]
        BY <3>2
      <4>1. CASE j = size + 1
        BY <1>4, <3>2, <4>1 DEF pair
      <4>2. CASE j \in 1 .. size
        BY <1>3, <3>1, <3>2, <4>2 DEF IsShared
      <4> QED BY <3>1, <4>1, <4>2
    <3> QED BY <1>1, <3>2, <3>3, <3>5, <3>6 DEF IsBatch
  <2> QED BY <1>1, <2>1, <2>2
<1>6. Names' = Names /\ Places' = Places /\ \A p : At(p)' = At(p)
  BY <1>1 DEF Names, offers, Places, At
<1>7. \A b \in DOMAIN measured : IsBatch(measured[b], S) => IsBatch(measured[b], S)'
  BY <1>1 DEF IsBatch
<1>8. IsShared(S)'
  BY ZenonT(60), <1>1, <1>3, <1>4, <1>5, <1>6, <1>7 DEF IsShared
<1> QED BY <1>6, <1>8

(* The batch goes to those that are measured, its directions with it.        *)
LEMMA BatchEnded ==
  ASSUME IInv, BatchInv, EndBatch
  PROVE  BatchInv'
<1>1. /\ UNCHANGED <<scenario, call, ray>> /\ step = "batch" /\ step' = step
      /\ measured' = Append(measured, batch) /\ remaining' = Without(remaining, batch)
      /\ batch' = <<>> /\ at' = 1
  BY DEF EndBatch, call
<1>2. SUFFICES ASSUME scenario.kind = "links" PROVE \E S \in SUBSET Names' : IsShared(S)'
  BY <1>1 DEF BatchInv
<1>3. PICK S \in SUBSET Names : IsShared(S)
  BY <1>1, <1>2 DEF BatchInv
<1> PICK size : size = Len(measured)
  OBVIOUS
<1> DEFINE taken(d) == \E j \in DOMAIN batch : batch[j] = d
           new == {<<size + 1, k>> : k \in DOMAIN batch}
<1>4. scenario.limit \in Nat
  BY <1>2, LimitAssumption DEF IInv, TypeOK
<1>5. /\ measured \in Seq(Seq(Routes(S))) /\ size \in Nat /\ DOMAIN measured = 1 .. size
      /\ batch \in Seq(Routes(S)) /\ DOMAIN batch = 1 .. Len(batch) /\ Len(batch) <= scenario.limit
      /\ remaining \in Seq(Routes(S))
  BY <1>3 DEF IsShared, IsBatch
<1>6. /\ measured' \in Seq(Seq(Routes(S))) /\ DOMAIN measured' = 1 .. size + 1
      /\ measured'[size + 1] = batch /\ \A b \in 1 .. size : measured'[b] = measured[b]
  BY <1>1, <1>5
<1>7. /\ remaining' \in Seq(Routes(S))
      /\ \A k \in DOMAIN remaining' :
           ~taken(remaining'[k]) /\ \E i \in DOMAIN remaining : remaining'[k] = remaining[i]
      /\ \A i \in DOMAIN remaining :
           ~taken(remaining[i]) => \E k \in DOMAIN remaining' : remaining'[k] = remaining[i]
      /\ \A k, l \in DOMAIN remaining' : remaining'[k] = remaining'[l] => k = l
  <2> DEFINE rest == Without(remaining, batch)
  <2>1. /\ rest \in Seq(Routes(S))
        /\ \A k \in DOMAIN rest : ~taken(rest[k]) /\ \E i \in DOMAIN remaining : rest[k] = remaining[i]
        /\ \A i \in DOMAIN remaining :
             ~taken(remaining[i]) => \E k \in DOMAIN rest : rest[k] = remaining[i]
        /\ (\A i, j \in DOMAIN remaining : remaining[i] = remaining[j] => i = j)
           => \A k, l \in DOMAIN rest : rest[k] = rest[l] => k = l
    BY <1>5, WithoutIsRest
  <2>2. \A i, j \in DOMAIN remaining : remaining[i] = remaining[j] => i = j
    BY <1>3 DEF IsShared
  <2>3. remaining' = rest
    BY <1>1
  <2> HIDE DEF rest, taken
  <2> QED BY <2>1, <2>2, <2>3
<1>8. /\ Places' = Places \cup new
      /\ \A p \in Places : At(p)' = At(p)
      /\ \A k \in DOMAIN batch : <<size + 1, k>> \in Places' /\ At(<<size + 1, k>>)' = batch[k]
  <2>1. Places' = {p \in (1 .. size + 1) \X (1 .. scenario.limit) : p[2] \in DOMAIN measured'[p[1]]}
    BY <1>1, <1>6 DEF Places
  <2>2. Places = {p \in (1 .. size) \X (1 .. scenario.limit) : p[2] \in DOMAIN measured[p[1]]}
    BY <1>5 DEF Places
  <2>3. \A k \in DOMAIN batch : k \in 1 .. scenario.limit
    BY <1>4, <1>5
  <2>4. new \subseteq Places' /\ Places \subseteq Places'
    <3>1. ASSUME NEW k \in DOMAIN batch PROVE <<size + 1, k>> \in Places'
      BY <1>5, <1>6, <2>1, <2>3
    <3>2. ASSUME NEW p \in Places PROVE p \in Places'
      BY <1>5, <1>6, <2>1, <2>2
    <3> QED BY <3>1, <3>2
  <2>5. ASSUME NEW p \in Places' PROVE p \in Places \cup new
    <3>1. /\ p = <<p[1], p[2]>> /\ p[1] \in 1 .. size + 1 /\ p[2] \in 1 .. scenario.limit
          /\ p[2] \in DOMAIN measured'[p[1]]
      BY <2>1, <2>5
    <3>2. CASE p[1] = size + 1
      BY <1>6, <3>1, <3>2
    <3>3. CASE p[1] \in 1 .. size
      BY <1>6, <2>2, <3>1, <3>3
    <3> QED BY <1>5, <3>1, <3>2, <3>3
  <2>6. \A p \in Places : At(p)' = At(p)
    BY <1>6, <2>2 DEF At
  <2>7. \A k \in DOMAIN batch : At(<<size + 1, k>>)' = batch[k]
    BY <1>6 DEF At
  <2> QED BY <2>4, <2>5, <2>6, <2>7
<1>9. \A d \in Routes(S) :
        (\E i \in DOMAIN remaining' : remaining'[i] = d) \/ \E p \in Places' : At(p)' = d
  <2> SUFFICES ASSUME NEW d \in Routes(S)
               PROVE  (\E i \in DOMAIN remaining' : remaining'[i] = d) \/ \E p \in Places' : At(p)' = d
    OBVIOUS
  <2>1. CASE \E p \in Places : At(p) = d
    BY <1>8, <2>1
  <2>2. CASE \E i \in DOMAIN remaining : remaining[i] = d
    <3>1. CASE taken(d)
      BY <1>8, <3>1
    <3>2. CASE ~taken(d)
      BY <1>7, <2>2, <3>2
    <3> QED BY <3>1, <3>2
  <2> QED BY <1>3, <2>1, <2>2 DEF IsShared
<1>10. \A j \in DOMAIN batch : \E i \in DOMAIN remaining : remaining[i] = batch[j]
  BY <1>3 DEF IsShared
<1>11. \A i, j \in DOMAIN batch : batch[i] = batch[j] => i = j
  BY <1>3, OnePair DEF IsShared, IsBatch
<1>12. ASSUME NEW p \in Places', NEW q \in Places', At(p)' = At(q)' PROVE p = q
  <2>1. CASE p \in Places /\ q \in Places
    BY <1>3, <1>8, <1>12, <2>1 DEF IsShared
  <2>2. ASSUME NEW r \in Places, NEW t \in new PROVE At(r)' # At(t)'
    <3>1. PICK k \in DOMAIN batch : t = <<size + 1, k>>
      OBVIOUS
    <3>2. PICK i \in DOMAIN remaining : remaining[i] = batch[k]
      BY <1>10
    <3>3. At(r)' = At(r) /\ At(t)' = batch[k] /\ At(r) # remaining[i]
      BY <1>3, <1>8, <3>1 DEF IsShared
    <3> QED BY <3>2, <3>3
  <2>3. CASE p \in new /\ q \in new
    <3>1. PICK k \in DOMAIN batch : p = <<size + 1, k>>
      BY <2>3
    <3>2. PICK l \in DOMAIN batch : q = <<size + 1, l>>
      BY <2>3
    <3>3. batch[k] = batch[l]
      BY <1>8, <1>12, <3>1, <3>2
    <3> QED BY <1>11, <3>1, <3>2, <3>3
  <2> HIDE DEF new
  <2> QED BY <1>8, <1>12, <2>1, <2>2, <2>3
<1>13. ASSUME NEW p \in Places', NEW k \in DOMAIN remaining' PROVE At(p)' # remaining'[k]
  <2>1. CASE p \in Places
    <3>1. PICK i \in DOMAIN remaining : remaining'[k] = remaining[i]
      BY <1>7
    <3>2. At(p)' = At(p) /\ At(p) # remaining[i]
      BY <1>3, <1>8, <2>1 DEF IsShared
    <3> QED BY <3>1, <3>2
  <2>2. CASE p \in new
    BY <1>7, <1>8, <2>2
  <2> QED BY <1>8, <2>1, <2>2
<1>14. \A b \in DOMAIN measured' : IsBatch(measured[b], S)'
  <2>1. \A x : IsBatch(x, S)' <=> IsBatch(x, S)
    BY <1>1 DEF IsBatch
  <2>2. IsBatch(batch, S) /\ \A b \in 1 .. size : IsBatch(measured[b], S)
    BY <1>3, <1>5 DEF IsShared
  <2>3. \A b \in 1 .. size + 1 : b = size + 1 \/ b \in 1 .. size
    BY <1>5
  <2> QED BY <1>6, <2>1, <2>2, <2>3
<1>15. IsBatch(batch, S)' /\ at' \in 1 .. Len(remaining') + 1
  BY <1>1, <1>4, <1>7 DEF IsBatch
<1>16. IsShared(S)'
  <2>1. IsFiniteSet(S) /\ Cardinality(S) >= 2 /\ scenario'.wanted \subseteq S
    BY <1>1, <1>3 DEF IsShared
  <2>2. \A j \in DOMAIN batch' : \E i \in DOMAIN remaining' : remaining'[i] = batch'[j]
    BY <1>1
  <2> QED BY <1>6, <1>7, <1>9, <1>12, <1>13, <1>14, <1>15, <2>1, <2>2 DEF IsShared
<1>17. Names' = Names
  BY <1>1 DEF Names, offers
<1> QED BY <1>16, <1>17

(* Every other step leaves the batches alone.                                *)
LEMMA BatchStep == IInv /\ BatchInv /\ [Next]_vars => BatchInv'
<1> SUFFICES ASSUME IInv, BatchInv, [Next]_vars PROVE BatchInv'
  OBVIOUS
<1>1. ASSUME UNCHANGED <<scenario, step, batches>> PROVE BatchInv'
  <2>1. \A S : IsShared(S)' <=> IsShared(S)
    BY <1>1 DEF IsShared, IsBatch, Places, At, batches
  <2>2. Names' = Names
    BY <1>1 DEF Names, offers
  <2> QED BY <1>1, <2>1, <2>2 DEF BatchInv, batches
<1>2. ASSUME UNCHANGED <<scenario, batches>>, scenario.kind # "links" PROVE BatchInv'
  BY <1>2 DEF BatchInv
<1>3. CASE UNCHANGED vars
  BY <1>1, <1>3 DEF vars, call
<1>4. CASE ListNic \/ ListGpus
  BY <1>2, <1>4 DEF ListNic, ListGpus
<1>5. CASE ListLinks
  BY <1>5, LinksListed
<1>6. CASE ConsiderPair
  BY <1>6, PairConsidered
<1>7. CASE EndBatch
  BY <1>7, BatchEnded
<1>8. CASE LinksReturn
  <2>1. /\ UNCHANGED <<scenario, batches>> /\ step = "batch" /\ remaining = <<>> /\ step' = "returned"
    BY <1>8 DEF LinksReturn, Goto
  <2>2. \A S : IsShared(S)' <=> IsShared(S)
    BY <2>1 DEF IsShared, IsBatch, Places, At, batches
  <2>3. Names' = Names
    BY <2>1 DEF Names, offers
  <2> QED BY <2>1, <2>2, <2>3 DEF BatchInv, Ends, batches
<1>9. CASE \/ Submit \/ SubmitRaises \/ GetReturns \/ GetRaises
           \/ Cancel \/ CancelsDone \/ Convert \/ CheckNames \/ Interrupt
  <2>1. UNCHANGED <<scenario, batches>>
    BY <1>9 DEF Submit, SubmitRaises, GetReturns, GetRaises, Cancel, CancelsDone, Convert, CheckNames, Interrupt, ray
  <2>2. step \in {"submit", "get", "cancel", "convert", "plan"}
    BY <1>9 DEF Submit, Launch, SubmitRaises, GetReturns, GetRaises, Cancel, CancelsDone, Convert, CheckNames,
       Interrupt
  <2> QED BY <1>2, <2>1, <2>2 DEF BatchInv, Ends
<1>10. CASE RayNext
  BY <1>1, <1>10 DEF RayNext, ProbeStarts, ProbeEnds, ProbeRaises, WorkerDies, NodeDies, ProbeStopped,
                     Becomes, call
<1> QED BY <1>3, <1>4, <1>5, <1>6, <1>7, <1>8, <1>9, <1>10 DEF Next, CallNext

(* The batches share the directions between the chosen nodes.                *)
THEOREM Shared == Spec => []BatchInv
<1>1. Init => BatchInv
  BY DEF Init, BatchInv
<1> QED BY <1>1, BatchStep, Inductive, PTL DEF Spec

(* There are n(n - 1) directions between n nodes.                            *)
LEMMA RoutesCount ==
  ASSUME NEW S, IsFiniteSet(S)
  PROVE  /\ IsFiniteSet(Routes(S))
         /\ Cardinality(Routes(S)) = Cardinality(S) * (Cardinality(S) - 1)
<1> DEFINE n == Cardinality(S)
           diagonal == {d \in S \X S : d[1] = d[2]}
           f == [x \in S |-> <<x, x>>]
<1>1. IsFiniteSet(S \X S) /\ Cardinality(S \X S) = n * n
  BY FS_Product
<1>2. f \in Bijection(S, diagonal)
  BY DEF Bijection, Injection, Surjection, IsInjective
<1>3. Cardinality(diagonal) = n
  <2> HIDE DEF diagonal, f
  <2> QED BY <1>2, FS_Bijection DEF ExistsBijection
<1>4. Routes(S) = (S \X S) \ diagonal /\ (S \X S) \cap diagonal = diagonal
  BY DEF Routes
<1> HIDE DEF diagonal
<1>5. IsFiniteSet(Routes(S)) /\ Cardinality(Routes(S)) = Cardinality(S \X S) - Cardinality(diagonal)
  <2> DEFINE all == S \X S
  <2>1. IsFiniteSet(all) /\ Routes(S) = all \ diagonal /\ all \cap diagonal = diagonal
    BY <1>1, <1>4
  <2> HIDE DEF all
  <2>2. /\ IsFiniteSet(all \ diagonal)
        /\ Cardinality(all \ diagonal) = Cardinality(all) - Cardinality(all \cap diagonal)
    BY <2>1, FS_Difference
  <2> QED BY <2>1, <2>2 DEF all
<1>6. n \in Nat
  BY FS_CardinalityType
<1> HIDE DEF n
<1>7. (n * n) - n = n * (n - 1)
  BY <1>6
<1> QED BY <1>1, <1>3, <1>5, <1>7 DEF n

(* The batches of a call that returned, from their sharing.                  *)
LEMMA SharedIsOnce ==
  ASSUME BatchInv PROVE DirectionsOnce
<1> SUFFICES ASSUME step = "returned", scenario.kind = "links"
             PROVE  LET chosen == UNION {NodesOf(measured[b]) : b \in DOMAIN measured}
                    IN /\ scenario.wanted \subseteq chosen /\ Cardinality(chosen) >= 2
                       /\ \A from, to \in chosen : from # to =>
                            Cardinality({p \in Places : At(p) = <<from, to>>}) = 1
                       /\ Cardinality(Places) = Cardinality(chosen) * (Cardinality(chosen) - 1)
                       /\ \A p, q \in Places : p[1] = q[1] /\ p # q =>
                            NodesOf(<<At(p)>>) \cap NodesOf(<<At(q)>>) = {}
  BY DEF DirectionsOnce, Places, At
<1> DEFINE chosen == UNION {NodesOf(measured[b]) : b \in DOMAIN measured}
<1>1. PICK S \in SUBSET Names : IsShared(S)
  BY DEF BatchInv
<1>2. remaining = <<>>
  BY DEF BatchInv
<1>3. \A d \in Routes(S) : \E p \in Places : At(p) = d
  BY <1>1, <1>2 DEF IsShared
<1>4. \A p, q \in Places : At(p) = At(q) => p = q
  BY <1>1 DEF IsShared
<1>5. \A p \in Places :
        /\ p = <<p[1], p[2]>> /\ p[1] \in DOMAIN measured /\ p[2] \in DOMAIN measured[p[1]]
        /\ At(p) \in Routes(S)
  <2> SUFFICES ASSUME NEW p \in Places
               PROVE  /\ p = <<p[1], p[2]>> /\ p[1] \in DOMAIN measured /\ p[2] \in DOMAIN measured[p[1]]
                      /\ At(p) \in Routes(S)
    OBVIOUS
  <2>1. p = <<p[1], p[2]>> /\ p[1] \in DOMAIN measured /\ p[2] \in DOMAIN measured[p[1]]
    BY DEF Places
  <2>2. measured[p[1]] \in Seq(Routes(S))
    BY <1>1, <2>1 DEF IsShared, IsBatch
  <2>3. measured[p[1]][p[2]] \in Routes(S)
    BY <2>1, <2>2
  <2> QED BY <2>1, <2>3 DEF At
<1>6. chosen = S
  <2>1. ASSUME NEW b \in DOMAIN measured, NEW i \in DOMAIN measured[b]
        PROVE  measured[b][i][1] \in S /\ measured[b][i][2] \in S
    <3>1. measured[b] \in Seq(Routes(S))
      BY <1>1 DEF IsShared, IsBatch
    <3>2. measured[b][i] \in Routes(S)
      BY <3>1
    <3> QED BY <3>2 DEF Routes
  <2>2. chosen \subseteq S
    BY <2>1 DEF NodesOf
  <2>3. ASSUME NEW x \in S PROVE x \in chosen
    <3>1. PICK y \in S : y # x
      <4>1. Cardinality({x}) = 1 /\ Cardinality(S) >= 2
        BY <1>1, FS_Singleton DEF IsShared
      <4>2. S # {x}
        BY <4>1
      <4> QED BY <4>2
    <3>2. <<x, y>> \in Routes(S)
      BY <3>1 DEF Routes
    <3>3. PICK p \in Places : At(p) = <<x, y>>
      BY <1>3, <3>2
    <3>4. measured[p[1]][p[2]][1] = x /\ p[1] \in DOMAIN measured /\ p[2] \in DOMAIN measured[p[1]]
      BY <1>5, <3>3 DEF At
    <3>5. x \in NodesOf(measured[p[1]])
      BY <3>4 DEF NodesOf
    <3> QED BY <3>4, <3>5
  <2> QED BY <2>2, <2>3
<1> HIDE DEF chosen
<1>7. scenario.wanted \subseteq S /\ Cardinality(S) >= 2 /\ IsFiniteSet(S)
  BY <1>1 DEF IsShared
<1>8. ASSUME NEW from \in S, NEW to \in S, from # to
      PROVE  Cardinality({p \in Places : At(p) = <<from, to>>}) = 1
  <2>1. <<from, to>> \in Routes(S)
    BY <1>8 DEF Routes
  <2>2. PICK p \in Places : At(p) = <<from, to>>
    BY <1>3, <2>1
  <2>3. {q \in Places : At(q) = <<from, to>>} = {p}
    BY <1>4, <2>2
  <2> QED BY <2>3, FS_Singleton
<1>9. Cardinality(Places) = Cardinality(S) * (Cardinality(S) - 1)
  <2> DEFINE f == [p \in Places |-> At(p)]
  <2>1. f \in Bijection(Places, Routes(S))
    BY <1>3, <1>4, <1>5 DEF Bijection, Injection, Surjection, IsInjective
  <2>2. f \in Injection(Places, Routes(S))
    BY <2>1 DEF Bijection
  <2> HIDE DEF f
  <2>3. IsFiniteSet(Places)
    BY <1>7, <2>2, RoutesCount, FS_Injection
  <2>4. Cardinality(Routes(S)) = Cardinality(Places)
    BY <2>1, <2>3, FS_Bijection DEF ExistsBijection
  <2> QED BY <1>7, <2>4, RoutesCount
<1>10. ASSUME NEW p \in Places, NEW q \in Places, p[1] = q[1], p # q
       PROVE  NodesOf(<<At(p)>>) \cap NodesOf(<<At(q)>>) = {}
  <2>1. /\ p[1] \in DOMAIN measured /\ p[2] # q[2]
        /\ p[2] \in DOMAIN measured[p[1]] /\ q[2] \in DOMAIN measured[p[1]]
    BY <1>5, <1>10
  <2>2. IsBatch(measured[p[1]], S)
    BY <1>1, <2>1 DEF IsShared
  <2> QED BY <1>10, <2>1, <2>2 DEF IsBatch, At
<1> QED BY <1>6, <1>7, <1>8, <1>9, <1>10 DEF chosen

(* Every direction between the chosen nodes is probed once, and no node      *)
(* takes part in two probes of a batch.                                      *)
THEOREM DirectionsAreOnce == Spec => []DirectionsOnce
<1> QED BY Shared, SharedIsOnce, PTL
=============================================================================
