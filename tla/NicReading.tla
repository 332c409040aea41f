----------------------------- MODULE NicReading -----------------------------
(* nic_inventory.py: what collect_nic_inventory() makes of one host's sysfs. *)
(*                                                                           *)
(* host.nics and host.rdma give the files of each interface and each RDMA    *)
(* device.  The uevent of both is the PCI address it names, "noslot", or the *)
(* reason why it cannot be read.  "number" stands for the numeric attributes *)
(* of an interface, "port" for the text attributes of a device: integers and *)
(* texts, "junk" for a text that is no integer, "empty", or such a reason.   *)
(* host.listed says which of the two directories, "net" and "infiniband",    *)
(* can be inspected with all their entries.                                  *)
EXTENDS Integers, FiniteSets

CONSTANT Addresses     \* PCI addresses

(* SysfsReader.read: the confidence of a text that is not there. *)
Refusal == [absent |-> "unavailable", einval |-> "unsupported", eacces |-> "unreadable"]

ASSUME AddressesAssumption == Addresses \cap (DOMAIN Refusal \cup {"empty", "noslot"}) = {}

None == -1

Known(reading) == reading.confidence = "reported"

(* _reading with the conversion _positive_int.  A number is [int |-> n]. *)
NumberReading(file) ==
  CASE file.text \in DOMAIN Refusal -> [value |-> None, confidence |-> Refusal[file.text]]
    [] file.text = "empty" -> [value |-> None, confidence |-> "unavailable"]
    [] file.text = "int" /\ file.int >= 0 -> [value |-> file.int, confidence |-> "reported"]
    [] OTHER -> [value |-> None, confidence |-> "unsupported"]

(* _reading without a conversion, and PCI_SLOT_NAME of _uevent: neither says *)
(* more of a text than that it is there.                                     *)
TextReading(text) ==
  CASE text \in DOMAIN Refusal -> [value |-> "none", confidence |-> Refusal[text]]
    [] text \in {"empty", "noslot"} -> [value |-> "none", confidence |-> "unavailable"]
    [] OTHER -> [value |-> text, confidence |-> "reported"]

(* _classify *)
Kind(nic, pci) ==
  CASE nic.loopback -> "loopback"
    [] ~nic.loopback /\ Known(pci) -> "physical"
    [] ~nic.loopback /\ ~Known(pci) /\ nic.virtual -> "virtual"
    [] OTHER -> "unknown"

(* SysfsReader.directories: no directory is listed rather than some. *)
Directories(host, path, names) == IF path \in host.listed THEN names ELSE {}

NicNames(host)  == Directories(host, "net", DOMAIN host.nics)
RdmaNames(host) == Directories(host, "infiniband", DOMAIN host.rdma)

(* _rdma_devices *)
RdmaDevices(host) ==
  {[name |-> d, pci |-> TextReading(host.rdma[d].uevent), port |-> TextReading(host.rdma[d].port)]
   : d \in RdmaNames(host)}

Unreadable(readings) == {what \in DOMAIN readings : readings[what].confidence = "unreadable"}

(* Mutant: the last device at an address takes the place of those before. *)
MatchingRdmaLast(host, pci) ==
  LET at == {d \in RdmaDevices(host) : Known(d.pci) /\ d.pci.value = pci.value}
  IN IF Known(pci) /\ at # {} THEN {CHOOSE d \in at : TRUE} ELSE {}

MatchingRdma(host, pci) ==
  {d \in RdmaDevices(host) : Known(pci) /\ Known(d.pci) /\ d.pci.value = pci.value}

Interface(host, n) ==
  LET nic    == host.nics[n]
      pci    == TextReading(nic.uevent)
      number == NumberReading(nic.number)
  IN [name |-> n, kind |-> Kind(nic, pci), pci |-> pci, number |-> number,
      rdma |-> MatchingRdma(host, pci),
      problems |-> Unreadable([pci |-> pci, number |-> number])]

(* The problems of the node name the device and what is wrong with it. *)
Collect(host) ==
  LET interfaces == {Interface(host, n) : n \in NicNames(host)}
      unattached == RdmaDevices(host) \ UNION {i.rdma : i \in interfaces}
  IN [interfaces |-> interfaces,
      unattached |-> unattached,
      problems   |->
        (IF interfaces = {} THEN {<<"host", "no interfaces">>} ELSE {})
        \cup (UNION {{d.name} \X Unreadable([pci |-> d.pci, port |-> d.port]) : d \in RdmaDevices(host)})
        \cup {<<d.name, IF Known(d.pci) THEN "no interface" ELSE "no address">> : d \in unattached}]

-----------------------------------------------------------------------------
(* What a uevent may say, and a host.                                        *)
Uevents == Addresses \cup DOMAIN Refusal \cup {"empty", "noslot"}

IsNicHost(host) ==
  /\ host.listed \subseteq {"net", "infiniband"}
  /\ \A n \in DOMAIN host.nics : host.nics[n].uevent \in Uevents /\ host.nics[n].number.int \in Int
  /\ \A d \in DOMAIN host.rdma : host.rdma[d].uevent \in Uevents

-----------------------------------------------------------------------------
(* What a reader of the inventory relies on.                                 *)

(* Every RDMA device that is listed is in the inventory: with the listed     *)
(* interfaces at its address and with no other, or apart with a problem that *)
(* names it.                                                                 *)
RdmaIsKept(host, inventory) ==
  \A d \in RdmaNames(host) :
    LET uevent == host.rdma[d].uevent
        at     == {n \in NicNames(host) : uevent \in Addresses /\ host.nics[n].uevent = uevent}
    IN /\ {i.name : i \in {i \in inventory.interfaces : \E x \in i.rdma : x.name = d}} = at
       /\ (\E x \in inventory.unattached : x.name = d) <=> at = {}
       /\ at = {} => \E p \in inventory.problems : p[1] = d

(* A file of a listed interface that was refused is neither a value nor      *)
(* forgotten: the interface is kept, and a file that exists and cannot be    *)
(* read is among its problems.  That no interface was listed is a problem of *)
(* the node.                                                                 *)
UnknownIsNotZero(host, inventory) ==
  /\ \A n \in NicNames(host) :
       \E i \in inventory.interfaces :
         /\ i.name = n
         /\ i.number.value # None <=> host.nics[n].number.text = "int" /\ host.nics[n].number.int >= 0
         /\ host.nics[n].number.text = "eacces" <=> "number" \in i.problems
         /\ host.nics[n].uevent = "eacces" <=> "pci" \in i.problems
  /\ NicNames(host) = {} => <<"host", "no interfaces">> \in inventory.problems
=============================================================================
