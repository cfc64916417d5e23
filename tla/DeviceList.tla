----------------------------- MODULE DeviceList -----------------------------
(***************************************************************************)
(* Device_list.c: a linked list of devices, newest first, and a pool of    *)
(* addresses from which one is given to a device on demand.  A device may  *)
(* be added twice and may ask for an address twice: nothing is returned to *)
(* the pool, and the newer entry hides the older one from the look-ups.    *)
(*                                                                         *)
(* All addresses of the pool are of one network, 192.168.1.0/24: an        *)
(* address is the number of its last byte, any other address is Elsewhere. *)
(***************************************************************************)
EXTENDS Integers, Sequences

CONSTANTS
  Macs,        \* the devices
  Leftovers,   \* what the memory from malloc may hold where a node keeps its ip
  MaxDevices   \* bound on the length of the list

Elsewhere == 256
Address == 0 .. 255 \cup {Elsewhere}

ASSUME ListAssumption ==
  /\ Leftovers \subseteq Address /\ Leftovers # {}
  /\ MaxDevices \in Nat

VARIABLES
  devices,        \* the list from *head on
  ip_range_min,   \* the last byte of the next address to give
  given           \* for each device the address given since it was last added (history)

vars == <<devices, ip_range_min, given>>

\* The last byte of ip_range_max.
ip_range_max == 254

\* No address given yet.
None == -1

\* A node; has_ip says whether its ip was written since malloc (history).
Node == [mac : Macs, ip : Address, has_ip : BOOLEAN]

Init ==
  /\ devices = <<>>
  /\ ip_range_min = 1
  /\ given = [m \in Macs |-> None]

\* Mutant of Prepend: the node becomes the last of the list.
AddLast(node) == devices' = devices \o <<node>>

\* node->next = *head; *head = node.
Prepend(node) == devices' = <<node>> \o devices

\* Its other fields keep what malloc left in them.
add_device(mac) ==
  /\ Len(devices) < MaxDevices
  /\ \E left \in Leftovers : Prepend([mac |-> mac, ip |-> left, has_ip |-> FALSE])
  /\ given' = [given EXCEPT ![mac] = None]
  /\ UNCHANGED ip_range_min

\* The i-th node is the one that find_device_by_mac returns, and that
\* add_ip_to_device writes to.
FoundByMac(i, mac) ==
  /\ devices[i].mac = mac
  /\ \A j \in 1 .. (i - 1) : devices[j].mac # mac

\* Mutant of FoundByIp: the last node with the address.
FoundByIpLast(i, ip) ==
  /\ devices[i].ip = ip
  /\ \A j \in (i + 1) .. Len(devices) : devices[j].ip # ip

\* The same of find_device_by_ip, which looks at nodes without an address too.
FoundByIp(i, ip) ==
  /\ devices[i].ip = ip
  /\ \A j \in 1 .. (i - 1) : devices[j].ip # ip

\* Mutant of TakeAddress: only a device without an address takes a new one
\* from the pool, the others get the last one again.
TakeAddressOnce(i) ==
  /\ devices' = [devices EXCEPT ![i] = [mac |-> @.mac, ip |-> ip_range_min, has_ip |-> TRUE]]
  /\ ip_range_min' = IF devices[i].has_ip THEN ip_range_min ELSE ip_range_min + 1
  /\ given' = [given EXCEPT ![devices[i].mac] = ip_range_min]

\* The node gets ip_range_min, which moves on.
TakeAddress(i) ==
  /\ devices' = [devices EXCEPT ![i] = [mac |-> @.mac, ip |-> ip_range_min, has_ip |-> TRUE]]
  /\ ip_range_min' = ip_range_min + 1
  /\ given' = [given EXCEPT ![devices[i].mac] = ip_range_min]

\* Mutant of add_ip_to_device: <= for <.
AddIpUpToMax(mac) ==
  /\ ip_range_min <= ip_range_max
  /\ \E i \in DOMAIN devices : FoundByMac(i, mac) /\ TakeAddress(i)

\* Without a node for the mac, or with the pool at its end, nothing changes.
add_ip_to_device(mac) ==
  /\ ip_range_min < ip_range_max
  /\ \E i \in DOMAIN devices : FoundByMac(i, mac) /\ TakeAddress(i)

\* The pool is at its end for good: the call returns 0.
PoolIsEmpty ==
  /\ ip_range_min >= ip_range_max
  /\ UNCHANGED vars

Next ==
  \/ \E mac \in Macs : add_device(mac) \/ add_ip_to_device(mac)
  \/ PoolIsEmpty

Spec == Init /\ [][Next]_vars

-----------------------------------------------------------------------------

\* Types of the variables.
TypeOK ==
  /\ devices \in Seq(Node)
  /\ ip_range_min \in 1 .. ip_range_max
  /\ given \in [Macs -> {None} \cup Address]

\* No two entries of the list were given the same address, although a device
\* may have several entries and ask for an address as often as it likes.
NoTwoAlike ==
  \A i, j \in DOMAIN devices :
    devices[i].has_ip /\ devices[j].has_ip /\ devices[i].ip = devices[j].ip => i = j

\* Nor is an address given from outside the pool, which ends before 254 and has
\* the gateway's own address, 7, in it.
DistinctAddresses ==
  /\ NoTwoAlike
  /\ \A i \in DOMAIN devices : devices[i].has_ip => devices[i].ip \in 1 .. (ip_range_max - 1)

\* The entry that find_device_by_mac returns has the address that the device
\* was given last, and none if it was added again since: an older entry with
\* an older address is never returned.
LookUpByMac ==
  \A i \in DOMAIN devices, m \in Macs :
    FoundByMac(i, m) => IF devices[i].has_ip THEN devices[i].ip = given[m]
                        ELSE given[m] = None

\* find_device_by_ip returns the entry that was given the address, unless one
\* nearer the head has it in memory that was never written.
LookUpByIp ==
  \A i, j \in DOMAIN devices :
    devices[i].has_ip /\ FoundByIp(j, devices[i].ip)
      => j = i \/ (j < i /\ ~ devices[j].has_ip)

=============================================================================
