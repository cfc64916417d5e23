-------------------------- MODULE DeviceListProofs --------------------------
(***************************************************************************)
(* The list of Device_list.c for any devices, leftovers and length.        *)
(***************************************************************************)
EXTENDS DeviceList, TLAPS

\* An address that was given is behind the pool's place.
GivenBefore ==
  \A i \in DOMAIN devices : devices[i].has_ip => devices[i].ip \in 1 .. (ip_range_min - 1)

IInv ==
  /\ TypeOK
  /\ GivenBefore
  /\ NoTwoAlike
  /\ LookUpByMac

\* What is known of a list that got a node at its head.
LEMMA Prepended ==
  ASSUME NEW list \in Seq(Node), NEW node \in Node
  PROVE  /\ (<<node>> \o list) \in Seq(Node)
         /\ Len(<<node>> \o list) = Len(list) + 1
         /\ (<<node>> \o list)[1] = node
         /\ \A i \in 2 .. Len(list) + 1 :
              (<<node>> \o list)[i] = list[i - 1] /\ i - 1 \in DOMAIN list
  OBVIOUS

\* The list starts empty, with the whole pool.
LEMMA InitHolds == Init => IInv
  <1> SUFFICES ASSUME Init PROVE IInv
    OBVIOUS
  <1>1. devices \in Seq(Node) /\ DOMAIN devices = {}
    BY DEF Init
  <1>2. TypeOK
    BY <1>1 DEF Init, TypeOK, ip_range_max
  <1> QED
    BY <1>1, <1>2 DEF IInv, GivenBefore, NoTwoAlike, LookUpByMac

\* A new node has no address, and hides the older ones of its device.
LEMMA AddKeeps ==
  ASSUME IInv, NEW mac \in Macs, add_device(mac)
  PROVE  IInv'
  <1>1. PICK left \in Leftovers :
          devices' = <<[mac |-> mac, ip |-> left, has_ip |-> FALSE]>> \o devices
    BY DEF add_device, Prepend
  <1> DEFINE node == [mac |-> mac, ip |-> left, has_ip |-> FALSE]
  <1>2. node \in Node
    BY ListAssumption DEF Node
  <1>3. devices \in Seq(Node)
    BY DEF IInv, TypeOK
  <1>4. /\ devices' \in Seq(Node) /\ Len(devices') = Len(devices) + 1
        /\ devices'[1] = node
        /\ \A i \in 2 .. Len(devices) + 1 :
             devices'[i] = devices[i - 1] /\ i - 1 \in DOMAIN devices
    BY <1>1, <1>2, <1>3, Prepended
  <1>5. DOMAIN devices' = 1 .. Len(devices) + 1 /\ Len(devices) \in Nat
    BY <1>3, <1>4
  <1>6. /\ ip_range_min' = ip_range_min
        /\ given' = [given EXCEPT ![mac] = None]
    BY DEF add_device
  <1> HIDE DEF node
  <1>7. ~ devices'[1].has_ip /\ devices'[1].mac = mac
    BY <1>4 DEF node
  <1>8. TypeOK'
    BY <1>4, <1>6 DEF IInv, TypeOK
  <1>9. GivenBefore'
    BY <1>4, <1>5, <1>6, <1>7 DEF IInv, GivenBefore
  <1>10. NoTwoAlike'
    <2> SUFFICES ASSUME NEW i \in 1 .. Len(devices) + 1, NEW j \in 1 .. Len(devices) + 1,
                        devices'[i].has_ip, devices'[j].has_ip,
                        devices'[i].ip = devices'[j].ip
                 PROVE  i = j
      BY <1>5 DEF NoTwoAlike
    <2>1. i \in 2 .. Len(devices) + 1 /\ j \in 2 .. Len(devices) + 1
      BY <1>5, <1>7
    <2>2. i - 1 = j - 1
      BY <1>4, <2>1 DEF IInv, NoTwoAlike
    <2> QED
      BY <2>1, <2>2, <1>5
  <1>11. LookUpByMac'
    <2> SUFFICES ASSUME NEW i \in 1 .. Len(devices) + 1, NEW m \in Macs, FoundByMac(i, m)'
                 PROVE  IF devices'[i].has_ip THEN devices'[i].ip = given'[m]
                        ELSE given'[m] = None
      BY <1>5 DEF LookUpByMac
    <2>1. devices'[i].mac = m /\ \A j \in 1 .. (i - 1) : devices'[j].mac # m
      BY DEF FoundByMac
    <2>2. CASE i = 1
      BY <2>1, <2>2, <1>6, <1>7 DEF IInv, TypeOK
    <2>3. CASE i # 1
      <3>1. i \in 2 .. Len(devices) + 1 /\ m # mac
        BY <2>1, <2>3, <1>5, <1>7
      <3>2. \A j \in 1 .. (i - 2) : j + 1 \in 1 .. (i - 1) /\ j + 1 \in 2 .. Len(devices) + 1
                                    /\ (j + 1) - 1 = j
        BY <3>1, <1>5
      <3>3. \A j \in 1 .. (i - 2) : devices[j].mac # m
        <4> SUFFICES ASSUME NEW j \in 1 .. (i - 2) PROVE devices[j].mac # m
          OBVIOUS
        <4>1. devices'[j + 1] = devices[j]
          BY <3>2, <1>4
        <4> QED
          BY <2>1, <3>2, <4>1
      <3>4. FoundByMac(i - 1, m) /\ i - 1 \in DOMAIN devices
        BY <2>1, <3>1, <3>3, <1>4, <1>5 DEF FoundByMac
      <3>5. given'[m] = given[m]
        BY <3>1, <1>6 DEF IInv, TypeOK
      <3> QED
        BY <3>1, <3>4, <3>5, <1>4 DEF IInv, LookUpByMac
    <2> QED
      BY <2>2, <2>3
  <1> QED
    BY <1>8, <1>9, <1>10, <1>11 DEF IInv

\* Arithmetic of the pool's place.
LEMMA Place ==
  ASSUME NEW n \in 1 .. 253
  PROVE  /\ n \in 1 .. n
         /\ \A ip \in 1 .. (n - 1) : ip \in 1 .. n
  OBVIOUS

\* The address given is behind none that was given before.
LEMMA GiveKeeps ==
  ASSUME IInv, NEW mac \in Macs, add_ip_to_device(mac)
  PROVE  IInv'
  <1>1. PICK k \in DOMAIN devices : FoundByMac(k, mac) /\ TakeAddress(k)
    BY DEF add_ip_to_device
  <1>2. devices \in Seq(Node) /\ ip_range_min \in 1 .. 253
    BY DEF IInv, TypeOK, add_ip_to_device, ip_range_max
  <1>2a. ip_range_min \in 1 .. 253
    BY <1>2
  <1>3. devices[k].mac = mac
    BY <1>1 DEF FoundByMac
  <1> DEFINE node == [mac |-> mac, ip |-> ip_range_min, has_ip |-> TRUE]
  <1>4. /\ devices' = [devices EXCEPT ![k] = node]
        /\ ip_range_min' = ip_range_min + 1
        /\ given' = [given EXCEPT ![mac] = ip_range_min]
    BY <1>1, <1>3 DEF TakeAddress
  <1>5. /\ DOMAIN devices' = DOMAIN devices
        /\ \A i \in DOMAIN devices : devices'[i].mac = devices[i].mac
        /\ \A i \in DOMAIN devices : i # k => devices'[i] = devices[i]
        /\ devices'[k].ip = ip_range_min /\ devices'[k].has_ip
    BY <1>2, <1>3, <1>4
  <1>6. ip_range_min \in Address /\ ip_range_min + 1 \in Address
        /\ ip_range_min + 1 \in 1 .. ip_range_max
    BY <1>2 DEF Address, ip_range_max
  <1>7. TypeOK'
    <2>1. devices' \in Seq(Node)
      <3>1. node \in Node
        BY <1>6 DEF Node
      <3> QED
        BY <1>2, <1>4, <3>1
    <2>2. given' \in [Macs -> {None} \cup Address]
      BY <1>4, <1>6 DEF IInv, TypeOK
    <2> QED
      BY <1>4, <1>6, <2>1, <2>2 DEF TypeOK
  <1>8. \A i \in DOMAIN devices :
          i # k /\ devices[i].has_ip => devices[i].ip \in 1 .. (ip_range_min - 1)
    BY DEF IInv, GivenBefore
  <1>9. GivenBefore'
    <2> SUFFICES ASSUME NEW i \in DOMAIN devices, devices'[i].has_ip
                 PROVE  devices'[i].ip \in 1 .. ip_range_min
      BY <1>2, <1>4, <1>5 DEF GivenBefore
    <2>1. CASE i = k
      <3>1. devices'[i].ip = ip_range_min
        BY <2>1, <1>5
      <3>2. ip_range_min \in 1 .. ip_range_min
        BY <1>2a, Place
      <3> QED
        BY <3>1, <3>2
    <2>2. CASE i # k
      <3>1. devices'[i] = devices[i] /\ devices[i].ip \in 1 .. (ip_range_min - 1)
        BY <2>2, <1>5, <1>8
      <3> QED
        BY <3>1, <1>2a, Place
    <2> QED
      BY <2>1, <2>2
  <1>10. NoTwoAlike'
    <2> SUFFICES ASSUME NEW i \in DOMAIN devices, NEW j \in DOMAIN devices,
                        devices'[i].has_ip, devices'[j].has_ip,
                        devices'[i].ip = devices'[j].ip
                 PROVE  i = j
      BY <1>5 DEF NoTwoAlike
    <2>1. CASE i = k /\ j # k
      BY <2>1, <1>2, <1>5, <1>8
    <2>2. CASE i # k /\ j = k
      BY <2>2, <1>2, <1>5, <1>8
    <2>3. CASE i # k /\ j # k
      BY <2>3, <1>5 DEF IInv, NoTwoAlike
    <2> QED
      BY <2>1, <2>2, <2>3
  <1>11. LookUpByMac'
    <2> SUFFICES ASSUME NEW i \in DOMAIN devices, NEW m \in Macs, FoundByMac(i, m)'
                 PROVE  IF devices'[i].has_ip THEN devices'[i].ip = given'[m]
                        ELSE given'[m] = None
      BY <1>5 DEF LookUpByMac
    <2>1. FoundByMac(i, m)
      <3>1. \A j \in 1 .. (i - 1) : j \in DOMAIN devices
        BY <1>2
      <3> QED
        BY <3>1, <1>5 DEF FoundByMac
    <2>2. CASE i = k
      <3>1. m = mac
        BY <2>1, <2>2, <1>3 DEF FoundByMac
      <3> QED
        BY <2>2, <3>1, <1>4, <1>5 DEF IInv, TypeOK
    <2>3. CASE i # k
      <3>1. m # mac
        <4>1. i \in Int /\ k \in Int /\ i >= 1 /\ k >= 1
          BY <1>2
        <4>2. k \in 1 .. (i - 1) \/ i \in 1 .. (k - 1)
          BY <2>3, <4>1
        <4> QED
          BY <2>1, <4>2, <1>1 DEF FoundByMac
      <3>2. given'[m] = given[m]
        BY <3>1, <1>4 DEF IInv, TypeOK
      <3> QED
        BY <2>1, <2>3, <3>2, <1>5 DEF IInv, LookUpByMac
    <2> QED
      BY <2>2, <2>3
  <1> QED
    BY <1>7, <1>9, <1>10, <1>11 DEF IInv

\* A step that changes nothing keeps everything.
LEMMA StutterKeeps ==
  ASSUME IInv, UNCHANGED vars
  PROVE  IInv'
  BY DEF IInv, vars, TypeOK, GivenBefore, NoTwoAlike, LookUpByMac, FoundByMac

LEMMA InvariantKept == IInv /\ [Next]_vars => IInv'
  <1> SUFFICES ASSUME IInv, [Next]_vars PROVE IInv'
    OBVIOUS
  <1>1. ASSUME NEW mac \in Macs, add_device(mac) PROVE IInv'
    BY <1>1, AddKeeps
  <1>2. ASSUME NEW mac \in Macs, add_ip_to_device(mac) PROVE IInv'
    BY <1>2, GiveKeeps
  <1>3. CASE PoolIsEmpty
    BY <1>3, StutterKeeps DEF PoolIsEmpty
  <1>4. CASE UNCHANGED vars
    BY <1>4, StutterKeeps
  <1> QED
    BY <1>1, <1>2, <1>3, <1>4 DEF Next

\* The invariant holds in every state of every behaviour.
THEOREM Invariance == Spec => []IInv
  <1>1. Init => IInv
    BY InitHolds
  <1> QED
    BY <1>1, InvariantKept, PTL DEF Spec

\* The list and the pool keep their types; the pool's place never passes 254.
THEOREM TypeCorrect == Spec => []TypeOK
  <1>1. IInv => TypeOK
    BY DEF IInv
  <1> QED
    BY <1>1, Invariance, PTL

\* No two entries are ever given the same address, and none one from outside
\* the pool.
THEOREM AddressesDistinct == Spec => []DistinctAddresses
  <1>1. IInv => DistinctAddresses
    <2>1. IInv => ip_range_min \in 1 .. 254
      BY DEF IInv, TypeOK, ip_range_max
    <2>2. IInv => \A i \in DOMAIN devices :
                    devices[i].has_ip => devices[i].ip \in 1 .. (ip_range_max - 1)
      <3> SUFFICES ASSUME IInv, NEW i \in DOMAIN devices, devices[i].has_ip
                   PROVE  devices[i].ip \in 1 .. (ip_range_max - 1)
        OBVIOUS
      <3>1. devices[i].ip \in 1 .. (ip_range_min - 1)
        BY DEF IInv, GivenBefore
      <3> DEFINE ip == devices[i].ip
      <3>2. ip \in 1 .. (ip_range_min - 1) => ip \in 1 .. 253
        <4> HIDE DEF ip
        <4> QED
          BY <2>1
      <3> QED
        BY <3>1, <3>2 DEF ip_range_max
    <2> QED
      BY <2>2 DEF IInv, DistinctAddresses
  <1> QED
    BY <1>1, Invariance, PTL

\* find_device_by_mac returns an entry with the device's last address.
THEOREM FoundByMacIsLast == Spec => []LookUpByMac
  <1>1. IInv => LookUpByMac
    BY DEF IInv
  <1> QED
    BY <1>1, Invariance, PTL

\* find_device_by_ip returns the address's owner, or memory never written.
THEOREM FoundByIpIsOwner == Spec => []LookUpByIp
  <1>1. IInv => LookUpByIp
    <2> SUFFICES ASSUME IInv, NEW i \in DOMAIN devices, NEW j \in DOMAIN devices,
                        devices[i].has_ip, FoundByIp(j, devices[i].ip), j # i
                 PROVE  j < i /\ ~ devices[j].has_ip
      BY DEF LookUpByIp
    <2>1. devices[j].ip = devices[i].ip /\ i \notin 1 .. (j - 1)
      BY DEF FoundByIp
    <2>2. i \in Int /\ j \in Int /\ i >= 1 /\ j >= 1
      BY DEF IInv, TypeOK
    <2>3. j < i
      BY <2>1, <2>2
    <2>4. ~ devices[j].has_ip
      BY <2>1 DEF IInv, NoTwoAlike
    <2> QED
      BY <2>3, <2>4
  <1> QED
    BY <1>1, Invariance, PTL

=============================================================================
