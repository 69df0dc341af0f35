------------------------------ MODULE Packets ------------------------------
(***************************************************************************)
(* The frames the emulator's processes exchange (models/ip.hpp, ip.cpp).   *)
(*                                                                         *)
(* A frame is the C++ object EtherPkt written to the socket as raw bytes.  *)
(* The std::string members travel by value only while each is short enough *)
(* to be stored inside the object (22 characters with the libc++ of the    *)
(* platform README.txt names), so the addresses always do, and Data stands *)
(* for messages that do as well.                                           *)
(***************************************************************************)
EXTENDS Integers, Sequences, FiniteSets

CONSTANTS
  Iface,      \* the interfaces of all stations and routers
  NoIface,    \* no interface: what an unused descriptor or no route leads to
  Lan,        \* the LANs, one bridge each
  Ip,         \* IP addresses
  Mac,        \* MAC addresses
  NoMac,      \* the empty string in a MacAddr: what a request is sent to
  Data,       \* contents of user messages
  ip_addr,    \* Iface -> Ip    (struct iface)
  mac_addr,   \* Iface -> Mac   (struct iface)
  lan_name    \* Iface -> Lan   (struct iface)

ASSUME PacketsAssumption ==
  /\ NoIface \notin Iface
  /\ NoMac \notin Mac
  /\ ip_addr \in [Iface -> Ip]
  /\ mac_addr \in [Iface -> Mac]
  /\ lan_name \in [Iface -> Lan]
-----------------------------------------------------------------------------
TYPE_ARP_PKT == 0
TYPE_IP_PKT  == 1
ARP_REQUEST  == 0
ARP_RESPONSE == 1

AnyMac == Mac \cup {NoMac}

ArpPkt == [op : {ARP_REQUEST, ARP_RESPONSE}, src_ip : Ip, src_mac : Mac,
           dst_ip : Ip, dst_mac : AnyMac]

IpPkt == [src_ip : Ip, dst_ip : Ip, data : Data]

(* Only the member the type selects is kept: no handler reads the other.   *)
EtherPkt ==
  [type : {TYPE_ARP_PKT}, mac_src : Mac, mac_dst : AnyMac, arp_pkt : ArpPkt]
    \cup
  [type : {TYPE_IP_PKT}, mac_src : Mac, mac_dst : AnyMac, ip_pkt : IpPkt]

create_req_pkt(i, dst_ip) ==
  [op |-> ARP_REQUEST, src_ip |-> ip_addr[i], src_mac |-> mac_addr[i],
   dst_ip |-> dst_ip, dst_mac |-> NoMac]

(* Mutant: the answer repeats the MAC address of the one who asks. *)
EchoingResponse(pkt, src_ip, src_mac) ==
  [op |-> ARP_RESPONSE, src_ip |-> src_ip, src_mac |-> pkt.src_mac,
   dst_ip |-> pkt.src_ip, dst_mac |-> pkt.src_mac]

create_resp_pkt(pkt, src_ip, src_mac) ==
  [op |-> ARP_RESPONSE, src_ip |-> src_ip, src_mac |-> src_mac,
   dst_ip |-> pkt.src_ip, dst_mac |-> pkt.src_mac]

create_pkt(src_ip, dst_ip, data) ==
  [src_ip |-> src_ip, dst_ip |-> dst_ip, data |-> data]

ArpFrame(mac_src, mac_dst, arp) ==
  [type |-> TYPE_ARP_PKT, mac_src |-> mac_src, mac_dst |-> mac_dst,
   arp_pkt |-> arp]

IpFrame(mac_src, mac_dst, ip) ==
  [type |-> TYPE_IP_PKT, mac_src |-> mac_src, mac_dst |-> mac_dst,
   ip_pkt |-> ip]

IsArp(f)      == f.type = TYPE_ARP_PKT
IsRequest(f)  == IsArp(f) /\ f.arp_pkt.op = ARP_REQUEST
IsResponse(f) == IsArp(f) /\ f.arp_pkt.op = ARP_RESPONSE
IsIp(f)       == f.type = TYPE_IP_PKT
=============================================================================
