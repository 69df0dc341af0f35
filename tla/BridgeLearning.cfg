CONSTANTS
  i1 = i1
  i2 = i2
  i3 = i3
  m1 = m1
  m2 = m2
  m3 = m3
  a1 = a1
  cs1 = cs1
  Iface = {i1, i2}
  Mac = {m1, m2}
  Ip = {a1}
  Lan = {cs1}
  NoMac = NoMac
  NoIface = NoIface
  Data = {}
  ip_addr <- MCipaddr
  mac_addr <- MCmacaddr
  lan_name <- MClanname
  NumPorts = 2
  ArpTime = 1
  Budget = 2
  MaxUp = 2
  Dials = 4
  Starts = 1
  Dest <- AnyMac
SPECIFICATION MCSpec
PROPERTIES
  LearnsIncomingOnly
