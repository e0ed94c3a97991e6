CONSTANTS
  Locals <- Sockets
  UdpClients <- UdpAddresses
  MaxRemembered = 2
  Conns = {1, 2}
  Addresses = {"public", "local"}
  Loopback = {"local"}
  Clients = {"client"}
  FrontListeners <- Ports
  MaxConns = 1
  MaxUp = 2
  MaxDown = 2
  MaxPending = 1
  Listeners = {"a", "b"}
  Peers = {"p", "q"}
  RelayConns = {1, 2, 3}
  MaxSessions = 1
  MaxTcp = 1
  Burst = 1
  MaxOpened = 2
  MaxIssued = 2
  EditUsers = {"a", "b"}
  Plans <- EditPlans
SPECIFICATION Spec
INVARIANTS TypeOK  RelaySound CertificatesSound TransportsSound CarrierSound
PROPERTIES ConnectionsEnd  WhatIsOnDiskIsServed
CHECK_DEADLOCK FALSE
