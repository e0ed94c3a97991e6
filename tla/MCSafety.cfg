CONSTANTS
  Tcp = {11}
  Udp = {}
  ChunkMax = 2
  SessionMax = 2
  Hasty = {11}
  Impatient = {11}
  Mortal = {1, 2}
  Keys = {"k", "l"}
  Datagrams = {1, 2}
  Layouts <- Cuts
  ReasmTimeout = 3
  SweepEvery = 2
  MaxGroups = 1
  MaxUnits = 3
  MinReuse = 5
  Calls = {1, 2}
  Resolved <- Names
  Attempts = 2
  FallbackAttempts = 1
  Mtu = 2
  InitialPackets = 6
  MinPackets = 2
  MaxPackets = 8
  Admitted = 3
  InitialRtt = 1
  MinRttExpiry = 2
  LossTolerance = 2
  LossWindow = 1
  BurstTicks = 1
  MaxFrames = 2
  MaxAge = 2
  MaxEvents = 8
  Users = {"a", "b"}
  MaxBytes = 1
  DnsNames = {"cdn", "ads", "nas.ostp"}
  Targets <- CnameOfAds
  LocalNames = {"nas.ostp"}
  Applied <- DnsChoices
  Lists <- Downloads
  DnsClients = {1}
  MaxAsked = 2
  MaxApplies = 1
  MaxUpdates = 1
  Recorders = {1}
  MaxRecorded = 2
  MaxCleared = 1
  HostNames = {"site"}
  Ips = {"127.0.0.1", "1.2.3.4"}
  Loopback = {"127.0.0.1"}
  Outbounds <- Routes
  Candidates <- Resolutions
  MaxTcp = 1
  MaxUdp = 2
  MaxPut = 1
  Sections <- ServerSections
  OldFiles <- Old
  NewKeys = {"k", "l"}
  MaxCommands = 3
  Machines <- Computers
  SiteLayouts = {"sites", "confd"}
  Domains = {"d", "e"}
  OldDomain = "d"
  SitePaths = {"panel", "sub"}
  MaxInstalls = 3
SPECIFICATION SafetySpec
INVARIANTS ConnectionsFaithful DatagramsWhole HandshakeSound TrafficSound  ConfigSound
  FrontendsSound  ExitSound
CHECK_DEADLOCK FALSE
