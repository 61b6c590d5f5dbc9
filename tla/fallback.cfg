CONSTANTS
  Threads = {s1, s2, r1}
  Packets = {p, q}
  NoPacket = NoPacket
  NoThread = NoThread
  max_size = 2
SPECIFICATION Spec
INVARIANT ChannelTypeOK
PROPERTY ImplementsChannel
