SPECIFICATION MtuSpec
CONSTANTS
    Configured = {1281, 1420}
    MaxDepth = 15
INVARIANT PacketsFit
