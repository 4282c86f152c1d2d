SPECIFICATION Spec
CONSTANTS
    p = p
    q = q
    Subscribers = {p, q}
    MaxLength <- PanelLengths
    Replaces = {q}
    DefaultLength = 2
    Schemas = {A}
    MaxRows = 3
    MaxPacket = 2
    MaxMessages = 3
    MaxStreams = 2
    MaxChannels = 2
    None = None
INVARIANTS
    TypeOK
    ReadyIsCurrent
    CurrentIsAlive
PROPERTIES
    ImplementsFrames
    UnusedChannelIsClosed
CHECK_DEADLOCK FALSE
