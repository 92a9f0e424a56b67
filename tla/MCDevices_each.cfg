SPECIFICATION Spec
CONSTANTS
    SndKinds = {"playback", "record"}      Frames = {1, 2, 3}
    SndVolumes = {0, 1}   RingLen = 4      PosMod = 8       Packets = {1, 3}
    Rooms = {0, 9}        MaxSnd = 6       MaxGen = 2
    InKeys = {"caps", "a"}                 ExtKeys = {"a"}  LockKeys = {"caps"}
    AckBunch = 2          MaxIn = 5
    VscHeader = 2         ApduBufSize = 3  VscLengths = {0, 3, 6}
    MaxVsc = 5
    VmcBuf = 2            VmcLimit = 3     VmcTokens = 2    MaxVmc = 4
    StreamHdr = 2         Viewers = {1, 2} NumStreams = 2   MaxStream = 5
    GuestMessages <- MCGuestMessages
    Sockets = {1, 2}     Passwords = {"p"}                 MaxChanges = 1
    ClientFrames <- MCClientFrames         LongLen = 2      Writes = {1, 2}
    SocketRooms = {0, 3, 9}                MaxWs = 4
INVARIANTS
    SndInStep
    
    
    VmcNothingStops
    StreamInStep
    LinksAdmittedAndReleased
    FramesWhole
CHECK_DEADLOCK FALSE
