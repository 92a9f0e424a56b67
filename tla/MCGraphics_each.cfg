SPECIFICATION Spec
CONSTANTS
    NoCookie = "none"
    Cookies = {"c"}       RingSize = 1     MaxPipe = 0      MaxActs = 3
    Cells = {1, 2, 3}     Pool = {1, 2, 3}                  MaxCommands = 5
    Commands <- MCCommands
    VideoCommands <- MCVideoCommands       VideoCaps <- MCVideoCaps
    Streams = {1, 2}      StartFrames = 1  Traces = 2       Gaps = {"now", "late"}
    MaxVideo = 3
    Dccs = {1, 2}         Images = {1, 2}  CacheSize = 1    MaxParts = 2
    MaxSerial <- MCMaxSerial
    LossySurfaces = {0, 1}                 LossyCells = {1, 2}
    LossyImages = {1}     Drawings <- MCDrawings
    Encoders = {1, 2}     WindowSize = 3   ImageSizes = {1, 2}
    MaxImages = 3
    StartRate = 24        FrameSizes = {1, 8}               SourceFps = {8}
    FrameGaps = {80, 2100}                 Reports <- MCReports
    MaxFrames = 6
    Shapes = {1, 2}       CursorCacheSize = 1               CursorClients = {"u", "v"}
    MaxCursor = 4
    GlClients = {1, 2}    Buffers = {1, 2} MaxGl = 4
    RecDrawings <- MCRecDrawings           LaterDrawings <- MCLaterDrawings
    RecSurfaces = {1}     NSurfaces = {2, 3}                MaxRec = 4
    MaxShaped = 1         MaxOthers = 1    MaxTokens = 40
INVARIANTS
    
    DisplayShowsGuestPicture
    VideoClient
    PixmapClientProceeds
    LossyRegionCovers
    
    QualityRoundEnds
    CursorClientShows
    GlDrawsCompleted
    
CHECK_DEADLOCK FALSE
