SPECIFICATION CodecSpec
CONSTANTS
    Radix = 10
    Messages <- MCMessages
    MaxCut = 90
    Trailers <- MCTrailers
    Lengths = {0, 3, 4, 7, 8, 9, 19, 20, 23, 24, 39, 40, 41, 56, 9999}
    StrangeBytes = {0, 2, 9, 16, 32, 48, 65, 160, 240, 255}
INVARIANTS
    CodecTypeOK
    SentOnUnchanged
    PanicsOnlyOnUnderflow
    RoundTrip
    ShortFramesRefused
