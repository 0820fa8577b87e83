CONSTANTS
    Addrs = {"0.0.0.0", "::"}
    SizeTexts <- MCSizeTexts
    MaxNets = 2
    WgIpNet = WgIpNet
    NoSlash = NoSlash
    NaN = NaN
    Undef = Undef
SPECIFICATION Spec
INVARIANT ExpandedRoutesExactlyPublic
CHECK_DEADLOCK FALSE
