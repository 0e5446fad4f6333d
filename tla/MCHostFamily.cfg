CONSTANTS
  N = 8
  Dec <- MCDec
  Hex <- MCHex
  Other = {"x"}
  Nul = "~"
  Addresses <- MCAddresses
  Ports = {80}
  Samples <- MCSamples
  MaxEdits = 2
SPECIFICATION SpecText
INVARIANT V6HostIsV6
