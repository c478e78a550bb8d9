SPECIFICATION PeerSpec
CONSTANTS
  Peers = {p1, p2}
  Labels = {"a", "b"}
  Names <- MCNames
  MaxTokens = 5
INVARIANTS
  OneLabelChanged
  PeersApart
