CONSTANTS
    ConnectionID <- MCConnectionID
    RejectedPNs <- MCRejectedPNs
    Nonces <- MCNonces
    ErrorCodes <- MCErrorCodes
    Phrases <- MCPhrases
    StreamIDs <- MCStreamIDs
    ByteOrders <- MCByteOrders
    MaxPacketSize <- MCMaxPacketSize
SPECIFICATION WireSpec
INVARIANTS
    CodecRoundTrip
    TruncatedRejected
