SPECIFICATION FairSpec
CONSTANTS
    Designs <- BothDesigns
    RequestStreams <- Streams
INVARIANTS RepliesMatch WritesInRange CoreQuiet
PROPERTY AllAnswered
