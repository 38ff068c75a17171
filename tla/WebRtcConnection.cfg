SPECIFICATION Spec
CONSTANTS
    Media = {"audio", "video"}
    Offers <- MCOffers
    NiceQueueBound = 2
    MaxFaults <- MCMaxFaults
INVARIANT ConnectionIsSound
PROPERTIES  AnswerIsSent HandshakeEnds DestructorEnds
CHECK_DEADLOCK FALSE
