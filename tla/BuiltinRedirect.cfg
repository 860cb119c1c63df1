SPECIFICATION RedirectSpec
INVARIANTS
    StreamsRestored
    RightPlace
    SuccessMeansWritten
