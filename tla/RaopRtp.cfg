SPECIFICATION RtpSpec
CONSTANTS
    Mailbox <- MCMailbox
    MaxSets = 2
INVARIANT SessionInv
PROPERTIES
    SetDelivered
    StopReturns
CHECK_DEADLOCK FALSE
