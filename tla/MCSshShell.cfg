SPECIFICATION SshFairSpec
CONSTANTS
    Kinds = {"once", "status", "visualize", "ssh", "ssh -L"}
    Size = {1, 2}
    MaxResizes = 3
CHECK_DEADLOCK FALSE
INVARIANTS ExitRestores OthersRestore NoSendOnClosed
PROPERTIES ReceivedSignalEnds WindowsFollowsWindow
