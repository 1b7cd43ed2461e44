SPECIFICATION Spec
CONSTANTS
    Listener = listener
    Connecting = connecting
    Connection = connection
    Peer = peer
    Channels <- MCChannels
    Fds <- MCFds
    fd_ <- MCFd
    NoChannel = NoChannel
    k_init_event_list_size = 1
INVARIANTS
    AssertionsHold
    EpollSetInSync
    PollFdsInSync
