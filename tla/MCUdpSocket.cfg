\* More datagrams than the socket takes, and a socket that is started twice.
SPECIFICATION FairSpec
CONSTANTS
    Room = 2
    MaxSends = 4
    MaxOpens = 2

    
PROPERTIES
    DatagramsDrain
CHECK_DEADLOCK FALSE
