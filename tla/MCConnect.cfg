SPECIFICATION FairSpec
CONSTANTS
    Clients = {a}
    SlowStart = TRUE
INVARIANTS ReadyAgreed NoZombie PendingAsked
PROPERTIES Implements Stops Connects
CHECK_DEADLOCK FALSE
