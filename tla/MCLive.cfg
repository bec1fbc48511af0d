\* Liveness of a hop: a verdict given in the parent session reaches the hook that waits in the child.
CONSTANTS
    sc = sc  sp = sp  sg = sg  i1 = i1  i2 = i2  b1 = b1  b2 = b2
    l1 = l1  l2 = l2  f1 = f1  f2 = f2
    None = None
    Session = {sc, sp}
    Id = {i1}
    Broker = {b1}
    Listener = {l1, l2}
    Forwarder = {f1}
    Envelope <- EnvelopeAtC
    IdOf <- OneAsk
    Lineage <- ChainCP
    Filter <- CAndP
    Tui = {l1}
    TimedBroker = {}
    KillableBroker = {b1}
    KillableListener = {}
    TimedForwarder = {}
    KillableForwarder = {f1}
    RmMayFail = FALSE
    MaxSubmits = 1
SPECIFICATION FairSpec
PROPERTIES VerdictUnblocksHook ParentVerdictReachesHook EveryAskAnswered
CHECK_DEADLOCK FALSE
