\* Two listeners decide one ask, the slower one after the broker has returned.
CONSTANTS
    sc = sc  sp = sp  sg = sg  i1 = i1  i2 = i2  b1 = b1  b2 = b2
    l1 = l1  l2 = l2  f1 = f1  f2 = f2
    None = None
    Session = {sc}
    Id = {i1}
    Broker = {b1}
    Listener = {l1, l2}
    Forwarder = {}
    Envelope <- EnvelopeAtRoot
    IdOf <- OneAsk
    Lineage <- AllRoots
    Filter <- OnlyC
    Tui = {}
    TimedBroker = {}
    KillableBroker = {}
    KillableListener = {}
    TimedForwarder = {}
    KillableForwarder = {}
    RmMayFail = FALSE
    MaxSubmits = 1
SPECIFICATION Spec
INVARIANTS AcceptedIsFinal
CHECK_DEADLOCK FALSE
