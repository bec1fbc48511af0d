\* An ask of sc is forwarded to sp while sp asks for the first time: the link sp -> sg is lost.
CONSTANTS
    sc = sc  sp = sp  sg = sg  i1 = i1  i2 = i2  b1 = b1  b2 = b2
    l1 = l1  l2 = l2  f1 = f1  f2 = f2
    None = None
    Session = {sc, sp, sg}
    Id = {i1, i2}
    Broker = {b1, b2}
    Listener = {l1}
    Forwarder = {f1, f2}
    Envelope <- EnvelopeTwoLevels
    IdOf <- OneAskEach
    Lineage <- OnlyChild
    Filter <- AllSessions
    Tui = {}
    TimedBroker = {}
    KillableBroker = {}
    KillableListener = {}
    TimedForwarder = {}
    KillableForwarder = {}
    RmMayFail = FALSE
    MaxSubmits = 1
SPECIFICATION Spec
INVARIANTS HarnessAskOnlyAtRoot
CHECK_DEADLOCK FALSE
