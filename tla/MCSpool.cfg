\* Two brokers carry one ask at the root and two listeners race to decide it;
\* a broker has a deadline, hook and listener may die at any point.
CONSTANTS
    sc = sc  sp = sp  sg = sg  i1 = i1  i2 = i2  b1 = b1  b2 = b2
    l1 = l1  l2 = l2  f1 = f1  f2 = f2
    None = None
    Session = {sc}
    Id = {i1}
    Broker = {b1, b2}
    Listener = {l1, l2}
    Forwarder = {}
    Envelope <- EnvelopeAtRoot
    IdOf <- OneAsk
    Lineage <- NoLineage
    Filter <- OnlyC
    Tui = {l2}
    TimedBroker = {b1}
    KillableBroker = {b2}
    KillableListener = {l1}
    TimedForwarder = {}
    KillableForwarder = {}
    RmMayFail = FALSE
    MaxSubmits = 1
SPECIFICATION Spec
INVARIANTS AnswersAreBacked OneBrokerPerAsk FinishedAsksAreGone
PROPERTIES VerdictsAreFinal MarkersOutliveScans
CHECK_DEADLOCK FALSE
