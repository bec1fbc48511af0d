\* One hop: a listener on each level, two runs of forwardUp for the same ask, one with a deadline
\* and one that may be killed; the parent session has not asked before; removals may fail.
CONSTANTS
    sc = sc  sp = sp  sg = sg  i1 = i1  i2 = i2  b1 = b1  b2 = b2
    l1 = l1  l2 = l2  f1 = f1  f2 = f2
    None = None
    Session = {sc, sp}
    Id = {i1}
    Broker = {b1}
    Listener = {l1, l2}
    Forwarder = {f1, f2}
    Envelope <- EnvelopeAtC
    IdOf <- OneAsk
    Lineage <- OnlyChild
    Filter <- CAndP
    Tui = {l1}
    TimedBroker = {b1}
    KillableBroker = {}
    KillableListener = {l2}
    TimedForwarder = {f2}
    KillableForwarder = {f1}
    RmMayFail = TRUE
    MaxSubmits = 1
SPECIFICATION Spec
INVARIANTS TypeOK HarnessAskOnlyAtRoot
PROPERTIES ImplementsAskChannel AcceptedIsTaken
CHECK_DEADLOCK FALSE
