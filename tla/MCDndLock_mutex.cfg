CONSTANTS
    Listeners = {l1, l2}
    Client = c
    AtomicTestAndSet = FALSE
    ListenerMayRaise = TRUE
    ClientMayRaise = TRUE
    ConsoleMayClose = TRUE
SPECIFICATION Spec
INVARIANT MutualExclusion
