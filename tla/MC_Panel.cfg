SPECIFICATION Spec
CONSTANTS
    A = A
    B = B
    None = None
    Sessions <- MCSessions
    Slots = 2
    MaxClicks = 2
    MaxEvents = 2
    MaxCrashes = 1
INVARIANT PanelFlowsAreSafe
PROPERTY PanelStaysCurrent
CHECK_DEADLOCK FALSE
