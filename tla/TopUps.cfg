\* A customer asks for a top-up and pays it, or lets its invoice lapse.
CONSTANTS
    Requests = {c1, c2}
    MaxDeliveries = 2
SPECIFICATION Spec
PROPERTY OpenTopUpCloses
CHECK_DEADLOCK FALSE
