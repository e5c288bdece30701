SPECIFICATION Spec
CONSTANTS
    ann = ann
    bob = bob
    orders = orders
    billing = billing
    Clients = {ann, bob}
    Payloads = {orders, billing}
    Requests <- MCRequests
    Held <- MCHeld
    Callers = {1, 2}
    MaxAttempts = 2
    MaxOperations = 1
INVARIANTS EnqueuedPayloadOnly
PROPERTIES KeepsPromise
