\* Three deliveries of one event to one consumer and one without eventId, three
\* errors or deaths.
CONSTANTS
    k1 = k1  k2 = k2  k3 = k3  k4 = k4
    m1 = m1  c1 = c1  c2 = c2
    EventId = {m1}
    NoId = NoId
    Consumer = {c1, c2}
    Call = {k1, k2, k3, k4}
    EventOf <- WithoutId
    ConsumerOf <- OneConsumer
    MaxError = 3
SPECIFICATION HandlerSpec
CHECK_DEADLOCK FALSE
INVARIANTS
    EffectsAreBounded
PROPERTIES
    DeliveredTakesEffect
