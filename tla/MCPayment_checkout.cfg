SPECIFICATION PaymentSpec
CONSTANTS
    h1 = h1
    h2 = h2
    GroupSize = 2
    MaxPayments = 2
    MaxTries = 2
    MaxEvents = 2
    Handlers <- TwoHandlers
    Funding <- GatewayOrWallet
SYMMETRY Symmetric
CHECK_DEADLOCK FALSE
INVARIANTS
    PaymentTypeOK
    CreditedOnceAndPaidFor
    PaidGroupIsBooked
    RecordedRefundsWereMade
PROPERTIES
    CheckoutKept
