CONSTANTS
    c1 = c1
    c2 = c2
    s1 = s1
    i1 = i1
    None = None
    Verifications = {c1, c2}
    Transfers = {s1}
    Invoices = {i1}
    SigOf <- RepeatSig
    InvoiceOf <- RepeatInvoice
    AmountOf <- UnitAmounts
    Due <- TwoUnitsDue
SPECIFICATION PaymentSpec
INVARIANTS
    PaidIsBacked
