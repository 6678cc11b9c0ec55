SPECIFICATION Spec
CONSTANTS
    Student = {s1, s2}
    Period = {m1}
    Utr = {u1, u2}
    Input = {0, 1}
    Figure = {f1}
    Admin = {a1}
    Session = {w1, w2}
    MaxRevision = 2
    InvoiceOf <- MCInvoiceOf
    Chargeable <- MCChargeable
SYMMETRY Symmetry
INVARIANTS
    TypeOK
    PaymentMatchesInvoice
    UtrOnOnePayment
    PublishedReflectsInputs
PROPERTIES
    PublishedAsReviewed
    IssuedInvoicesFixed
    VerifiedIsFinal
    ImplementsInvoiceBook
