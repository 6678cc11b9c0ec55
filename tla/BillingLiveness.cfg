SPECIFICATION FairSpec
CONSTANTS
    Student = {s1, s2}
    Period = {m1}
    Utr = {u1}
    Input = {0}
    Figure = {f1}
    Admin = {a1}
    Session = {w1, w2, w3}
    MaxRevision = 1
    InvoiceOf <- MCInvoiceOf
    Chargeable <- MCChargeable
PROPERTIES
    RequestsFinish
