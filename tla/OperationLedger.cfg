SPECIFICATION Spec
CONSTANTS
    c1 = c1
    c2 = c2
    create = create
    configure = configure
    prompt = prompt
    Callers = {c1, c2}
    Requests = {create, configure, prompt}
    Kind <- KindAll
    Retentions = {1, 2}
    CompletionTimeout = 0
    Inherited <- LegacyRecords
    None = None
    MaxClock = 1
    MaxAdmit = 2
SYMMETRY Symmetry
INVARIANTS
    LedgerInv
    AtMostOnce
    ReceiptIsTrue
    AnswerIsReceipt
PROPERTIES
    LedgerNeverForgets
