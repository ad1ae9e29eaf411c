SPECIFICATION Spec
CONSTANTS
    send = send
    result = result
    poll = poll
    Req = {send, result, poll}
    HttpWorker = {h1, h2}
    maxDepth = 1
    Main = Main
    NoReq = NoReq
    Op = {send}
    AsyncWorker = {w1}
    NoOp = NoOp
    Kind <- MCKind
INVARIANTS
    QueueOutlivesWorkers
    EveryRequestAnswered
    NothingLeftBehind
    NobodyUsesDeleted
PROPERTIES
    ShutdownCompletes
