SPECIFICATION Spec
CONSTANTS
    a1 = a1
    m1 = m1
    Mixes <- MCMixes
    Messages = {m1, m2}
    Addresses = {a1}
    AddressOf <- MCAddressOf
    Requests = {r1, r2}
    MaxFailures = 1
    MaxDuplicates = 1
    Nothing = Nothing
INVARIANTS DeadAddressesAreSilent AnsweredLeavesATrace
PROPERTIES RepliesSettleOnce
CHECK_DEADLOCK FALSE
