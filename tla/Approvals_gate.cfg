\* Two requests, an operator and two calls of the builder, a consumer, two faults.
SPECIFICATION Spec
CONSTANTS
    Approval    = {a1, a2}
    Payload     = {push, lens}
    NoPayload   = NoPayload
    LensAction  = {lens}
    BuildAction = {push}
    Delegations = {"full"}
    Operator    = {o1}
    Builder     = {b1, b2}
    Consumer    = {c1}
    NoApproval  = NoApproval
    MaxCalls    = 2
    MaxFaults   = 2
SYMMETRY Symmetry
INVARIANTS NeverMissing ExecutionIsApproved DecisionIsFinal BuilderIsReceipted
PROPERTIES ImplementsGate
