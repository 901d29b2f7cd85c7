SPECIFICATION Spec
CONSTANTS
    Printers = {"p1"}
    Addresses = {a1, a2, a3}
    Unset = Unset
    Flows = {f1, f2}
    Entities <- MCEntities
    MaxChanges = 2
    MaxMoves = 1
SYMMETRY MCSymmetry
INVARIANTS OneEntryPerPrinter RunsAsConfigured EntitiesKeepTheirHistory
CHECK_DEADLOCK FALSE
