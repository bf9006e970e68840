SPECIFICATION Spec
CONSTANTS
    alice = alice
    bob = bob
    Users = {alice, bob}
    Admins = {alice}
    NoUser = NoUser
    Global = Global
    NoRow = NoRow
    NoRole = NoRole
    AnyType = AnyType
    Everything = Everything
    NoJob = NoJob
    Catalogue <- MCCatalogue
    PresetIds <- MCPresetIds
    SamePlace = {}
    Payloads <- MCPayloads
    Requests <- MCRequests
    MaxSaves = 2
    MaxChanges = 1
INVARIANTS
    NobodysPrivateSource
    SelectionIsKept
PROPERTIES
    OthersLeaveMySelection
    OrderIsKept
