SPECIFICATION MembersSpec
CONSTANTS
    Users = {u1, u2}
    Agents = {x}
    Chats = {c1}
    Moderators = {u1}
    OrgOwners = {u1}
    Requests = {p, q}
    Grants = {"owner", "admin"}
    Visibilities = {"public"}
    Nobody = Nobody
    NoChat = NoChat
SYMMETRY RequestSymmetry
INVARIANTS MembersInv WaitsEnd
PROPERTIES OwnerLostByOverlap OwnershipByOwners RosterKept
