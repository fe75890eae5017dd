CONSTANTS
    Node = {"phone", "desk"}
    Owners = {"desk"}
    Calls <- PhoneCallsDesk
    Session = {s1, s2}
    MaxId <- IdsMade
    MaxKey <- KeysMade
    None = None

SPECIFICATION Spec
SYMMETRY AnyOrder

INVARIANTS
    TypeOK
    ReadyIsMutual
    RevokedStaysOut
    


    
