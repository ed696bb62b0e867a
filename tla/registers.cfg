SPECIFICATION MCSpec
CONSTANTS
    Procs = {p1, p2}
    None = None
    Registers = {tctl, umc}
    Commands <- MCCommands
    Chips <- MCChips
    MaxCrashes = 1
SYMMETRY MCSymmetry
INVARIANTS OwnRegister OwnAnswer OwnCommand MailboxAlive FoundWhatIsThere ConfigurationClosed
