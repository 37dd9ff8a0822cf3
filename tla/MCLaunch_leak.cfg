\* One kill of the child, and what pty.rs:20 says of the support processes.
SPECIFICATION Spec
CONSTANTS
    Sni = TRUE
    PastaPolls = 2
    Faults = {"child"}
    MaxFaults = 1
INVARIANT SupportGone
