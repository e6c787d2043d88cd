------------------------------ MODULE MCAeLoop ------------------------------
(* Small instances of AeLoop.tla for TLC. *)
EXTENDS AeLoop

CONSTANTS accept, client

\* Reading, and writing before reading.
MCMasks == {{"r"}, {"w", "b"}}

\* Long histories of file events, of time events, and short ones of both.
Budget(f, t, b) == [file |-> f, time |-> t, back |-> b]
MCBudgets == {Budget(3, 0, 0), Budget(0, 2, 1), Budget(1, 1, 0)}
=============================================================================
