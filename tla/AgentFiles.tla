----------------------------- MODULE AgentFiles -----------------------------
(***************************************************************************)
(* What a file beside the agent's executable can be, whole contents aside. *)
(***************************************************************************)
EXTENDS Naturals

CONSTANTS
    Absent,  \* there is no such file
    Torn     \* created, and not yet written and synced to its end

ASSUME FilesAssumption ==
    /\ Absent # Torn
    /\ Absent \notin Nat
    /\ Torn \notin Nat

=============================================================================
