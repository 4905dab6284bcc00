------------------------------ MODULE MCAuditor ------------------------------
(* Small instances of AuditorReplay.  Accounts are interchangeable. *)
EXTENDS AuditorReplay, TLC

CONSTANTS alice, bob

Accounts == {alice, bob}

Symmetry == Permutations(Accounts)

=============================================================================
