------------------------------ MODULE MCSmtpQmail ------------------------------
(***************************************************************************)
(* Bounds for SmtpQmail: one plugin chain of two, which accepts, has no    *)
(* opinion, or is refused by the second plugin.                            *)
(***************************************************************************)
EXTENDS SmtpQmail, TLC

MCChains == {<<"none", "none">>, <<"ok", "none">>, <<"ok", "perm">>}

Symmetry == Permutations(Address)

=============================================================================
