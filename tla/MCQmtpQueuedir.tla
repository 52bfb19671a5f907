---------------------------- MODULE MCQmtpQueuedir ----------------------------
(***************************************************************************)
(* Bounds for QmtpQueuedir: plugins accept, have no opinion, or refuse.    *)
(***************************************************************************)
EXTENDS QmtpQueuedir

MCChains == {<<"none">>, <<"ok">>, <<"perm">>}

=============================================================================
