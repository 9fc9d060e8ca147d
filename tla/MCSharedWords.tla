---------------------------- MODULE MCSharedWords ----------------------------
(* Two components; stopTx goes through them one after the other.           *)
EXTENDS SharedWords

MCOrder      == <<"c1", "c2">>
MCAmplitudes == {0, 1}
MCTypes      == {0, 1}
=============================================================================
