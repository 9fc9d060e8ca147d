--------------------------- MODULE MCClientSession ---------------------------
(***************************************************************************)
(* A small instance of ClientSession for TLC: two sequences of different   *)
(* width, one with an enable table and one with a ramp, and a batch.       *)
(***************************************************************************)
EXTENDS ClientSession

MCOrder   == <<"value", "enable", "up">>
MCUnits   == [value |-> 1, enable |-> 1, up |-> 1]
MCUploads == {[name |-> "a", chans |-> 1, tables |-> {"value", "enable"}],
              [name |-> "b", chans |-> 2, tables |-> {"value", "up"}]}
MCQueries == {Command("ACQUISITION", 0), Command("chans", 2)}
MCBatches == {<<Command("CONFIGURATION", 0), Command("chans", 1)>>}
=============================================================================
