---------------------------- MODULE MCHidExchange ----------------------------
(* Two requests with 32-byte answers on one handle, as for the blocks of   *)
(* the zone, and one whose caller takes any Ok for its answer.             *)
EXTENDS HidExchange

MCPrograms    == {<<"ReadConfigZone", "ReadConfigZone">>, <<"LockSlot">>}
MCReplyLength == [ReadConfigZone |-> 32, LockSlot |-> 0]
MCLengths     == [ReadConfigZone |-> {32}, LockSlot |-> 0..125]
=============================================================================
