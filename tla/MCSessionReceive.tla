-------------------------- MODULE MCSessionReceive --------------------------
(* Instances of SessionReceive for TLC. *)
EXTENDS SessionReceive, TLC

(* A reply of one message, and one with a head. *)
PlainAndHeaded == {<<"RESPONSE_BODY">>, <<"RESPONSE_BODYHEAD", "RESPONSE_BODY">>}
Plain == {<<"RESPONSE_BODY">>}
=============================================================================
