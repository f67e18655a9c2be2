----------------------------- MODULE MCDelivery ------------------------------
(* A small instance of EventDelivery: the gateway binds its queue to the   *)
(* key of the first event and to no key of the room service.               *)
EXTENDS EventDelivery

BetThenRoom == <<"bet.placed", "room.created">>
=============================================================================
