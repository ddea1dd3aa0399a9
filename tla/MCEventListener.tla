---------------------------- MODULE MCEventListener ----------------------------
(***************************************************************************)
(* Instance of EventListener for TLC: an event, an entry without data and  *)
(* data of an unknown type.                                                *)
(***************************************************************************)
EXTENDS EventListener

MCKinds == {"TradeExecuted", "noData", "unknownType"}
=============================================================================
