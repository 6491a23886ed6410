--------------------------------- MODULE Map ---------------------------------
(***************************************************************************)
(* protocol/json/map.cpp: the enumerations of the exchange translated to   *)
(* those of the framework, and back.  Names are those of the source.  The  *)
(* generated enumerations of the exchange have two more members, for a     *)
(* text that is empty and for one that is not known.                       *)
(***************************************************************************)

Internal == {"UNDEFINED_INTERNAL", "UNKNOWN_INTERNAL"}

-----------------------------------------------------------------------------
(* From the exchange. *)

\* Mutant: every message is taken for an increment.
MapEventTypeIncremental(type) == "INCREMENTAL"

MapEventType(type) ==
    IF type \in {"SNAPSHOT", "INCREMENTAL"} THEN type ELSE "UNDEFINED"

\* Mutant: the type is not looked at.
MapMessageTypeSnapshot(type) == "SNAPSHOT"

MapMessageType(type) ==
    IF type \in {"SNAPSHOT", "INCREMENTAL"} THEN type ELSE "UNDEFINED"

MapOrderStatus(status) ==
    CASE status \in {"CREATED", "INIT"} -> "ACCEPTED"
      [] status \in {"NEW", "PARTIALLY_FILLED"} -> "WORKING"
      [] status = "FILLED" -> "COMPLETED"
      [] status = "DEACTIVATED" -> "SUSPENDED"
      [] status \in {"REJECTED", "CANCELED"} -> status
      [] OTHER -> "UNDEFINED"

MapJsonOrderType(type) ==
    CASE type \in {"LIMIT", "STOP_LIMIT", "LIMIT_IF_TOUCHED"} -> "LIMIT"
      [] type \in {"MARKET", "STOP", "MARKET_IF_TOUCHED"} -> "MARKET"
      [] OTHER -> "UNDEFINED"

MapPosSideAndSide(pos_side, side) ==
    CASE <<pos_side, side>> \in {<<"LONG", "BUY">>, <<"SHORT", "SELL">>} -> "OPEN"
      [] <<pos_side, side>> \in {<<"LONG", "SELL">>, <<"SHORT", "BUY">>} -> "CLOSE"
      [] OTHER -> "UNDEFINED"

MapJsonSide(side) == IF side \in {"BUY", "SELL"} THEN side ELSE "UNDEFINED"

MapJsonTimeInForce(time_in_force) ==
    CASE time_in_force = "IMMEDIATE_OR_CANCEL" -> "IOC"
      [] time_in_force = "FILL_OR_KILL" -> "FOK"
      [] time_in_force \in Internal -> "UNDEFINED"
      [] OTHER -> "GTC"

MapType(type) ==
    CASE type = "SPOT" -> "SPOT"
      [] type \in {"PERPETUAL", "PERPETUAL_V2"} -> "SWAP"
      [] OTHER -> "UNDEFINED"

-----------------------------------------------------------------------------
(* To the exchange. *)

MapOrderType(type) ==
    IF type = "UNDEFINED" THEN "UNDEFINED_INTERNAL" ELSE type

\* Mutant: the side of the position that is closed is that of the order.
MapPositionEffectSame(position_effect, side) ==
    CASE position_effect = "UNDEFINED" -> "MERGED"
      [] OTHER -> CASE side = "UNDEFINED" -> "UNDEFINED_INTERNAL"
                    [] side = "BUY" -> "LONG"
                    [] OTHER -> "SHORT"

MapPositionEffectAndSide(position_effect, side) ==
    CASE position_effect = "UNDEFINED" -> "MERGED"
      [] OTHER ->
            CASE side = "UNDEFINED" -> "UNDEFINED_INTERNAL"
              [] <<position_effect, side>> \in {<<"OPEN", "BUY">>, <<"CLOSE", "SELL">>} -> "LONG"
              [] OTHER -> "SHORT"

MapSide(side) == IF side = "UNDEFINED" THEN "UNDEFINED_INTERNAL" ELSE side

MapTimeInForce(time_in_force) ==
    CASE time_in_force = "GTC" -> "GOOD_TILL_CANCEL"
      [] time_in_force = "IOC" -> "IMMEDIATE_OR_CANCEL"
      [] time_in_force = "FOK" -> "FILL_OR_KILL"
      [] OTHER -> "UNDEFINED_INTERNAL"
=============================================================================
