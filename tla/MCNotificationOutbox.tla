------------------------ MODULE MCNotificationOutbox ------------------------
(* Lives of an order.  The longest is checked for two orders and without   *)
(* delivery, which needs shorter ones.                                     *)
EXTENDS NotificationOutbox

LongLife == <<"throttled", "throttled", "superseding">>
ShortLife == <<"throttled", "superseding">>
SpacedLife == <<"throttled">>
PaidLife == <<"immediate">>
=============================================================================
