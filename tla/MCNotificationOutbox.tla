------------------------ MODULE MCNotificationOutbox ------------------------
(* Names for the values of the constants of NotificationOutbox: two keys,   *)
(* and a row for each or two rows, one after the other, for one of them.    *)
EXTENDS NotificationOutbox

CONSTANTS k1, k2, i1, i2

MCKeys == {k1, k2}
MCIds == {i1, i2}
=============================================================================
