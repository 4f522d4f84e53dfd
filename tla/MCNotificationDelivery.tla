----------------------- MODULE MCNotificationDelivery -----------------------
(* Instances of NotificationDelivery for TLC. *)
EXTENDS NotificationDelivery

CONSTANTS j1, j2, s1, s2, w1, w2

OneJob == {j1}
OneDevice == {s1}
Everything == Jobs \cup Subscriptions
OneNotification == {j1}
TwoRuns == {w1, w2}
=============================================================================
