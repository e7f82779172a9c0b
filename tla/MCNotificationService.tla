------------------------ MODULE MCNotificationService ------------------------
(* TLC instances of NotificationService.                                     *)
EXTENDS NotificationService

Kind(app, traits) ==
  [app |-> app, critical |-> "critical" \in traits, transient |-> "transient" \in traits,
   resident |-> "resident" \in traits, timed |-> "persistent" \notin traits]

\* Ordinary and transient ones, which expire, and critical ones that a tap leaves there.
MixedKinds == {Kind(a, t) : a \in Apps, t \in {{}, {"transient"}, {"critical", "resident"}}}
===============================================================================
