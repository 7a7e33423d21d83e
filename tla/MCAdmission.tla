---------------------------- MODULE MCAdmission ----------------------------
(* Admission on small instances: connections from two addresses. *)
EXTENDS Admission, TLC

CONSTANTS ip1, ip2

MCIPs == {ip1, ip2}
MCOrigins == {<<ip1, ip1, ip1, ip1>>, <<ip2, ip1, ip1, ip1>>}

\* Caps of one, and a limiter for accepts that is switched on and off.
MCLimits ==
  [max_concurrent_sessions : {1}, max_sessions_per_ip : {1},
   max_concurrent_handshakes : {1},
   accept_burst_per_ip : {0, 3}, accept_refill_per_ip_per_s : {1}]

\* One session, two handshakes at a time, no limiter.
HardCapLimits ==
  [max_concurrent_sessions : {1}, max_sessions_per_ip : {2},
   max_concurrent_handshakes : {2},
   accept_burst_per_ip : {0}, accept_refill_per_ip_per_s : {0}]

=============================================================================
