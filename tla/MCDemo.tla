------------------------------- MODULE MCDemo -------------------------------
(* The demo with its two workers and the three migrations of the service.  *)
EXTENDS Demo

CONSTANTS a1, a2

TwoWorkers == {a1, a2}
Migrations == << {}, {"config_keys"}, {"feature_flags"} >>
Models == {"config_keys", "feature_flags"}
AllFaults == {"kill", "start", "service", "slow", "http", "feed"}
KillOnly == {"kill"}
=============================================================================
