--------------------------- MODULE MCQuotaLimiter ---------------------------
(* QuotaLimiter with a coarse clock and a minute of two seconds.           *)
EXTENDS QuotaLimiter

CONSTANT a1

OneAgent == {a1}

Lim(s, m, mode) == [rps |-> s, rpm |-> m, mode |-> mode]

(* In halves of a request: by the second, by the minute, by both, one that *)
(* only alerts, and one of less than a request.                            *)
MCLimits ==
  {Lim(2, 0, "hard_stop"), Lim(0, 2, "hard_stop"), Lim(3, 5, "hard_stop"),
   Lim(2, 2, "alert_only"), Lim(1, 0, "hard_stop")}
=============================================================================
