----------------------------- MODULE MCUsageQuery -----------------------------
(* UsageQuery on a small instance: the days around the end of February 2024. *)
EXTENDS UsageQuery

Request(tenant, language, status, us) ==
  [tenant |-> tenant, language |-> language, status |-> status,
   slug |-> IF status = 200 THEN "" ELSE "validation-error", us |-> us]

\* Latencies in the first bucket, the last, the one before it, and above.
MCKinds == {Request("t1", "en", 200, 900), Request("t1", "fr", 400, 700000),
            Request("t1", "en", 200, 2500000), Request("t2", "en", 200, 300000)}

MCDates == {<<2024, 2, 28>>, <<2024, 2, 29>>, <<2024, 3, 1>>, <<2024, 2, 30>>}

\* From the noon of the 28th to that of the 29th.
MCPeriods == {<<>>, <<19781 * 86400 + 43200, 19782 * 86400 + 43200>>}

MCBusyDays == 19781 .. 19783

\* 1970 to 2100.
MCHorizon == 0 .. 47600
=============================================================================
