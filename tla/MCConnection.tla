---------------------------- MODULE MCConnection ----------------------------
(* Instances of Connection for TLC.                                        *)
EXTENDS Connection, TLC

Config(t, k, n, m) == [tls |-> t, keepAlive |-> k, maxRequests |-> n, metrics |-> m]

\* Plain and TLS connections, each with keep-alive and without, one of them
\* without metrics and with a first request that is the last one.
Mixed == {Config(FALSE, TRUE, 2, TRUE), Config(FALSE, FALSE, 2, TRUE),
          Config(TRUE, TRUE, 1, FALSE), Config(TRUE, FALSE, 2, TRUE)}

\* The defaults, with a limit of two requests.
Plain  == {Config(FALSE, TRUE, 2, TRUE)}

=============================================================================
