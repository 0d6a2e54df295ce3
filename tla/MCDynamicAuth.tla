--------------------------- MODULE MCDynamicAuth ---------------------------
\* Small instances of DynamicAuth for TLC.
EXTENDS DynamicAuth

\* r1 is a Disconnect-Request of second 1, r2 a CoA-Request of second 2, both
\* signed with the secret "k1".
MCTimestamp(r) == IF r = "r1" THEN 1 ELSE 2
MCSender(r) == "s1"
MCSecret(r) == "k1"
MCDisconnect(r) == r = "r1"
MCSupported(r) == TRUE
============================================================================
