---- MODULE MCSetRequests ----
(***************************************************************************)
(* Small instances of SetRequests: r1 and r3 share a credential.           *)
(***************************************************************************)
EXTENDS SetRequests

CredentialOf(r) == IF r = "r2" THEN "c2" ELSE "c1"

====
