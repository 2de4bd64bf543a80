---------------------------- MODULE MCLicenseList ----------------------------
(* LicenseList with two applications whose formats share a key.             *)
EXTENDS LicenseList

CONSTANTS a1, a2, k1, k2, k3
MCApps == {a1, a2}
MCKeys == {k1, k2, k3}
MCKeysOf == (a1 :> {k1, k2, k3}) @@ (a2 :> {k3})
=============================================================================
