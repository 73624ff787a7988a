----------------------------- MODULE MCAlerting -----------------------------
(***************************************************************************)
(* A suite of a spine and a face that is a shared service, with no lock or a *)
(* lock that pins both, and a profile that asks for both.                   *)
(***************************************************************************)
EXTENDS Alerting

MCComponents == {"regista", "dossier"}
MCShared == {"dossier"}
MCProfiles == {{"regista", "dossier"}}
MCAsks == {{}, {"restore"}}
MCMoods == {"missing", "ok", "notok", "raises"}
MCUncertain == {"restore"}
NoLocks == {}
MCLocks == {MCComponents}
=============================================================================
