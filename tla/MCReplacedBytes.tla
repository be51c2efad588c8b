--------------------------- MODULE MCReplacedBytes ---------------------------
(* The bytes of a package that is rebuilt under one name: while clients ask for *)
(* it and the settings stay, until it leaves the index; and while the settings  *)
(* are edited, without clients and with the package listed to the end.          *)
EXTENDS MCReplacements

VARIABLE about

BytesInit == Init /\ about \in {"clients", "settings"}
BytesNext ==
  /\ Next /\ UNCHANGED about
  /\ IF about = "clients" THEN UNCHANGED settings
     ELSE UNCHANGED <<requests, indexed>> /\ upstream' # LastVersion

BytesSpec == BytesInit /\ [][BytesNext]_<<vars, about>>
=============================================================================
