------------------------------ MODULE Optional ------------------------------
(***************************************************************************)
(* Python's None, shared by the modules in which a value may be absent.    *)
(***************************************************************************)
CONSTANT None
=============================================================================
