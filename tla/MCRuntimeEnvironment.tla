----------------------- MODULE MCRuntimeEnvironment -----------------------
(***************************************************************************)
(* Small instances of RuntimeEnvironment for TLC: which tool has which     *)
(* attribute.                                                              *)
(***************************************************************************)
EXTENDS RuntimeEnvironment

CONSTANTS c1, c2, keyed, credentialed, k1

MCCallers == {c1, c2}
MCAsyncCallers == {c2}

(* One tool with every reliability attribute, one that needs a credential.   *)
MCTools == {keyed, credentialed}
MCKeyed == {keyed}
MCCredentialed == {credentialed}
MCNoTools == {}
MCKeys == {k1}

MCUsages == {1, 2}
=============================================================================
