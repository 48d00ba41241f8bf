------------------------------ MODULE MCReplay ------------------------------
(***************************************************************************)
(* Runs of up to three answers; two contents; a plain tool request and one *)
(* of a tool that requires credentials.                                    *)
(***************************************************************************)
EXTENDS Replay, TLC

CONSTANTS v1, v2, plain, secret

MCValues == {v1, v2}
MCRequests == {plain, secret}
MCCredentialed == {secret}
MCSymmetry == Permutations(MCValues)
=============================================================================
