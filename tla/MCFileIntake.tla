---------------------------- MODULE MCFileIntake ----------------------------
(* An instance of FileIntake for TLC.                                      *)
EXTENDS FileIntake, TLC

CONSTANTS voice, image, imageAgain

\* The image is sent a second time.
Retries == imageAgain :> image @@ image :> None @@ voice :> None
=============================================================================
