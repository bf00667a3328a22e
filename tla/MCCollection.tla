---------------------------- MODULE MCCollection ----------------------------
(* An instance of Collection: three sources in the order of the file.      *)
EXTENDS Collection, TLC

CONSTANTS s1, s2, s3

ThreePlaces == s1 :> 1 @@ s2 :> 2 @@ s3 :> 3
=============================================================================
