-------------------------- MODULE MCFeatureHasher ----------------------------
(* TLC instance of FeatureHasher over four-bit integers: INT32_MIN becomes -8. *)
(* One string hashes to it under the default seed, two share a bucket with     *)
(* opposite signs.                                                             *)
EXTENDS FeatureHasher

MCMinInt == -8
MCHash == [p \in Seeds \X Strings |->
              CASE p[2] = "a" -> IF p[1] = 0 THEN -8 ELSE 5
                [] p[2] = "b" -> IF p[1] = 0 THEN 4 ELSE -2]
MCGarbage == 9
=============================================================================
