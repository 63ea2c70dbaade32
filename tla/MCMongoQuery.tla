----------------------------- MODULE MCMongoQuery -----------------------------
(***************************************************************************)
(* Instances of MongoQuery for TLC.                                        *)
(***************************************************************************)
EXTENDS MongoQuery

MCRequests == 1..MaxTuples
=============================================================================
