---------------------------- MODULE MCMongoWriter ----------------------------
(***************************************************************************)
(* Instances of MongoWriter for TLC: output clauses over two input ports   *)
(* and one or two databases.                                               *)
(***************************************************************************)
EXTENDS MongoWriter

Write(guard, json, db) ==
  [fn |-> "Write", guard |-> guard, json |-> json, db |-> db]

AsIs == [fn |-> "AsIs", guard |-> AnyPort, json |-> FALSE, db |-> "streams"]

MCDbs == {"streams", "audit"}

\* error1 = InsertDocument(.., B1Stream), error2 = InsertDocumentAsJson(.., "..")
MCInsertClause == <<Write(0, FALSE, "streams"), Write(AnyPort, TRUE, "streams")>>

\* error1 = RemoveDocument(..)
MCDeleteClause == <<Write(AnyPort, FALSE, "streams")>>

\* error = UpdateDocument(..), key = AsIs(..)
MCAsIsClause == <<Write(AnyPort, FALSE, "streams"), AsIs>>

MCRequests == (1..MaxTuples) \X (1..Len(Assignments))
=============================================================================
