------------------------ MODULE DriverConnectionProofs ------------------------
(***************************************************************************)
(* Facts about the operators of DriverConnection, for the proofs about the *)
(* operators of the toolkit.                                               *)
(***************************************************************************)
EXTENDS DriverConnection, TLAPS

\* What the driver makes of a connection object is a connection object.
LEMMA ConnectionTypes ==
  ASSUME NEW c \in Connection, NEW db \in Dbs, NEW answer
  PROVE  /\ Connected(c) \in Connection
         /\ ConnectFailed(c) \in Connection
         /\ Broken(c) \in Connection
         /\ AfterFailure(c) \in Connection
         /\ CutLink(c) \in Connection
         /\ AuthScope(db) \subseteq Dbs
         /\ Authenticated(c, db, answer) \in Connection
         /\ Ready(c) \subseteq Connection
<1>1. AuthScope(db) \subseteq Dbs
  BY DEF AuthScope
<1>2. Connected(c) \in Connection
  BY DEF Connected, Connection
<1>3. ConnectFailed(c) \in Connection
  BY DEF ConnectFailed, Connection
<1>4. Broken(c) \in Connection
  BY DEF Broken, Connection
<1>5. AfterFailure(c) \in Connection
  BY <1>4 DEF AfterFailure
<1>6. CutLink(c) \in Connection
  BY DEF CutLink, Connection
<1>7. Authenticated(c, db, answer) \in Connection
  BY <1>1 DEF Authenticated, Connection
<1>8. \A a : Reconnected(c, a) \in Connection
  BY DEF Reconnected, Connection
<1>9. Ready(c) \subseteq Connection
  BY <1>8 DEF Ready
<1> QED
  BY <1>1, <1>2, <1>3, <1>4, <1>5, <1>6, <1>7, <1>9

\* Of all fields a cut touches the link and the wire.
LEMMA CutFields ==
  ASSUME NEW c \in Connection
  PROVE  /\ CutLink(c) \in Connection
         /\ CutLink(c).failed = c.failed /\ CutLink(c).lastError = c.lastError
         /\ CutLink(c).wire \in {c.wire, "quiet"}
BY DEF CutLink, Connection

\* An answer sets the wire and the last error.
LEMMA AnswerFields ==
  ASSUME NEW c \in Connection, NEW e \in Requests \union {NoError}, NEW w \in {"quiet", "answered"}
  PROVE  [c EXCEPT !.wire = w, !.lastError = e] \in Connection
BY DEF Connection

\* A connection ready for a call is not failed.
LEMMA ReadyIsNotFailed ==
  ASSUME NEW c \in Connection, NEW r \in Ready(c)
  PROVE  ~r.failed
<1>1. CASE ~c.failed
  BY <1>1 DEF Ready
<1>2. CASE c.failed
  <2>1. PICK a : r = Reconnected(c, a)
    BY <1>2 DEF Ready
  <2> QED
    BY <2>1 DEF Reconnected, Connection
<1> QED
  BY <1>1, <1>2

\* What the server and the network do to the connections leaves their types, and
\* everything in them but the link and the wire.
LEMMA FaultTypes ==
  ASSUME DriverAssumption, DriverTypeOK,
         ServerStops \/ ServerStarts \/ \E k \in Threads : LinkLost(k)
  PROVE  DriverTypeOK'
<1>1. \A k \in Threads : CutLink(conn[k]) \in Connection
  <2>1. \A k \in Threads : conn[k] \in Connection
    BY DEF DriverTypeOK
  <2>2. \A c \in Connection : CutLink(c) \in Connection
    BY DEF CutLink, Connection
  <2> QED
    BY <2>1, <2>2
<1>2. conn' \in [Threads -> Connection]
  BY <1>1 DEF ServerStops, ServerStarts, LinkLost, DriverTypeOK
<1>3. serverUp' \in BOOLEAN
  BY DEF ServerStops, ServerStarts, LinkLost, DriverTypeOK
<1>4. faults' = faults \/ (faults < MaxFaults /\ faults' = faults + 1)
  BY DEF ServerStops, ServerStarts, LinkLost
<1>5. faults' \in 0..MaxFaults
  BY <1>4 DEF DriverTypeOK, DriverAssumption
<1> QED
  BY <1>2, <1>3, <1>5 DEF DriverTypeOK
=============================================================================
