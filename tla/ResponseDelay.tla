--------------------------- MODULE ResponseDelay ---------------------------
(***************************************************************************)
(* What a response-delay measurement promises, whatever data structure     *)
(* keeps it: a request is issued once, under a fresh identifier; it may be *)
(* answered; and an answered request may be measured, at most once, with   *)
(* the type and the time stamp it was issued with.  A request that is      *)
(* never measured is allowed (the statistics are best effort), a           *)
(* measurement that belongs to no answered request is not.                 *)
(***************************************************************************)
EXTENDS Naturals

CONSTANTS
  Xids,             \* request identifiers
  Types,            \* request types
  Times             \* time stamps

VARIABLES
  issued,           \* set of [xid, type, at]: requests given to the switch
  answered,         \* identifiers whose reply reached the controller
  measured          \* set of [xid, type, sent, recv]: the samples taken

rdVars == <<issued, answered, measured>>

RDInit == issued = {} /\ answered = {} /\ measured = {}

Issue ==
  \E x \in Xids, t \in Types, at \in Times :
    /\ \A r \in issued : r.xid # x
    /\ issued' = issued \cup {[xid |-> x, type |-> t, at |-> at]}
    /\ UNCHANGED <<answered, measured>>

Answer ==
  \E r \in issued :
    /\ answered' = answered \cup {r.xid}
    /\ UNCHANGED <<issued, measured>>

Measure ==
  \E r \in issued, recv \in Times :
    /\ r.xid \in answered
    /\ r.at =< recv
    /\ \A s \in measured : s.xid # r.xid
    /\ measured' = measured \cup
         {[xid |-> r.xid, type |-> r.type, sent |-> r.at, recv |-> recv]}
    /\ UNCHANGED <<issued, answered>>

RDNext == Issue \/ Answer \/ Measure

RDSpec == RDInit /\ [][RDNext]_rdVars
=============================================================================
