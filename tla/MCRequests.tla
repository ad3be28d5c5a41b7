----------------------------- MODULE MCRequests ------------------------------
(* A small instance of Requests for TLC. *)
EXTENDS Requests, TLC

CONSTANTS k1, k2, k3

PutOp(k, n) == [op |-> "put", key |-> k, len |-> n]
DeleteOp(k) == [op |-> "delete", key |-> k, len |-> 0]
UnknownOp(k) == [op |-> "other", key |-> k, len |-> 0]

Token(tenant, perms) == [genuine |-> TRUE, tenant |-> tenant, perms |-> perms]
Writer == Token(Own, {"read", "write"})
Admin == Token(Own, {"admin"})
Forged == [Admin EXCEPT !.genuine = FALSE]
Stranger == Token("other", {"admin"})
Call(rpc, token, ops) == [rpc |-> rpc, token |-> token, ops |-> ops]

\* Single calls, a batch whose second write may be over the quota, one that ends
\* in an operation nobody knows, and one that asks for no permission at all; and
\* calls that must be turned away.
MCCalls ==
  {Call("get", Writer, <<>>),
   Call("put", Writer, <<PutOp(k1, 2)>>),
   Call("delete", Admin, <<DeleteOp(k1)>>),
   Call("batch", Writer, <<PutOp(k2, 2), PutOp(k3, 2)>>),
   Call("batch", Admin, <<DeleteOp(k2), UnknownOp(k1)>>),
   Call("batch", Writer, <<PutOp(k1, 2), DeleteOp(k1)>>),
   Call("batch", Stranger, <<UnknownOp(k1)>>),
   Call("put", Stranger, <<PutOp(k1, 2)>>),
   Call("put", Forged, <<PutOp(k1, 2)>>),
   Call("put", Nobody, <<PutOp(k1, 2)>>)}

Symmetry == Permutations(Clients) \cup Permutations(Operators)

\* The empty key is a key like any other.
MCKeySize == [k \in {k1, k2, k3} |-> IF k = k3 THEN 0 ELSE 1]
MCDefault == [max_bytes |-> 3, max_ops_per_sec |-> 2]
\* A rate of 0 is the node's default rate.
MCBodies == {[max_bytes |-> 6, max_ops_per_sec |-> 0],
             [max_bytes |-> None, max_ops_per_sec |-> 3]}
=============================================================================
