--------------------------- MODULE MCShimService ---------------------------
(* Values of the constants of ShimService for model checking: one request  *)
(* of each operation at most.                                              *)
EXTENDS ShimService

CONSTANTS c, s, d, k, q, w, x

Ask == [r \in Reqs |->
          CASE r = c -> "create"
            [] r = s -> "start"
            [] r = d -> "delete"
            [] r = k -> "kill"
            [] r = q -> "query"
            [] r = w -> "wait"
            [] r = x -> "shutdown"]
=============================================================================
