------------------------- MODULE MCWarmCandidates -------------------------
(* WarmCandidates with few places in the catalog and a request more than   *)
(* fits; the store may hold a catalog written under another configuration, *)
(* with more entries than fit and with entries that load() has to reject.  *)
EXTENDS WarmCandidates

Candidate(f, c, t) == [fingerprint |-> f, count |-> c, last |-> t]

OtherCatalogs ==
    {{Candidate(1, 1, 1), Candidate(2, 2, 0), Candidate(3, 2, 1)},
     {Candidate(1, 2, 0), Candidate(1, 1, 1), Candidate(2, MaxRequests + 1, 1)}}
=============================================================================
