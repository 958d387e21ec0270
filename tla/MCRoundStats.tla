---------------------------- MODULE MCRoundStats ----------------------------
(* Up to two buckets, one of them possibly with an empty side.             *)
EXTENDS RoundStats

B(nx, ny, matches, bytes) ==
  [nx |-> nx, ny |-> ny, match_count |-> matches, okvs_table_bytes |-> bytes]

MCQueues ==
  {<<>>, <<B(1, 2, 1, 5)>>, <<B(0, 2, 0, 0)>>,
   <<B(1, 2, 1, 5), B(2, 1, 0, 7)>>,
   <<B(0, 2, 0, 0), B(1, 2, 1, 5)>>, <<B(2, 1, 0, 7), B(3, 0, 0, 0)>>}

=============================================================================
