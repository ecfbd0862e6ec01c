---------------------------- MODULE MCObsWriter ----------------------------
(***************************************************************************)
(* Limits of two entries and three samples; "big" alone is over the sample *)
(* limit, "pair" shares a field with "one" and "big", and batches of up to *)
(* three entries straddle both limits in every position.                   *)
(***************************************************************************)
EXTENDS ObsWriter

MCEntry == {"one", "pair", "big"}
MCFieldName == {"A", "B", "C", "D"}
MCFields == [one |-> <<"A">>, pair |-> <<"B", "A">>,
             big |-> <<"C", "B", "A", "D">>]
MCBatch == UNION {[1 .. n -> MCEntry] : n \in 1 .. 3}
=============================================================================
