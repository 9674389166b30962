----------------------------- MODULE MCPipeline -----------------------------
(***************************************************************************)
(* Windows of 5 candles, so that all indicators exist, and a market that   *)
(* goes two ticks up or down, or one tick on a large volume.               *)
(***************************************************************************)
EXTENDS PaperPipeline

ShortMacd == <<1, 3, 3>>
Confluences == <<60, 75, 80, 85>>
Confidences == <<8000, 8500>>
Hair == {-1, 0, 1}
Walk == {[close |-> 2, reach |-> 1, volume |-> 1],
         [close |-> -2, reach |-> 1, volume |-> 1],
         [close |-> 1, reach |-> 0, volume |-> 3],
         [close |-> -1, reach |-> 0, volume |-> 0]}
Losses == {-300}

=============================================================================
