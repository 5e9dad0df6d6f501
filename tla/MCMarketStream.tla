--------------------------- MODULE MCMarketStream ---------------------------
(***************************************************************************)
(* MarketStream for TLC.  Two prices make a candle that misses one of them *)
(* differ from the whole minute; three minutes leave one between two.      *)
(***************************************************************************)
EXTENDS MarketStream

TwoPrices == 1..2
==============================================================================
