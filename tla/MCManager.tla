------------------------------ MODULE MCManager ------------------------------
(* An instance of StrategyManager for TLC: the strategies main loads first.*)
EXTENDS StrategyManager

MCBootOrder == <<"chain-event-processor", "api">>
==============================================================================
