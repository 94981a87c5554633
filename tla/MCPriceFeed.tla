----------------------------- MODULE MCPriceFeed -----------------------------
(* PriceFeed with two polls that may overlap. *)
EXTENDS PriceFeed
CONSTANTS p1, p2

TwoPolls == {p1, p2}
=============================================================================
