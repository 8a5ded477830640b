-------------------------- MODULE MCFilteredHistory --------------------------
(* FilteredHistory with the configurations that make its cases happen. *)
EXTENDS FilteredHistory

CONSTANTS a, b, none

TwoCalls == {a, b}
AllBatches == {<<a>>, <<a, b>>}
OneCall == {<<a>>}
AllConfigs == [max : {0, 3, 5}, retain : {0, 1}, limit : {0, 1, none}, dedup : BOOLEAN]
PlainConfigs == [max : {3}, retain : {5}, limit : {none}, dedup : {FALSE}]
DedupConfigs == [max : {20}, retain : {5}, limit : {none}, dedup : {TRUE}]
=============================================================================
