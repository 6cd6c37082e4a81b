----------------------------- MODULE MCCatalog -----------------------------
(***************************************************************************)
(* Instances of Catalog for TLC.                                           *)
(***************************************************************************)
EXTENDS Catalog

CONSTANTS web, myweb, we

\* "we" is within both names and starts one of them.
MCWithin == {<<web, web>>, <<myweb, myweb>>, <<web, myweb>>, <<we, web>>, <<we, myweb>>}
MCStarts == {<<web, web>>, <<myweb, myweb>>, <<we, web>>}
=============================================================================
