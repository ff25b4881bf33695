------------------------ MODULE MCAlgorithmRegistry ------------------------
(***************************************************************************)
(* Two threads, one name in two spellings, a filter that names no default, *)
(* two handlers, and providers with a finaliser and without one.           *)
(***************************************************************************)
EXTENDS AlgorithmRegistry

CONSTANTS t1, t2, plain, finalised

MCThreads   == {t1, t2}
MCNames     == {"HS256", "hs256"}
MCUpper     == [n \in MCNames |-> "HS256"]
MCDefaults  == {"HS256"}
MCFilters   == {{}, {"hs256"}}
MCObjects   == {plain, finalised}
MCHandlers  == {plain, finalised}
MCFinalised == {finalised}
=============================================================================
