------------------------------ MODULE MCApiCache ------------------------------
(* Three requests at a time, entries that last for two seconds of six.        *)
EXTENDS ApiCache

MCSeconds == 2
MCMaxTime == 6
MCMaxRefreshes == 4
==============================================================================
