------------------------------- MODULE MCServer -------------------------------
(* One or two callers, configurations with one and with two ports, and     *)
(* enough descriptors for two init() calls in a row.                       *)
EXTENDS Server

MCConfigs == {<<81>>, <<82, 83>>}

===============================================================================
