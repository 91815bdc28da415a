-------------------------- MODULE MCDataDirectory --------------------------
(* Instances of DataDirectory for TLC.                                      *)
EXTENDS DataDirectory, TLC

(* The flags that lead to different files: the defaults at a terminal, a   *)
(* loopback address with a URL of the network, no TLS, no provider, a       *)
(* public URL init refuses.                                                 *)
Flags(mode, listen, listenSet, public, interactive) ==
    [mode |-> mode, listen |-> listen, listenSet |-> listenSet, public |-> public,
     insecure |-> FALSE, providers |-> TRUE, ifMissing |-> FALSE, interactive |-> interactive]

MCOptions ==
    {Flags("auto", "any", FALSE, "none", TRUE),
     Flags("auto", "loop", TRUE, "lan", FALSE),
     Flags("off", "loop", TRUE, "loop", FALSE),
     [Flags("auto", "lan", TRUE, "none", FALSE) EXCEPT !.providers = FALSE, !.ifMissing = TRUE],
     Flags("auto", "any", FALSE, "bad", FALSE)}

MCSymmetry == Permutations(Processes) \cup Permutations(Secrets)
=============================================================================
