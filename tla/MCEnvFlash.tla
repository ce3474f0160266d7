----------------------------- MODULE MCEnvFlash -----------------------------
(* Model values for EnvFlash: the default environment and two others. *)
EXTENDS EnvFlash

\* Every operation whose failure the code reports or survives.
HandledFailures == {"protect", "erase", "data", "crc", "oldflag", "newflag",
                    "fixnew"}
=============================================================================
