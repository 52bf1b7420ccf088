----------------------------- MODULE MCDownload -----------------------------
(* Six pieces, so that one lies between the sampled ones; two attempts.    *)
EXTENDS Download

MCPatience == <<1, 2>>
=============================================================================
