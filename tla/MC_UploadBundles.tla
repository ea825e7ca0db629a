-------------------------- MODULE MC_UploadBundles --------------------------
(* Model-checking instance of UploadBundles: two bundle tokens, two        *)
(* connections, sizes 1 and 2, one generation per token by default.        *)
EXTENDS UploadBundles
=============================================================================
